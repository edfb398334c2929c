---------------------------- MODULE Conversation ----------------------------
(***************************************************************************)
(* One conversation with the car advisor: POST /api/cars/conversation/v3   *)
(* on several server instances, the signed state the browser carries, the  *)
(* offer registry behind the vehicle cards, and the hand-off to phase 2.   *)
(*                                                                         *)
(* An instance keeps the conversation in its own memory and trusts the     *)
(* browser's token only when it has none.  A turn reads that record, waits *)
(* for a language model, and writes the record back without looking again. *)
(* Offers are kept in Redis with a copy in the memory of each instance.    *)
(***************************************************************************)
EXTENDS Naturals, FiniteSets

CONSTANTS
    Instances,
    Messages,   \* message ids the browser may use
    Requests,   \* deliveries of messages: bounds how often they arrive
    Offers,
    None,
    Metric,     \* the fingerprint of an offer made for one extreme value
    Faults      \* subset of {"restart", "redis"}

ASSUME NoneIsNew ==
    /\ None \notin Messages \cup Offers
    /\ \A S \in SUBSET Messages : S # None

VARIABLES
    overlap,            \* may the browser move on while a request is still at
                        \* work?  One or the other for the whole behaviour.
    record, outputs,    \* per instance: conversation state, answers by message
    cached,             \* per instance: its copies of the offers
    stored,             \* the offers in Redis
    fingerprint,        \* the decision an offer was made for, None: not made
    expired,            \* offers whose signed token ran out
    held, waiting,      \* the browser: its state token, the message it waits for
    sent, seed, words, known,   \* what a message was sent with
    stage, msg, at, base, kept, loaded, answer,     \* requests
    handoffs            \* offers phase 2 was opened for

browserVars  == <<held, waiting>>
messageVars  == <<sent, seed, words, known>>
recordVars   == <<record, outputs>>
offerVars    == <<cached, stored, fingerprint, expired>>
requestVars  == <<stage, msg, at, base, kept, loaded, answer>>
vars == <<overlap, recordVars, offerVars, browserVars, messageVars, requestVars, handoffs>>

Lifecycle == {"ABSENT", "CREATED", "REVEALED"}

\* Redis forgets an offer some time after it was written; that it had been
\* REVEALED is remembered here, the code finds nothing.
Persisted == Lifecycle \cup {"FORGOTTEN"}
InRedis(o) == IF stored[o] = "FORGOTTEN" THEN "ABSENT" ELSE stored[o]
Revealed(o) == stored[o] \in {"REVEALED", "FORGOTTEN"}

\* What the properties need of V3ConversationState: the ledger is the set of
\* messages that changed the preferences.  offered is offerAwaitingConsent of
\* the answer around the state: the offer the browser shows a button for.
ConvState == [revision : Nat, applied : SUBSET Messages, ledger : SUBSET Messages,
              pending : Offers \cup {None}, accepted : Offers \cup {None},
              offered : Offers \cup {None}]

\* createV3ConversationState.
Fresh == [revision |-> 0, applied |-> {}, ledger |-> {}, pending |-> None,
          accepted |-> None, offered |-> None]

Stage == {"idle", "running", "loaded", "revealing", "computed", "answered", "refused", "failed", "over"}
AtWork(r) == stage[r] \in {"running", "loaded", "revealing", "computed"}
Quiet == \A r \in Requests : stage[r] \in {"idle", "over"}

TypeOK ==
    /\ record \in [Instances -> ConvState \cup {None}]
    /\ outputs \in [Instances -> [Messages -> ConvState \cup {None}]]
    /\ cached \in [Instances -> [Offers -> Lifecycle]]
    /\ stored \in [Offers -> Persisted]
    /\ fingerprint \in [Offers -> (SUBSET Messages) \cup {None, Metric}]
    /\ expired \in SUBSET Offers
    /\ held \in ConvState
    /\ waiting \in Messages \cup {None}
    /\ sent \in SUBSET Messages
    /\ seed \in [Messages -> ConvState]
    /\ words \in [Messages -> {"talk", "show", "accept"}]
    /\ known \in [Messages -> SUBSET Offers]
    /\ stage \in [Requests -> Stage]
    /\ msg \in [Requests -> Messages \cup {None}]
    /\ at \in [Requests -> Instances \cup {None}]
    /\ base \in [Requests -> ConvState]
    /\ kept \in [Requests -> [Messages -> ConvState \cup {None}]]
    /\ loaded \in [Requests -> Lifecycle]
    /\ answer \in [Requests -> ConvState]
    /\ handoffs \in SUBSET Offers

NoOutputs == [m \in Messages |-> None]

Init ==
    /\ overlap \in BOOLEAN
    /\ record = [i \in Instances |-> None]
    /\ outputs = [i \in Instances |-> NoOutputs]
    /\ cached = [i \in Instances |-> [o \in Offers |-> "ABSENT"]]
    /\ stored = [o \in Offers |-> "ABSENT"]
    /\ fingerprint = [o \in Offers |-> None]
    /\ expired = {}
    /\ held = Fresh
    /\ waiting = None
    /\ sent = {}
    /\ seed = [m \in Messages |-> Fresh]
    /\ words = [m \in Messages |-> "talk"]
    /\ known = [m \in Messages |-> {}]
    /\ stage = [r \in Requests |-> "idle"]
    /\ msg = [r \in Requests |-> None]
    /\ at = [r \in Requests |-> None]
    /\ base = [r \in Requests |-> Fresh]
    /\ kept = [r \in Requests |-> NoOutputs]
    /\ loaded = [r \in Requests |-> "ABSENT"]
    /\ answer = [r \in Requests |-> Fresh]
    /\ handoffs = {}

-----------------------------------------------------------------------------
(* The browser: one message at a time, each with a new id.                 *)

\* "accept" is the button under an offer, it carries the accepted terms and
\* the time of the click; "show" is the wish alone, typed where no button is.
Send(m, w) ==
    /\ waiting = None
    /\ m \notin sent
    /\ CASE w = "talk" -> TRUE
         [] w = "show" -> held.pending # None /\ held.offered = None
         [] w = "accept" -> held.offered # None
    /\ sent' = sent \cup {m}
    /\ seed' = [seed EXCEPT ![m] = held]
    /\ words' = [words EXCEPT ![m] = w]
    /\ known' = [known EXCEPT ![m] = {o \in Offers : w = "accept" /\ fingerprint[o] # None}]
    /\ waiting' = m
    /\ UNCHANGED <<recordVars, offerVars, held, requestVars, handoffs>>

Finished(r) == stage[r] \in {"answered", "refused", "failed"}

End(over) ==
    /\ stage' = [r \in Requests |-> IF r \in over THEN "over" ELSE stage[r]]
    /\ base' = [r \in Requests |-> IF r \in over THEN Fresh ELSE base[r]]
    /\ answer' = [r \in Requests |-> IF r \in over THEN Fresh ELSE answer[r]]
    /\ UNCHANGED <<recordVars, offerVars, messageVars, msg, at, kept, loaded, handoffs>>

\* The requests of the message the browser waited for are over.
EndWait ==
    /\ waiting' = None
    /\ End({r \in Requests : Finished(r) /\ msg[r] = waiting})

\* The answer is lost on its way.
LoseAnswer(r) ==
    /\ Finished(r)
    /\ End({r})
    /\ UNCHANGED browserVars

\* The answer, or the error, reaches the browser that still waits for it.
Receive(r) ==
    /\ Finished(r)
    /\ waiting # None
    /\ waiting = msg[r]
    /\ held' = IF stage[r] = "answered" THEN answer[r] ELSE [held EXCEPT !.offered = None]
    /\ EndWait

\* The connection breaks and the browser asks its user to try again, an answer
\* without a button, or the page is loaded again as it was.
GiveUp ==
    /\ waiting # None
    /\ overlap \/ Quiet
    /\ EndWait
    /\ held' \in {held, [held EXCEPT !.offered = None]}

-----------------------------------------------------------------------------
(* A turn, runStoredV31Turn and runV3Turn.                                 *)

\* A token or record of any revision is taken.
FollowsAny(s, m) == s.revision \in Nat

\* The revision the turn will have is compared.
FollowsNext(s, m) == s.revision = seed[m].revision + 1

\* expectedRevision: the message was sent for this state.
Follows(s, m) == s.revision = seed[m].revision

\* The record is read once, before the model is asked; a stored answer is
\* repeated, a message for another revision is refused.  (A state that counts a
\* message is later than the one it was sent for, so the second look for it, in
\* processedMessages, never finds it: NeverCountedYet of ConversationProofs.)
ReadRecord(r, m, i) ==
    LET current == IF record[i] # None THEN record[i] ELSE seed[m] IN
    /\ msg' = [msg EXCEPT ![r] = m]
    /\ at' = [at EXCEPT ![r] = i]
    /\ IF outputs[i][m] # None
       THEN /\ stage' = [stage EXCEPT ![r] = "answered"]
            /\ answer' = [answer EXCEPT ![r] = outputs[i][m]]
            /\ UNCHANGED <<base, kept>>
       ELSE IF ~Follows(current, m)
       THEN /\ stage' = [stage EXCEPT ![r] = "refused"]
            /\ UNCHANGED <<base, kept, answer>>
       ELSE /\ stage' = [stage EXCEPT ![r] = "running"]
            /\ base' = [base EXCEPT ![r] = current]
            /\ kept' = [kept EXCEPT ![r] = outputs[i]]
            /\ UNCHANGED answer
    /\ UNCHANGED <<recordVars, offerVars, browserVars, messageVars, loaded, handoffs>>

\* A message arrives once or several times, late ones too if requests overlap.
Arrive(r, m, i) ==
    /\ stage[r] = "idle"
    /\ m \in sent
    /\ overlap \/ (waiting = m /\ Quiet)
    /\ ReadRecord(r, m, i)

\* The state after a turn, which may have learnt a preference from the message.
Turn(s, m, learnt, pending, accepted, offered) ==
    [revision |-> s.revision + 1, applied |-> s.applied \cup {m},
     ledger |-> s.ledger \cup learnt, pending |-> pending,
     accepted |-> accepted, offered |-> offered]

\* The turn is an answer to the offered card.
Consents(r) == words[msg[r]] # "talk" /\ base[r].pending # None

Compute(r, state) ==
    /\ stage' = [stage EXCEPT ![r] = "computed"]
    /\ answer' = [answer EXCEPT ![r] = state]
    /\ loaded' = [loaded EXCEPT ![r] = "ABSENT"]
    /\ UNCHANGED <<recordVars, browserVars, messageVars, msg, at, base, kept, handoffs>>

\* An exception ends the request: 503.
Break(r) ==
    /\ stage' = [stage EXCEPT ![r] = "failed"]
    /\ base' = [base EXCEPT ![r] = Fresh]
    /\ kept' = [kept EXCEPT ![r] = NoOutputs]
    /\ loaded' = [loaded EXCEPT ![r] = "ABSENT"]
    /\ UNCHANGED <<recordVars, browserVars, messageVars, msg, at, answer, handoffs>>

\* Conversation, a question, a declined offer: nothing outside the state moves.
\* An ended or too long conversation answers this way to a consent, too.  A
\* preference in the message has reached the ledger by then, in every branch.
Talk(r) ==
    /\ stage[r] = "running"
    /\ \E learnt \in SUBSET {msg[r]}, pending \in {None, base[r].pending} :
          Compute(r, Turn(base[r], msg[r], learnt, pending, base[r].accepted, None))
    /\ UNCHANGED offerVars

\* The preferences, this message's included, are not those of the offer, and no
\* longer allow its cars: V31_OFFER_DECISION_CHANGED.
DecisionChanged(r) ==
    /\ stage[r] = "running"
    /\ Consents(r)
    /\ \E learnt \in SUBSET {msg[r]} : fingerprint[base[r].pending] # base[r].ledger \cup learnt
    /\ Break(r)
    /\ UNCHANGED offerVars

\* The decision before this turn.
FingerprintOfPrior(r, next) == base[r].ledger

\* decisionFingerprint: the preferences an ordinary offer is made for.
Fingerprint(r, next) == next.ledger

\* createV31Offer: the local copy first, then Redis, whose answer may fail
\* before or after the write.  An offer of the cars with an extreme value is
\* fingerprinted by that value and comes without the button.
MakeOffer(r, o) ==
    /\ stage[r] = "running"
    /\ ~Consents(r)
    /\ fingerprint[o] = None
    /\ cached' = [cached EXCEPT ![at[r]][o] = "CREATED"]
    /\ \E learnt \in SUBSET {msg[r]}, offered \in {o, None} :
          LET next == Turn(base[r], msg[r], learnt, o, base[r].accepted, offered) IN
          /\ fingerprint' = [fingerprint EXCEPT ![o] =
                IF offered = None THEN Metric ELSE Fingerprint(r, next)]
          /\ \/ /\ stored' = [stored EXCEPT ![o] = "CREATED"]
                /\ Compute(r, next)
             \/ /\ "redis" \in Faults
                /\ stored' \in {stored, [stored EXCEPT ![o] = "CREATED"]}
                /\ Break(r)
    /\ UNCHANGED expired

\* loadOffer without a local copy asks Redis; the offer's token must be valid.
LoadOffer(r) ==
    LET o == base[r].pending IN
    /\ stage[r] = "running"
    /\ Consents(r)
    /\ o \notin expired
    /\ cached[at[r]][o] = "ABSENT"
    /\ stage' = [stage EXCEPT ![r] = "loaded"]
    /\ loaded' = [loaded EXCEPT ![r] = InRedis(o)]
    /\ UNCHANGED <<recordVars, offerVars, browserVars, messageVars, msg, at, base, kept, answer, handoffs>>

\* The offer's state as this request sees it, from the local copy or from Redis.
Seen(r) ==
    IF stage[r] = "loaded" THEN loaded[r]
    ELSE IF base[r].pending \in expired THEN "ABSENT" ELSE cached[at[r]][base[r].pending]

\* The wish is enough.
MayRevealUnasked(r) == Seen(r) = "CREATED"

\* revealV31Offer accepts a CREATED offer and terms accepted after it was made.
MayReveal(r) ==
    /\ Seen(r) = "CREATED"
    /\ words[msg[r]] = "accept"
    /\ base[r].pending \in known[msg[r]]

\* The local copy becomes REVEALED before Redis is asked to keep it.
Reveal(r) ==
    LET o == base[r].pending
        sees == stage[r] = "loaded" \/ o \in expired \/ cached[at[r]][o] # "ABSENT" IN
    /\ stage[r] \in {"running", "loaded"}
    /\ Consents(r)
    /\ sees
    /\ cached' = IF MayReveal(r) THEN [cached EXCEPT ![at[r]][o] = "REVEALED"]
                 ELSE IF stage[r] = "loaded" /\ loaded[r] # "ABSENT"
                      THEN [cached EXCEPT ![at[r]][o] = loaded[r]] ELSE cached
    /\ IF MayReveal(r)
       THEN /\ stage' = [stage EXCEPT ![r] = "revealing"]
            /\ UNCHANGED <<recordVars, browserVars, messageVars, msg, at, base, kept, loaded, answer, handoffs>>
       ELSE Break(r)
    /\ UNCHANGED <<stored, fingerprint, expired>>

\* The answer shows the cards of the accepted offer.  The acceptance is a message
\* like any other: its "Evet" may also confirm a preference asked about before.
Shown(r, learnt) ==
    Turn(base[r], msg[r], learnt, None, base[r].pending, None)

\* The cards are shown although Redis did not answer.
PersistRevealHoping(r) ==
    LET revealed == [stored EXCEPT ![base[r].pending] = "REVEALED"] IN
    /\ stage[r] = "revealing"
    /\ \/ stored' = revealed
       \/ "redis" \in Faults /\ stored' \in {stored, revealed}
    /\ \E learnt \in SUBSET {msg[r]} : Compute(r, Shown(r, learnt))
    /\ UNCHANGED <<cached, fingerprint, expired>>

PersistReveal(r) ==
    LET revealed == [stored EXCEPT ![base[r].pending] = "REVEALED"] IN
    /\ stage[r] = "revealing"
    /\ \/ /\ stored' = revealed
          /\ \E learnt \in SUBSET {msg[r]} : Compute(r, Shown(r, learnt))
       \/ "redis" \in Faults /\ stored' \in {stored, revealed} /\ Break(r)
    /\ UNCHANGED <<cached, fingerprint, expired>>

\* The answers as they were read, plus this one.
Answers(r) == [kept[r] EXCEPT ![msg[r]] = answer[r]]

\* records.set.
Commit(r) ==
    /\ stage[r] = "computed"
    /\ record' = [record EXCEPT ![at[r]] = answer[r]]
    /\ outputs' = [outputs EXCEPT ![at[r]] = Answers(r)]
    /\ stage' = [stage EXCEPT ![r] = "answered"]
    /\ kept' = [kept EXCEPT ![r] = NoOutputs]
    /\ UNCHANGED <<offerVars, browserVars, messageVars, msg, at, base, loaded, answer, handoffs>>

-----------------------------------------------------------------------------
\* Ten minutes after it was made an offer's token is no longer valid.
ExpireOffer(o) ==
    /\ fingerprint[o] # None
    /\ o \notin expired
    /\ expired' = expired \cup {o}
    /\ UNCHANGED <<recordVars, cached, stored, fingerprint, browserVars, messageVars, requestVars, handoffs>>

\* Redis keeps a CREATED offer for fifteen minutes and a REVEALED one for twenty-
\* five hours, both longer than its token is valid; the copies of the instances
\* stay.
ForgetOffer(o) ==
    /\ o \in expired
    /\ stored[o] \in {"CREATED", "REVEALED"}
    /\ stored' = [stored EXCEPT ![o] = IF stored[o] = "REVEALED" THEN "FORGOTTEN" ELSE "ABSENT"]
    /\ UNCHANGED <<recordVars, cached, fingerprint, expired, browserVars, messageVars, requestVars, handoffs>>

\* An instance is recycled: what it kept in memory is gone.
Restart(i) ==
    /\ "restart" \in Faults
    /\ record' = [record EXCEPT ![i] = None]
    /\ outputs' = [outputs EXCEPT ![i] = NoOutputs]
    /\ cached' = [cached EXCEPT ![i] = [o \in Offers |-> "ABSENT"]]
    /\ LET lost == {r \in Requests : at[r] = i /\ AtWork(r)} IN
       /\ stage' = [r \in Requests |-> IF r \in lost THEN "failed" ELSE stage[r]]
       /\ base' = [r \in Requests |-> IF r \in lost THEN Fresh ELSE base[r]]
       /\ kept' = [r \in Requests |-> IF r \in lost THEN NoOutputs ELSE kept[r]]
       /\ loaded' = [r \in Requests |-> IF r \in lost THEN "ABSENT" ELSE loaded[r]]
       /\ answer' = [r \in Requests |-> IF r \in lost THEN Fresh ELSE answer[r]]
    /\ UNCHANGED <<stored, fingerprint, expired, browserVars, messageVars, msg, at, handoffs>>

\* What an instance's loadOffer finds when no other load is under way.
Registered(i, o) == IF cached[i][o] # "ABSENT" THEN cached[i][o] ELSE InRedis(o)

\* createPhase2Handoff opens phase 2 for the card the browser's state accepted,
\* while its preferences are still those the offer was made for; the offer it
\* looked up stays in the instance's memory, also when it refuses.  A copy there
\* opens phase 2 even after Redis forgot the offer.
HandOff(i) ==
    LET o == held.accepted IN
    /\ o # None
    /\ cached' = [cached EXCEPT ![i][o] = Registered(i, o)]
    /\ handoffs' = IF Registered(i, o) = "REVEALED" /\ fingerprint[o] = held.ledger
                   THEN handoffs \cup {o} ELSE handoffs
    /\ UNCHANGED <<recordVars, stored, fingerprint, expired, browserVars, messageVars, requestVars>>

RequestStep(r) ==
    \/ \E m \in Messages, i \in Instances : Arrive(r, m, i)
    \/ Talk(r)
    \/ DecisionChanged(r)
    \/ \E o \in Offers : MakeOffer(r, o)
    \/ LoadOffer(r)
    \/ Reveal(r)
    \/ PersistReveal(r)
    \/ Commit(r)
    \/ Receive(r)
    \/ LoseAnswer(r)

Next ==
    /\ UNCHANGED overlap
    /\ \/ \E m \in Messages, w \in {"talk", "show", "accept"} : Send(m, w)
       \/ GiveUp
       \/ \E r \in Requests : RequestStep(r)
       \/ \E o \in Offers : ExpireOffer(o) \/ ForgetOffer(o)
       \/ \E i \in Instances : Restart(i) \/ HandOff(i)

Spec == Init /\ [][Next]_vars

-----------------------------------------------------------------------------
(* Safety.                                                                 *)

\* The states the browser is given and the instances keep.
States ==
    {held} \cup {record[i] : i \in {j \in Instances : record[j] # None}}
           \cup {answer[r] : r \in {q \in Requests : stage[q] = "answered"}}

\* Each of them is one history of distinct messages: a message delivered again is
\* never counted again.
AppliedOnce == \A s \in States : s.revision = Cardinality(s.applied)

\* A card is shown only when Redis has recorded that its offer was revealed, and
\* phase 2 is opened only for such an offer.
CardsAreRevealed ==
    /\ \A s \in States : s.accepted # None => Revealed(s.accepted)
    /\ \A o \in handoffs : Revealed(o)

\* No copy of an offer says REVEALED before a buyer accepted the terms, with
\* an acceptance made after the offer.
RevealIsConsented ==
    \A o \in Offers :
        Revealed(o) \/ (\E i \in Instances : cached[i][o] = "REVEALED")
            => \E m \in sent : words[m] = "accept" /\ o \in known[m]

\* The documentation says that the conversation's state is preserved: no message
\* whose answer the browser has shown drops out of it.
TurnsAreKept == [][held.applied \subseteq held'.applied]_vars

\* To a browser that waits, every answer is the message applied to the state the
\* browser sent with it: nothing the user has not seen is mixed into it, nothing
\* is left out.
AnswersWhatWasSeen ==
    \A r \in Requests : stage[r] = "answered" /\ ~overlap =>
        answer[r].applied = seed[msg[r]].applied \cup {msg[r]}

\* A browser that waits is refused a message only because the server has counted
\* other messages whose answers its user never got: what the user has seen is
\* never what is missing.
RefusalMeansLoss ==
    [][\A r \in Requests : stage[r] # "refused" /\ stage'[r] = "refused" /\ ~overlap =>
         /\ record[at'[r]] # None
         /\ seed[msg'[r]].applied \subseteq record[at'[r]].applied
         /\ seed[msg'[r]].applied # record[at'[r]].applied]_vars

\* To a browser that waits, the card shown is that of the offer whose terms the
\* buyer accepted, and that offer was made for the preferences of the state that
\* shows it, but for one the acceptance itself expressed: nothing else can make
\* the hand-off to phase 2 find that the decision changed.
CardMatchesConsent ==
    \A r \in Requests :
        /\ stage[r] = "answered" /\ ~overlap
        /\ words[msg[r]] = "accept"
        /\ answer[r].accepted # seed[msg[r]].accepted
        => /\ answer[r].accepted = seed[msg[r]].pending
           /\ fingerprint[answer[r].accepted] = answer[r].ledger \ {msg[r]}
=============================================================================
