---------------------------- MODULE DecisionTurns ---------------------------
(***************************************************************************)
(* One v2 car conversation: POST /api/cars/conversation requests that load *)
(* the conversation without a transaction, run a turn on what they loaded  *)
(* and commit it in one transaction guarded by the revision.  Each request *)
(* is a process; the rows they share are the conversation, its messages    *)
(* with the answers given, and the offers.                                 *)
(*                                                                         *)
(* Request r draws message id r; a repeated delivery carries an earlier    *)
(* request's body.  An offer's id is derived from the message whose turn   *)
(* made it, so a message also names its offer.  What the user's text means *)
(* is the language model's answer: any plan the text allows.               *)
(***************************************************************************)
EXTENDS TurnMemory, FiniteSets

CONSTANTS
    MaxRequests,    \* bound: requests that reach the server, repeats included
    InFlight,       \* bound: requests on their way at the same time
    Faults          \* TRUE: requests may be repeated, may fail or be lost

ASSUME BoundsAssumption == MaxRequests \in Nat /\ InFlight \in Nat
ASSUME FaultsAssumption == Faults \in BOOLEAN

Requests == 1..MaxRequests
Messages == Requests

VARIABLES
    row,        \* cars_decision_v2_conversations: revision and memory
    stored,     \* cars_decision_v2_messages by message id
    offers,     \* cars_decision_v2_offers by the message that made them
    lapsed,     \* offers older than ten minutes
    requests,   \* where each request stands and what it has in memory
    told,       \* answers a browser received
    overtaken   \* history: offers after which the decision was touched

vars == <<row, stored, offers, lapsed, requests, told, overtaken>>

\* text: what kind of text the user sent; option: the question whose option
\* was clicked; token: the newest offer token among the browser's messages;
\* "accept" is the button under the terms, "no" a refusal the code recognises
\* without the model, "skip" a text like "fark etmez".
Texts == {"free", "skip", "no", "accept", "option"}

\* The answers, the rows and the texts the tables and the browser hold.
Bodies == [message : Messages, text : Texts, token : Messages \cup {None},
           option : Keys \cup {None}]
Outputs == [revision : Nat, asks : Questions \cup {None}, revealed : BOOLEAN,
            offer : Messages \cup {None}]
StoredMessages == [payload : Bodies, output : Outputs]
OfferRows == [life : OfferState, decision : Decisions]

ASSUME NoneIsNoRow ==
    /\ None \notin Outputs
    /\ None \notin StoredMessages
    /\ None \notin OfferRows

ASSUME NoneIsNoText == None # "ACCEPT" /\ None # "DECLINE" /\ None # "misnamed"

\* A request that has nothing of the conversation in memory.
Bare(pc, body) == [pc |-> pc, body |-> body, valid |-> FALSE, late |-> FALSE,
                   expected |-> 0, loaded |-> None, turn |-> None, output |-> None]

Body(r) == requests[r].body
Message(r) == Body(r).message
TokenValid(r) == requests[r].valid
Done(r) == [requests EXCEPT ![r] = Bare("done", Body(r))]

DecisionInit ==
    /\ row = [revision |-> 0, memory |-> EmptyMemory]
    /\ stored = [m \in Messages |-> None]
    /\ offers = [m \in Messages |-> None]
    /\ lapsed = {}
    /\ requests = [r \in Requests |-> Bare("idle", None)]
    /\ told = {}
    /\ overtaken = {}

-----------------------------------------------------------------------------
(***************************************************************************)
(* The browser.  A tab holds some of the answers; two tabs may share a     *)
(* conversation, so two texts may be on their way at once.                 *)
(***************************************************************************)
NextIdle(r) == /\ requests[r].pc = "idle"
               /\ \A q \in 1..(r - 1) : requests[q].pc # "idle"
               /\ Cardinality({q \in Requests : requests[q].pc \notin {"idle", "done"}})
                    < InFlight

SeenTokens == {None} \cup {t.output.offer : t \in told}
SeenQuestions == {t.output.asks : t \in told} \cap Keys

Send(r) ==
    /\ NextIdle(r)
    /\ \E text \in Texts, token \in SeenTokens, option \in SeenQuestions \cup {None} :
        /\ (option # None) <=> (text = "option")
        /\ text \in {"accept", "no"} => token # None
        /\ text = "skip" => \E t \in told : t.output.asks # None
        /\ requests' = [requests EXCEPT ![r].pc = "sent", ![r].body =
              [message |-> r, text |-> text, token |-> token, option |-> option]]
    /\ UNCHANGED <<row, stored, offers, lapsed, told, overtaken>>

Repeat(r) ==
    /\ Faults
    /\ NextIdle(r)
    /\ \E q \in 1..(r - 1) :
        /\ Message(q) = q
        /\ requests' = [requests EXCEPT ![r].pc = "sent", ![r].body = Body(q)]
    /\ UNCHANGED <<row, stored, offers, lapsed, told, overtaken>>

Lapse(o) ==
    /\ offers[o] # None
    /\ o \notin lapsed
    /\ lapsed' = lapsed \cup {o}
    /\ UNCHANGED <<row, stored, offers, requests, told, overtaken>>

-----------------------------------------------------------------------------
(***************************************************************************)
(* The route: `now`, the conversation row, then its messages.              *)
(***************************************************************************)
RouteRow(r) ==
    /\ requests[r].pc = "sent"
    /\ requests' = [requests EXCEPT
          ![r].pc = "routing",
          ![r].expected = row.revision,
          ![r].valid = Body(r).token # None /\ Body(r).token \notin lapsed]
    /\ UNCHANGED <<row, stored, offers, lapsed, told, overtaken>>

Answered == {m \in Messages : stored[m] # None}
Latest == CHOOSE m \in Answered :
            \A n \in Answered : stored[n].output.revision <= stored[m].output.revision

\* The options on offer are those of the newest stored answer.
OptionResolves(r) ==
    Body(r).option # None =>
        /\ requests[r].expected > 0
        /\ Answered # {}
        /\ stored[Latest].output.asks = Body(r).option

IntentBinds(r) == Body(r).text = "accept" => TokenValid(r)

RouteMessages(r) ==
    /\ requests[r].pc = "routing"
    /\ requests' = IF OptionResolves(r) /\ IntentBinds(r)
                   THEN [requests EXCEPT ![r].pc = "running"] ELSE Done(r)
    /\ UNCHANGED <<row, stored, offers, lapsed, told, overtaken>>

(***************************************************************************)
(* The turn's own load.  The audit intent's times were taken just before.  *)
(***************************************************************************)
RunRow(r) ==
    /\ requests[r].pc = "running"
    /\ requests' = [requests EXCEPT
          ![r].pc = "loading",
          ![r].loaded = row,
          ![r].late = Body(r).token \in lapsed]
    /\ UNCHANGED <<row, stored, offers, lapsed, told, overtaken>>

\* A message that has an answer gets that answer again; otherwise the revision
\* must be the one the route saw.  No messages are read without a row.
Known(r) == requests[r].loaded.revision > 0 /\ stored[Message(r)] # None

\* A slip: the turn runs on whatever revision it loads.
RunMessagesAnyRevision(r) ==
    /\ requests[r].pc = "loading"
    /\ requests' =
         IF Known(r)
         THEN [requests EXCEPT ![r].pc = "answering", ![r].loaded = None,
                               ![r].output = stored[Message(r)].output]
         ELSE [requests EXCEPT ![r].pc = "turning"]
    /\ UNCHANGED <<row, stored, offers, lapsed, told, overtaken>>

RunMessages(r) ==
    /\ requests[r].pc = "loading"
    /\ requests' =
         IF Known(r)
         THEN IF stored[Message(r)].payload = Body(r)
              THEN [requests EXCEPT ![r].pc = "answering", ![r].loaded = None,
                                    ![r].output = stored[Message(r)].output]
              ELSE Done(r)
         ELSE IF requests[r].loaded.revision = requests[r].expected
              THEN [requests EXCEPT ![r].pc = "turning"] ELSE Done(r)
    /\ UNCHANGED <<row, stored, offers, lapsed, told, overtaken>>

-----------------------------------------------------------------------------
(***************************************************************************)
(* What the user's text may be taken to mean: a change of the decision, an *)
(* addition to the record, how the open question is settled, an insult, a  *)
(* reply to the offer.                                                     *)
(***************************************************************************)
Plan(to, adds, settles, abuse, reply) ==
    [to |-> to, adds |-> adds, settles |-> settles, abuse |-> abuse, reply |-> reply]

\* A constraint may change the decision, and one that stands goes on record; one
\* that only explains, or clears another, goes on record and changes nothing; a
\* declined one changes the decision only.
Carried == {None, "constraint"}

\* An open question is answered, or superseded by another field, only by what the
\* text carries, and declined only by a change of the decision; it is put off
\* without either.  The conflict question asks about a field no mutation carries:
\* nothing can answer it.
Settlements(memory, to, adds) ==
    LET open    == OpenQuestion(memory)
        carries == to # None \/ adds = "constraint"
    IN  {None} \cup (IF open # None THEN {"DEFERRED"} ELSE {})
              \cup (IF open # None /\ carries THEN {"SUPERSEDED"} ELSE {})
              \cup (IF open \in Keys /\ carries THEN {"ANSWERED"} ELSE {})
              \cup (IF open \in Keys /\ to # None THEN {"DECLINED"} ELSE {})

FreePlans(memory, reply) ==
    UNION {{Plan(to, adds, settles, abuse, reply) :
                settles \in Settlements(memory, to, adds), abuse \in BOOLEAN}
            : to \in Decisions \cup {None}, adds \in Carried}

\* A clicked option settles its question and sets the field it asks about.
OptionPlans(memory) ==
    {Plan(to, adds, settles, FALSE, None) : to \in Decisions, adds \in Carried,
        settles \in Settlements(memory, FirstDecision, None) \cap {"ANSWERED", "DECLINED"}}

\* A generic refusal declines the question whatever the model makes of it.
SkipPlans == {Plan(to, adds, "DECLINED", FALSE, None) : to \in Decisions \cup {None},
                                                        adds \in Carried}

\* What the model makes of a text may be refused whatever else it says, so one plan
\* of each kind will do.  A correction may name any field under a constraint, not
\* only its own: the policy asks that the constraint exists and no more.
UnheldPlans(memory) ==
    {Plan(None, adds, None, FALSE, None) :
        adds \in {"oversized"} \cup (IF memory.constrained THEN {"misnamed"} ELSE {})}

\* The recognised reply to an offer that is the decision's own and still open.
OfferIsOpen(r, memory) ==
    /\ TokenValid(r)
    /\ offers[Body(r).token] # None
    /\ offers[Body(r).token].life = "CREATED"
    /\ offers[Body(r).token].decision = memory.decision

Replies(r) == {None} \cup (IF Body(r).text = "accept" THEN {"ACCEPT"}
                         ELSE IF Body(r).token # None THEN {"DECLINE"} ELSE {})

Plans(r, memory) ==
    IF Body(r).text = "accept" /\ OfferIsOpen(r, memory)
    THEN {Plan(None, None, None, FALSE, "ACCEPT")}
    ELSE IF Body(r).text = "no" /\ OfferIsOpen(r, memory)
    THEN {Plan(None, None, None, FALSE, "DECLINE")}
    ELSE IF Body(r).text = "skip" /\ OpenQuestion(memory) # None
    THEN UnheldPlans(memory) \cup SkipPlans
    ELSE IF Body(r).text = "option"
    THEN OptionPlans(memory)
    ELSE UnheldPlans(memory) \cup UNION {FreePlans(memory, reply) : reply \in Replies(r)}

\* An insult raises the level by one and stays at the last.
AbuseTransition(memory) ==
    IF memory.abuse < 2 THEN memory.abuse + 1 ELSE AbuseEnded

\* The memory after the events of the plan, None once an event is refused.
Planned(memory, plan) ==
    LET begun    == [memory EXCEPT !.turn = @ + 1]
        settled  == IF plan.settles = None THEN begun
                    ELSE Settle(begun, OpenQuestion(memory), plan.settles)
        recorded == IF settled = None \/ plan.adds = None THEN settled
                    ELSE Record(settled, plan.adds)
        changed  == IF recorded = None \/ plan.to = None THEN recorded
                    ELSE Decide(recorded, plan.to)
    IN  IF changed = None \/ ~plan.abuse THEN changed
        ELSE Insult(changed, AbuseTransition(memory))

-----------------------------------------------------------------------------
(***************************************************************************)
(* What the turn does about it: accept or refuse the offer of the token,   *)
(* ask a question, or make an offer of its own.                            *)
(***************************************************************************)
Action(asks, makes, reveals, revokes) ==
    [asks |-> asks, makes |-> makes, reveals |-> reveals, revokes |-> revokes]

\* The selector never repeats a settled question; a deferred one comes back
\* when more than one turn has passed since it was put off.  (A slip first: only
\* answered questions count as settled.)
EligibleUnlessAnswered(memory) ==
    {k \in Keys : StatusOf(memory, k) # "ANSWERED"}

Eligible(memory) ==
    {k \in Keys :
        LET i == LastOf(memory.history, k)
        IN  i # 0 => \/ memory.history[i].status = "OPEN"
                    \/ /\ memory.history[i].status = "DEFERRED"
                       /\ memory.turn - memory.history[i].answered > 1}

\* A conflict among the hard constraints puts its own question in the place of
\* the selected one, without asking the selector.
Actions(r, plan, memory) ==
    IF plan.reply = "ACCEPT" /\ OfferIsOpen(r, memory)
    THEN {Action(None, FALSE, Body(r).token, None)}
    ELSE IF plan.reply = "DECLINE" /\ TokenValid(r)
    THEN {Action(None, FALSE, None, Body(r).token)}
    ELSE IF memory.decision \in Conflicted
    THEN {Action(asks, FALSE, None, None) : asks \in {None, memory.decision}}
    ELSE IF plan.abuse /\ plan.to = None
    THEN {Action(None, FALSE, None, None)}
    ELSE {Action(None, TRUE, None, None)} \cup
         {Action(asks, FALSE, None, None) : asks \in {None} \cup Eligible(memory)}

Revealed(memory, o) ==
    LET consented == MoveOffer(memory, o, "CONSENTED")
    IN  IF consented = None THEN None ELSE MoveOffer(consented, o, "REVEALED")

\* A question other than the open one takes the open one's place.
Questioned(memory, k) ==
    LET open   == OpenQuestion(memory)
        closed == IF open = None THEN memory ELSE Settle(memory, open, "SUPERSEDED")
    IN  CASE k \in {None, open} -> memory
          [] k \notin {None, open} /\ closed # None -> Ask(closed, k)
          [] OTHER -> None

\* The memory after the events of the action.
Acted(message, memory, action) ==
    CASE action.makes           -> MakeOffer(memory, message)
      [] action.reveals # None  -> Revealed(memory, action.reveals)
      [] action.revokes # None  -> MoveOffer(memory, action.revokes, "REVOKED")
      [] OTHER                  -> Questioned(memory, action.asks)

Output(revision, message, action) ==
    [revision |-> revision, asks |-> action.asks, revealed |-> action.reveals # None,
     offer |-> IF action.makes THEN message ELSE None]

\* A refused turn is kept with its plan, an accepted one with what it commits.
Rejecting(r, plan) ==
    [requests EXCEPT ![r].pc = "rejected", ![r].turn = plan]

Committing(r, plan, action, memory) ==
    [requests EXCEPT
        ![r].pc = "committing",
        ![r].loaded = None,
        ![r].turn = [memory |-> memory, makes |-> action.makes,
                     reveals |-> action.reveals, revokes |-> action.revokes,
                     touches |-> plan.to # None],
        ![r].output = Output(requests[r].expected + 1, Message(r), action)]

Evaluate(r) ==
    /\ requests[r].pc = "turning"
    /\ LET memory == requests[r].loaded.memory
       IN  \E plan \in Plans(r, memory) :
             LET planned == Planned(memory, plan)
             IN  IF planned = None
                 THEN requests' = Rejecting(r, plan)
                 ELSE \E action \in Actions(r, plan, planned) :
                        LET final == Acted(Message(r), planned, action)
                        IN  requests' = IF final = None THEN Rejecting(r, plan)
                                        ELSE Committing(r, plan, action, final)
    /\ UNCHANGED <<row, stored, offers, lapsed, told, overtaken>>

-----------------------------------------------------------------------------
(***************************************************************************)
(* The commit: one transaction that holds the conversation row.            *)
(***************************************************************************)
Turn(r) == requests[r].turn

RevealHolds(r) == LET o == Turn(r).reveals
                  IN  o # None => offers[o].life = "CREATED" /\ ~requests[r].late
RevokeHolds(r) == LET o == Turn(r).revokes
                  IN  o # None => offers[o].life = "CREATED"

\* A slip: the revision is not compared under the lock.
CommitHoldsAnyRevision(r) ==
    RevealHolds(r) /\ RevokeHolds(r) /\ stored[Message(r)] = None

CommitHolds(r) == /\ row.revision = requests[r].expected
                  /\ RevealHolds(r)
                  /\ RevokeHolds(r)
                  /\ stored[Message(r)] = None

WithLife(offer, life) == [offer EXCEPT !.life = life]

OffersAfter(r) ==
    [o \in Messages |->
        IF o = Turn(r).reveals THEN WithLife(offers[o], "REVEALED")
        ELSE IF o = Turn(r).revokes THEN WithLife(offers[o], "REVOKED")
        ELSE IF o = Message(r) /\ Turn(r).makes
        THEN [life |-> "CREATED", decision |-> Turn(r).memory.decision]
        ELSE offers[o]]

Commit(r) ==
    /\ requests[r].pc = "committing"
    /\ CommitHolds(r)
    /\ row' = [revision |-> requests[r].output.revision, memory |-> Turn(r).memory]
    /\ stored' = [stored EXCEPT ![Message(r)] =
                    [payload |-> Body(r), output |-> requests[r].output]]
    /\ offers' = OffersAfter(r)
    /\ overtaken' = IF Turn(r).touches
                    THEN overtaken \cup {o \in Messages : offers[o] # None}
                    ELSE overtaken
    /\ requests' = [requests EXCEPT ![r].pc = "answering", ![r].turn = None]
    /\ UNCHANGED <<lapsed, told>>

\* A turn the memory refuses, or one whose commit does not hold, is answered
\* with an error and leaves nothing behind.
Refuse(r) ==
    /\ \/ requests[r].pc = "rejected"
       \/ requests[r].pc = "committing" /\ ~CommitHolds(r)
    /\ requests' = Done(r)
    /\ UNCHANGED <<row, stored, offers, lapsed, told, overtaken>>

(***************************************************************************)
(* The answer.  Cards are authorised against the conversation as it stands *)
(* now, not as the turn left it; a revealed offer's row never changes.     *)
(***************************************************************************)
CardsAuthorized(r) ==
    LET o == Body(r).token
    IN  /\ requests[r].output.revealed
        /\ TokenValid(r)
        /\ offers[o] # None
        /\ offers[o].life = "REVEALED"
        /\ offers[o].decision = row.memory.decision

Answer(r) ==
    /\ requests[r].pc = "answering"
    /\ told' = told \cup {[message |-> Message(r), output |-> requests[r].output,
                           cards |-> CardsAuthorized(r)]}
    /\ requests' = Done(r)
    /\ UNCHANGED <<row, stored, offers, lapsed, overtaken>>

\* The catalogue is not ready, the model or the database fails, the instance
\* stops or the answer is lost: the browser has no answer to this request.
Fail(r) ==
    /\ Faults
    /\ requests[r].pc \notin {"idle", "done"}
    /\ requests' = Done(r)
    /\ UNCHANGED <<row, stored, offers, lapsed, told, overtaken>>

-----------------------------------------------------------------------------
RequestStep(r) ==
    \/ Send(r) \/ Repeat(r)
    \/ RouteRow(r) \/ RouteMessages(r) \/ RunRow(r) \/ RunMessages(r)
    \/ Evaluate(r) \/ Commit(r) \/ Refuse(r) \/ Answer(r) \/ Fail(r)

DecisionNext == \E r \in Requests : RequestStep(r) \/ Lapse(r)

DecisionSpec == DecisionInit /\ [][DecisionNext]_vars

-----------------------------------------------------------------------------
(***************************************************************************)
(* Properties.                                                             *)
(***************************************************************************)

\* A clicked option answers the question it was shown under: when the turn
\* runs, that question is the open one of the memory it runs on.  The options
\* come from one load and the memory from another, neither a snapshot.
AnswerMeetsItsQuestion ==
    \A r \in Requests :
        requests[r].pc = "turning" /\ Body(r).option # None =>
            OpenQuestion(requests[r].loaded.memory) = Body(r).option

\* The memory and the offers table tell the same story of the current offer:
\* an open offer is open in both and rests on the decision as it stands, a
\* revealed one is revealed in both.
OfferTableAgrees ==
    LET offer == row.memory.offer
    IN  offer # None =>
          /\ offers[offer.id] # None
          /\ offer.life = "CREATED" =>
                /\ offers[offer.id].life = "CREATED"
                /\ offers[offer.id].decision = row.memory.decision
          /\ offer.life = "REVEALED" => offers[offer.id].life = "REVEALED"

\* An offer is revealed only while nothing the user said after it was made has
\* touched the decision, and only to the message that accepted its terms.
RevealIsCurrent ==
    [][\A o \in Messages :
         offers[o] # None /\ offers[o].life # offers'[o].life /\ offers'[o].life = "REVEALED"
           => /\ o \notin overtaken
              /\ \E r \in Requests : /\ requests[r].pc = "committing"
                                     /\ Body(r).text = "accept" /\ Body(r).token = o]_vars

\* The turns the memory refuses are these and no others: an insult after the
\* conversation was ended, a correction that names another field's constraint, a
\* model reference too large for an event, a reply to an offer other than the open
\* one, and a conflict question that was put off or waved away while the conflict
\* stays.
Gap(memory, plan, body) ==
    LET decision == IF plan.to = None THEN memory.decision ELSE plan.to
    IN  \/ plan.abuse /\ memory.abuse = AbuseEnded
        \/ plan.adds = "misnamed" /\ memory.constrained
        \/ plan.adds = "oversized"
        \/ /\ plan.reply # None
           /\ plan.to # None \/ memory.offer # [id |-> body.token, life |-> "CREATED"]
        \/ /\ decision \in Conflicted
           /\ \/ StatusOf(memory, decision) \in {"DECLINED", "DEFERRED"}
              \/ /\ OpenQuestion(memory) = decision
                 /\ plan.settles \in {"DECLINED", "DEFERRED"}

RefusesOnlyGaps ==
    \A r \in Requests :
        requests[r].pc = "rejected" =>
            Gap(requests[r].loaded.memory, Turn(r), Body(r))

\* The store keeps what TurnLog promises: every message is answered at most
\* once, under consecutive revisions, and every answer a browser hears, also to
\* a repeated request, is the stored one.  (Cards are added after the store.)
Log == INSTANCE TurnLog WITH
    Nothing <- None,
    length  <- row.revision,
    answers <- [m \in Messages |-> IF stored[m] = None THEN None ELSE stored[m].output],
    heard   <- {<<t.message, t.output>> : t \in told}

KeepsTurnLog == Log!LogSpec
=============================================================================
