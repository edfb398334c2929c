------------------------- MODULE ConversationProofs -------------------------
(* The safety of Conversation for every number of instances, messages,     *)
(* requests and offers, with requests overlapping or not, under any faults.*)
EXTENDS Conversation, FiniteSetTheorems, TLAPS

-----------------------------------------------------------------------------
(* The inductive invariant.                                                *)

\* What Redis keeps, or kept, of an offer that was revealed.
WasRevealed == {"REVEALED", "FORGOTTEN"}

\* A conversation state is one history of distinct messages, each of them sent
\* for an earlier state, which alone have taught it something, and the offer it
\* shows was revealed.
Good(s, messages, seeds, offers) ==
    /\ IsFiniteSet(s.applied)
    /\ s.revision = Cardinality(s.applied)
    /\ s.applied \subseteq messages
    /\ s.ledger \subseteq s.applied
    /\ \A m \in s.applied : seeds[m].revision < s.revision
    /\ s.accepted # None => offers[s.accepted] \in WasRevealed

\* So is every state that an instance, the browser or a request holds.
StatesInv ==
    /\ Good(held, sent, seed, stored)
    /\ \A m \in Messages : Good(seed[m], sent, seed, stored)
    /\ \A i \in Instances : record[i] # None => Good(record[i], sent, seed, stored)
    /\ \A i \in Instances, m \in Messages :
          outputs[i][m] # None => Good(outputs[i][m], sent, seed, stored)
    /\ \A r \in Requests :
          /\ Good(base[r], sent, seed, stored)
          /\ Good(answer[r], sent, seed, stored)
    /\ \A r \in Requests, m \in Messages :
          kept[r][m] # None => Good(kept[r][m], sent, seed, stored)

\* A turn is computed on the revision its message was sent for.
TurnInv ==
    \A r \in Requests :
        /\ AtWork(r) => msg[r] \in sent /\ at[r] \in Instances
        /\ stage[r] \in {"running", "loaded", "revealing"} =>
              base[r].revision = seed[msg[r]].revision
        /\ stage[r] \in {"loaded", "revealing"} => Consents(r)

Consented(o) == \E m \in sent : words[m] = "accept" /\ o \in known[m]

\* What says or will say REVEALED was accepted.
ConsentInv ==
    /\ \A o \in Offers : Revealed(o) => Consented(o)
    /\ \A i \in Instances, o \in Offers : cached[i][o] = "REVEALED" => Consented(o)
    /\ \A r \in Requests, o \in Offers :
          base[r].pending = o =>
              /\ stage[r] = "loaded" /\ loaded[r] = "REVEALED" => Consented(o)
              /\ stage[r] = "revealing" => Consented(o)

\* Only an offer that was made can have been accepted.
MadeInv == \A m \in Messages : \A o \in known[m] : fingerprint[o] # None

HandoffInv == \A o \in handoffs : Revealed(o)

IInv ==
    /\ TypeOK
    /\ StatesInv
    /\ TurnInv
    /\ ConsentInv
    /\ MadeInv
    /\ HandoffInv

-----------------------------------------------------------------------------
(* Conversation states.                                                    *)

USE DEF Revealed, WasRevealed

\* What the fields of a state are.
LEMMA Fields ==
    ASSUME NEW s \in ConvState
    PROVE  /\ s.revision \in Nat
           /\ s.applied \in SUBSET Messages
           /\ s.ledger \in SUBSET Messages
           /\ s.pending \in Offers \cup {None}
           /\ s.accepted \in Offers \cup {None}
           /\ s.offered \in Offers \cup {None}
BY DEF ConvState

\* The states that a turn builds are states.
LEMMA FreshTyped == Fresh \in ConvState
BY DEF Fresh, ConvState

\* The names of stages and lifecycles.
LEMMA Names ==
    /\ {"ABSENT", "CREATED", "REVEALED"} \subseteq Lifecycle
    /\ {"ABSENT", "CREATED", "REVEALED", "FORGOTTEN"} \subseteq Persisted
    /\ {"idle", "running", "loaded", "revealing", "computed"} \subseteq Stage
    /\ {"answered", "refused", "failed", "over"} \subseteq Stage
BY DEF Lifecycle, Persisted, Stage

LEMMA OfferedTyped ==
    ASSUME NEW s \in ConvState
    PROVE  [s EXCEPT !.offered = None] \in ConvState
BY DEF ConvState

LEMMA TurnTyped ==
    ASSUME NEW s \in ConvState, NEW m \in Messages, NEW learnt \in SUBSET {m},
           NEW pending \in Offers \cup {None}, NEW accepted \in Offers \cup {None},
           NEW offered \in Offers \cup {None}
    PROVE  Turn(s, m, learnt, pending, accepted, offered) \in ConvState
<1>1. /\ s.revision + 1 \in Nat
      /\ s.applied \cup {m} \in SUBSET Messages
      /\ s.ledger \cup learnt \in SUBSET Messages
  BY Fields
<1> QED  BY <1>1 DEF Turn, ConvState

\* A function updated at one place, or not at all.
LEMMA Updated ==
    ASSUME NEW A, NEW B, NEW f \in [A -> B], NEW a, NEW v \in B, NEW g,
           g = f \/ g = [f EXCEPT ![a] = v]
    PROVE  g \in [A -> B] /\ \A x \in A : g[x] \in {f[x], v}
OBVIOUS

\* The same for an update of a field.
LEMMA UpdatedField ==
    ASSUME NEW A, NEW B, NEW C, NEW f \in [A -> [B -> C]], NEW a \in A, NEW b \in B, NEW v \in C
    PROVE  [f EXCEPT ![a][b] = v] \in [A -> [B -> C]]
OBVIOUS

LEMMA NoOutputsTyped == NoOutputs \in [Messages -> ConvState \cup {None}]
BY DEF NoOutputs

\* A new conversation has counted nothing.
LEMMA FreshIsGood ==
    ASSUME NEW S, NEW D, NEW R
    PROVE  Good(Fresh, S, D, R)
BY FS_EmptySet DEF Good, Fresh

\* A good state stays good while messages are sent and offers are revealed.
LEMMA GoodStays ==
    ASSUME NEW s \in ConvState, NEW S, NEW T, NEW D, NEW E, NEW Q, NEW R,
           S \subseteq T, \A m \in S : E[m] = D[m],
           \A o \in Offers : Q[o] \in WasRevealed => R[o] \in WasRevealed,
           Good(s, S, D, Q)
    PROVE  Good(s, T, E, R)
BY Fields DEF Good

\* The button under an answer is no part of its state.
LEMMA GoodOffered ==
    ASSUME NEW s \in ConvState, NEW S, NEW D, NEW R, Good(s, S, D, R)
    PROVE  Good([s EXCEPT !.offered = None], S, D, R)
BY DEF Good, ConvState

\* A turn counts its message, which the state it starts from had not counted; the
\* cards it shows, if any, were revealed.
LEMMA GoodTurn ==
    ASSUME NEW s \in ConvState, NEW m \in Messages, NEW learnt \in SUBSET {m}, NEW pending, NEW offered,
           NEW accepted, NEW S, NEW D \in [Messages -> ConvState], NEW R,
           Good(s, S, D, R), m \in S, s.revision = D[m].revision,
           accepted # None => R[accepted] \in WasRevealed
    PROVE  /\ m \notin s.applied
           /\ Good(Turn(s, m, learnt, pending, accepted, offered), S, D, R)
<1> DEFINE t == Turn(s, m, learnt, pending, accepted, offered)
<1>1. m \notin s.applied
  BY Fields DEF Good
<1>2. IsFiniteSet(s.applied)
  BY DEF Good
<1>3. /\ IsFiniteSet(s.applied \cup {m})
      /\ Cardinality(s.applied \cup {m}) =
            IF m \in s.applied THEN Cardinality(s.applied) ELSE Cardinality(s.applied) + 1
  BY <1>2, FS_AddElement, Zenon
<1>4. /\ t.applied = s.applied \cup {m} /\ t.revision = s.revision + 1
      /\ t.accepted = accepted /\ t.ledger = s.ledger \cup learnt
  BY DEF Turn
<1>5. ASSUME NEW n \in s.applied \cup {m} PROVE D[n].revision < s.revision + 1
  <2>1. n \in Messages /\ D[n].revision \in Nat /\ s.revision \in Nat
    BY Fields
  <2>2. CASE n = m
    BY <2>1, <2>2
  <2>3. CASE n \in s.applied
    BY <2>1, <2>3 DEF Good
  <2> QED  BY <2>2, <2>3
<1>6. /\ s.revision + 1 = Cardinality(s.applied \cup {m}) /\ s.applied \cup {m} \subseteq S
      /\ s.ledger \cup learnt \subseteq s.applied \cup {m}
  BY <1>1, <1>3 DEF Good
<1> HIDE DEF t
<1>7. Good(t, S, D, R)
  BY <1>3, <1>4, <1>5, <1>6 DEF Good
<1> QED  BY <1>1, <1>7 DEF t

-----------------------------------------------------------------------------
\* The initial states satisfy the invariant.
LEMMA InitEstablishes == Init => IInv
<1> SUFFICES ASSUME Init PROVE IInv
  OBVIOUS
<1> USE DEF Init
<1>1. TypeOK
  <2>1. /\ held \in ConvState
        /\ seed \in [Messages -> ConvState]
        /\ base \in [Requests -> ConvState]
        /\ answer \in [Requests -> ConvState]
    BY FreshTyped
  <2>2. /\ record \in [Instances -> ConvState \cup {None}]
        /\ outputs \in [Instances -> [Messages -> ConvState \cup {None}]]
        /\ kept \in [Requests -> [Messages -> ConvState \cup {None}]]
    BY DEF NoOutputs
  <2>3. /\ cached \in [Instances -> [Offers -> Lifecycle]]
        /\ stored \in [Offers -> Persisted]
        /\ loaded \in [Requests -> Lifecycle]
        /\ stage \in [Requests -> Stage]
    BY Names
  <2>4. /\ fingerprint \in [Offers -> (SUBSET Messages) \cup {None, Metric}]
        /\ known \in [Messages -> SUBSET Offers]
    OBVIOUS
  <2>5. /\ expired \in SUBSET Offers /\ sent \in SUBSET Messages /\ handoffs \in SUBSET Offers
        /\ waiting \in Messages \cup {None}
        /\ words \in [Messages -> {"talk", "show", "accept"}]
        /\ msg \in [Requests -> Messages \cup {None}]
        /\ at \in [Requests -> Instances \cup {None}]
    OBVIOUS
  <2> QED  BY <2>1, <2>2, <2>3, <2>4, <2>5 DEF TypeOK
<1>2. StatesInv
  BY FreshIsGood DEF StatesInv, NoOutputs
<1>3. TurnInv
  BY DEF TurnInv, AtWork
<1>4. ConsentInv
  BY DEF ConsentInv
<1>5. MadeInv /\ HandoffInv
  BY DEF MadeInv, HandoffInv
<1> QED  BY <1>1, <1>2, <1>3, <1>4, <1>5 DEF IInv

\* A new message is sent for a state the browser holds.
LEMMA SendPreserves ==
    ASSUME IInv, NEW m \in Messages, NEW w \in {"talk", "show", "accept"}, Send(m, w)
    PROVE  IInv'
<1> USE DEF Send, recordVars, offerVars, browserVars, messageVars, requestVars
<1>1. TypeOK'
  BY DEF IInv, TypeOK
<1>2. StatesInv'
  <2>1. ASSUME NEW s \in ConvState, Good(s, sent, seed, stored)
        PROVE  Good(s, sent', seed', stored')
    <3>1. sent \subseteq sent' /\ \A n \in sent : seed'[n] = seed[n]
      OBVIOUS
    <3>2. stored' = stored
      OBVIOUS
    <3> HIDE DEF Send
    <3> QED  BY <2>1, <3>1, <3>2, GoodStays
  <2>2. /\ held' = held /\ record' = record /\ outputs' = outputs
        /\ base' = base /\ kept' = kept /\ answer' = answer
    OBVIOUS
  <2>3. \A n \in Messages : seed'[n] \in {seed[n], held}
    OBVIOUS
  <2>4. /\ held \in ConvState /\ seed \in [Messages -> ConvState]
        /\ record \in [Instances -> ConvState \cup {None}]
        /\ outputs \in [Instances -> [Messages -> ConvState \cup {None}]]
        /\ base \in [Requests -> ConvState] /\ answer \in [Requests -> ConvState]
        /\ kept \in [Requests -> [Messages -> ConvState \cup {None}]]
    BY DEF IInv, TypeOK
  <2>5. StatesInv
    BY DEF IInv
  <2> HIDE DEF Send
  <2> QED
    BY <2>1, <2>2, <2>3, <2>4, <2>5 DEF StatesInv
<1>3. TurnInv'
  BY DEF IInv, TurnInv, AtWork, Consents
<1>4. ConsentInv'
  BY DEF IInv, ConsentInv, Consented
<1>5. MadeInv'
  BY DEF IInv, MadeInv
<1>6. HandoffInv'
  BY DEF IInv, HandoffInv
<1> QED  BY <1>1, <1>2, <1>3, <1>4, <1>5, <1>6 DEF IInv

\* Nothing but the request's own state is lost.
LEMMA LoseAnswerPreserves ==
    ASSUME IInv, NEW r \in Requests, LoseAnswer(r)
    PROVE  IInv'
<1> USE DEF LoseAnswer, End, Finished, recordVars, offerVars, browserVars, messageVars, requestVars
<1>1. TypeOK'
  BY FreshTyped, Names DEF IInv, TypeOK
<1>2. StatesInv'
  BY FreshIsGood DEF IInv, StatesInv
<1>3. TurnInv'
  BY DEF IInv, TurnInv, AtWork, Consents
<1>4. ConsentInv'
  BY DEF IInv, ConsentInv, Consented
<1>5. (MadeInv /\ HandoffInv)'
  BY DEF IInv, MadeInv, HandoffInv
<1> QED  BY <1>1, <1>2, <1>3, <1>4, <1>5 DEF IInv

\* The browser takes over an answer.
LEMMA ReceivePreserves ==
    ASSUME IInv, NEW r \in Requests, Receive(r)
    PROVE  IInv'
<1> USE DEF Receive, End, EndWait, Finished, recordVars, offerVars, browserVars, messageVars, requestVars
<1>1. TypeOK'
  BY FreshTyped, OfferedTyped, Names DEF IInv, TypeOK
<1>2. StatesInv'
  BY FreshIsGood, GoodOffered DEF IInv, TypeOK, StatesInv
<1>3. TurnInv'
  BY DEF IInv, TurnInv, AtWork, Consents
<1>4. ConsentInv'
  BY DEF IInv, ConsentInv, Consented
<1>5. (MadeInv /\ HandoffInv)'
  BY DEF IInv, MadeInv, HandoffInv
<1> QED  BY <1>1, <1>2, <1>3, <1>4, <1>5 DEF IInv

\* Giving up keeps the browser's state.
LEMMA GiveUpPreserves ==
    ASSUME IInv, GiveUp
    PROVE  IInv'
<1> USE DEF GiveUp, End, EndWait, Finished, recordVars, offerVars, browserVars, messageVars, requestVars
<1>1. TypeOK'
  BY FreshTyped, OfferedTyped, Names DEF IInv, TypeOK
<1>2. StatesInv'
  <2>1. StatesInv /\ held \in ConvState
    BY DEF IInv, TypeOK
  <2>2. Good(held', sent, seed, stored)
    BY <2>1, GoodOffered DEF StatesInv
  <2>3. \A q \in Requests : base'[q] \in {base[q], Fresh} /\ answer'[q] \in {answer[q], Fresh}
    OBVIOUS
  <2>4. /\ record' = record /\ outputs' = outputs /\ kept' = kept
        /\ sent' = sent /\ seed' = seed /\ stored' = stored
    OBVIOUS
  <2> HIDE DEF GiveUp, EndWait, End
  <2> QED
    BY <2>1, <2>2, <2>3, <2>4, FreshIsGood DEF StatesInv
<1>3. TurnInv'
  BY DEF IInv, TurnInv, AtWork, Consents
<1>4. ConsentInv'
  BY DEF IInv, ConsentInv, Consented
<1>5. (MadeInv /\ HandoffInv)'
  BY DEF IInv, MadeInv, HandoffInv
<1> QED  BY <1>1, <1>2, <1>3, <1>4, <1>5 DEF IInv

\* A turn starts on the record or the token, if its revision fits.
LEMMA ArrivePreserves ==
    ASSUME IInv, NEW r \in Requests, NEW n \in Messages, NEW i \in Instances, Arrive(r, n, i)
    PROVE  IInv'
<1> USE DEF Arrive, ReadRecord, Follows, recordVars, offerVars, browserVars, messageVars, requestVars
<1>0. PICK current \in ConvState :
         /\ stage' \in {[stage EXCEPT ![r] = "answered"], [stage EXCEPT ![r] = "refused"],
                        [stage EXCEPT ![r] = "running"]}
         /\ base' = base \/ base' = [base EXCEPT ![r] = current]
         /\ kept' = kept \/ kept' = [kept EXCEPT ![r] = outputs[i]]
         /\ answer' = answer \/ (answer' = [answer EXCEPT ![r] = outputs[i][n]] /\ outputs[i][n] # None)
  <2>1. /\ record[i] \in ConvState \cup {None} /\ seed[n] \in ConvState
    BY DEF IInv, TypeOK
  <2> QED  BY <2>1
<1>1. TypeOK'
  <2>1. outputs[i] \in [Messages -> ConvState \cup {None}]
    BY DEF IInv, TypeOK
  <2>2. answer' \in [Requests -> ConvState]
    <3>1. answer \in [Requests -> ConvState]
      BY DEF IInv, TypeOK
    <3>2. answer' = answer \/ outputs[i][n] \in ConvState
      BY <1>0, <2>1
    <3> QED  BY <1>0, <3>1, <3>2
  <2>3. base' \in [Requests -> ConvState]
    <3>1. base \in [Requests -> ConvState]
      BY DEF IInv, TypeOK
    <3> QED  BY <1>0, <3>1, Updated
  <2>7. kept' \in [Requests -> [Messages -> ConvState \cup {None}]]
    <3>1. kept \in [Requests -> [Messages -> ConvState \cup {None}]]
      BY DEF IInv, TypeOK
    <3> QED  BY <1>0, <2>1, <3>1, Updated
  <2>4. stage' \in [Requests -> Stage]
    BY <1>0, Names DEF IInv, TypeOK
  <2>5. /\ msg' \in [Requests -> Messages \cup {None}]
        /\ at' \in [Requests -> Instances \cup {None}]
    BY DEF IInv, TypeOK
  <2>6. UNCHANGED <<recordVars, offerVars, browserVars, messageVars, loaded, handoffs>>
    OBVIOUS
  <2> HIDE DEF Arrive, ReadRecord
  <2> QED
    BY <2>2, <2>3, <2>4, <2>5, <2>6, <2>7 DEF IInv, TypeOK
<1>2. StatesInv'
  BY DEF IInv, TypeOK, StatesInv
<1>3. TurnInv'
  BY DEF IInv, TurnInv, TypeOK, AtWork, Consents
<1>4. ConsentInv'
  <2>1. ConsentInv /\ stage \in [Requests -> Stage] /\ base \in [Requests -> ConvState]
    BY DEF IInv, TypeOK
  <2>2. \A q \in Requests :
          stage'[q] \in {"loaded", "revealing"} => stage'[q] = stage[q] /\ base'[q] = base[q]
    BY <1>0, <2>1
  <2>3. UNCHANGED <<stored, cached, loaded, sent, words, known>>
    OBVIOUS
  <2> HIDE DEF Arrive, ReadRecord
  <2> QED
    BY <2>1, <2>2, <2>3 DEF ConsentInv, Consented
<1>5. (MadeInv /\ HandoffInv)'
  BY DEF IInv, MadeInv, HandoffInv
<1> QED  BY <1>1, <1>2, <1>3, <1>4, <1>5 DEF IInv

\* A turn without an offer.
LEMMA TalkPreserves ==
    ASSUME IInv, NEW r \in Requests, Talk(r)
    PROVE  IInv'
<1> USE DEF Talk, Compute, recordVars, offerVars, browserVars, messageVars, requestVars
<1>0. /\ at[r] \in Instances /\ msg[r] \in Messages /\ msg[r] \in sent
      /\ base[r] \in ConvState /\ base[r].pending \in Offers \cup {None}
      /\ base[r].accepted \in Offers \cup {None}
      /\ base[r].revision = seed[msg[r]].revision
  BY Fields DEF IInv, TypeOK, TurnInv, AtWork
<1>1. TypeOK'
  <2>1. base[r] \in ConvState /\ msg[r] \in Messages
    BY <1>0
  <2>2. \A learnt \in SUBSET {msg[r]}, pending \in {None, base[r].pending} :
          Turn(base[r], msg[r], learnt, pending, base[r].accepted, None) \in ConvState
    BY <2>1, Fields, TurnTyped
  <2>3. answer' \in [Requests -> ConvState]
    BY <2>2 DEF IInv, TypeOK
  <2> QED
    BY <2>3, Names DEF IInv, TypeOK
<1>2. StatesInv'
  <2> DEFINE b == base[r]
             w == msg[r]
  <2>0. /\ b \in ConvState /\ w \in Messages /\ w \in sent
        /\ b.revision = seed[w].revision
        /\ b.pending \in Offers \cup {None} /\ b.accepted \in Offers \cup {None}
        /\ Good(b, sent, seed, stored) /\ seed \in [Messages -> ConvState]
    BY Fields DEF IInv, TypeOK, StatesInv, TurnInv, AtWork
  <2>1. PICK learnt \in SUBSET {w}, pending \in {None, b.pending} :
            answer' = [answer EXCEPT ![r] = Turn(b, w, learnt, pending, b.accepted, None)]
    OBVIOUS
  <2>2. b.accepted # None => stored[b.accepted] \in WasRevealed
    BY <2>0 DEF Good
  <2>3. Good(Turn(b, w, learnt, pending, b.accepted, None), sent, seed, stored)
    BY <2>0, <2>2, GoodTurn
  <2> HIDE DEF b, w
  <2> QED
    BY <2>1, <2>3 DEF IInv, StatesInv
<1>3. TurnInv'
  BY DEF IInv, TurnInv, AtWork, Consents
<1>4. ConsentInv'
  BY DEF IInv, ConsentInv, Consented
<1>5. (MadeInv /\ HandoffInv)'
  BY DEF IInv, MadeInv, HandoffInv
<1> QED  BY <1>1, <1>2, <1>3, <1>4, <1>5 DEF IInv

\* A refused consent changes nothing.
LEMMA DecisionChangedPreserves ==
    ASSUME IInv, NEW r \in Requests, DecisionChanged(r)
    PROVE  IInv'
<1> USE DEF DecisionChanged, Break, recordVars, offerVars, browserVars, messageVars, requestVars
<1>0. /\ at[r] \in Instances /\ msg[r] \in Messages /\ msg[r] \in sent
      /\ base[r] \in ConvState /\ base[r].pending \in Offers \cup {None}
      /\ base[r].accepted \in Offers \cup {None}
      /\ base[r].revision = seed[msg[r]].revision
  BY Fields DEF IInv, TypeOK, TurnInv, AtWork
<1>1. TypeOK'
  BY FreshTyped, Names DEF IInv, TypeOK, NoOutputs
<1>2. StatesInv'
  BY FreshIsGood DEF IInv, StatesInv, NoOutputs
<1>3. TurnInv'
  BY DEF IInv, TurnInv, TypeOK, AtWork, Consents
<1>4. ConsentInv'
  BY DEF IInv, ConsentInv, Consented
<1>5. (MadeInv /\ HandoffInv)'
  BY DEF IInv, MadeInv, HandoffInv
<1> QED  BY <1>1, <1>2, <1>3, <1>4, <1>5 DEF IInv

\* A new offer is nowhere revealed.
LEMMA MakeOfferPreserves ==
    ASSUME IInv, NEW r \in Requests, NEW o \in Offers, MakeOffer(r, o)
    PROVE  IInv'
<1> USE DEF MakeOffer, Compute, Break, Fingerprint, recordVars, offerVars, browserVars, messageVars, requestVars
<1>0. /\ at[r] \in Instances /\ msg[r] \in Messages /\ msg[r] \in sent
      /\ base[r] \in ConvState /\ base[r].pending \in Offers \cup {None}
      /\ base[r].accepted \in Offers \cup {None}
      /\ base[r].revision = seed[msg[r]].revision
  BY Fields DEF IInv, TypeOK, TurnInv, AtWork
<1>b. PICK learnt \in SUBSET {msg[r]}, offered \in {o, None} :
         LET next == Turn(base[r], msg[r], learnt, o, base[r].accepted, offered) IN
         /\ fingerprint' = [fingerprint EXCEPT ![o] =
                               IF offered = None THEN Metric ELSE next.ledger]
         /\ stored' \in {stored, [stored EXCEPT ![o] = "CREATED"]}
         /\ \/ Compute(r, next)
            \/ Break(r)
  BY Zenon
<1> DEFINE next == Turn(base[r], msg[r], learnt, o, base[r].accepted, offered)
<1>c. /\ stage' = [stage EXCEPT ![r] = "computed"] \/ stage' = [stage EXCEPT ![r] = "failed"]
      /\ base' = base \/ base' = [base EXCEPT ![r] = Fresh]
      /\ kept' = kept \/ kept' = [kept EXCEPT ![r] = NoOutputs]
      /\ loaded' = [loaded EXCEPT ![r] = "ABSENT"]
      /\ answer' = answer \/ answer' = [answer EXCEPT ![r] = next]
      /\ UNCHANGED <<recordVars, browserVars, messageVars, msg, at, handoffs>>
  BY <1>b
<1>d. /\ cached' = [cached EXCEPT ![at[r]][o] = "CREATED"]
      /\ fingerprint[o] = None /\ expired' = expired
  OBVIOUS
<1>e. next \in ConvState
  BY <1>0, Fields, TurnTyped
<1>f. fingerprint' = [fingerprint EXCEPT ![o] = IF offered = None THEN Metric ELSE next.ledger]
  BY <1>b
<1>g. stored' \in {stored, [stored EXCEPT ![o] = "CREATED"]}
  BY <1>b
<1> HIDE DEF MakeOffer, Compute, Break, next
<1>s. stage' \in [Requests -> Stage]
  <2>1. stage \in [Requests -> Stage] /\ {"computed", "failed", "revealing"} \subseteq Stage
    BY Names DEF IInv, TypeOK
  <2> QED  BY <1>c, <2>1
<1>t. base' \in [Requests -> ConvState] /\ \A q \in Requests : base'[q] \in {base[q], Fresh}
  <2>1. base \in [Requests -> ConvState]
    BY DEF IInv, TypeOK
  <2> QED  BY <1>c, <2>1, FreshTyped, Updated
<1>u. /\ kept' \in [Requests -> [Messages -> ConvState \cup {None}]]
      /\ \A q \in Requests, n \in Messages : kept'[q][n] \in {kept[q][n], None}
  <2>1. kept \in [Requests -> [Messages -> ConvState \cup {None}]]
    BY DEF IInv, TypeOK
  <2>2. \A n \in Messages : NoOutputs[n] = None
    BY DEF NoOutputs
  <2>3. \A q \in Requests : kept'[q] \in {kept[q], NoOutputs}
    BY <1>c, <2>1, NoOutputsTyped, Updated
  <2>4. kept' \in [Requests -> [Messages -> ConvState \cup {None}]]
    BY <1>c, <2>1, NoOutputsTyped, Updated
  <2> QED  BY <2>2, <2>3, <2>4
<1>v. loaded' \in [Requests -> Lifecycle]
  <2>1. loaded \in [Requests -> Lifecycle] /\ "ABSENT" \in Lifecycle
    BY Names DEF IInv, TypeOK
  <2> QED  BY <1>c, <2>1
<1>h. ~Revealed(o)
  <2>1. \A m \in sent : o \notin known[m]
    <3>1. sent \in SUBSET Messages /\ MadeInv
      BY DEF IInv, TypeOK
    <3> QED  BY <1>d, <3>1 DEF MadeInv
  <2> QED  BY <2>1 DEF IInv, ConsentInv, Consented
<1>1. TypeOK'
  <2>1. next.ledger \in SUBSET Messages
    BY <1>e, Fields
  <2>2. (IF offered = None THEN Metric ELSE next.ledger) \in (SUBSET Messages) \cup {None, Metric}
    BY <2>1
  <2>3. answer' \in [Requests -> ConvState]
    <3>1. answer \in [Requests -> ConvState]
      BY DEF IInv, TypeOK
    <3> QED  BY <1>c, <1>e, <3>1, Updated
  <2>4. fingerprint' \in [Offers -> (SUBSET Messages) \cup {None, Metric}]
    BY <1>f, <2>2 DEF IInv, TypeOK
  <2>7. stored' \in [Offers -> Persisted]
    BY <1>g, Names DEF IInv, TypeOK
  <2>8. cached' \in [Instances -> [Offers -> Lifecycle]]
    BY <1>0, <1>d, Names DEF IInv, TypeOK
  <2> QED
    BY <1>c, <1>d, <1>s, <1>t, <1>u, <1>v, <2>3, <2>4, <2>7, <2>8 DEF IInv, TypeOK
<1>2. StatesInv'
  <2>1. ASSUME NEW s \in ConvState, Good(s, sent, seed, stored)
        PROVE  Good(s, sent', seed', stored')
    <3>1. ~Revealed(o)
      BY <1>h
    <3>2. \A p \in Offers : stored[p] \in WasRevealed => stored'[p] \in WasRevealed
      BY <1>g, <3>1 DEF IInv, TypeOK
    <3>3. sent' = sent /\ seed' = seed
      BY <1>c
    <3> QED  BY <2>1, <3>2, <3>3, GoodStays
  <2>2. base[r].accepted # None => stored[base[r].accepted] \in WasRevealed
    BY DEF IInv, StatesInv, Good
  <2>3. Good(next, sent, seed, stored)
    <3>1. Good(base[r], sent, seed, stored) /\ seed \in [Messages -> ConvState]
      BY DEF IInv, TypeOK, StatesInv
    <3> QED  BY <1>0, <2>2, <3>1, GoodTurn DEF next
  <2>4. \A q \in Requests : answer'[q] \in {answer[q], next}
    <3>1. answer \in [Requests -> ConvState]
      BY DEF IInv, TypeOK
    <3> QED  BY <1>c, <1>e, <3>1, Updated
  <2>5. UNCHANGED <<held, record, outputs>> /\ sent' = sent /\ seed' = seed
    BY <1>c
  <2>6. /\ held \in ConvState /\ seed \in [Messages -> ConvState]
        /\ record \in [Instances -> ConvState \cup {None}]
        /\ outputs \in [Instances -> [Messages -> ConvState \cup {None}]]
        /\ base \in [Requests -> ConvState] /\ answer \in [Requests -> ConvState]
        /\ kept \in [Requests -> [Messages -> ConvState \cup {None}]]
    BY DEF IInv, TypeOK
  <2>7. StatesInv /\ Good(Fresh, sent', seed', stored')
    BY FreshIsGood DEF IInv
  <2>8. \A q \in Requests : Good(base[q], sent', seed', stored') /\ Good(answer[q], sent', seed', stored')
    BY <2>1, <2>6, <2>7 DEF StatesInv
  <2>9. \A q \in Requests : Good(base'[q], sent', seed', stored') /\ Good(answer'[q], sent', seed', stored')
    BY <1>e, <1>t, <2>1, <2>3, <2>4, <2>7, <2>8
  <2>10. \A q \in Requests, n \in Messages :
            kept'[q][n] # None => Good(kept'[q][n], sent', seed', stored')
    BY <1>u, <2>1, <2>6, <2>7 DEF StatesInv
  <2>11. /\ Good(held', sent', seed', stored')
         /\ \A n \in Messages : Good(seed'[n], sent', seed', stored')
    BY <2>1, <2>5, <2>6, <2>7 DEF StatesInv
  <2>12. /\ \A j \in Instances : record'[j] # None => Good(record'[j], sent', seed', stored')
         /\ \A j \in Instances, n \in Messages :
               outputs'[j][n] # None => Good(outputs'[j][n], sent', seed', stored')
    BY <2>1, <2>5, <2>6, <2>7 DEF StatesInv
  <2> QED
    BY <2>9, <2>10, <2>11, <2>12 DEF StatesInv
<1>3. TurnInv'
  <2>1. TurnInv /\ stage \in [Requests -> Stage] /\ base \in [Requests -> ConvState]
    BY DEF IInv, TypeOK
  <2>2. \A q \in Requests : q # r => stage'[q] = stage[q] /\ base'[q] = base[q]
    BY <1>c, <2>1
  <2>3. stage'[r] \in {"computed", "failed"}
    BY <1>c, <2>1
  <2>4. UNCHANGED <<msg, at, sent, seed, words>>
    BY <1>c
  <2> QED
    BY <1>0, <2>1, <2>2, <2>3, <2>4 DEF TurnInv, AtWork, Consents
<1>4. ConsentInv'
  <2>1. ConsentInv /\ stage \in [Requests -> Stage] /\ base \in [Requests -> ConvState]
        /\ loaded \in [Requests -> Lifecycle]
    BY DEF IInv, TypeOK
  <2>2. \A q \in Requests : stage'[q] \in {"loaded", "revealing"} =>
           stage'[q] = stage[q] /\ base'[q] = base[q] /\ loaded'[q] = loaded[q]
    BY <1>c, <2>1
  <2>3. \A p \in Offers : Revealed(p)' => Revealed(p)
    BY <1>g DEF IInv, TypeOK
  <2>4. \A j \in Instances, p \in Offers : cached'[j][p] = "REVEALED" => cached[j][p] = "REVEALED"
    BY <1>0, <1>d DEF IInv, TypeOK
  <2>5. UNCHANGED <<sent, words, known>>
    BY <1>c
  <2> QED
    BY <2>1, <2>2, <2>3, <2>4, <2>5 DEF ConsentInv, Consented
<1>5. MadeInv'
  <2>1. o \notin UNION {known[m] : m \in Messages}
    BY <1>d DEF IInv, MadeInv
  <2>2. \A p \in Offers \ {o} : fingerprint'[p] = fingerprint[p]
    BY <1>f DEF IInv, TypeOK
  <2>3. known' = known /\ known \in [Messages -> SUBSET Offers]
    BY <1>c DEF IInv, TypeOK
  <2> QED
    BY <2>1, <2>2, <2>3 DEF IInv, MadeInv
<1>6. HandoffInv'
  <2>1. ~Revealed(o)
    BY <1>h
  <2>2. handoffs' = handoffs /\ handoffs \in SUBSET Offers
    BY <1>c DEF IInv, TypeOK
  <2>3. \A p \in Offers : stored[p] \in WasRevealed => stored'[p] \in WasRevealed
    BY <1>g, <2>1 DEF IInv, TypeOK
  <2> QED
    BY <2>2, <2>3 DEF IInv, HandoffInv
<1> QED  BY <1>1, <1>2, <1>3, <1>4, <1>5, <1>6 DEF IInv

\* What Redis says of an offer.
LEMMA LoadOfferPreserves ==
    ASSUME IInv, NEW r \in Requests, LoadOffer(r)
    PROVE  IInv'
<1> USE DEF LoadOffer, recordVars, offerVars, browserVars, messageVars, requestVars
<1>0. /\ at[r] \in Instances /\ msg[r] \in Messages /\ msg[r] \in sent
      /\ base[r] \in ConvState /\ base[r].pending \in Offers \cup {None}
      /\ base[r].accepted \in Offers \cup {None}
      /\ base[r].revision = seed[msg[r]].revision
  BY Fields DEF IInv, TypeOK, TurnInv, AtWork
<1>a. base[r].pending # None
  BY DEF Consents
<1>1. TypeOK'
  <2>1. InRedis(base[r].pending) \in Lifecycle
    BY <1>0, <1>a, Names DEF IInv, TypeOK, InRedis, Persisted
  <2>2. loaded' \in [Requests -> Lifecycle] /\ stage' \in [Requests -> Stage]
    BY <2>1, Names DEF IInv, TypeOK
  <2>3. UNCHANGED <<recordVars, offerVars, browserVars, messageVars, msg, at, base, kept, answer, handoffs>>
    OBVIOUS
  <2> HIDE DEF LoadOffer
  <2> QED
    BY <2>2, <2>3 DEF IInv, TypeOK
<1>2. TurnInv'
  BY DEF IInv, TurnInv, AtWork, Consents
<1>3. ConsentInv'
  <2>1. /\ ConsentInv /\ base[r].pending \in Offers
        /\ stage \in [Requests -> Stage] /\ loaded \in [Requests -> Lifecycle]
    BY <1>0, <1>a DEF IInv, TypeOK
  <2>2. InRedis(base[r].pending) = "REVEALED" => Consented(base[r].pending)
    BY <2>1 DEF ConsentInv, InRedis
  <2> QED  BY <2>1, <2>2 DEF ConsentInv, Consented
<1>4. (StatesInv /\ MadeInv /\ HandoffInv)'
  BY DEF IInv, StatesInv, MadeInv, HandoffInv
<1> QED  BY <1>1, <1>2, <1>3, <1>4 DEF IInv

\* Only an accepted offer becomes REVEALED.
LEMMA RevealPreserves ==
    ASSUME IInv, NEW r \in Requests, Reveal(r)
    PROVE  IInv'
<1> USE DEF Reveal, Break, recordVars, offerVars, browserVars, messageVars, requestVars
<1>0. /\ at[r] \in Instances /\ msg[r] \in Messages /\ msg[r] \in sent
      /\ base[r] \in ConvState /\ base[r].pending \in Offers \cup {None}
      /\ base[r].accepted \in Offers \cup {None}
      /\ base[r].revision = seed[msg[r]].revision
  BY Fields DEF IInv, TypeOK, TurnInv, AtWork
<1>a. base[r].pending # None
  BY DEF Consents
<1>b. /\ stage' = [stage EXCEPT ![r] = "revealing"] \/ stage' = [stage EXCEPT ![r] = "failed"]
      /\ base' = base \/ base' = [base EXCEPT ![r] = Fresh]
      /\ kept' = kept \/ kept' = [kept EXCEPT ![r] = NoOutputs]
      /\ loaded' = loaded \/ loaded' = [loaded EXCEPT ![r] = "ABSENT"]
      /\ UNCHANGED <<recordVars, browserVars, messageVars, msg, at, answer, handoffs>>
      /\ UNCHANGED <<stored, fingerprint, expired>>
  OBVIOUS
<1>c. \/ MayReveal(r) /\ cached' = [cached EXCEPT ![at[r]][base[r].pending] = "REVEALED"]
      \/ stage[r] = "loaded" /\ cached' = [cached EXCEPT ![at[r]][base[r].pending] = loaded[r]]
      \/ cached' = cached
  OBVIOUS
<1>d. ~MayReveal(r) => stage' = [stage EXCEPT ![r] = "failed"]
  OBVIOUS
<1>e. MayReveal(r) => stage' = [stage EXCEPT ![r] = "revealing"] /\ base' = base
  OBVIOUS
<1>f. Consents(r) /\ stage[r] \in {"running", "loaded"}
  OBVIOUS
<1> HIDE DEF Reveal, Break
<1>s. stage' \in [Requests -> Stage]
  <2>1. stage \in [Requests -> Stage] /\ {"computed", "failed", "revealing"} \subseteq Stage
    BY Names DEF IInv, TypeOK
  <2> QED  BY <1>b, <2>1
<1>t. base' \in [Requests -> ConvState] /\ \A q \in Requests : base'[q] \in {base[q], Fresh}
  <2>1. base \in [Requests -> ConvState]
    BY DEF IInv, TypeOK
  <2> QED  BY <1>b, <2>1, FreshTyped, Updated
<1>u. /\ kept' \in [Requests -> [Messages -> ConvState \cup {None}]]
      /\ \A q \in Requests, n \in Messages : kept'[q][n] \in {kept[q][n], None}
  <2>1. kept \in [Requests -> [Messages -> ConvState \cup {None}]]
    BY DEF IInv, TypeOK
  <2>2. \A n \in Messages : NoOutputs[n] = None
    BY DEF NoOutputs
  <2>3. \A q \in Requests : kept'[q] \in {kept[q], NoOutputs}
    BY <1>b, <2>1, NoOutputsTyped, Updated
  <2>4. kept' \in [Requests -> [Messages -> ConvState \cup {None}]]
    BY <1>b, <2>1, NoOutputsTyped, Updated
  <2> QED  BY <2>2, <2>3, <2>4
<1>v. loaded' \in [Requests -> Lifecycle]
  <2>1. loaded \in [Requests -> Lifecycle] /\ "ABSENT" \in Lifecycle
    BY Names DEF IInv, TypeOK
  <2> QED  BY <1>b, <2>1
<1>1. TypeOK'
  <2>1. base[r].pending \in Offers /\ loaded[r] \in Lifecycle /\ "REVEALED" \in Lifecycle
    BY <1>0, <1>a, Names DEF IInv, TypeOK
  <2>2. cached' \in [Instances -> [Offers -> Lifecycle]]
    <3>1. cached \in [Instances -> [Offers -> Lifecycle]]
      BY DEF IInv, TypeOK
    <3>2. \A v \in Lifecycle :
             [cached EXCEPT ![at[r]][base[r].pending] = v] \in [Instances -> [Offers -> Lifecycle]]
      BY <1>0, <2>1, <3>1, UpdatedField
    <3> QED  BY <1>c, <2>1, <3>1, <3>2
  <2> QED
    BY <1>b, <1>s, <1>t, <1>u, <1>v, <2>2 DEF IInv, TypeOK
<1>2. StatesInv'
  <2>2. StatesInv /\ Good(Fresh, sent, seed, stored)
    BY FreshIsGood DEF IInv
  <2>3. UNCHANGED <<held, record, outputs, answer, sent, seed, stored>>
    BY <1>b
  <2> QED
    BY <1>t, <1>u, <2>2, <2>3 DEF StatesInv
<1>3. TurnInv'
  <2>1. TurnInv /\ stage \in [Requests -> Stage] /\ base \in [Requests -> ConvState]
    BY DEF IInv, TypeOK
  <2>2. \A q \in Requests : q # r => stage'[q] = stage[q] /\ base'[q] = base[q]
    BY <1>b, <2>1
  <2>3. stage'[r] = "failed" \/ (stage'[r] = "revealing" /\ base'[r] = base[r])
    BY <1>d, <1>e, <2>1
  <2>4. UNCHANGED <<msg, at, sent, seed, words>>
    BY <1>b
  <2> QED
    BY <1>0, <1>f, <2>1, <2>2, <2>3, <2>4 DEF TurnInv, AtWork, Consents
<1>4. ConsentInv'
  <2>1. ConsentInv /\ stage \in [Requests -> Stage] /\ base \in [Requests -> ConvState]
        /\ loaded \in [Requests -> Lifecycle]
    BY DEF IInv, TypeOK
  <2>2. base[r].pending \in Offers
    BY <1>0, <1>a
  <2>3. MayReveal(r) => Consented(base[r].pending)
    BY <1>0 DEF MayReveal, Consented
  <2>4. stage[r] = "loaded" /\ loaded[r] = "REVEALED" => Consented(base[r].pending)
    BY <2>1, <2>2 DEF ConsentInv
  <2>5. \A j \in Instances, p \in Offers : cached'[j][p] = "REVEALED" => Consented(p)
    <3>1. \A j \in Instances, p \in Offers : cached[j][p] = "REVEALED" => Consented(p)
      BY <2>1 DEF ConsentInv
    <3>2. cached \in [Instances -> [Offers -> Lifecycle]]
      BY DEF IInv, TypeOK
    <3> QED  BY <1>0, <1>c, <2>2, <2>3, <2>4, <3>1, <3>2
  <2>6. \A q \in Requests : q # r =>
           stage'[q] = stage[q] /\ base'[q] = base[q] /\ loaded'[q] = loaded[q]
    BY <1>b, <2>1
  <2>7. stage'[r] = "failed" \/ (stage'[r] = "revealing" /\ base'[r] = base[r] /\ MayReveal(r))
    BY <1>d, <1>e, <2>1
  <2>8. UNCHANGED <<sent, words, known, stored>>
    BY <1>b
  <2> QED
    BY <2>1, <2>3, <2>5, <2>6, <2>7, <2>8 DEF ConsentInv, Consented
<1>5. (MadeInv /\ HandoffInv)'
  BY <1>b DEF IInv, MadeInv, HandoffInv
<1> QED  BY <1>1, <1>2, <1>3, <1>4, <1>5 DEF IInv

\* The card is shown after Redis keeps the reveal.
LEMMA PersistRevealPreserves ==
    ASSUME IInv, NEW r \in Requests, PersistReveal(r)
    PROVE  IInv'
<1> USE DEF PersistReveal, Compute, Break, recordVars, offerVars, browserVars, messageVars, requestVars
<1>0. /\ at[r] \in Instances /\ msg[r] \in Messages /\ msg[r] \in sent
      /\ base[r] \in ConvState /\ base[r].pending \in Offers \cup {None}
      /\ base[r].accepted \in Offers \cup {None}
      /\ base[r].revision = seed[msg[r]].revision
  BY Fields DEF IInv, TypeOK, TurnInv, AtWork
<1>a. base[r].pending # None
  BY DEF IInv, TurnInv, Consents
<1>1. TypeOK'
  <2>1. /\ base[r] \in ConvState /\ msg[r] \in Messages
        /\ base[r].pending \in Offers \cup {None}
    BY <1>0
  <2>2. \A learnt \in SUBSET {msg[r]} : Shown(r, learnt) \in ConvState
    BY <2>1, TurnTyped DEF Shown
  <2>3. answer' \in [Requests -> ConvState]
    <3>1. answer \in [Requests -> ConvState]
      BY DEF IInv, TypeOK
    <3>2. answer' = answer \/ \E a \in ConvState : answer' = [answer EXCEPT ![r] = a]
      BY <2>2
    <3> HIDE DEF PersistReveal
    <3> QED  BY <3>1, <3>2
  <2>4. /\ base' = base \/ base' = [base EXCEPT ![r] = Fresh]
        /\ kept' = kept \/ kept' = [kept EXCEPT ![r] = NoOutputs]
        /\ loaded' = [loaded EXCEPT ![r] = "ABSENT"]
        /\ stage' = [stage EXCEPT ![r] = "computed"] \/ stage' = [stage EXCEPT ![r] = "failed"]
    OBVIOUS
  <2>5. /\ base' \in [Requests -> ConvState]
        /\ kept' \in [Requests -> [Messages -> ConvState \cup {None}]]
    <3> HIDE DEF PersistReveal
    <3>1. base \in [Requests -> ConvState] /\ kept \in [Requests -> [Messages -> ConvState \cup {None}]]
      BY DEF IInv, TypeOK
    <3>2. base' \in [Requests -> ConvState]
      BY <2>4, <3>1, FreshTyped, Updated
    <3>3. kept' \in [Requests -> [Messages -> ConvState \cup {None}]]
      <4>1. kept' = kept \/ kept' = [kept EXCEPT ![r] = NoOutputs]
        BY <2>4
      <4> QED  BY <3>1, <4>1, NoOutputsTyped, Updated
    <3> QED  BY <3>2, <3>3
  <2>6. /\ loaded' \in [Requests -> Lifecycle]
        /\ stage' \in [Requests -> Stage]
    <3> HIDE DEF PersistReveal
    <3>1. loaded \in [Requests -> Lifecycle] /\ stage \in [Requests -> Stage]
      BY DEF IInv, TypeOK
    <3> QED  BY <2>4, <3>1, Names
  <2>7. stored' \in [Offers -> Persisted]
    BY Names DEF IInv, TypeOK
  <2> QED
    BY <2>3, <2>5, <2>6, <2>7 DEF IInv, TypeOK
<1>2. StatesInv'
  <2>1. ASSUME NEW s \in ConvState, Good(s, sent, seed, stored)
        PROVE  Good(s, sent', seed', stored')
    <3>1. \A p \in Offers : stored[p] \in WasRevealed => stored'[p] \in WasRevealed
      BY DEF IInv, TypeOK
    <3> QED  BY <2>1, <3>1, GoodStays
  <2> DEFINE b == base[r]
             w == msg[r]
  <2>0. /\ b \in ConvState /\ w \in Messages /\ w \in sent
        /\ b.revision = seed[w].revision
        /\ b.pending \in Offers \cup {None} /\ b.accepted \in Offers \cup {None}
        /\ Good(b, sent, seed, stored) /\ seed \in [Messages -> ConvState]
    BY Fields DEF IInv, TypeOK, StatesInv, TurnInv, AtWork
  <2>2. b.pending \in Offers
    BY <2>0 DEF IInv, TurnInv, Consents
  <2>3. Good(b, sent', seed', stored')
    BY <2>0, <2>1
  <2>4. ASSUME NEW learnt \in SUBSET {w}, stored'[b.pending] = "REVEALED"
        PROVE  Good(Shown(r, learnt), sent', seed', stored')
    <3>1. sent' = sent /\ seed' = seed /\ learnt \in SUBSET {w} /\ b.pending \in Offers \cup {None}
      BY <2>2, <2>4
    <3>2. Shown(r, learnt) = Turn(b, w, learnt, None, b.pending, None)
      BY DEF Shown
    <3> HIDE DEF PersistReveal, b, w
    <3>3. Good(Turn(b, w, learnt, None, b.pending, None), sent', seed', stored')
      <4>1. stored'[b.pending] \in {"REVEALED", "FORGOTTEN"}
        BY <2>4
      <4> QED  BY <2>0, <2>2, <2>3, <3>1, <4>1, GoodTurn
    <3> QED  BY <3>2, <3>3
  <2>5. \/ answer' = answer
        \/ /\ stored'[b.pending] = "REVEALED"
           /\ \E learnt \in SUBSET {w} : answer' = [answer EXCEPT ![r] = Shown(r, learnt)]
    BY <2>2 DEF IInv, TypeOK
  <2> HIDE DEF b, w
  <2>6. \A q \in Requests : Good(answer'[q], sent', seed', stored')
    <3> HIDE DEF PersistReveal
    <3>1. \A q \in Requests : answer[q] \in ConvState /\ Good(answer[q], sent', seed', stored')
      BY <2>1 DEF IInv, TypeOK, StatesInv
    <3>2. answer \in [Requests -> ConvState]
      BY DEF IInv, TypeOK
    <3>3. CASE answer' = answer
      BY <3>1, <3>3
    <3>4. CASE answer' # answer
      <4>1. PICK learnt \in SUBSET {w} : /\ stored'[b.pending] = "REVEALED"
                                         /\ answer' = [answer EXCEPT ![r] = Shown(r, learnt)]
        BY <2>5, <3>4
      <4>2. Good(Shown(r, learnt), sent', seed', stored')
        BY <2>4, <4>1
      <4> QED  BY <3>1, <3>2, <4>1, <4>2
    <3> QED  BY <3>3, <3>4
  <2>7. Good(Fresh, sent', seed', stored')
    BY FreshIsGood
  <2>8. \A q \in Requests :
          /\ base'[q] \in {base[q], Fresh}
          /\ \A n \in Messages : kept'[q][n] \in {kept[q][n], None}
    BY DEF IInv, TypeOK, NoOutputs
  <2>9. \A q \in Requests : Good(base'[q], sent', seed', stored')
    BY <2>1, <2>7 DEF IInv, TypeOK, StatesInv
  <2>10. \A q \in Requests, n \in Messages :
            kept'[q][n] # None => Good(kept'[q][n], sent', seed', stored')
    BY <2>1, <2>8 DEF IInv, TypeOK, StatesInv
  <2>11. (/\ Good(held, sent, seed, stored)
          /\ \A n \in Messages : Good(seed[n], sent, seed, stored)
          /\ \A j \in Instances : record[j] # None => Good(record[j], sent, seed, stored)
          /\ \A j \in Instances, n \in Messages :
               outputs[j][n] # None => Good(outputs[j][n], sent, seed, stored))'
    BY <2>1 DEF IInv, TypeOK, StatesInv
  <2> QED
    BY <2>6, <2>9, <2>10, <2>11 DEF StatesInv
<1>3. TurnInv'
  BY DEF IInv, TurnInv, TypeOK, AtWork, Consents
<1>4. ConsentInv'
  <2>1. ConsentInv /\ stage \in [Requests -> Stage] /\ base \in [Requests -> ConvState]
        /\ loaded \in [Requests -> Lifecycle]
    BY DEF IInv, TypeOK
  <2>2. \A q \in Requests : stage'[q] \in {"loaded", "revealing"} =>
           stage'[q] = stage[q] /\ base'[q] = base[q] /\ loaded'[q] = loaded[q]
    BY <2>1
  <2>3. base[r].pending \in Offers /\ Consented(base[r].pending)
    BY <1>0, <1>a, <2>1 DEF ConsentInv
  <2>4. \A p \in Offers : Revealed(p)' => Revealed(p) \/ p = base[r].pending
    BY DEF IInv, TypeOK
  <2>5. UNCHANGED <<sent, words, known, cached>>
    OBVIOUS
  <2> HIDE DEF PersistReveal, Compute, Break
  <2> QED
    BY <2>1, <2>2, <2>3, <2>4, <2>5 DEF ConsentInv, Consented
<1>5. HandoffInv'
  BY DEF IInv, HandoffInv, TypeOK
<1>6. MadeInv'
  BY DEF IInv, MadeInv
<1> QED  BY <1>1, <1>2, <1>3, <1>4, <1>5, <1>6 DEF IInv

\* The instance keeps what it answers.
LEMMA CommitPreserves ==
    ASSUME IInv, NEW r \in Requests, Commit(r)
    PROVE  IInv'
<1> USE DEF Commit, Answers, recordVars, offerVars, browserVars, messageVars, requestVars
<1>0. at[r] \in Instances /\ msg[r] \in Messages
  BY DEF IInv, TypeOK, TurnInv, AtWork
<1>1. TypeOK'
  BY Names DEF IInv, TypeOK, NoOutputs
<1>2. StatesInv'
  <2>1. StatesInv
    BY DEF IInv
  <2>2. /\ record' = [record EXCEPT ![at[r]] = answer[r]]
        /\ outputs' = [outputs EXCEPT ![at[r]] = [kept[r] EXCEPT ![msg[r]] = answer[r]]]
        /\ kept' = [kept EXCEPT ![r] = NoOutputs]
        /\ UNCHANGED <<held, sent, seed, stored, base, answer>>
    OBVIOUS
  <2>3. /\ record \in [Instances -> ConvState \cup {None}]
        /\ outputs \in [Instances -> [Messages -> ConvState \cup {None}]]
        /\ kept \in [Requests -> [Messages -> ConvState \cup {None}]]
    BY DEF IInv, TypeOK
  <2> HIDE DEF Commit, Answers
  <2>4. \A j \in Instances : record'[j] \in {record[j], answer[r]}
    BY <1>0, <2>2, <2>3
  <2>5. \A j \in Instances, n \in Messages :
           outputs'[j][n] \in {outputs[j][n], kept[r][n], answer[r]}
    BY <1>0, <2>2, <2>3
  <2>6. \A q \in Requests, n \in Messages : kept'[q][n] \in {kept[q][n], None}
    BY <2>2, <2>3 DEF NoOutputs
  <2> QED
    BY <2>1, <2>2, <2>4, <2>5, <2>6 DEF StatesInv
<1>3. TurnInv'
  BY DEF IInv, TurnInv, AtWork, Consents
<1>4. ConsentInv'
  BY DEF IInv, ConsentInv, Consented
<1>5. (MadeInv /\ HandoffInv)'
  BY DEF IInv, MadeInv, HandoffInv
<1> QED  BY <1>1, <1>2, <1>3, <1>4, <1>5 DEF IInv

\* Time passes.
LEMMA ExpireOfferPreserves ==
    ASSUME IInv, NEW o \in Offers, ExpireOffer(o)
    PROVE  IInv'
<1> USE DEF ExpireOffer, recordVars, offerVars, browserVars, messageVars, requestVars
<1>1. TypeOK'
  BY DEF IInv, TypeOK
<1>2. (StatesInv /\ TurnInv /\ ConsentInv /\ MadeInv /\ HandoffInv)'
  BY DEF IInv, StatesInv, TurnInv, ConsentInv, MadeInv, HandoffInv, AtWork,
       Consented, Consents
<1> QED  BY <1>1, <1>2 DEF IInv

\* Redis forgets an offer, but not that it was revealed.
LEMMA ForgetOfferPreserves ==
    ASSUME IInv, NEW o \in Offers, ForgetOffer(o)
    PROVE  IInv'
<1> USE DEF ForgetOffer, recordVars, browserVars, messageVars, requestVars
<1>1. TypeOK'
  BY Names DEF IInv, TypeOK
<1>2. \A p \in Offers : stored'[p] \in WasRevealed <=> stored[p] \in WasRevealed
  BY DEF IInv, TypeOK, WasRevealed
<1>3. /\ UNCHANGED <<held, record, outputs, base, kept, answer, sent, seed>>
      /\ UNCHANGED <<cached, loaded, stage, msg, at, words, known, fingerprint, handoffs>>
  OBVIOUS
<1> HIDE DEF ForgetOffer
<1>4. StatesInv'
  <2>1. ASSUME NEW s \in ConvState, Good(s, sent, seed, stored)
        PROVE  Good(s, sent, seed, stored')
    BY <1>2, <2>1, GoodStays
  <2>2. /\ held \in ConvState /\ seed \in [Messages -> ConvState]
        /\ record \in [Instances -> ConvState \cup {None}]
        /\ outputs \in [Instances -> [Messages -> ConvState \cup {None}]]
        /\ base \in [Requests -> ConvState] /\ answer \in [Requests -> ConvState]
        /\ kept \in [Requests -> [Messages -> ConvState \cup {None}]]
        /\ StatesInv
    BY DEF IInv, TypeOK
  <2> QED  BY <1>3, <2>1, <2>2 DEF StatesInv
<1>5. ConsentInv'
  BY <1>2, <1>3 DEF IInv, ConsentInv, Consented, Revealed, WasRevealed
<1>6. HandoffInv'
  BY <1>2, <1>3 DEF IInv, TypeOK, HandoffInv, Revealed, WasRevealed
<1>7. (TurnInv /\ MadeInv)'
  BY <1>3 DEF IInv, TurnInv, MadeInv, AtWork, Consents
<1> QED  BY <1>1, <1>4, <1>5, <1>6, <1>7 DEF IInv

\* A restart forgets.
LEMMA RestartPreserves ==
    ASSUME IInv, NEW i \in Instances, Restart(i)
    PROVE  IInv'
<1> USE DEF Restart, recordVars, offerVars, browserVars, messageVars, requestVars
<1>1. TypeOK'
  BY FreshTyped, Names DEF IInv, TypeOK, NoOutputs
<1>2. StatesInv'
  BY FreshIsGood DEF IInv, StatesInv, NoOutputs
<1>3. TurnInv'
  BY DEF IInv, TurnInv, AtWork, Consents
<1>4. ConsentInv'
  BY DEF IInv, ConsentInv, Consented
<1>5. (MadeInv /\ HandoffInv)'
  BY DEF IInv, MadeInv, HandoffInv
<1> QED  BY <1>1, <1>2, <1>3, <1>4, <1>5 DEF IInv

\* Phase 2 opens for a card that was shown.
LEMMA HandOffPreserves ==
    ASSUME IInv, NEW i \in Instances, HandOff(i)
    PROVE  IInv'
<1> USE DEF HandOff, Registered, recordVars, offerVars, browserVars, messageVars, requestVars
<1>0. held.accepted \in Offers /\ InRedis(held.accepted) \in Lifecycle
  <2>1. held \in ConvState /\ stored \in [Offers -> Persisted]
    BY DEF IInv, TypeOK
  <2> QED  BY <2>1, Fields, Names DEF InRedis, Persisted
<1>a. handoffs' \in {handoffs, handoffs \cup {held.accepted}}
  OBVIOUS
<1>1. TypeOK'
  <2>1. cached' \in [Instances -> [Offers -> Lifecycle]]
    BY <1>0 DEF IInv, TypeOK
  <2>2. handoffs' \in SUBSET Offers
    BY <1>0, <1>a DEF IInv, TypeOK
  <2>3. UNCHANGED <<recordVars, stored, fingerprint, expired, browserVars, messageVars, requestVars>>
    OBVIOUS
  <2> HIDE DEF HandOff
  <2> QED
    BY <2>1, <2>2, <2>3 DEF IInv, TypeOK
<1>2. ConsentInv'
  <2>1. ConsentInv /\ cached \in [Instances -> [Offers -> Lifecycle]]
    BY DEF IInv, TypeOK
  <2>2. \A j \in Instances, p \in Offers :
           cached'[j][p] = "REVEALED" => cached[j][p] = "REVEALED" \/ Revealed(p)
    BY <1>0, <2>1 DEF InRedis
  <2>3. UNCHANGED <<stored, base, stage, loaded, sent, words, known>>
    OBVIOUS
  <2> HIDE DEF HandOff
  <2> QED  BY <2>1, <2>2, <2>3 DEF ConsentInv, Consented
<1>3. HandoffInv'
  <2>1. Revealed(held.accepted) /\ stored' = stored
    <3>1. Good(held, sent, seed, stored) /\ held.accepted # None
      BY DEF IInv, StatesInv
    <3> QED  BY <3>1 DEF Good
  <2> HIDE DEF HandOff
  <2> QED
    BY <1>a, <2>1 DEF IInv, HandoffInv
<1>4. (StatesInv /\ TurnInv /\ MadeInv)'
  BY DEF IInv, StatesInv, TurnInv, MadeInv, AtWork, Consents
<1> QED  BY <1>1, <1>2, <1>3, <1>4 DEF IInv

\* The invariant is inductive.
LEMMA NextPreserves == IInv /\ [Next]_vars => IInv'
<1> SUFFICES ASSUME IInv, [Next]_vars PROVE IInv'
  OBVIOUS
<1>1. CASE UNCHANGED vars
  BY <1>1 DEF vars, recordVars, offerVars, browserVars, messageVars,
       requestVars, IInv, TypeOK, StatesInv, TurnInv, ConsentInv, MadeInv,
       HandoffInv, AtWork, Consented, Consents
<1>2. ASSUME NEW m \in Messages, NEW w \in {"talk", "show", "accept"}, Send(m, w) PROVE IInv'
  BY <1>2, SendPreserves
<1>3. ASSUME NEW r \in Requests, LoseAnswer(r) PROVE IInv'
  BY <1>3, LoseAnswerPreserves
<1>4. ASSUME NEW r \in Requests, Receive(r) PROVE IInv'
  BY <1>4, ReceivePreserves
<1>5. CASE GiveUp
  BY <1>5, GiveUpPreserves
<1>6. ASSUME NEW r \in Requests, NEW n \in Messages, NEW i \in Instances, Arrive(r, n, i) PROVE IInv'
  BY <1>6, ArrivePreserves
<1>7. ASSUME NEW r \in Requests, Talk(r) PROVE IInv'
  BY <1>7, TalkPreserves
<1>8. ASSUME NEW r \in Requests, DecisionChanged(r) PROVE IInv'
  BY <1>8, DecisionChangedPreserves
<1>9. ASSUME NEW r \in Requests, NEW o \in Offers, MakeOffer(r, o) PROVE IInv'
  BY <1>9, MakeOfferPreserves
<1>10. ASSUME NEW r \in Requests, LoadOffer(r) PROVE IInv'
  BY <1>10, LoadOfferPreserves
<1>11. ASSUME NEW r \in Requests, Reveal(r) PROVE IInv'
  BY <1>11, RevealPreserves
<1>12. ASSUME NEW r \in Requests, PersistReveal(r) PROVE IInv'
  BY <1>12, PersistRevealPreserves
<1>13. ASSUME NEW r \in Requests, Commit(r) PROVE IInv'
  BY <1>13, CommitPreserves
<1>14. ASSUME NEW o \in Offers, ExpireOffer(o) PROVE IInv'
  BY <1>14, ExpireOfferPreserves
<1>17. ASSUME NEW o \in Offers, ForgetOffer(o) PROVE IInv'
  BY <1>17, ForgetOfferPreserves
<1>15. ASSUME NEW i \in Instances, Restart(i) PROVE IInv'
  BY <1>15, RestartPreserves
<1>16. ASSUME NEW i \in Instances, HandOff(i) PROVE IInv'
  BY <1>16, HandOffPreserves
<1> QED
  BY <1>1, <1>2, <1>3, <1>4, <1>5, <1>6, <1>7, <1>8, <1>9, <1>10, <1>11, <1>12, <1>13, <1>14, <1>15, <1>16,
     <1>17 DEF Next, RequestStep

\* The inductive invariant holds in every reachable state.
THEOREM Invariance == Spec => []IInv
BY InitEstablishes, NextPreserves, PTL DEF Spec

\* Every variable keeps the values its place in memory, Redis or the browser has.
THEOREM TypeCorrect == Spec => []TypeOK
BY Invariance, PTL DEF IInv

\* A state counts each of its messages once.
THEOREM CountedOnce == Spec => []AppliedOnce
<1>1. ASSUME IInv PROVE AppliedOnce
  BY <1>1 DEF IInv, StatesInv, Good, States, AppliedOnce
<1>2. IInv => AppliedOnce
  BY <1>1
<1> QED  BY <1>2, Invariance, PTL

\* Cards are shown, and phase 2 opened, for revealed offers only.
THEOREM CardsNeedReveal == Spec => []CardsAreRevealed
<1>1. ASSUME IInv PROVE CardsAreRevealed
  BY <1>1 DEF IInv, StatesInv, HandoffInv, Good, States, CardsAreRevealed
<1>2. IInv => CardsAreRevealed
  BY <1>1
<1> QED  BY <1>2, Invariance, PTL

\* No offer is revealed without the buyer's acceptance.
THEOREM RevealNeedsConsent == Spec => []RevealIsConsented
<1>1. ASSUME IInv PROVE RevealIsConsented
  BY <1>1 DEF IInv, ConsentInv, Consented, RevealIsConsented
<1>2. IInv => RevealIsConsented
  BY <1>1
<1> QED  BY <1>2, Invariance, PTL

\* A message that is being worked on is not in the state it is worked on with,
\* which is why the second look for it, in processedMessages, may be left out.
NeverCountedYet ==
    \A r \in Requests :
        stage[r] \in {"running", "loaded", "revealing"} => msg[r] \notin base[r].applied

\* The second look for a repeated message never finds one.
THEOREM NeverRepeated == Spec => []NeverCountedYet
<1>1. ASSUME IInv PROVE NeverCountedYet
  <2> SUFFICES ASSUME NEW r \in Requests, stage[r] \in {"running", "loaded", "revealing"}
               PROVE  msg[r] \notin base[r].applied
    BY DEF NeverCountedYet
  <2>1. base[r].revision = seed[msg[r]].revision /\ base[r].revision \in Nat
    BY <1>1, Fields DEF IInv, TypeOK, TurnInv
  <2>2. \A m \in base[r].applied : seed[m].revision < base[r].revision
    BY <1>1 DEF IInv, StatesInv, Good
  <2> QED  BY <2>1, <2>2
<1>2. IInv => NeverCountedYet
  BY <1>1
<1> QED  BY <1>2, Invariance, PTL
-----------------------------------------------------------------------------
(* A request at work, and the offers its answer shows.                     *)

\* The offer whose button an answer shows was made for the answer's preferences.
Backed(s, prints) ==
    s.offered # None => s.pending = s.offered /\ prints[s.offered] = s.ledger

\* What a turn answers: the message applied to the state it started from, which
\* shows other cards only if they are those of the offer that state awaited; then
\* it has learnt from this message or not at all.
TurnOf(a, s, m) ==
    /\ a.revision = s.revision + 1
    /\ a.applied = s.applied \cup {m}
    /\ a.accepted = s.accepted \/ (a.accepted = s.pending /\ a.ledger \ {m} = s.ledger)

\* An offer once made stays made for the same preferences.
PrintsStay == \A o \in Offers : fingerprint[o] # None => fingerprint'[o] = fingerprint[o]

\* A request that loads, reveals, breaks or computes touches no other one, no
\* instance's record and nothing of the browser.
Works(r) ==
    /\ stage[r] \in {"running", "loaded", "revealing"}
    /\ UNCHANGED <<record, outputs, held, waiting, sent, seed, words, known, msg, at>>
    /\ PrintsStay
    /\ \/ /\ stage' = [stage EXCEPT ![r] = "failed"]
          /\ base' = [base EXCEPT ![r] = Fresh]
          /\ kept' = [kept EXCEPT ![r] = NoOutputs]
          /\ UNCHANGED answer
       \/ /\ stage' \in {[stage EXCEPT ![r] = "loaded"], [stage EXCEPT ![r] = "revealing"]}
          /\ UNCHANGED <<base, kept, answer>>
       \/ /\ stage' = [stage EXCEPT ![r] = "computed"]
          /\ UNCHANGED <<base, kept>>
          /\ \E a \in ConvState :
                /\ answer' = [answer EXCEPT ![r] = a]
                /\ TurnOf(a, base[r], msg[r])
                /\ Backed(a, fingerprint')

LEMMA BreakWorks ==
    ASSUME NEW r \in Requests, stage[r] \in {"running", "loaded", "revealing"}, Break(r), PrintsStay
    PROVE  Works(r)
BY DEF Works, Break, recordVars, browserVars, messageVars

LEMMA ComputeWorks ==
    ASSUME NEW r \in Requests, stage[r] \in {"running", "loaded", "revealing"}, PrintsStay,
           NEW a \in ConvState, Compute(r, a), TurnOf(a, base[r], msg[r]), Backed(a, fingerprint')
    PROVE  Works(r)
BY DEF Works, Compute, recordVars, browserVars, messageVars

LEMMA TalkWorks ==
    ASSUME IInv, NEW r \in Requests, Talk(r) PROVE Works(r)
<1>1. base[r] \in ConvState /\ msg[r] \in Messages
  BY DEF IInv, TypeOK, TurnInv, AtWork, Talk
<1>2. PICK learnt \in SUBSET {msg[r]}, pending \in {None, base[r].pending} :
         Compute(r, Turn(base[r], msg[r], learnt, pending, base[r].accepted, None))
  BY DEF Talk
<1> DEFINE a == Turn(base[r], msg[r], learnt, pending, base[r].accepted, None)
<1>3. a \in ConvState
  BY <1>1, Fields, TurnTyped
<1>4. TurnOf(a, base[r], msg[r]) /\ Backed(a, fingerprint')
  BY DEF TurnOf, Backed, Turn
<1>5. stage[r] = "running" /\ PrintsStay
  BY DEF Talk, PrintsStay, offerVars
<1> QED  BY <1>2, <1>3, <1>4, <1>5, ComputeWorks

LEMMA MakeOfferWorks ==
    ASSUME IInv, NEW r \in Requests, NEW o \in Offers, MakeOffer(r, o) PROVE Works(r)
<1>1. base[r] \in ConvState /\ msg[r] \in Messages /\ stage[r] = "running"
  BY DEF IInv, TypeOK, TurnInv, AtWork, MakeOffer
<1>2. fingerprint \in [Offers -> (SUBSET Messages) \cup {None, Metric}] /\ fingerprint[o] = None
  BY DEF IInv, TypeOK, MakeOffer
<1>3. PICK learnt \in SUBSET {msg[r]}, offered \in {o, None} :
         LET next == Turn(base[r], msg[r], learnt, o, base[r].accepted, offered) IN
         /\ fingerprint' = [fingerprint EXCEPT ![o] = IF offered = None THEN Metric ELSE next.ledger]
         /\ Compute(r, next) \/ Break(r)
  <2> USE DEF MakeOffer, Fingerprint
  <2> QED  BY Zenon
<1> DEFINE a == Turn(base[r], msg[r], learnt, o, base[r].accepted, offered)
<1>4. a \in ConvState
  BY <1>1, Fields, TurnTyped
<1>5. PrintsStay
  BY <1>2, <1>3 DEF PrintsStay
<1>6. TurnOf(a, base[r], msg[r]) /\ Backed(a, fingerprint')
  <2>1. a.offered = offered /\ a.pending = o
    BY DEF Turn
  <2>2. a.offered # None => fingerprint'[o] = a.ledger
    BY <1>2, <1>3, <2>1
  <2>3. TurnOf(a, base[r], msg[r])
    BY DEF TurnOf, Turn
  <2> HIDE DEF a
  <2> QED  BY <2>1, <2>2, <2>3 DEF Backed
<1> QED  BY <1>1, <1>3, <1>4, <1>5, <1>6, BreakWorks, ComputeWorks

LEMMA PersistRevealWorks ==
    ASSUME IInv, NEW r \in Requests, PersistReveal(r) PROVE Works(r)
<1>1. base[r] \in ConvState /\ msg[r] \in Messages /\ stage[r] = "revealing"
  BY DEF IInv, TypeOK, TurnInv, AtWork, PersistReveal
<1>2. ASSUME NEW learnt \in SUBSET {msg[r]}
      PROVE  /\ Shown(r, learnt) \in ConvState
             /\ TurnOf(Shown(r, learnt), base[r], msg[r]) /\ Backed(Shown(r, learnt), fingerprint')
  <2>1. Shown(r, learnt) \in ConvState
    BY <1>1, Fields, TurnTyped DEF Shown
  <2>2. msg[r] \notin base[r].ledger
    <3>1. Good(base[r], sent, seed, stored) /\ base[r].revision = seed[msg[r]].revision
      BY <1>1 DEF IInv, StatesInv, TurnInv
    <3> QED  BY <1>1, <3>1, Fields DEF Good
  <2>3. (base[r].ledger \cup learnt) \ {msg[r]} = base[r].ledger
    BY <2>2
  <2> QED  BY <2>1, <2>3 DEF TurnOf, Backed, Shown, Turn
<1>3. PrintsStay
  BY DEF PersistReveal, PrintsStay
<1>4. CASE Break(r)
  BY <1>1, <1>3, <1>4, BreakWorks
<1>5. CASE \E learnt \in SUBSET {msg[r]} : Compute(r, Shown(r, learnt))
  <2>1. PICK learnt \in SUBSET {msg[r]} : Compute(r, Shown(r, learnt))
    BY <1>5
  <2> QED  BY <1>1, <1>2, <1>3, <2>1, ComputeWorks
<1> QED  BY <1>4, <1>5 DEF PersistReveal

LEMMA RevealWorks ==
    ASSUME IInv, NEW r \in Requests, LoadOffer(r) \/ Reveal(r) \/ DecisionChanged(r)
    PROVE  Works(r)
<1>1. CASE LoadOffer(r)
  BY <1>1 DEF LoadOffer, Works, PrintsStay, recordVars, offerVars, browserVars, messageVars
<1>2. CASE Reveal(r)
  <2>1. stage[r] \in {"running", "loaded"} /\ PrintsStay
    BY <1>2 DEF Reveal, PrintsStay
  <2>2. CASE Break(r)
    BY <2>1, <2>2, BreakWorks
  <2>3. CASE ~Break(r)
    BY <1>2, <2>1, <2>3 DEF Reveal, Works, recordVars, browserVars, messageVars
  <2> QED  BY <2>2, <2>3
<1>3. CASE DecisionChanged(r)
  <2>1. stage[r] = "running" /\ PrintsStay /\ Break(r)
    BY <1>3 DEF DecisionChanged, PrintsStay, offerVars
  <2> QED  BY <2>1, BreakWorks
<1> QED  BY <1>1, <1>2, <1>3

\* The steps of a request between its arrival and its commit.
AtWorkStep(r) ==
    Talk(r) \/ DecisionChanged(r) \/ (\E o \in Offers : MakeOffer(r, o))
    \/ LoadOffer(r) \/ Reveal(r) \/ PersistReveal(r)

LEMMA AllWork == ASSUME IInv, NEW r \in Requests, AtWorkStep(r) PROVE Works(r)
BY TalkWorks, MakeOfferWorks, PersistRevealWorks, RevealWorks DEF AtWorkStep

\* Every answer in memory or under way is backed; the button is only clicked
\* where it is shown.
OfferInv ==
    /\ Backed(held, fingerprint)
    /\ \A m \in Messages :
          /\ Backed(seed[m], fingerprint)
          /\ words[m] = "accept" => seed[m].offered # None
    /\ \A i \in Instances, m \in Messages :
          outputs[i][m] # None => Backed(outputs[i][m], fingerprint)
    /\ \A r \in Requests :
          /\ Backed(answer[r], fingerprint)
          /\ \A m \in Messages : kept[r][m] # None => Backed(kept[r][m], fingerprint)

LEMMA BackedStays ==
    ASSUME NEW s \in ConvState, Backed(s, fingerprint), PrintsStay
    PROVE  Backed(s, fingerprint')
<1>1. s.ledger # None /\ (s.offered # None => s.offered \in Offers)
  BY Fields, NoneIsNew
<1> QED  BY <1>1 DEF Backed, PrintsStay

LEMMA NoButton ==
    /\ Backed(Fresh, fingerprint')
    /\ \A s \in ConvState : Backed([s EXCEPT !.offered = None], fingerprint')
BY DEF Backed, Fresh, ConvState

LEMMA OfferPreserves == IInv /\ OfferInv /\ [Next]_vars => OfferInv'
<1> SUFFICES ASSUME IInv, OfferInv, [Next]_vars PROVE OfferInv'
  OBVIOUS
<1>1. /\ held \in ConvState /\ \A m \in Messages : seed[m] \in ConvState
      /\ \A i \in Instances, m \in Messages : outputs[i][m] \in ConvState \cup {None}
      /\ \A r \in Requests : answer[r] \in ConvState
      /\ \A r \in Requests, m \in Messages : kept[r][m] \in ConvState \cup {None}
  BY DEF IInv, TypeOK
<1>2. ASSUME PrintsStay
      PROVE  /\ Backed(held, fingerprint')
             /\ \A m \in Messages : Backed(seed[m], fingerprint')
             /\ \A i \in Instances, m \in Messages :
                   outputs[i][m] # None => Backed(outputs[i][m], fingerprint')
             /\ \A r \in Requests :
                   /\ Backed(answer[r], fingerprint')
                   /\ \A m \in Messages : kept[r][m] # None => Backed(kept[r][m], fingerprint')
  BY <1>1, <1>2, BackedStays DEF OfferInv
<1>3. ASSUME NEW r \in Requests, AtWorkStep(r) PROVE OfferInv'
  <2>1. Works(r)
    BY <1>3, AllWork
  <2>2. ASSUME NEW q \in Requests PROVE Backed(answer'[q], fingerprint')
    <3>1. answer'[q] = answer[q] \/ Backed(answer'[q], fingerprint')
      BY <2>1 DEF Works, IInv, TypeOK
    <3> QED  BY <1>2, <2>1, <3>1 DEF Works
  <2>3. \A q \in Requests, m \in Messages : kept'[q][m] \in {kept[q][m], None}
    <3>1. kept' = kept \/ kept' = [kept EXCEPT ![r] = NoOutputs]
      BY <2>1 DEF Works
    <3>2. kept \in [Requests -> [Messages -> ConvState \cup {None}]]
      BY DEF IInv, TypeOK
    <3> QED  BY <3>1, <3>2 DEF NoOutputs
  <2> QED  BY <1>2, <2>1, <2>2, <2>3 DEF Works, OfferInv
<1>4. ASSUME NEW m \in Messages, NEW w \in {"talk", "show", "accept"}, Send(m, w) PROVE OfferInv'
  <2>1. PrintsStay
    BY <1>4 DEF Send, offerVars, PrintsStay
  <2>2. \A n \in Messages : /\ Backed(seed'[n], fingerprint')
                            /\ words'[n] = "accept" => seed'[n].offered # None
    BY <1>2, <1>4, <2>1 DEF Send, IInv, TypeOK, OfferInv
  <2> QED  BY <1>2, <1>4, <2>1, <2>2 DEF Send, recordVars, requestVars, OfferInv
<1>5. ASSUME NEW r \in Requests, LoseAnswer(r) \/ Receive(r) PROVE OfferInv'
  <2>1. PrintsStay
    BY <1>5 DEF LoseAnswer, Receive, EndWait, End, offerVars, PrintsStay
  <2>2. Backed(held', fingerprint')
    BY <1>1, <1>2, <1>5, <2>1, NoButton DEF LoseAnswer, Receive, browserVars
  <2>3. \A q \in Requests : answer'[q] \in {answer[q], Fresh}
    BY <1>5 DEF LoseAnswer, Receive, EndWait, End
  <2> QED
    BY <1>2, <1>5, <2>1, <2>2, <2>3, NoButton
       DEF LoseAnswer, Receive, EndWait, End, recordVars, messageVars, OfferInv
<1>6. CASE GiveUp
  <2>1. PrintsStay
    BY <1>6 DEF GiveUp, EndWait, End, offerVars, PrintsStay
  <2>2. Backed(held', fingerprint')
    BY <1>1, <1>2, <1>6, <2>1, NoButton DEF GiveUp
  <2>3. \A q \in Requests : answer'[q] \in {answer[q], Fresh}
    BY <1>6 DEF GiveUp, EndWait, End
  <2> QED
    BY <1>2, <1>6, <2>1, <2>2, <2>3, NoButton
       DEF GiveUp, EndWait, End, recordVars, messageVars, OfferInv
<1>7. ASSUME NEW r \in Requests, NEW m \in Messages, NEW i \in Instances, Arrive(r, m, i)
      PROVE  OfferInv'
  <2>1. PrintsStay
    BY <1>7 DEF Arrive, ReadRecord, offerVars, PrintsStay
  <2>2. \A q \in Requests : answer'[q] = answer[q] \/ (answer'[q] = outputs[i][m] /\ outputs[i][m] # None)
    BY <1>7 DEF Arrive, ReadRecord, IInv, TypeOK
  <2>3. \A q \in Requests, n \in Messages : kept'[q][n] \in {kept[q][n], outputs[i][n]}
    BY <1>7 DEF Arrive, ReadRecord, IInv, TypeOK
  <2> QED
    BY <1>2, <1>7, <2>1, <2>2, <2>3
       DEF Arrive, ReadRecord, recordVars, browserVars, messageVars, OfferInv
<1>8. ASSUME NEW r \in Requests, Commit(r) PROVE OfferInv'
  <2>1. PrintsStay
    BY <1>8 DEF Commit, offerVars, PrintsStay
  <2>2. \A j \in Instances, n \in Messages :
           outputs'[j][n] \in {outputs[j][n], kept[r][n], answer[r]}
    BY <1>8 DEF Commit, Answers, IInv, TypeOK
  <2>3. \A q \in Requests, n \in Messages : kept'[q][n] \in {kept[q][n], None}
    BY <1>8 DEF Commit, NoOutputs, IInv, TypeOK
  <2> QED
    BY <1>2, <1>8, <2>1, <2>2, <2>3 DEF Commit, browserVars, messageVars, OfferInv
<1>9. ASSUME NEW i \in Instances, Restart(i) PROVE OfferInv'
  <2>1. PrintsStay
    BY <1>9 DEF Restart, PrintsStay
  <2>2. \A j \in Instances, n \in Messages : outputs'[j][n] \in {outputs[j][n], None}
    BY <1>9 DEF Restart, NoOutputs, IInv, TypeOK
  <2>3. \A q \in Requests : /\ answer'[q] \in {answer[q], Fresh}
                            /\ \A n \in Messages : kept'[q][n] \in {kept[q][n], None}
    BY <1>9 DEF Restart, NoOutputs
  <2> QED
    BY <1>2, <1>9, <2>1, <2>2, <2>3, NoButton DEF Restart, browserVars, messageVars, OfferInv
<1>10. ASSUME (\E o \in Offers : ExpireOffer(o) \/ ForgetOffer(o)) \/ (\E i \in Instances : HandOff(i)) \/ UNCHANGED vars
       PROVE  OfferInv'
  <2>1. UNCHANGED <<fingerprint, recordVars, browserVars, messageVars, requestVars>>
    BY <1>10 DEF ExpireOffer, ForgetOffer, HandOff, vars, offerVars
  <2> QED
    BY <2>1 DEF recordVars, browserVars, messageVars, requestVars, OfferInv
<1> QED
  BY <1>3, <1>4, <1>5, <1>6, <1>7, <1>8, <1>9, <1>10 DEF Next, RequestStep, AtWorkStep

-----------------------------------------------------------------------------
(* A browser that waits, on one instance.                                  *)

\* The same state, but for the button shown with it.
Same(s, t) ==
    /\ s.revision = t.revision /\ s.applied = t.applied /\ s.ledger = t.ledger
    /\ s.pending = t.pending /\ s.accepted = t.accepted

\* What an instance knows and the browser does not: answers that were lost.
Ahead(s, t) == t.revision < s.revision /\ t.applied \subseteq s.applied

\* The answer to a message, computed on the state the message was sent with.
AnswerTo(m, a, seeds, said, prints) ==
    /\ a.revision = seeds[m].revision + 1
    /\ a.applied = seeds[m].applied \cup {m}
    /\ said[m] = "accept" /\ a.accepted # seeds[m].accepted =>
          /\ a.accepted \in Offers
          /\ a.accepted = seeds[m].pending
          /\ prints[a.accepted] = a.ledger \ {m}

Active(r) == stage[r] \notin {"idle", "over"}

\* One message and one request at a time.
OneTurn ==
    /\ waiting # None => waiting \in sent /\ seed[waiting] = held
    /\ \A r \in Requests : Active(r) => waiting # None /\ msg[r] = waiting
    /\ \A q, r \in Requests : Active(q) /\ Active(r) => q = r

\* The instance's memory is the browser's, or ahead of it.
RecordInv(i) ==
    /\ record[i] # None => Same(record[i], held) \/ Ahead(record[i], held)
    /\ waiting # None /\ outputs[i][waiting] # None => record[i] = outputs[i][waiting]
    /\ \A m \in Messages : outputs[i][m] # None =>
          m \in sent /\ AnswerTo(m, outputs[i][m], seed, words, fingerprint)

\* A request works on what the browser sent, and answers that.
RequestInv(i) ==
    \A r \in Requests :
        /\ Active(r) => at[r] = i
        /\ AtWork(r) => Same(base[r], seed[msg[r]])
        /\ AtWork(r) => \A m \in Messages : kept[r][m] # None =>
              m \in sent /\ AnswerTo(m, kept[r][m], seed, words, fingerprint)
        /\ stage[r] \in {"computed", "answered"} =>
              AnswerTo(msg[r], answer[r], seed, words, fingerprint)
        /\ stage[r] = "answered" => record[i] \in {None, answer[r]}

SoloInv(i) == OneTurn /\ RecordInv(i) /\ RequestInv(i)

\* The conversation stays on one of the instances.
StaysOn(i) == \A r \in Requests : at[r] \in Instances => at[r] = i

LEMMA AnswerStays ==
    ASSUME NEW m \in Messages, NEW a \in ConvState, PrintsStay,
           AnswerTo(m, a, seed, words, fingerprint),
           seed'[m] = seed[m], words'[m] = words[m]
    PROVE  AnswerTo(m, a, seed', words', fingerprint')
<1>1. a.ledger \ {m} # None
  <2>1. a.ledger \ {m} \in SUBSET Messages
    BY Fields
  <2> QED  BY <2>1, NoneIsNew
<1> QED  BY <1>1 DEF AnswerTo, PrintsStay

\* A turn on the browser's state answers its message.
LEMMA TurnAnswers ==
    ASSUME NEW m \in Messages, NEW a \in ConvState, NEW s \in ConvState, seed[m] \in ConvState,
           OfferInv, Same(s, seed[m]), TurnOf(a, s, m)
    PROVE  AnswerTo(m, a, seed, words, fingerprint)
<1>1. ASSUME words[m] = "accept", a.accepted # seed[m].accepted
      PROVE  /\ a.accepted \in Offers
             /\ a.accepted = seed[m].pending
             /\ fingerprint[a.accepted] = a.ledger \ {m}
  <2>1. a.accepted = seed[m].pending /\ a.ledger \ {m} = seed[m].ledger
    BY <1>1 DEF TurnOf, Same
  <2>2. seed[m].offered \in Offers /\ Backed(seed[m], fingerprint) /\ seed[m].offered # None
    BY <1>1, Fields DEF OfferInv
  <2> QED  BY <2>1, <2>2 DEF Backed
<1> QED  BY <1>1 DEF AnswerTo, TurnOf, Same

LEMMA ButtonAside ==
    \A s \in ConvState : Same([s EXCEPT !.offered = None], s)
BY DEF Same, ConvState

LEMMA SoloInit == ASSUME NEW i \in Instances, Init PROVE SoloInv(i)
BY DEF Init, SoloInv, OneTurn, RecordInv, RequestInv, Active, AtWork, NoOutputs

\* A request at work keeps to its message.
LEMMA SoloWorks ==
    ASSUME NEW i \in Instances, NEW r \in Requests,
           IInv, OfferInv, SoloInv(i), Works(r)
    PROVE  SoloInv(i)'
<1>1. /\ stage \in [Requests -> Stage]
      /\ base \in [Requests -> ConvState] /\ answer \in [Requests -> ConvState]
      /\ kept \in [Requests -> [Messages -> ConvState \cup {None}]]
      /\ outputs \in [Instances -> [Messages -> ConvState \cup {None}]]
      /\ seed \in [Messages -> ConvState]
      /\ msg[r] \in Messages
  BY DEF IInv, TypeOK, TurnInv, AtWork, Works
<1>2. /\ UNCHANGED <<record, outputs, held, waiting, sent, seed, words, msg, at>>
      /\ PrintsStay
      /\ stage[r] \in {"running", "loaded", "revealing"}
      /\ \A q \in Requests \ {r} : /\ stage'[q] = stage[q] /\ base'[q] = base[q]
                                   /\ kept'[q] = kept[q] /\ answer'[q] = answer[q]
      /\ stage'[r] \in {"failed", "loaded", "revealing", "computed"}
      /\ kept'[r] = kept[r] \/ kept'[r] = NoOutputs
      /\ stage'[r] # "failed" => base'[r] = base[r]
  BY <1>1 DEF Works
<1>3. stage'[r] = "computed" => AnswerTo(msg[r], answer'[r], seed, words, fingerprint)
  <2>1. ASSUME stage'[r] = "computed"
        PROVE  answer'[r] \in ConvState /\ TurnOf(answer'[r], base[r], msg[r])
    BY <1>1, <2>1 DEF Works
  <2>2. Same(base[r], seed[msg[r]])
    BY <1>2 DEF SoloInv, RequestInv, AtWork
  <2> QED  BY <1>1, <2>1, <2>2, TurnAnswers
<1>4. OneTurn'
  BY <1>2 DEF SoloInv, OneTurn, Active
<1>5. RecordInv(i)'
  BY <1>1, <1>2, AnswerStays DEF SoloInv, RecordInv
<1>6. ASSUME NEW q \in Requests PROVE
        /\ Active(q)' => at'[q] = i
        /\ AtWork(q)' => Same(base'[q], seed'[msg'[q]])
        /\ stage'[q] = "answered" => record'[i] \in {None, answer'[q]}
  BY <1>2 DEF SoloInv, RequestInv, Active, AtWork
<1>7. ASSUME NEW q \in Requests, AtWork(q)', NEW m \in Messages, kept'[q][m] # None
      PROVE  m \in sent' /\ AnswerTo(m, kept'[q][m], seed', words', fingerprint')
  <2>1. kept'[q][m] = kept[q][m] /\ AtWork(q)
    BY <1>2, <1>7 DEF AtWork, NoOutputs
  <2>2. m \in sent /\ AnswerTo(m, kept[q][m], seed, words, fingerprint) /\ kept[q][m] \in ConvState
    BY <1>1, <1>7, <2>1 DEF SoloInv, RequestInv
  <2> QED  BY <1>2, <2>1, <2>2, AnswerStays
<1>8. ASSUME NEW q \in Requests, stage'[q] \in {"computed", "answered"}
      PROVE  AnswerTo(msg'[q], answer'[q], seed', words', fingerprint')
  <2>1. AnswerTo(msg[q], answer'[q], seed, words, fingerprint)
    BY <1>2, <1>3, <1>8 DEF SoloInv, RequestInv
  <2>2. answer'[q] \in ConvState
    BY <1>1, <1>2, <1>8 DEF Works
  <2>3. msg[q] \in Messages
    BY <1>1, <1>2, <1>8 DEF SoloInv, OneTurn, Active
  <2> QED  BY <1>2, <2>1, <2>2, <2>3, AnswerStays
<1> QED  BY <1>4, <1>5, <1>6, <1>7, <1>8 DEF SoloInv, RequestInv

\* The browser sends: nothing is at work.
LEMMA SoloSend ==
    ASSUME NEW i \in Instances, NEW m \in Messages, NEW w \in {"talk", "show", "accept"},
           IInv, SoloInv(i), Send(m, w)
    PROVE  SoloInv(i)'
<1>1. /\ seed \in [Messages -> ConvState] /\ words \in [Messages -> {"talk", "show", "accept"}]
      /\ outputs \in [Instances -> [Messages -> ConvState \cup {None}]]
  BY DEF IInv, TypeOK
<1>2. /\ waiting = None /\ m \notin sent /\ sent' = sent \cup {m} /\ waiting' = m
      /\ seed' = [seed EXCEPT ![m] = held] /\ words' = [words EXCEPT ![m] = w]
      /\ UNCHANGED <<record, outputs, fingerprint, held, stage, at, msg, base, kept, answer>>
  BY DEF Send, recordVars, offerVars, requestVars
<1>3. \A r \in Requests : ~Active(r)
  BY <1>2 DEF SoloInv, OneTurn
<1>4. PrintsStay
  BY <1>2 DEF PrintsStay
<1>5. OneTurn'
  BY <1>1, <1>2, <1>3 DEF OneTurn, Active
<1>6. RecordInv(i)'
  <2>1. ASSUME NEW n \in Messages, outputs[i][n] # None
        PROVE  n \in sent /\ n # m /\ AnswerTo(n, outputs[i][n], seed', words', fingerprint')
    <3>1. n \in sent /\ AnswerTo(n, outputs[i][n], seed, words, fingerprint) /\ outputs[i][n] \in ConvState
      BY <1>1, <2>1 DEF SoloInv, RecordInv
    <3>2. seed'[n] = seed[n] /\ words'[n] = words[n]
      BY <1>1, <1>2, <3>1
    <3> QED  BY <1>2, <1>4, <3>1, <3>2, AnswerStays
  <2> QED  BY <1>2, <2>1 DEF SoloInv, RecordInv
<1>7. RequestInv(i)'
  BY <1>2, <1>3 DEF RequestInv, Active, AtWork
<1> QED  BY <1>5, <1>6, <1>7 DEF SoloInv

\* Requests end, and the browser keeps its state.
LEMMA SoloEnds ==
    ASSUME NEW i \in Instances, IInv, SoloInv(i),
           UNCHANGED <<record, outputs, fingerprint, sent, seed, words, msg, at, kept>>,
           \A r \in Requests : /\ stage'[r] \in {stage[r], "over"}
                               /\ stage'[r] # "over" => base'[r] = base[r] /\ answer'[r] = answer[r],
           \/ UNCHANGED <<held, waiting>>
           \/ /\ waiting' = None
              /\ \A r \in Requests : ~Active(r)'
              /\ record[i] # None => Same(record[i], held') \/ Ahead(record[i], held')
    PROVE  SoloInv(i)'
<1>1. OneTurn'
  BY DEF SoloInv, OneTurn, Active
<1>2. RecordInv(i)'
  BY DEF SoloInv, RecordInv
<1>3. RequestInv(i)'
  BY DEF SoloInv, RequestInv, Active, AtWork
<1> QED  BY <1>1, <1>2, <1>3 DEF SoloInv

LEMMA SoloLoses ==
    ASSUME NEW i \in Instances, NEW r \in Requests, IInv, SoloInv(i), LoseAnswer(r)
    PROVE  SoloInv(i)'
BY SoloEnds DEF LoseAnswer, End, recordVars, offerVars, messageVars, browserVars

LEMMA SoloReceives ==
    ASSUME NEW i \in Instances, NEW r \in Requests, IInv, SoloInv(i), Receive(r)
    PROVE  SoloInv(i)'
<1>1. /\ UNCHANGED <<record, outputs, fingerprint, sent, seed, words, msg, at, kept>>
      /\ \A q \in Requests : /\ stage'[q] \in {stage[q], "over"}
                             /\ stage'[q] # "over" => base'[q] = base[q] /\ answer'[q] = answer[q]
      /\ waiting' = None
      /\ stage'[r] = "over" /\ Active(r)
  BY DEF Receive, EndWait, End, Finished, Active, recordVars, offerVars, messageVars
<1>2. \A q \in Requests : ~Active(q)'
  BY <1>1 DEF SoloInv, OneTurn, Active
<1>3. held \in ConvState
  BY DEF IInv, TypeOK
<1>4. record[i] # None => Same(record[i], held') \/ Ahead(record[i], held')
  <2>1. CASE stage[r] = "answered"
    BY <2>1 DEF Receive, SoloInv, RequestInv, Same
  <2>2. CASE stage[r] # "answered"
    <3>1. Same(held', held)
      BY <1>3, <2>2, ButtonAside DEF Receive
    <3> QED  BY <3>1 DEF SoloInv, RecordInv, Same, Ahead
  <2> QED  BY <2>1, <2>2
<1> QED  BY <1>1, <1>2, <1>4, SoloEnds

LEMMA SoloGivesUp ==
    ASSUME NEW i \in Instances, IInv, SoloInv(i), ~overlap, GiveUp
    PROVE  SoloInv(i)'
<1>1. /\ UNCHANGED <<record, outputs, fingerprint, sent, seed, words, msg, at, kept>>
      /\ \A q \in Requests : /\ stage'[q] \in {stage[q], "over"}
                             /\ stage'[q] # "over" => base'[q] = base[q] /\ answer'[q] = answer[q]
      /\ waiting' = None
  BY DEF GiveUp, EndWait, End, recordVars, offerVars, messageVars
<1>2. \A q \in Requests : ~Active(q)'
  BY <1>1 DEF GiveUp, Quiet, Active
<1>3. record[i] # None => Same(record[i], held') \/ Ahead(record[i], held')
  <2>1. held \in ConvState
    BY DEF IInv, TypeOK
  <2>2. Same(held', held)
    BY <2>1, ButtonAside DEF GiveUp, Same
  <2> QED  BY <2>2 DEF SoloInv, RecordInv, Same, Ahead
<1> QED  BY <1>1, <1>2, <1>3, SoloEnds

\* A message of the waiting browser arrives at the instance of its conversation.
LEMMA SoloArrives ==
    ASSUME NEW i \in Instances, NEW r \in Requests, NEW m \in Messages,
           IInv, SoloInv(i), ~overlap, Arrive(r, m, i)
    PROVE  SoloInv(i)'
<1>1. /\ stage \in [Requests -> Stage] /\ msg \in [Requests -> Messages \cup {None}]
      /\ at \in [Requests -> Instances \cup {None}]
      /\ base \in [Requests -> ConvState] /\ answer \in [Requests -> ConvState]
      /\ kept \in [Requests -> [Messages -> ConvState \cup {None}]]
      /\ outputs \in [Instances -> [Messages -> ConvState \cup {None}]]
      /\ record \in [Instances -> ConvState \cup {None}]
      /\ held \in ConvState /\ seed \in [Messages -> ConvState]
  BY DEF IInv, TypeOK
<1>2. /\ waiting = m /\ seed[m] = held /\ m \in sent /\ m # None
      /\ \A q \in Requests : ~Active(q)
      /\ UNCHANGED <<record, outputs, fingerprint, held, waiting, sent, seed, words>>
      /\ msg' = [msg EXCEPT ![r] = m] /\ at' = [at EXCEPT ![r] = i]
  BY NoneIsNew DEF Arrive, ReadRecord, Quiet, Active, SoloInv, OneTurn, recordVars, offerVars,
                   browserVars, messageVars
<1>3. OneTurn' /\ \A q \in Requests : Active(q)' => q = r
  <2>1. \A q \in Requests \ {r} : stage'[q] = stage[q]
    BY <1>1 DEF Arrive, ReadRecord
  <2>2. \A q \in Requests : Active(q)' => q = r
    BY <1>2, <2>1 DEF Active
  <2> QED  BY <1>1, <1>2, <2>2 DEF OneTurn
<1>4. RecordInv(i)'
  BY <1>2 DEF SoloInv, RecordInv
<1>5. RequestInv(i)'
  <2>1. CASE outputs[i][m] # None
    <3>1. stage'[r] = "answered" /\ answer'[r] = outputs[i][m]
      BY <1>1, <2>1 DEF Arrive, ReadRecord
    <3>2. AnswerTo(m, outputs[i][m], seed, words, fingerprint) /\ record[i] = outputs[i][m]
      BY <1>2, <2>1 DEF SoloInv, RecordInv
    <3> QED  BY <1>1, <1>2, <1>3, <3>1, <3>2 DEF RequestInv, Active, AtWork
  <2>2. CASE outputs[i][m] = None
    <3> DEFINE current == IF record[i] # None THEN record[i] ELSE seed[m]
    <3>1. CASE ~Follows(current, m)
      <4>1. stage'[r] = "refused"
        BY <1>1, <2>2, <3>1 DEF Arrive, ReadRecord
      <4> QED  BY <1>1, <1>2, <1>3, <4>1 DEF RequestInv, Active, AtWork
    <3>2. CASE Follows(current, m)
      <4>1. stage'[r] = "running" /\ base'[r] = current /\ kept'[r] = outputs[i]
        BY <1>1, <2>2, <3>2 DEF Arrive, ReadRecord
      <4>2. Same(current, seed[m])
        <5>1. record[i] # None => record[i].revision = held.revision
          BY <1>2, <3>2 DEF Follows
        <5>2. record[i] # None => ~Ahead(record[i], held)
          BY <1>1, <5>1, Fields DEF Ahead
        <5> QED  BY <1>2, <5>2 DEF SoloInv, RecordInv, Same
      <4>3. \A n \in Messages : kept'[r][n] # None =>
                n \in sent' /\ AnswerTo(n, kept'[r][n], seed', words', fingerprint')
        BY <1>2, <4>1 DEF SoloInv, RecordInv
      <4> HIDE DEF current
      <4> QED  BY <1>1, <1>2, <1>3, <4>1, <4>2, <4>3 DEF RequestInv, Active, AtWork
    <3> QED  BY <3>1, <3>2
  <2> QED  BY <2>1, <2>2
<1> QED  BY <1>3, <1>4, <1>5 DEF SoloInv

\* The instance keeps the answer.
LEMMA SoloCommits ==
    ASSUME NEW i \in Instances, NEW r \in Requests, IInv, SoloInv(i), Commit(r)
    PROVE  SoloInv(i)'
<1>1. /\ stage \in [Requests -> Stage] /\ msg[r] \in Messages
      /\ answer \in [Requests -> ConvState]
      /\ kept \in [Requests -> [Messages -> ConvState \cup {None}]]
      /\ outputs \in [Instances -> [Messages -> ConvState \cup {None}]]
      /\ record \in [Instances -> ConvState \cup {None}]
      /\ held \in ConvState
  BY DEF IInv, TypeOK, TurnInv, AtWork, Commit
<1>2. /\ stage[r] = "computed" /\ Active(r) /\ at[r] = i
      /\ msg[r] = waiting /\ seed[msg[r]] = held /\ msg[r] \in sent
      /\ AnswerTo(msg[r], answer[r], seed, words, fingerprint)
      /\ \A m \in Messages : kept[r][m] # None =>
            m \in sent /\ AnswerTo(m, kept[r][m], seed, words, fingerprint)
  BY DEF Commit, SoloInv, OneTurn, RequestInv, Active, AtWork
<1>3. /\ UNCHANGED <<fingerprint, held, waiting, sent, seed, words, msg, at, base, answer>>
      /\ record'[i] = answer[r]
      /\ \A m \in Messages : outputs'[i][m] = IF m = msg[r] THEN answer[r] ELSE kept[r][m]
      /\ stage' = [stage EXCEPT ![r] = "answered"]
      /\ \A q \in Requests \ {r} : kept'[q] = kept[q]
  BY <1>1, <1>2 DEF Commit, Answers, offerVars, browserVars, messageVars
<1>4. OneTurn'
  BY <1>1, <1>2, <1>3 DEF SoloInv, OneTurn, Active
<1>5. RecordInv(i)'
  <2>1. Ahead(answer[r], held)
    BY <1>1, <1>2, Fields DEF AnswerTo, Ahead
  <2> QED  BY <1>1, <1>2, <1>3, <2>1 DEF RecordInv
<1>6. RequestInv(i)'
  <2>1. \A q \in Requests \ {r} : ~Active(q)
    BY <1>2 DEF SoloInv, OneTurn
  <2> QED  BY <1>1, <1>2, <1>3, <2>1 DEF RequestInv, Active, AtWork
<1> QED  BY <1>4, <1>5, <1>6 DEF SoloInv

\* An instance forgets, this one or another.
LEMMA SoloRestarts ==
    ASSUME NEW i \in Instances, NEW j \in Instances, IInv, SoloInv(i), Restart(j)
    PROVE  SoloInv(i)'
<1>1. /\ record \in [Instances -> ConvState \cup {None}]
      /\ outputs \in [Instances -> [Messages -> ConvState \cup {None}]]
      /\ waiting \in Messages \cup {None}
  BY DEF IInv, TypeOK
<1>2. /\ UNCHANGED <<fingerprint, held, waiting, sent, seed, words, msg, at>>
      /\ record'[i] \in {record[i], None}
      /\ \/ record'[i] = record[i] /\ outputs'[i] = outputs[i]
         \/ record'[i] = None /\ outputs'[i] = NoOutputs
  BY <1>1 DEF Restart, browserVars, messageVars
<1>3. \A q \in Requests :
        \/ /\ stage'[q] = stage[q] /\ base'[q] = base[q]
           /\ kept'[q] = kept[q] /\ answer'[q] = answer[q]
        \/ stage'[q] = "failed" /\ AtWork(q)
  BY DEF Restart
<1>4. OneTurn'
  BY <1>2, <1>3 DEF SoloInv, OneTurn, Active, AtWork
<1>5. RecordInv(i)'
  BY <1>1, <1>2 DEF SoloInv, RecordInv, NoOutputs
<1>6. RequestInv(i)'
  BY <1>2, <1>3 DEF SoloInv, RequestInv, Active, AtWork
<1> QED  BY <1>4, <1>5, <1>6 DEF SoloInv

LEMMA SoloPreserves ==
    ASSUME NEW i \in Instances, IInv, OfferInv, SoloInv(i), StaysOn(i)', ~overlap, [Next]_vars
    PROVE  SoloInv(i)'
<1>1. ASSUME NEW r \in Requests, NEW m \in Messages, NEW j \in Instances, Arrive(r, m, j)
      PROVE  SoloInv(i)'
  <2>1. at \in [Requests -> Instances \cup {None}]
    BY DEF IInv, TypeOK
  <2>2. at'[r] = j
    BY <1>1, <2>1 DEF Arrive, ReadRecord
  <2>3. j = i
    BY <2>2 DEF StaysOn
  <2> QED  BY <1>1, <2>3, SoloArrives
<1>2. ASSUME NEW r \in Requests, AtWorkStep(r) PROVE SoloInv(i)'
  BY <1>2, AllWork, SoloWorks
<1>3. ASSUME (\E o \in Offers : ExpireOffer(o) \/ ForgetOffer(o)) \/ (\E j \in Instances : HandOff(j)) \/ UNCHANGED vars
      PROVE  SoloInv(i)'
  <2>1. UNCHANGED <<fingerprint, recordVars, browserVars, messageVars, requestVars>>
    BY <1>3 DEF ExpireOffer, ForgetOffer, HandOff, vars, offerVars
  <2> QED
    BY <2>1 DEF recordVars, browserVars, messageVars, requestVars, SoloInv, OneTurn, RecordInv,
                RequestInv, Active, AtWork
<1> QED
  BY <1>1, <1>2, <1>3, SoloSend, SoloLoses, SoloReceives, SoloGivesUp, SoloCommits, SoloRestarts
     DEF Next, RequestStep, AtWorkStep

\* What holds of a waiting browser's conversation that stays on one instance.
Solo(i) == ~overlap => SoloInv(i)

LEMMA SoloHolds ==
    ASSUME NEW i \in Instances
    PROVE  Spec /\ []StaysOn(i) => [](OfferInv /\ Solo(i))
<1>1. Init => OfferInv /\ Solo(i)
  <2>1. Init => OfferInv
    BY DEF Init, OfferInv, Backed, Fresh, NoOutputs
  <2> QED  BY <2>1, SoloInit DEF Solo
<1>2. IInv /\ OfferInv /\ Solo(i) /\ StaysOn(i)' /\ [Next]_vars => (OfferInv /\ Solo(i))'
  <2> SUFFICES ASSUME IInv, OfferInv, Solo(i), StaysOn(i)', [Next]_vars PROVE OfferInv' /\ Solo(i)'
    OBVIOUS
  <2>1. overlap' = overlap
    BY DEF Next, vars
  <2> QED  BY <2>1, OfferPreserves, SoloPreserves DEF Solo
<1> QED  BY <1>1, <1>2, Invariance, PTL DEF Spec

\* While the conversation stays on one of the instances, and the browser waits,
\* every answer is the message applied to the state it was sent with, through
\* lost answers, retries, restarts and failures of Redis.
THEOREM AnswersWhatWasSent ==
    ASSUME NEW i \in Instances
    PROVE  Spec /\ []StaysOn(i) => []AnswersWhatWasSeen
<1>1. Solo(i) => AnswersWhatWasSeen
  BY DEF Solo, SoloInv, RequestInv, AnswerTo, AnswersWhatWasSeen
<1> QED  BY <1>1, SoloHolds, PTL

\* There, too, an acceptance shows the cards of the offer it was given for, made
\* for the preferences of the state that shows them, but for what the acceptance
\* itself taught.
THEOREM CardIsTheAcceptedOne ==
    ASSUME NEW i \in Instances
    PROVE  Spec /\ []StaysOn(i) => []CardMatchesConsent
<1>1. Solo(i) => CardMatchesConsent
  BY DEF Solo, SoloInv, RequestInv, AnswerTo, CardMatchesConsent
<1> QED  BY <1>1, SoloHolds, PTL

\* And a message is refused only after an answer was lost that the instance has
\* counted: nothing the user has seen is missing from its record.
THEOREM RefusedForALoss ==
    ASSUME NEW i \in Instances
    PROVE  Spec /\ []StaysOn(i) => RefusalMeansLoss
<1> DEFINE Loss ==
      \A r \in Requests : stage[r] # "refused" /\ stage'[r] = "refused" /\ ~overlap =>
         /\ record[at'[r]] # None
         /\ seed[msg'[r]].applied \subseteq record[at'[r]].applied
         /\ seed[msg'[r]].applied # record[at'[r]].applied
<1>1. ASSUME IInv, Solo(i), StaysOn(i)', [Next]_vars PROVE [Loss]_vars
  <2> SUFFICES ASSUME Next, NEW r \in Requests,
                      stage[r] # "refused", stage'[r] = "refused", ~overlap
               PROVE  /\ record[at'[r]] # None
                      /\ seed[msg'[r]].applied \subseteq record[at'[r]].applied
                      /\ seed[msg'[r]].applied # record[at'[r]].applied
    BY <1>1
  <2>1. /\ stage \in [Requests -> Stage] /\ msg \in [Requests -> Messages \cup {None}]
        /\ at \in [Requests -> Instances \cup {None}]
        /\ record \in [Instances -> ConvState \cup {None}] /\ seed \in [Messages -> ConvState]
    BY <1>1 DEF IInv, TypeOK
  <2>2. PICK m \in Messages, j \in Instances : Arrive(r, m, j)
    <3>1. ASSUME NEW q \in Requests, AtWorkStep(q) PROVE FALSE
      BY <1>1, <2>1, <3>1, AllWork DEF Works
    <3>2. ASSUME NEW q \in Requests, Commit(q) \/ Receive(q) \/ LoseAnswer(q) PROVE FALSE
      BY <2>1, <3>2 DEF Commit, Receive, LoseAnswer, EndWait, End
    <3>3. ASSUME NEW q \in Requests, NEW m \in Messages, NEW j \in Instances, Arrive(q, m, j)
          PROVE  q = r
      BY <2>1, <3>3 DEF Arrive, ReadRecord
    <3>4. ASSUME GiveUp \/ \E j \in Instances : Restart(j) PROVE FALSE
      BY <3>4 DEF GiveUp, EndWait, End, Restart
    <3>5. ASSUME \/ \E m \in Messages, w \in {"talk", "show", "accept"} : Send(m, w)
                 \/ \E o \in Offers : ExpireOffer(o) \/ ForgetOffer(o)
                 \/ \E j \in Instances : HandOff(j)
          PROVE  FALSE
      BY <3>5 DEF Send, ExpireOffer, ForgetOffer, HandOff, requestVars
    <3> QED  BY <3>1, <3>2, <3>3, <3>4, <3>5 DEF Next, RequestStep, AtWorkStep
  <2>3. at'[r] = j /\ msg'[r] = m /\ j = i
    BY <1>1, <2>1, <2>2 DEF Arrive, ReadRecord, StaysOn
  <2>4. seed[m] = held
    BY <1>1, <2>2, NoneIsNew DEF Arrive, Solo, SoloInv, OneTurn
  <2>5. record[i] # None /\ record[i].revision # held.revision
    BY <2>1, <2>2, <2>3, <2>4 DEF Arrive, ReadRecord, Follows
  <2>6. Ahead(record[i], held)
    BY <1>1, <2>5 DEF Solo, SoloInv, RecordInv, Same
  <2>7. record[i].revision = Cardinality(record[i].applied) /\ held.revision = Cardinality(held.applied)
    BY <1>1, <2>5 DEF IInv, StatesInv, Good
  <2> QED  BY <2>3, <2>4, <2>5, <2>6, <2>7 DEF Ahead
<1>2. IInv /\ Solo(i) /\ StaysOn(i)' /\ [Next]_vars => [Loss]_vars
  BY <1>1
<1> QED  BY <1>2, SoloHolds, Invariance, PTL DEF Spec, RefusalMeansLoss

=============================================================================
