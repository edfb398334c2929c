------------------------ MODULE DecisionTurnsProofs -------------------------
(***************************************************************************)
(* Proofs about DecisionTurns.                                             *)
(***************************************************************************)
EXTENDS DecisionTurns, WellFoundedInduction, TLAPS

\* What the fold keeps of a memory's shape, and needs of it.
IsMemory(m) ==
    /\ m = [turn |-> m.turn, decision |-> m.decision, abuse |-> m.abuse,
            constrained |-> m.constrained, offer |-> m.offer, history |-> m.history]
    /\ m.decision \in Decisions
    /\ m.offer # None => m.offer = [id |-> m.offer.id, life |-> m.offer.life]

LEMMA SettleKeeps ==
    ASSUME NEW m, IsMemory(m), NEW k, NEW s, Settle(m, k, s) # None
    PROVE  /\ IsMemory(Settle(m, k, s))
           /\ Settle(m, k, s).offer = m.offer
           /\ Settle(m, k, s).decision = m.decision
BY DEF Settle, IsMemory

LEMMA DecideRevokes ==
    ASSUME NEW m, IsMemory(m), NEW d \in Decisions
    PROVE  /\ IsMemory(Decide(m, d))
           /\ Decide(m, d).decision = d
           /\ Decide(m, d).offer = IF m.offer = None THEN None
                                   ELSE [id |-> m.offer.id, life |-> "REVOKED"]
<1> DEFINE revoked == [m.offer EXCEPT !.life = "REVOKED"]
<1>1. m.offer # None => revoked = [id |-> m.offer.id, life |-> "REVOKED"]
  BY DEF IsMemory
<1>2. Decide(m, d) = [m EXCEPT !.decision = d,
                               !.offer = IF m.offer = None THEN None ELSE revoked]
  BY DEF Decide, IsMemory
<1> QED  BY <1>1, <1>2 DEF IsMemory

LEMMA RecordKeeps ==
    ASSUME NEW m, IsMemory(m), NEW a, Record(m, a) # None
    PROVE  /\ IsMemory(Record(m, a))
           /\ Record(m, a).offer = m.offer
           /\ Record(m, a).decision = m.decision
BY DEF Record, IsMemory

LEMMA InsultKeeps ==
    ASSUME NEW m, IsMemory(m), NEW l, Insult(m, l) # None
    PROVE  /\ IsMemory(Insult(m, l))
           /\ Insult(m, l).offer = m.offer
           /\ Insult(m, l).decision = m.decision
BY DEF Insult, IsMemory

LEMMA AskKeeps ==
    ASSUME NEW m, IsMemory(m), NEW k, Ask(m, k) # None
    PROVE  /\ IsMemory(Ask(m, k))
           /\ Ask(m, k).offer = m.offer
           /\ Ask(m, k).decision = m.decision
BY DEF Ask, IsMemory

LEMMA MoveOfferMoves ==
    ASSUME NEW m, IsMemory(m), NEW o, NEW life, MoveOffer(m, o, life) # None
    PROVE  /\ IsMemory(MoveOffer(m, o, life))
           /\ MoveOffer(m, o, life).offer = [id |-> o, life |-> life]
           /\ MoveOffer(m, o, life).decision = m.decision
           /\ m.offer # None
           /\ m.offer.id = o
BY DEF MoveOffer, IsMemory, NextOfferStates

LEMMA RevealedMoves ==
    ASSUME NEW m, IsMemory(m), NEW o, Revealed(m, o) # None
    PROVE  /\ IsMemory(Revealed(m, o))
           /\ Revealed(m, o).offer = [id |-> o, life |-> "REVEALED"]
           /\ Revealed(m, o).decision = m.decision
           /\ m.offer # None
           /\ m.offer = [id |-> o, life |-> "CREATED"]
<1> DEFINE consented == MoveOffer(m, o, "CONSENTED")
<1>1. consented # None /\ Revealed(m, o) = MoveOffer(consented, o, "REVEALED")
  BY DEF Revealed
<1>2. /\ m.offer # None /\ m.offer.id = o /\ m.offer.life = "CREATED"
      /\ consented = [m EXCEPT !.offer = [id |-> o, life |-> "CONSENTED"]]
  BY <1>1 DEF MoveOffer, NextOfferStates
<1>3. /\ IsMemory(consented)
      /\ consented.decision = m.decision
      /\ m.offer = [id |-> o, life |-> "CREATED"]
  BY <1>2 DEF IsMemory
<1> HIDE DEF consented
<1>4. Revealed(m, o) = [consented EXCEPT !.offer = [id |-> o, life |-> "REVEALED"]]
  BY <1>1 DEF MoveOffer
<1>5. m.offer # None
  BY <1>2
<1>6. /\ IsMemory(Revealed(m, o))
      /\ Revealed(m, o).offer = [id |-> o, life |-> "REVEALED"]
      /\ Revealed(m, o).decision = m.decision
  BY <1>3, <1>4 DEF IsMemory
<1> QED  BY <1>3, <1>5, <1>6

LEMMA PlannedMemory ==
    ASSUME NEW m, IsMemory(m), NEW plan, plan.to \in Decisions \cup {None},
           Planned(m, plan) # None
    PROVE  /\ IsMemory(Planned(m, plan))
           /\ plan.to = None => /\ Planned(m, plan).decision = m.decision
                               /\ Planned(m, plan).offer = m.offer
           /\ plan.to # None =>
                /\ Planned(m, plan).decision = plan.to
                /\ Planned(m, plan).offer = IF m.offer = None THEN None
                                            ELSE [id |-> m.offer.id, life |-> "REVOKED"]
<1> DEFINE begun    == [m EXCEPT !.turn = @ + 1]
           settled  == IF plan.settles = None THEN begun
                       ELSE Settle(begun, OpenQuestion(m), plan.settles)
           recorded == IF settled = None \/ plan.adds = None THEN settled
                       ELSE Record(settled, plan.adds)
           changed  == IF recorded = None \/ plan.to = None THEN recorded
                       ELSE Decide(recorded, plan.to)
           planned  == IF changed = None \/ ~plan.abuse THEN changed
                       ELSE Insult(changed, AbuseTransition(m))
<1>0. Planned(m, plan) = planned
  BY Zenon DEF Planned
<1>1. IsMemory(begun) /\ begun.offer = m.offer /\ begun.decision = m.decision
  BY DEF IsMemory
<1> HIDE DEF begun
<1>2. settled # None => /\ IsMemory(settled)
                        /\ settled.offer = m.offer
                        /\ settled.decision = m.decision
  <2>1. CASE plan.settles = None
    BY <1>1, <2>1
  <2>2. CASE plan.settles # None
    BY <1>1, <2>2, SettleKeeps
  <2> QED  BY <2>1, <2>2
<1> HIDE DEF settled
<1>3. recorded # None => /\ IsMemory(recorded)
                         /\ recorded.offer = m.offer
                         /\ recorded.decision = m.decision
  BY <1>2, RecordKeeps
<1> HIDE DEF recorded
<1>4. changed # None /\ plan.to = None =>
          IsMemory(changed) /\ changed.offer = m.offer /\ changed.decision = m.decision
  BY <1>3
<1>5. changed # None /\ plan.to # None =>
          /\ IsMemory(changed)
          /\ changed.decision = plan.to
          /\ changed.offer = IF m.offer = None THEN None
                             ELSE [id |-> m.offer.id, life |-> "REVOKED"]
  BY <1>3, DecideRevokes
<1> HIDE DEF changed
<1>6. planned # None => /\ changed # None /\ IsMemory(planned)
                        /\ planned.offer = changed.offer
                        /\ planned.decision = changed.decision
  BY <1>4, <1>5, InsultKeeps
<1> QED  BY <1>0, <1>4, <1>5, <1>6

LEMMA QuestionedKeeps ==
    ASSUME NEW m, IsMemory(m), NEW k, Questioned(m, k) # None
    PROVE  /\ IsMemory(Questioned(m, k))
           /\ Questioned(m, k).offer = m.offer
           /\ Questioned(m, k).decision = m.decision
<1> DEFINE open   == OpenQuestion(m)
           closed == IF open = None THEN m ELSE Settle(m, open, "SUPERSEDED")
<1>1. closed # None => IsMemory(closed) /\ closed.offer = m.offer /\ closed.decision = m.decision
  BY SettleKeeps
<1>2. CASE k \in {None, open}
  BY <1>2 DEF Questioned
<1>3. CASE k \notin {None, open} /\ closed # None
  <2>1. Questioned(m, k) = Ask(closed, k)
    BY <1>3 DEF Questioned
  <2> QED  BY <1>1, <1>3, <2>1, AskKeeps
<1>4. CASE k \notin {None, open} /\ closed = None
  BY <1>4 DEF Questioned
<1> QED  BY <1>2, <1>3, <1>4

\* An action does one thing to offers at most.
IsAction(a) ==
    /\ a = [asks |-> a.asks, makes |-> a.makes, reveals |-> a.reveals, revokes |-> a.revokes]
    /\ a.asks \in Questions \cup {None}
    /\ a.makes \in BOOLEAN
    /\ a.makes => a.reveals = None /\ a.revokes = None
    /\ a.reveals # None => a.revokes = None

LEMMA ActedMemory ==
    ASSUME NEW m, IsMemory(m), NEW message, NEW a, IsAction(a),
           Acted(message, m, a) # None
    PROVE  LET after == Acted(message, m, a) IN
           /\ IsMemory(after)
           /\ after.decision = m.decision
           /\ a.makes => after.offer = [id |-> message, life |-> "CREATED"]
           /\ a.reveals # None => /\ m.offer # None
                                  /\ m.offer = [id |-> a.reveals, life |-> "CREATED"]
                                  /\ after.offer = [id |-> a.reveals, life |-> "REVEALED"]
           /\ a.revokes # None => /\ m.offer # None /\ m.offer.id = a.revokes
                                  /\ after.offer = [id |-> a.revokes, life |-> "REVOKED"]
           /\ ~a.makes /\ a.reveals = None /\ a.revokes = None => after.offer = m.offer
<1>1. CASE a.makes
  <2>1. Acted(message, m, a) = MakeOffer(m, message)
    BY <1>1 DEF Acted, IsAction
  <2> QED  BY <1>1, <2>1 DEF MakeOffer, IsMemory, IsAction
<1>2. CASE a.reveals # None
  <2>1. Acted(message, m, a) = Revealed(m, a.reveals)
    BY <1>2 DEF Acted, IsAction
  <2> QED  BY <1>2, <2>1, RevealedMoves DEF IsAction
<1>3. CASE ~a.makes /\ a.reveals = None /\ a.revokes # None
  <2>1. Acted(message, m, a) = MoveOffer(m, a.revokes, "REVOKED")
    BY <1>3 DEF Acted
  <2> QED  BY <1>3, <2>1, MoveOfferMoves
<1>4. CASE ~a.makes /\ a.reveals = None /\ a.revokes = None
  <2>1. Acted(message, m, a) = Questioned(m, a.asks)
    BY <1>4 DEF Acted
  <2> QED  BY <1>4, <2>1, QuestionedKeeps
<1> QED  BY <1>1, <1>2, <1>3, <1>4 DEF IsAction

-----------------------------------------------------------------------------
(***************************************************************************)
(* The plans a text allows and the actions a plan allows.                  *)
(***************************************************************************)
LEMMA PlansAllowed ==
    ASSUME NEW r \in Requests, NEW m, IsMemory(m), NEW plan \in Plans(r, m)
    PROVE  /\ plan.to \in Decisions \cup {None}
           /\ plan.reply = "ACCEPT" => Body(r).text = "accept"
<1>1. \A reply \in Replies(r) : reply = "ACCEPT" => Body(r).text = "accept"
  BY NoneIsNoText DEF Replies
<1>2. \A reply : \A p \in FreePlans(m, reply) :
          p.to \in Decisions \cup {None} /\ p.reply = reply
  BY DEF FreePlans, Plan
<1>3. \A p \in UnheldPlans(m) : p.to = None /\ p.reply = None
  BY DEF UnheldPlans, Plan
<1>4. CASE Body(r).text = "accept" /\ OfferIsOpen(r, m)
  BY <1>4 DEF Plans, Plan
<1>5. CASE Body(r).text = "no" /\ OfferIsOpen(r, m)
  BY <1>5 DEF Plans, Plan
<1>6. CASE Body(r).text = "skip" /\ OpenQuestion(m) # None
  <2>1. plan \in UnheldPlans(m) \cup SkipPlans
    BY <1>6 DEF Plans
  <2>2. plan.to \in Decisions \cup {None} /\ plan.reply = None
    BY <1>3, <2>1 DEF SkipPlans, Plan
  <2> QED  BY <2>2, NoneIsNoText
<1>7. CASE Body(r).text = "option"
  <2>1. plan.to \in Decisions /\ plan.reply = None
    BY <1>7 DEF Plans, OptionPlans, Plan
  <2> QED  BY <2>1, NoneIsNoText
<1>8. CASE ~(Body(r).text = "accept" /\ OfferIsOpen(r, m))
           /\ ~(Body(r).text = "no" /\ OfferIsOpen(r, m))
           /\ ~(Body(r).text = "skip" /\ OpenQuestion(m) # None)
           /\ Body(r).text # "option"
  <2>1. plan \in UnheldPlans(m) \cup UNION {FreePlans(m, reply) : reply \in Replies(r)}
    BY <1>8 DEF Plans
  <2>2. CASE plan \in UnheldPlans(m)
    BY <1>3, <2>2, NoneIsNoText
  <2>3. CASE \E reply \in Replies(r) : plan \in FreePlans(m, reply)
    BY <1>1, <1>2, <2>3
  <2> QED  BY <2>1, <2>2, <2>3
<1> QED  BY <1>4, <1>5, <1>6, <1>7, <1>8

LEMMA ActionsAllowed ==
    ASSUME NEW r \in Requests, NEW m, IsMemory(m), NEW plan, NEW a \in Actions(r, plan, m)
    PROVE  /\ IsAction(a)
           /\ a.reveals # None => a.reveals = Body(r).token /\ plan.reply = "ACCEPT"
           /\ a.revokes # None => a.revokes = Body(r).token
<1>1. CASE plan.reply = "ACCEPT" /\ OfferIsOpen(r, m)
  <2>1. a = Action(None, FALSE, Body(r).token, None)
    BY <1>1 DEF Actions
  <2> QED  BY <1>1, <2>1, Zenon DEF Action, IsAction
<1>2. CASE plan.reply # "ACCEPT" /\ plan.reply = "DECLINE" /\ TokenValid(r)
  <2>1. a = Action(None, FALSE, None, Body(r).token)
    BY <1>2 DEF Actions
  <2> QED  BY <2>1, Zenon DEF Action, IsAction
<1>3. CASE ~(plan.reply = "ACCEPT" /\ OfferIsOpen(r, m))
           /\ ~(plan.reply = "DECLINE" /\ TokenValid(r))
  <2>1. Eligible(m) \subseteq Keys
    BY DEF Eligible
  <2>2. PICK asks \in {None} \cup Questions, makes \in BOOLEAN :
            a = Action(asks, makes, None, None)
    BY <1>3, <2>1 DEF Actions, Questions
  <2> QED  BY <2>2 DEF Action, IsAction
<1> QED  BY <1>1, <1>2, <1>3

(***************************************************************************)
(* What a turn's changes have to do with the memory they were made from.   *)
(***************************************************************************)
TurnFollows(turn, message, m) ==
    /\ turn.makes =>
         /\ turn.memory.offer = [id |-> message, life |-> "CREATED"]
         /\ turn.reveals = None
         /\ turn.revokes = None
    /\ turn.reveals # None =>
         /\ m.offer # None
         /\ m.offer = [id |-> turn.reveals, life |-> "CREATED"]
         /\ turn.memory.offer = [id |-> turn.reveals, life |-> "REVEALED"]
         /\ turn.revokes = None
         /\ ~turn.touches
    /\ turn.revokes # None =>
         /\ m.offer # None
         /\ m.offer.id = turn.revokes
         /\ turn.memory.offer = [id |-> turn.revokes, life |-> "REVOKED"]
    /\ ~turn.makes /\ turn.reveals = None /\ turn.revokes = None =>
         IF turn.touches
         THEN turn.memory.offer = IF m.offer = None THEN None
                                  ELSE [id |-> m.offer.id, life |-> "REVOKED"]
         ELSE turn.memory.offer = m.offer /\ turn.memory.decision = m.decision

LEMMA TurnsFollow ==
    ASSUME NEW r \in Requests, NEW m, IsMemory(m), NEW plan \in Plans(r, m),
           Planned(m, plan) # None, NEW a \in Actions(r, plan, Planned(m, plan)),
           NEW message, Acted(message, Planned(m, plan), a) # None
    PROVE  LET turn == [memory |-> Acted(message, Planned(m, plan), a), makes |-> a.makes,
                        reveals |-> a.reveals, revokes |-> a.revokes,
                        touches |-> plan.to # None]
           IN  IsMemory(turn.memory) /\ TurnFollows(turn, message, m)
<1> DEFINE planned == Planned(m, plan)
           final   == Acted(message, planned, a)
<1>1. plan.to \in Decisions \cup {None}
  BY PlansAllowed
<1>2. /\ IsMemory(planned)
      /\ plan.to = None => planned.decision = m.decision /\ planned.offer = m.offer
      /\ plan.to # None => planned.offer = IF m.offer = None THEN None
                                           ELSE [id |-> m.offer.id, life |-> "REVOKED"]
  BY <1>1, PlannedMemory
<1>3. IsAction(a)
  BY <1>2, ActionsAllowed
<1>4. final # None
  OBVIOUS
<1> HIDE DEF planned
<1>5. /\ IsMemory(final)
      /\ final.decision = planned.decision
      /\ a.makes => final.offer = [id |-> message, life |-> "CREATED"]
      /\ a.reveals # None => /\ planned.offer # None
                             /\ planned.offer = [id |-> a.reveals, life |-> "CREATED"]
                             /\ final.offer = [id |-> a.reveals, life |-> "REVEALED"]
      /\ a.revokes # None => /\ planned.offer # None /\ planned.offer.id = a.revokes
                             /\ final.offer = [id |-> a.revokes, life |-> "REVOKED"]
      /\ ~a.makes /\ a.reveals = None /\ a.revokes = None => final.offer = planned.offer
  BY <1>2, <1>3, <1>4, ActedMemory
<1> HIDE DEF final
<1>6. a.reveals # None => plan.to = None /\ m.offer # None
  BY <1>2, <1>5
<1>7. a.revokes # None => m.offer # None /\ m.offer.id = a.revokes
  BY <1>2, <1>5, <1>1
<1> DEFINE turn == [memory |-> final, makes |-> a.makes, reveals |-> a.reveals,
                    revokes |-> a.revokes, touches |-> plan.to # None]
<1>8. IsMemory(turn.memory) /\ TurnFollows(turn, message, m)
  BY <1>1, <1>2, <1>3, <1>5, <1>6, <1>7 DEF TurnFollows, IsAction
<1> QED  BY <1>8 DEF final, planned

-----------------------------------------------------------------------------
(***************************************************************************)
(* The inductive invariant.  A request in flight knows a revision that is  *)
(* not ahead of the row; if it is the row's, what it loaded is the row's   *)
(* memory, so what it is about to commit follows from the row.             *)
(***************************************************************************)
IsRequest(q) ==
    DOMAIN q = {"pc", "body", "valid", "late", "expected", "loaded", "turn", "output"}

KnowsRevision(q, R) == q.expected \in Nat /\ q.expected <= R.revision

HasLoaded(q, R) ==
    /\ q.loaded.revision \in Nat
    /\ q.loaded.revision <= R.revision
    /\ IsMemory(q.loaded.memory)
    /\ q.loaded.revision = R.revision => q.loaded.memory = R.memory

HasTurned(q, R) ==
    /\ q.output \in Outputs
    /\ q.output.revision = q.expected + 1
    /\ IsMemory(q.turn.memory)
    /\ q.turn.reveals \in Messages \cup {None}
    /\ q.turn.revokes \in Messages \cup {None}
    /\ q.turn.reveals # None => q.body.text = "accept" /\ q.body.token = q.turn.reveals
    /\ q.expected = R.revision => TurnFollows(q.turn, q.body.message, R.memory)

RequestOK(q, R, S) ==
    /\ IsRequest(q)
    /\ q.pc # "idle" => q.body \in Bodies
    /\ q.pc \in {"routing", "running", "loading", "turning", "committing"} =>
          KnowsRevision(q, R)
    /\ q.pc \in {"loading", "turning"} => HasLoaded(q, R)
    /\ q.pc = "turning" => q.loaded.revision = q.expected
    /\ q.pc = "committing" => HasTurned(q, R)
    /\ q.pc = "answering" => /\ S[q.body.message] # None
                             /\ q.output = S[q.body.message].output

RequestsOK ==
    /\ DOMAIN requests = Requests
    /\ \A r \in Requests : RequestOK(requests[r], row, stored)

RowsOK ==
    /\ row.revision \in Nat
    /\ IsMemory(row.memory)
    /\ stored \in [Messages -> StoredMessages \cup {None}]
    /\ offers \in [Messages -> OfferRows \cup {None}]
    /\ \A m \in Messages : offers[m] # None => stored[m] # None

ToldOK == \A t \in told : t.output \in Outputs

OfferOK ==
    /\ OfferTableAgrees
    /\ row.memory.offer # None => row.memory.offer.id \in Messages

OvertakenOK ==
    /\ \A o \in overtaken : o \in Messages /\ offers[o] # None
    /\ row.memory.offer # None /\ row.memory.offer.life = "CREATED" =>
          row.memory.offer.id \notin overtaken

DecisionInv == RequestsOK /\ RowsOK /\ ToldOK /\ OfferOK /\ OvertakenOK

LEMMA InitInv == DecisionInit => DecisionInv
<1> SUFFICES ASSUME DecisionInit PROVE DecisionInv
  OBVIOUS
<1> USE DEF DecisionInit
<1>1. row.revision = 0 /\ row.memory = EmptyMemory
  OBVIOUS
<1>2. IsMemory(EmptyMemory) /\ EmptyMemory.offer = None
  BY DecisionsAssumption DEF IsMemory, EmptyMemory
<1>3. RequestsOK
  <2>1. RequestOK(Bare("idle", None), row, stored)
    BY DEF RequestOK, IsRequest, Bare
  <2> QED  BY <2>1 DEF RequestsOK
<1>4. RowsOK
  BY <1>1, <1>2 DEF RowsOK
<1>5. ToldOK
  BY DEF ToldOK
<1>6. OfferOK
  BY <1>1, <1>2 DEF OfferOK, OfferTableAgrees
<1>7. OvertakenOK
  BY <1>1, <1>2 DEF OvertakenOK
<1> QED  BY <1>3, <1>4, <1>5, <1>6, <1>7 DEF DecisionInv

\* A step of one request that leaves the rows alone.
LEMMA QuietKeeps ==
    ASSUME DecisionInv, UNCHANGED <<row, stored, offers, overtaken>>,
           NEW r \in Requests,
           DOMAIN requests' = Requests,
           \A s \in Requests \ {r} : requests'[s] = requests[s],
           RequestOK(requests'[r], row, stored),
           ToldOK'
    PROVE  DecisionInv'
<1>1. RequestsOK'
  BY DEF RequestsOK, DecisionInv
<1>2. RowsOK'
  BY DEF RowsOK, DecisionInv
<1>3. OfferOK'
  BY DEF OfferOK, OfferTableAgrees, DecisionInv
<1>4. OvertakenOK'
  BY DEF OvertakenOK, DecisionInv
<1> QED  BY <1>1, <1>2, <1>3, <1>4 DEF DecisionInv

\* A request that is over.
LEMMA DoneOK ==
    ASSUME NEW b \in Bodies, NEW R, NEW S
    PROVE  RequestOK(Bare("done", b), R, S)
BY DEF RequestOK, IsRequest, Bare

LEMMA DoneKeeps ==
    ASSUME DecisionInv, UNCHANGED <<row, stored, offers, overtaken>>,
           NEW r \in Requests, requests[r].pc # "idle", requests' = Done(r), ToldOK'
    PROVE  DecisionInv'
<1>1. DOMAIN requests = Requests /\ Body(r) \in Bodies
  BY DEF DecisionInv, RequestsOK, RequestOK, Body
<1>2. /\ DOMAIN requests' = Requests
      /\ \A s \in Requests \ {r} : requests'[s] = requests[s]
      /\ requests'[r] = Bare("done", Body(r))
  BY <1>1, Zenon DEF Done
<1>3. RequestOK(requests'[r], row, stored)
  BY <1>1, <1>2, DoneOK
<1> QED  BY <1>2, <1>3, QuietKeeps

\* What every request of the invariant has.
LEMMA RequestKnown ==
    ASSUME DecisionInv, NEW r \in Requests
    PROVE  /\ DOMAIN requests = Requests
           /\ RequestOK(requests[r], row, stored)
           /\ IsRequest(requests[r])
           /\ requests[r].pc # "idle" => requests[r].body \in Bodies
BY DEF DecisionInv, RequestsOK, RequestOK

\* Changing one request changes that one only.
LEMMA ChangedRequest ==
    ASSUME DecisionInv, NEW r \in Requests, NEW q, requests' = [requests EXCEPT ![r] = q]
    PROVE  /\ DOMAIN requests' = Requests
           /\ requests'[r] = q
           /\ \A s \in Requests \ {r} : requests'[s] = requests[s]
BY RequestKnown, Zenon

LEMMA SendKeeps ==
    ASSUME DecisionInv, NEW r \in Requests, Send(r)
    PROVE  DecisionInv'
<1>1. PICK text \in Texts, token \in SeenTokens, option \in SeenQuestions \cup {None} :
        requests' = [requests EXCEPT ![r].pc = "sent", ![r].body =
              [message |-> r, text |-> text, token |-> token, option |-> option]]
  BY DEF Send
<1> DEFINE b == [message |-> r, text |-> text, token |-> token, option |-> option]
<1>2. b \in Bodies
  <2>1. token \in Messages \cup {None}
    BY DEF SeenTokens, DecisionInv, ToldOK, Outputs
  <2>2. option \in Keys \cup {None}
    BY DEF SeenQuestions
  <2> QED  BY <2>1, <2>2 DEF Bodies, Messages
<1> HIDE DEF b
<1>3. requests' = [requests EXCEPT ![r] = [requests[r] EXCEPT !.pc = "sent", !.body = b]]
  BY <1>1 DEF b
<1> DEFINE q == [requests[r] EXCEPT !.pc = "sent", !.body = b]
<1>4. IsRequest(q) /\ q.pc = "sent" /\ q.body = b
  BY RequestKnown DEF IsRequest
<1> HIDE DEF q
<1>5. RequestOK(q, row, stored)
  BY <1>2, <1>4 DEF RequestOK
<1>6. UNCHANGED <<row, stored, offers, lapsed, told, overtaken>>
  BY DEF Send
<1>7. ToldOK'
  BY <1>6 DEF ToldOK, DecisionInv
<1> QED  BY <1>3, <1>5, <1>6, <1>7, ChangedRequest, QuietKeeps DEF q

LEMMA RepeatKeeps ==
    ASSUME DecisionInv, NEW r \in Requests, Repeat(r)
    PROVE  DecisionInv'
<1>1. PICK p \in 1..(r - 1) :
        requests' = [requests EXCEPT ![r].pc = "sent", ![r].body = Body(p)]
  BY DEF Repeat
<1>2. p \in Requests /\ requests[p].pc # "idle"
  BY BoundsAssumption DEF Repeat, NextIdle, Requests
<1>3. Body(p) \in Bodies
  BY <1>2, RequestKnown DEF Body
<1> DEFINE q == [requests[r] EXCEPT !.pc = "sent", !.body = Body(p)]
<1>4. requests' = [requests EXCEPT ![r] = q]
  BY <1>1
<1>5. IsRequest(q) /\ q.pc = "sent" /\ q.body = Body(p)
  BY RequestKnown DEF IsRequest
<1> HIDE DEF q
<1>6. RequestOK(q, row, stored)
  BY <1>3, <1>5 DEF RequestOK
<1>7. UNCHANGED <<row, stored, offers, lapsed, told, overtaken>>
  BY DEF Repeat
<1>8. ToldOK'
  BY <1>7 DEF ToldOK, DecisionInv
<1> QED  BY <1>4, <1>6, <1>7, <1>8, ChangedRequest, QuietKeeps

LEMMA RouteRowKeeps ==
    ASSUME DecisionInv, NEW r \in Requests, RouteRow(r)
    PROVE  DecisionInv'
<1> DEFINE valid == Body(r).token # None /\ Body(r).token \notin lapsed
           q == [requests[r] EXCEPT !.pc = "routing", !.expected = row.revision,
                                    !.valid = valid]
<1>1. requests' = [requests EXCEPT ![r] = q]
  BY DEF RouteRow
<1> HIDE DEF valid
<1>2. /\ IsRequest(q)
      /\ q.pc = "routing" /\ q.body = requests[r].body /\ q.expected = row.revision
  BY RequestKnown DEF IsRequest
<1> HIDE DEF q
<1>3. requests[r].pc = "sent"
  BY DEF RouteRow
<1>4. row.revision \in Nat
  BY DEF DecisionInv, RowsOK
<1>5. RequestOK(q, row, stored)
  BY <1>2, <1>3, <1>4, RequestKnown DEF RequestOK, KnowsRevision
<1>6. UNCHANGED <<row, stored, offers, lapsed, told, overtaken>>
  BY DEF RouteRow
<1>7. ToldOK'
  BY <1>6 DEF ToldOK, DecisionInv
<1> QED  BY <1>1, <1>5, <1>6, <1>7, ChangedRequest, QuietKeeps

LEMMA RouteMessagesKeeps ==
    ASSUME DecisionInv, NEW r \in Requests, RouteMessages(r)
    PROVE  DecisionInv'
<1>1. UNCHANGED <<row, stored, offers, lapsed, told, overtaken>> /\ requests[r].pc = "routing"
  BY DEF RouteMessages
<1>2. ToldOK'
  BY <1>1 DEF ToldOK, DecisionInv
<1>3. CASE requests' = Done(r)
  BY <1>1, <1>2, <1>3, DoneKeeps
<1>4. CASE requests' = [requests EXCEPT ![r].pc = "running"]
  <2> DEFINE q == [requests[r] EXCEPT !.pc = "running"]
  <2>1. requests' = [requests EXCEPT ![r] = q]
    BY <1>4
  <2>2. /\ IsRequest(q)
        /\ q.pc = "running" /\ q.body = requests[r].body /\ q.expected = requests[r].expected
    BY RequestKnown DEF IsRequest
  <2> HIDE DEF q
  <2>3. RequestOK(q, row, stored)
    BY <1>1, <2>2, RequestKnown DEF RequestOK, KnowsRevision
  <2> QED  BY <1>1, <1>2, <2>1, <2>3, ChangedRequest, QuietKeeps
<1> QED  BY <1>3, <1>4 DEF RouteMessages

LEMMA RunRowKeeps ==
    ASSUME DecisionInv, NEW r \in Requests, RunRow(r)
    PROVE  DecisionInv'
<1> DEFINE late == Body(r).token \in lapsed
           q == [requests[r] EXCEPT !.pc = "loading", !.loaded = row, !.late = late]
<1>1. requests' = [requests EXCEPT ![r] = q]
  BY DEF RunRow
<1> HIDE DEF late
<1>2. /\ IsRequest(q)
      /\ q.pc = "loading" /\ q.body = requests[r].body
      /\ q.expected = requests[r].expected /\ q.loaded = row
  BY RequestKnown DEF IsRequest
<1> HIDE DEF q
<1>3. UNCHANGED <<row, stored, offers, lapsed, told, overtaken>> /\ requests[r].pc = "running"
  BY DEF RunRow
<1>4. HasLoaded(q, row)
  BY <1>2 DEF HasLoaded, DecisionInv, RowsOK
<1>5. RequestOK(q, row, stored)
  BY <1>2, <1>3, <1>4, RequestKnown DEF RequestOK, KnowsRevision
<1>6. ToldOK'
  BY <1>3 DEF ToldOK, DecisionInv
<1> QED  BY <1>1, <1>3, <1>5, <1>6, ChangedRequest, QuietKeeps

LEMMA RunMessagesKeeps ==
    ASSUME DecisionInv, NEW r \in Requests, RunMessages(r)
    PROVE  DecisionInv'
<1>1. UNCHANGED <<row, stored, offers, lapsed, told, overtaken>> /\ requests[r].pc = "loading"
  BY DEF RunMessages
<1>2. ToldOK'
  BY <1>1 DEF ToldOK, DecisionInv
<1>3. CASE requests' = Done(r)
  BY <1>1, <1>2, <1>3, DoneKeeps
<1>4. CASE /\ Known(r)
           /\ requests' = [requests EXCEPT ![r].pc = "answering", ![r].loaded = None,
                                           ![r].output = stored[Message(r)].output]
  <2> DEFINE output == stored[Message(r)].output
             q == [requests[r] EXCEPT !.pc = "answering", !.loaded = None,
                                      !.output = output]
  <2>1. requests' = [requests EXCEPT ![r] = q]
    BY <1>4
  <2> HIDE DEF output
  <2>2. IsRequest(q) /\ q.pc = "answering" /\ q.body = requests[r].body /\ q.output = output
    BY RequestKnown DEF IsRequest
  <2> HIDE DEF q
  <2>3. stored[q.body.message] # None /\ q.output = stored[q.body.message].output
    BY <1>4, <2>2 DEF Known, Message, Body, output
  <2>4. RequestOK(q, row, stored)
    BY <1>1, <2>2, <2>3, RequestKnown DEF RequestOK
  <2> QED  BY <1>1, <1>2, <2>1, <2>4, ChangedRequest, QuietKeeps
<1>5. CASE /\ requests[r].loaded.revision = requests[r].expected
           /\ requests' = [requests EXCEPT ![r].pc = "turning"]
  <2> DEFINE q == [requests[r] EXCEPT !.pc = "turning"]
  <2>1. requests' = [requests EXCEPT ![r] = q]
    BY <1>5
  <2>2. /\ IsRequest(q)
        /\ q.pc = "turning" /\ q.body = requests[r].body
        /\ q.expected = requests[r].expected /\ q.loaded = requests[r].loaded
    BY RequestKnown DEF IsRequest
  <2> HIDE DEF q
  <2>3. RequestOK(q, row, stored)
    BY <1>1, <1>5, <2>2, RequestKnown DEF RequestOK, KnowsRevision, HasLoaded
  <2> QED  BY <1>1, <1>2, <2>1, <2>3, ChangedRequest, QuietKeeps
<1> QED  BY <1>3, <1>4, <1>5 DEF RunMessages

LEMMA EvaluateKeeps ==
    ASSUME DecisionInv, NEW r \in Requests, Evaluate(r)
    PROVE  DecisionInv'
<1> DEFINE m == requests[r].loaded.memory
<1>1. UNCHANGED <<row, stored, offers, lapsed, told, overtaken>> /\ requests[r].pc = "turning"
  BY DEF Evaluate
<1>2. ToldOK'
  BY <1>1 DEF ToldOK, DecisionInv
<1>3. /\ KnowsRevision(requests[r], row)
      /\ HasLoaded(requests[r], row)
      /\ requests[r].loaded.revision = requests[r].expected
      /\ Body(r) \in Bodies
  BY <1>1, RequestKnown DEF RequestOK, Body
<1>4. IsMemory(m)
  BY <1>3 DEF HasLoaded
<1>5. ASSUME NEW plan, requests' = Rejecting(r, plan)
      PROVE  DecisionInv'
  <2> DEFINE q == [requests[r] EXCEPT !.pc = "rejected", !.turn = plan]
  <2>1. requests' = [requests EXCEPT ![r] = q]
    BY <1>5 DEF Rejecting
  <2>2. IsRequest(q) /\ q.pc = "rejected" /\ q.body = requests[r].body
    BY RequestKnown DEF IsRequest
  <2> HIDE DEF q
  <2>3. RequestOK(q, row, stored)
    BY <1>1, <2>2, RequestKnown DEF RequestOK
  <2> QED  BY <1>1, <1>2, <2>1, <2>3, ChangedRequest, QuietKeeps
<1>6. ASSUME NEW plan \in Plans(r, m), Planned(m, plan) # None,
             NEW a \in Actions(r, plan, Planned(m, plan)),
             Acted(Message(r), Planned(m, plan), a) # None,
             requests' = Committing(r, plan, a, Acted(Message(r), Planned(m, plan), a))
      PROVE  DecisionInv'
  <2> DEFINE final  == Acted(Message(r), Planned(m, plan), a)
             turn   == [memory |-> final, makes |-> a.makes, reveals |-> a.reveals,
                        revokes |-> a.revokes, touches |-> plan.to # None]
             output == Output(requests[r].expected + 1, Message(r), a)
             q      == [requests[r] EXCEPT !.pc = "committing", !.loaded = None,
                                           !.turn = turn, !.output = output]
  <2>1. requests' = [requests EXCEPT ![r] = q]
    BY <1>6 DEF Committing
  <2>2. IsMemory(turn.memory) /\ TurnFollows(turn, Message(r), m)
    BY <1>4, <1>6, TurnsFollow
  <2>3. /\ plan.to \in Decisions \cup {None}
        /\ plan.reply = "ACCEPT" => Body(r).text = "accept"
    BY <1>4, <1>6, PlansAllowed
  <2>4. IsMemory(Planned(m, plan))
    BY <1>4, <1>6, <2>3, PlannedMemory
  <2>5. /\ IsAction(a)
        /\ a.reveals # None => a.reveals = Body(r).token /\ plan.reply = "ACCEPT"
        /\ a.revokes # None => a.revokes = Body(r).token
    BY <2>4, ActionsAllowed
  <2>6. turn.reveals = a.reveals /\ turn.revokes = a.revokes
    OBVIOUS
  <2> HIDE DEF turn
  <2>7. output \in Outputs /\ output.revision = requests[r].expected + 1
    <3>1. Message(r) \in Messages
      BY <1>3 DEF Message, Bodies
    <3>2. requests[r].expected + 1 \in Nat
      BY <1>3 DEF KnowsRevision
    <3> QED  BY <2>5, <3>1, <3>2 DEF Output, Outputs, IsAction
  <2> HIDE DEF output
  <2>8. /\ IsRequest(q) /\ q.pc = "committing" /\ q.body = requests[r].body
        /\ q.expected = requests[r].expected /\ q.turn = turn /\ q.output = output
    BY RequestKnown DEF IsRequest
  <2> HIDE DEF q
  <2>9. HasTurned(q, row)
    <3>1. turn.reveals \in Messages \cup {None} /\ turn.revokes \in Messages \cup {None}
      BY <1>3, <2>5, <2>6 DEF Bodies
    <3>2. turn.reveals # None => Body(r).text = "accept" /\ Body(r).token = turn.reveals
      BY <2>3, <2>5, <2>6
    <3>3. requests[r].expected = row.revision => TurnFollows(turn, Message(r), row.memory)
      BY <1>3, <2>2 DEF HasLoaded
    <3> QED  BY <2>2, <2>7, <2>8, <3>1, <3>2, <3>3 DEF HasTurned, Message, Body
  <2>10. RequestOK(q, row, stored)
    BY <1>1, <1>3, <2>8, <2>9, RequestKnown DEF RequestOK, KnowsRevision
  <2> QED  BY <1>1, <1>2, <2>1, <2>10, ChangedRequest, QuietKeeps
<1>7. PICK plan \in Plans(r, m) :
        IF Planned(m, plan) = None
        THEN requests' = Rejecting(r, plan)
        ELSE \E a \in Actions(r, plan, Planned(m, plan)) :
               requests' = IF Acted(Message(r), Planned(m, plan), a) = None
                           THEN Rejecting(r, plan)
                           ELSE Committing(r, plan, a, Acted(Message(r), Planned(m, plan), a))
  BY Zenon DEF Evaluate
<1>8. CASE Planned(m, plan) = None
  BY <1>5, <1>7, <1>8
<1>9. CASE Planned(m, plan) # None
  <2>1. PICK a \in Actions(r, plan, Planned(m, plan)) :
          requests' = IF Acted(Message(r), Planned(m, plan), a) = None
                      THEN Rejecting(r, plan)
                      ELSE Committing(r, plan, a, Acted(Message(r), Planned(m, plan), a))
    BY <1>7, <1>9
  <2>2. CASE Acted(Message(r), Planned(m, plan), a) = None
    BY <1>5, <2>1, <2>2
  <2>3. CASE Acted(Message(r), Planned(m, plan), a) # None
    BY <1>6, <1>9, <2>1, <2>3
  <2> QED  BY <2>2, <2>3
<1> QED  BY <1>8, <1>9

LEMMA RefuseKeeps ==
    ASSUME DecisionInv, NEW r \in Requests, Refuse(r)
    PROVE  DecisionInv'
<1>1. /\ UNCHANGED <<row, stored, offers, lapsed, told, overtaken>>
      /\ requests[r].pc # "idle"
      /\ requests' = Done(r)
  BY DEF Refuse
<1>2. ToldOK'
  BY <1>1 DEF ToldOK, DecisionInv
<1> QED  BY <1>1, <1>2, DoneKeeps

LEMMA FailKeeps ==
    ASSUME DecisionInv, NEW r \in Requests, Fail(r)
    PROVE  DecisionInv'
<1>1. /\ UNCHANGED <<row, stored, offers, lapsed, told, overtaken>>
      /\ requests[r].pc # "idle"
      /\ requests' = Done(r)
  BY DEF Fail
<1>2. ToldOK'
  BY <1>1 DEF ToldOK, DecisionInv
<1> QED  BY <1>1, <1>2, DoneKeeps

LEMMA AnswerKeeps ==
    ASSUME DecisionInv, NEW r \in Requests, Answer(r)
    PROVE  DecisionInv'
<1>1. /\ UNCHANGED <<row, stored, offers, lapsed, overtaken>>
      /\ requests[r].pc = "answering"
      /\ requests' = Done(r)
  BY DEF Answer
<1>2. requests[r].output \in Outputs
  <2>1. /\ Message(r) \in Messages
        /\ stored[Message(r)] # None
        /\ requests[r].output = stored[Message(r)].output
    BY <1>1, RequestKnown DEF RequestOK, Message, Body, Bodies
  <2>2. stored[Message(r)] \in StoredMessages
    BY <2>1 DEF DecisionInv, RowsOK
  <2> QED  BY <2>1, <2>2 DEF StoredMessages
<1>3. ToldOK'
  <2> DEFINE t0 == [message |-> Message(r), output |-> requests[r].output,
                    cards |-> CardsAuthorized(r)]
  <2>1. told' = told \cup {t0}
    BY DEF Answer
  <2>2. t0.output = requests[r].output
    OBVIOUS
  <2> HIDE DEF t0
  <2> QED  BY <1>2, <2>1, <2>2 DEF ToldOK, DecisionInv
<1> QED  BY <1>1, <1>3, DoneKeeps

LEMMA LapseKeeps ==
    ASSUME DecisionInv, NEW o \in Messages, Lapse(o)
    PROVE  DecisionInv'
<1>1. UNCHANGED <<row, stored, offers, requests, told, overtaken>>
  BY DEF Lapse
<1> QED  BY <1>1 DEF DecisionInv, RequestsOK, RowsOK, ToldOK, OfferOK, OfferTableAgrees,
                     OvertakenOK

-----------------------------------------------------------------------------
(***************************************************************************)
(* The commit.                                                             *)
(***************************************************************************)

\* What is known when a commit holds.
LEMMA CommitKnown ==
    ASSUME DecisionInv, NEW r \in Requests, requests[r].pc = "committing", CommitHolds(r)
    PROVE  /\ Body(r) \in Bodies
           /\ Message(r) \in Messages
           /\ requests[r].output \in Outputs
           /\ requests[r].output.revision = row.revision + 1
           /\ IsMemory(Turn(r).memory)
           /\ TurnFollows(Turn(r), Message(r), row.memory)
           /\ stored[Message(r)] = None
           /\ offers[Message(r)] = None
           /\ Turn(r).reveals # None => /\ Turn(r).reveals \in Messages
                                        /\ offers[Turn(r).reveals] \in OfferRows
                                        /\ Body(r).text = "accept"
                                        /\ Body(r).token = Turn(r).reveals
           /\ Turn(r).revokes # None => /\ Turn(r).revokes \in Messages
                                        /\ offers[Turn(r).revokes] \in OfferRows
<1>1. Body(r) \in Bodies /\ HasTurned(requests[r], row)
  BY RequestKnown DEF RequestOK, Body
<1>2. Message(r) \in Messages
  BY <1>1 DEF Message, Bodies
<1>3. requests[r].expected = row.revision /\ stored[Message(r)] = None
  BY DEF CommitHolds
<1>4. /\ requests[r].output \in Outputs
      /\ requests[r].output.revision = row.revision + 1
      /\ IsMemory(Turn(r).memory)
      /\ TurnFollows(Turn(r), Message(r), row.memory)
      /\ Turn(r).reveals \in Messages \cup {None}
      /\ Turn(r).revokes \in Messages \cup {None}
      /\ Turn(r).reveals # None => Body(r).text = "accept" /\ Body(r).token = Turn(r).reveals
  BY <1>1, <1>3 DEF HasTurned, Turn, Message, Body
<1>5. offers[Message(r)] = None
  BY <1>2, <1>3 DEF DecisionInv, RowsOK
<1>6. ASSUME NEW o \in Messages, row.memory.offer # None, row.memory.offer.id = o
      PROVE  offers[o] \in OfferRows
  BY <1>6 DEF DecisionInv, OfferOK, OfferTableAgrees, RowsOK
<1>7. Turn(r).reveals # None => row.memory.offer # None /\ row.memory.offer.id = Turn(r).reveals
  BY <1>4 DEF TurnFollows
<1>8. Turn(r).revokes # None => row.memory.offer # None /\ row.memory.offer.id = Turn(r).revokes
  BY <1>4 DEF TurnFollows
<1> QED  BY <1>1, <1>2, <1>3, <1>4, <1>5, <1>6, <1>7, <1>8

\* The offers after a commit, one by one.
LEMMA CommittedOffers ==
    ASSUME DecisionInv, NEW r \in Requests, Commit(r), NEW o \in Messages
    PROVE  /\ offers'[o] \in OfferRows \cup {None}
           /\ offers[o] # None => offers'[o] # None /\ offers'[o].decision = offers[o].decision
           /\ offers'[o] # None /\ o # Message(r) => offers[o] # None
           /\ o = Turn(r).reveals => offers'[o] # None /\ offers'[o].life = "REVEALED"
           /\ o # Turn(r).reveals /\ o = Turn(r).revokes =>
                 offers'[o] # None /\ offers'[o].life = "REVOKED"
           /\ o # Turn(r).reveals /\ o # Turn(r).revokes /\ o = Message(r) /\ Turn(r).makes =>
                 offers'[o] = [life |-> "CREATED", decision |-> Turn(r).memory.decision]
           /\ o # Turn(r).reveals /\ o # Turn(r).revokes /\ ~(o = Message(r) /\ Turn(r).makes) =>
                 offers'[o] = offers[o]
<1>1. /\ requests[r].pc = "committing"
      /\ CommitHolds(r)
      /\ offers' = OffersAfter(r)
  BY DEF Commit
<1>2. /\ IsMemory(Turn(r).memory)
      /\ offers[Message(r)] = None
      /\ Turn(r).reveals # None => offers[Turn(r).reveals] \in OfferRows
      /\ Turn(r).revokes # None => offers[Turn(r).revokes] \in OfferRows
  BY <1>1, CommitKnown
<1>3. offers \in [Messages -> OfferRows \cup {None}]
  BY DEF DecisionInv, RowsOK
<1>4. None \notin Messages /\ None \notin OfferRows
  BY NoneIsNoValue, NoneIsNoRow DEF Messages, Requests
<1>5. offers'[o] = IF o = Turn(r).reveals THEN WithLife(offers[o], "REVEALED")
                   ELSE IF o = Turn(r).revokes THEN WithLife(offers[o], "REVOKED")
                   ELSE IF o = Message(r) /\ Turn(r).makes
                   THEN [life |-> "CREATED", decision |-> Turn(r).memory.decision]
                   ELSE offers[o]
  BY <1>1 DEF OffersAfter
<1>6. CASE o = Turn(r).reveals
  <2>1. offers'[o] = WithLife(offers[o], "REVEALED")
    BY <1>5, <1>6
  <2>2. offers[o] \in OfferRows
    BY <1>2, <1>4, <1>6
  <2> QED  BY <1>4, <1>6, <2>1, <2>2 DEF WithLife, OfferRows, OfferState
<1>7. CASE o # Turn(r).reveals /\ o = Turn(r).revokes
  <2>1. offers'[o] = WithLife(offers[o], "REVOKED")
    BY <1>5, <1>7
  <2>2. offers[o] \in OfferRows
    BY <1>2, <1>4, <1>7
  <2> QED  BY <1>4, <1>7, <2>1, <2>2 DEF WithLife, OfferRows, OfferState
<1>8. CASE o # Turn(r).reveals /\ o # Turn(r).revokes /\ o = Message(r) /\ Turn(r).makes
  <2>1. offers'[o] = [life |-> "CREATED", decision |-> Turn(r).memory.decision]
    BY <1>5, <1>8
  <2> QED  BY <1>2, <1>8, <2>1 DEF OfferRows, OfferState, IsMemory
<1>9. CASE o # Turn(r).reveals /\ o # Turn(r).revokes /\ ~(o = Message(r) /\ Turn(r).makes)
  <2>1. offers'[o] = offers[o]
    BY <1>5, <1>9
  <2> QED  BY <1>3, <1>9, <2>1
<1> QED  BY <1>6, <1>7, <1>8, <1>9

LEMMA CommitKeeps ==
    ASSUME DecisionInv, NEW r \in Requests, Commit(r)
    PROVE  DecisionInv'
<1>1. /\ requests[r].pc = "committing"
      /\ CommitHolds(r)
      /\ requests' = [requests EXCEPT ![r].pc = "answering", ![r].turn = None]
      /\ UNCHANGED <<lapsed, told>>
      /\ row'.revision = requests[r].output.revision
      /\ row'.memory = Turn(r).memory
      /\ overtaken' = IF Turn(r).touches
                      THEN overtaken \cup {o \in Messages : offers[o] # None}
                      ELSE overtaken
  BY DEF Commit
<1>2. /\ Body(r) \in Bodies
      /\ Message(r) \in Messages
      /\ requests[r].output \in Outputs
      /\ requests[r].output.revision = row.revision + 1
      /\ IsMemory(Turn(r).memory)
      /\ TurnFollows(Turn(r), Message(r), row.memory)
      /\ stored[Message(r)] = None
      /\ offers[Message(r)] = None
      /\ Turn(r).reveals # None => Turn(r).reveals \in Messages
      /\ Turn(r).revokes # None => Turn(r).revokes \in Messages
  BY <1>1, CommitKnown
<1>3. /\ row.revision \in Nat
      /\ IsMemory(row.memory)
      /\ stored \in [Messages -> StoredMessages \cup {None}]
      /\ offers \in [Messages -> OfferRows \cup {None}]
      /\ \A m \in Messages : offers[m] # None => stored[m] # None
  BY DEF DecisionInv, RowsOK
<1> DEFINE kept == [payload |-> Body(r), output |-> requests[r].output]
<1>4. stored' = [stored EXCEPT ![Message(r)] = kept] /\ kept \in StoredMessages
  BY <1>2 DEF Commit, StoredMessages
<1>5. kept.output = requests[r].output
  OBVIOUS
<1> HIDE DEF kept
<1>6. /\ stored' \in [Messages -> StoredMessages \cup {None}]
      /\ stored'[Message(r)] = kept
      /\ \A m \in Messages : stored[m] # None => stored'[m] # None /\ stored'[m] = stored[m]
  BY <1>2, <1>3, <1>4
<1>7. stored'[Message(r)] # None
  BY <1>4, <1>6, NoneIsNoRow
<1>8. \A o \in Messages :
        /\ offers'[o] \in OfferRows \cup {None}
        /\ offers[o] # None => offers'[o] # None /\ offers'[o].decision = offers[o].decision
        /\ offers'[o] # None /\ o # Message(r) => offers[o] # None
        /\ o = Turn(r).reveals => offers'[o] # None /\ offers'[o].life = "REVEALED"
        /\ o # Turn(r).reveals /\ o = Turn(r).revokes =>
              offers'[o] # None /\ offers'[o].life = "REVOKED"
        /\ o # Turn(r).reveals /\ o # Turn(r).revokes /\ o = Message(r) /\ Turn(r).makes =>
              offers'[o] = [life |-> "CREATED", decision |-> Turn(r).memory.decision]
        /\ o # Turn(r).reveals /\ o # Turn(r).revokes /\ ~(o = Message(r) /\ Turn(r).makes) =>
              offers'[o] = offers[o]
  BY CommittedOffers
<1>9. None \notin Messages
  BY NoneIsNoValue DEF Messages, Requests
<1>10. row'.revision = row.revision + 1
  BY <1>1, <1>2
<1>11. RequestsOK'
  <2> DEFINE q == [requests[r] EXCEPT !.pc = "answering", !.turn = None]
  <2>1. requests' = [requests EXCEPT ![r] = q]
    BY <1>1
  <2>2. /\ IsRequest(q) /\ q.pc = "answering" /\ q.body = Body(r)
        /\ q.output = requests[r].output
    BY RequestKnown DEF IsRequest, Body
  <2> HIDE DEF q
  <2>3. RequestOK(q, row', stored')
    BY <1>2, <1>5, <1>6, <1>7, <2>2 DEF RequestOK, Message
  <2>4. ASSUME NEW s \in Requests \ {r} PROVE RequestOK(requests'[s], row', stored')
    <3>1. requests'[s] = requests[s] /\ RequestOK(requests[s], row, stored)
      BY <2>1, ChangedRequest, RequestKnown
    <3> DEFINE p == requests[s]
    <3>2. KnowsRevision(p, row) => KnowsRevision(p, row') /\ p.expected # row'.revision
      BY <1>3, <1>10 DEF KnowsRevision
    <3>3. HasLoaded(p, row) => HasLoaded(p, row')
      BY <1>3, <1>10 DEF HasLoaded
    <3>4. HasTurned(p, row) /\ p.expected # row'.revision => HasTurned(p, row')
      BY DEF HasTurned
    <3>5. p.pc = "answering" => /\ stored'[p.body.message] # None
                               /\ p.output = stored'[p.body.message].output
      <4>1. p.pc # "idle" => p.body.message \in Messages
        BY <3>1 DEF RequestOK, Bodies
      <4> QED  BY <1>6, <3>1, <4>1 DEF RequestOK
    <3> HIDE DEF p
    <3>6. RequestOK(p, row, stored) => RequestOK(p, row', stored')
      BY <3>2, <3>3, <3>4, <3>5 DEF RequestOK
    <3> QED  BY <3>1, <3>6 DEF p
  <2>5. DOMAIN requests' = Requests /\ requests'[r] = q
    BY <2>1, ChangedRequest
  <2> QED  BY <2>3, <2>4, <2>5 DEF RequestsOK
<1>12. RowsOK'
  <2>1. offers' \in [Messages -> OfferRows \cup {None}]
    <3>1. offers' = [o \in Messages |-> offers'[o]]
      BY DEF Commit, OffersAfter
    <3> QED  BY <1>8, <3>1
  <2>2. \A m \in Messages : offers'[m] # None => stored'[m] # None
    <3> SUFFICES ASSUME NEW m \in Messages, offers'[m] # None PROVE stored'[m] # None
      OBVIOUS
    <3>1. CASE m = Message(r)
      BY <1>7, <3>1
    <3>2. CASE m # Message(r)
      <4>1. offers[m] # None
        BY <1>8, <3>2
      <4> QED  BY <1>3, <1>6, <4>1
    <3> QED  BY <3>1, <3>2
  <2> QED  BY <1>1, <1>2, <1>3, <1>6, <1>10, <2>1, <2>2 DEF RowsOK
<1>13. ToldOK'
  BY <1>1 DEF ToldOK, DecisionInv
<1> DEFINE offer == row.memory.offer
           after == Turn(r).memory.offer
<1>14. offer # None => /\ offer.id \in Messages
                       /\ offers[offer.id] # None
                       /\ offer.life = "CREATED" =>
                            /\ offers[offer.id].life = "CREATED"
                            /\ offers[offer.id].decision = row.memory.decision
                            /\ offer.id \notin overtaken
                       /\ offer.life = "REVEALED" => offers[offer.id].life = "REVEALED"
  BY DEF DecisionInv, OfferOK, OfferTableAgrees, OvertakenOK
<1>15. \A o \in overtaken : o \in Messages /\ offers[o] # None
  BY DEF DecisionInv, OvertakenOK
<1>16. after # None =>
         /\ after.id \in Messages
         /\ offers'[after.id] # None
         /\ after.life = "CREATED" => /\ offers'[after.id].life = "CREATED"
                                      /\ offers'[after.id].decision = Turn(r).memory.decision
                                      /\ after.id \notin overtaken'
         /\ after.life = "REVEALED" => offers'[after.id].life = "REVEALED"
  <2>1. CASE Turn(r).makes
    <3>1. after = [id |-> Message(r), life |-> "CREATED"]
      BY <1>2, <2>1 DEF TurnFollows
    <3>2. Turn(r).reveals # Message(r) /\ Turn(r).revokes # Message(r)
      BY <1>2, <1>9, <2>1 DEF TurnFollows
    <3>3. offers'[Message(r)] = [life |-> "CREATED", decision |-> Turn(r).memory.decision]
      BY <1>2, <1>8, <2>1, <3>2
    <3>4. Message(r) \notin overtaken'
      BY <1>1, <1>2, <1>15
    <3>5. offers'[Message(r)] # None
      BY <3>3, <1>2, NoneIsNoRow DEF OfferRows, OfferState, IsMemory
    <3> QED  BY <1>2, <3>1, <3>3, <3>4, <3>5
  <2>2. CASE ~Turn(r).makes /\ Turn(r).reveals # None
    BY <1>2, <1>8, <2>2 DEF TurnFollows
  <2>3. CASE ~Turn(r).makes /\ Turn(r).reveals = None /\ Turn(r).revokes # None
    BY <1>2, <1>8, <2>3 DEF TurnFollows
  <2>4. CASE ~Turn(r).makes /\ Turn(r).reveals = None /\ Turn(r).revokes = None
    <3>1. \A o \in Messages : offers'[o] = offers[o]
      BY <1>8, <1>9, <2>4
    <3>2. CASE Turn(r).touches
      BY <1>2, <1>14, <2>4, <3>1, <3>2 DEF TurnFollows
    <3>3. CASE ~Turn(r).touches
      BY <1>1, <1>2, <1>14, <2>4, <3>1, <3>3 DEF TurnFollows
    <3> QED  BY <3>2, <3>3
  <2> QED  BY <2>1, <2>2, <2>3, <2>4
<1>17. OfferOK'
  BY <1>1, <1>16 DEF OfferOK, OfferTableAgrees
<1>18. OvertakenOK'
  <2>1. \A o \in overtaken' : o \in Messages /\ offers'[o] # None
    BY <1>1, <1>8, <1>15
  <2> QED  BY <1>1, <1>16, <2>1 DEF OvertakenOK
<1> QED  BY <1>11, <1>12, <1>13, <1>17, <1>18 DEF DecisionInv

-----------------------------------------------------------------------------
(***************************************************************************)
(* Theorems.                                                               *)
(***************************************************************************)
LEMMA NextKeepsInv == DecisionInv /\ [DecisionNext]_vars => DecisionInv'
<1> SUFFICES ASSUME DecisionInv, [DecisionNext]_vars PROVE DecisionInv'
  OBVIOUS
<1>1. ASSUME NEW r \in Requests, RequestStep(r) PROVE DecisionInv'
  BY <1>1, SendKeeps, RepeatKeeps, RouteRowKeeps, RouteMessagesKeeps, RunRowKeeps,
     RunMessagesKeeps, EvaluateKeeps, CommitKeeps, RefuseKeeps, AnswerKeeps, FailKeeps
     DEF RequestStep
<1>2. ASSUME NEW r \in Requests, Lapse(r) PROVE DecisionInv'
  BY <1>2, LapseKeeps DEF Messages
<1>3. CASE UNCHANGED vars
  BY <1>3 DEF vars, DecisionInv, RequestsOK, RowsOK, ToldOK, OfferOK, OfferTableAgrees,
              OvertakenOK
<1> QED  BY <1>1, <1>2, <1>3 DEF DecisionNext

LEMMA Invariance == DecisionSpec => []DecisionInv
<1> QED  BY InitInv, NextKeepsInv, PTL DEF DecisionSpec

\* The memory and the offers table agree on the current offer, however many
\* requests read the one before the commit of another and write the other after.
THEOREM OffersAgree == DecisionSpec => []OfferTableAgrees
<1>1. DecisionInv => OfferTableAgrees
  BY DEF DecisionInv, OfferOK
<1> QED  BY <1>1, Invariance, PTL

\* No offer is revealed once the decision was touched after it was made, and only
\* the message that accepted its terms reveals it: the loads need no transaction,
\* the revision in the commit is enough.
THEOREM RevealsAreCurrent == DecisionSpec => RevealIsCurrent
<1> DEFINE Current == \A o \in Messages :
         offers[o] # None /\ offers[o].life # offers'[o].life /\ offers'[o].life = "REVEALED"
           => /\ o \notin overtaken
              /\ \E r \in Requests : /\ requests[r].pc = "committing"
                                     /\ Body(r).text = "accept" /\ Body(r).token = o
<1>1. DecisionInv /\ [DecisionNext]_vars => Current
  <2> SUFFICES ASSUME DecisionInv, [DecisionNext]_vars, NEW o \in Messages,
                      offers[o] # None, offers[o].life # offers'[o].life,
                      offers'[o].life = "REVEALED"
               PROVE  /\ o \notin overtaken
                      /\ \E r \in Requests : /\ requests[r].pc = "committing"
                                             /\ Body(r).text = "accept" /\ Body(r).token = o
    OBVIOUS
  <2>1. PICK r \in Requests : Commit(r)
    BY DEF DecisionNext, RequestStep, vars, Send, Repeat, RouteRow, RouteMessages, RunRow,
           RunMessages, Evaluate, Refuse, Answer, Fail, Lapse
  <2>2. requests[r].pc = "committing" /\ CommitHolds(r)
    BY <2>1 DEF Commit
  <2>3. offers[Message(r)] = None
    BY <2>2, CommitKnown
  <2>4. o = Turn(r).reveals
    BY <2>1, <2>3, CommittedOffers
  <2>5. Turn(r).reveals # None
    BY <2>4, NoneIsNoValue DEF Messages, Requests
  <2>6. Body(r).text = "accept" /\ Body(r).token = o
    BY <2>2, <2>4, <2>5, CommitKnown
  <2>7. TurnFollows(Turn(r), Message(r), row.memory)
    BY <2>2, CommitKnown
  <2>8. row.memory.offer # None /\ row.memory.offer = [id |-> o, life |-> "CREATED"]
    BY <2>4, <2>5, <2>7 DEF TurnFollows
  <2>9. o \notin overtaken
    BY <2>8 DEF DecisionInv, OvertakenOK
  <2> QED  BY <2>2, <2>6, <2>9
<1> QED  BY <1>1, Invariance, PTL DEF DecisionSpec, RevealIsCurrent

\* The requests, interleaved as they may be, repeated, failing and lost, implement
\* the log of answers: one answer for a message, under the next revision, and
\* nobody is told another.
THEOREM ImplementsTurnLog == DecisionSpec => KeepsTurnLog
<1> DEFINE answers == [m \in Messages |-> IF stored[m] = None THEN None ELSE stored[m].output]
           heard   == {<<t.message, t.output>> : t \in told}
<1>1. DecisionInit => Log!LogInit
  BY DEF DecisionInit, Log!LogInit
<1>2. DecisionInv /\ [DecisionNext]_vars => [Log!LogNext]_(Log!logVars)
  <2> SUFFICES ASSUME DecisionInv, [DecisionNext]_vars
               PROVE  [Log!LogNext]_(Log!logVars)
    OBVIOUS
  <2>1. ASSUME NEW r \in Requests, Commit(r) PROVE Log!LogNext
    <3>1. requests[r].pc = "committing" /\ CommitHolds(r) /\ UNCHANGED told
      BY <2>1 DEF Commit
    <3>2. /\ Message(r) \in Messages
          /\ requests[r].output \in Outputs
          /\ requests[r].output.revision = row.revision + 1
          /\ stored[Message(r)] = None
      BY <3>1, CommitKnown
    <3>3. stored \in [Messages -> StoredMessages \cup {None}]
      BY DEF DecisionInv, RowsOK
    <3> DEFINE kept == [payload |-> Body(r), output |-> requests[r].output]
    <3>4. /\ stored' = [stored EXCEPT ![Message(r)] = kept]
          /\ row'.revision = requests[r].output.revision
      BY <2>1 DEF Commit
    <3>5. kept # None /\ kept.output = requests[r].output
      BY <3>1, <3>2, CommitKnown, NoneIsNoRow DEF StoredMessages
    <3> HIDE DEF kept
    <3>6. \A m \in Messages : stored'[m] = IF m = Message(r) THEN kept ELSE stored[m]
      BY <3>3, <3>4
    <3>7. answers' = [answers EXCEPT ![Message(r)] = requests[r].output]
      BY <3>2, <3>5, <3>6
    <3>8. answers[Message(r)] = None /\ answers'[Message(r)] = requests[r].output
      BY <3>2, <3>7
    <3>9. requests[r].output # None
      BY <3>2, NoneIsNoRow
    <3>10. heard' = heard
      BY <3>1
    <3> QED  BY <3>2, <3>4, <3>7, <3>8, <3>9, <3>10 DEF Log!Keep, Log!LogNext
  <2>2. ASSUME NEW r \in Requests, Answer(r) PROVE Log!LogNext
    <3>1. UNCHANGED <<row, stored>> /\ requests[r].pc = "answering"
      BY <2>2 DEF Answer
    <3>2. /\ Message(r) \in Messages
          /\ stored[Message(r)] # None
          /\ requests[r].output = stored[Message(r)].output
      BY <3>1, RequestKnown DEF RequestOK, Message, Body, Bodies
    <3>3. stored[Message(r)].output \in Outputs
      BY <3>2 DEF DecisionInv, RowsOK, StoredMessages
    <3>4. answers[Message(r)] = requests[r].output /\ answers[Message(r)] # None
      BY <3>2, <3>3, NoneIsNoRow
    <3> DEFINE t0 == [message |-> Message(r), output |-> requests[r].output,
                      cards |-> CardsAuthorized(r)]
    <3>5. told' = told \cup {t0}
      BY <2>2 DEF Answer
    <3>6. t0.message = Message(r) /\ t0.output = requests[r].output
      OBVIOUS
    <3> HIDE DEF t0
    <3>7. heard' = heard \cup {<<Message(r), answers[Message(r)]>>}
      BY <3>4, <3>5, <3>6
    <3>8. answers' = answers /\ row'.revision = row.revision
      BY <3>1
    <3> QED  BY <3>2, <3>4, <3>7, <3>8 DEF Log!Tell, Log!LogNext
  <2>3. CASE UNCHANGED <<row, stored, told>>
    BY <2>3 DEF Log!logVars
  <2>4. \/ \E r \in Requests : Commit(r) \/ Answer(r)
        \/ UNCHANGED <<row, stored, told>>
    BY DEF DecisionNext, RequestStep, vars, Send, Repeat, RouteRow, RouteMessages, RunRow,
           RunMessages, Evaluate, Refuse, Fail, Lapse
  <2>5. CASE \E r \in Requests : Commit(r) \/ Answer(r)
    BY <2>1, <2>2, <2>5
  <2> QED  BY <2>3, <2>4, <2>5
<1> QED  BY <1>1, <1>2, Invariance, PTL DEF DecisionSpec, KeepsTurnLog, Log!LogSpec

(***************************************************************************)
(* Questions.  What the two searches of a history find, which histories    *)
(* the fold makes, and what each change of a memory leaves open.           *)
(***************************************************************************)
LEMMA LargestIndex ==
    ASSUME NEW n \in Nat, NEW I, I \subseteq 1..n, I # {}
    PROVE  \E i \in I : \A j \in I : i >= j
<1> DEFINE T == {n - i : i \in I}
<1>1. T \subseteq Nat /\ T # {}
  <2>1. \A i \in I : n - i \in Nat
    OBVIOUS
  <2> QED  BY <2>1
<1>2. PICK x \in T : \A y \in T : ~ (<<y, x>> \in OpToRel(<, Nat))
  BY <1>1, NatLessThanWellFounded, WFMin
<1>3. \A y \in T : ~ (y < x)
  BY <1>1, <1>2 DEF OpToRel
<1>4. PICK i \in I : x = n - i
  OBVIOUS
<1>5. ASSUME NEW j \in I PROVE i >= j
  <2>1. ~ (n - j < n - i)
    BY <1>3, <1>4
  <2>2. i \in Int /\ j \in Int
    OBVIOUS
  <2> QED  BY <2>1, <2>2
<1> QED  BY <1>5

\* An entry of the history of questions.
Asked == [key : Questions, status : AnswerStatus, asked : Nat, answered : Nat]

LEMMA LastOfLast ==
    ASSUME NEW h \in Seq(Asked), NEW k
    PROVE  /\ LastOf(h, k) \in 0..Len(h)
           /\ LastOf(h, k) = 0 => \A j \in 1..Len(h) : h[j].key # k
           /\ LastOf(h, k) # 0 => /\ h[LastOf(h, k)].key = k
                                  /\ \A j \in 1..Len(h) : h[j].key = k => j <= LastOf(h, k)
<1> DEFINE I == {j \in 1..Len(h) : h[j].key = k}
<1>1. LastOf(h, k) = IF I # {} THEN CHOOSE i \in I : \A j \in I : i >= j ELSE 0
  BY DEF LastOf, SelectLastInSeq, Max
<1>2. CASE I = {}
  BY <1>1, <1>2
<1>3. CASE I # {}
  <2>1. Len(h) \in Nat /\ I \subseteq 1..Len(h)
    OBVIOUS
  <2>2. PICK i \in I : \A j \in I : i >= j
    BY <1>3, <2>1, LargestIndex
  <2>3. LastOf(h, k) \in I /\ \A j \in I : LastOf(h, k) >= j
    BY <1>1, <1>3, <2>2
  <2> QED  BY <2>1, <2>3
<1> QED  BY <1>2, <1>3

LEMMA OpenIsLast ==
    ASSUME NEW m, m.history \in Seq(Asked),
           \A j \in 1..Len(m.history) : m.history[j].status = "OPEN" => j = Len(m.history)
    PROVE  OpenQuestion(m) = IF m.history # <<>> /\ m.history[Len(m.history)].status = "OPEN"
                             THEN m.history[Len(m.history)].key ELSE None
<1> DEFINE h == m.history
           n == Len(h)
           I == {j \in 1..n : h[j].status = "OPEN"}
           open == IF I # {} THEN CHOOSE i \in I : \A j \in I : i >= j ELSE 0
<1>1. OpenQuestion(m) = IF open = 0 THEN None ELSE h[open].key
  BY DEF OpenQuestion, SelectLastInSeq, Max
<1>2. n \in Nat /\ (n = 0 <=> h = <<>>)
  OBVIOUS
<1>3. CASE h # <<>> /\ h[n].status = "OPEN"
  <2>1. I = {n}
    BY <1>2, <1>3
  <2>2. open = n
    BY <1>2, <2>1
  <2> QED  BY <1>1, <1>2, <1>3, <2>2
<1>4. CASE ~(h # <<>> /\ h[n].status = "OPEN")
  <2>1. I = {}
    BY <1>2, <1>4
  <2> QED  BY <1>1, <1>4, <2>1
<1> QED  BY <1>3, <1>4


LEMMA SameKeysSameLast ==
    ASSUME NEW h \in Seq(Asked), NEW g \in Seq(Asked), Len(g) = Len(h),
           \A j \in 1..Len(h) : g[j].key = h[j].key,
           NEW k
    PROVE  LastOf(g, k) = LastOf(h, k)
BY LastOfLast

\* A memory whose questions are as the fold leaves them: only the newest can be
\* open, none was put off before it was asked, and nothing answers a conflict.
GoodMemory(m) ==
    /\ m \in Memory
    /\ \A j \in 1..Len(m.history) :
          LET q == m.history[j]
          IN  /\ q.status = "OPEN" => j = Len(m.history)
              /\ q.asked <= m.turn
              /\ q.status = "DEFERRED" => q.asked <= q.answered
              /\ q.status = "ANSWERED" => q.key \notin Conflicted

LEMMA GoodIsMemory ==
    ASSUME NEW m, GoodMemory(m)
    PROVE  /\ IsMemory(m)
           /\ m # None
           /\ m.history \in Seq(Asked)
           /\ m.turn \in Nat
           /\ m.abuse \in 0..AbuseEnded
BY NoneIsNoValue DEF GoodMemory, Memory, IsMemory, Asked

\* The open question is the newest one.
LEMMA OpenIsNewest ==
    ASSUME NEW m, GoodMemory(m), OpenQuestion(m) # None
    PROVE  /\ Len(m.history) \in Nat \ {0}
           /\ m.history[Len(m.history)].status = "OPEN"
           /\ m.history[Len(m.history)].key = OpenQuestion(m)
           /\ LastOf(m.history, OpenQuestion(m)) = Len(m.history)
           /\ OpenQuestion(m) \in Questions
<1> DEFINE h == m.history
           n == Len(h)
<1>1. h \in Seq(Asked)
  BY GoodIsMemory
<1>2. \A j \in 1..n : h[j].status = "OPEN" => j = n
  BY DEF GoodMemory
<1>3. h # <<>> /\ h[n].status = "OPEN" /\ OpenQuestion(m) = h[n].key
  BY <1>1, <1>2, OpenIsLast
<1>4. n \in Nat \ {0} /\ n \in 1..n
  BY <1>1, <1>3
<1>5. h[n] \in Asked
  BY <1>1, <1>4
<1>6. LastOf(h, h[n].key) = n
  BY <1>1, <1>4, LastOfLast
<1> QED  BY <1>3, <1>4, <1>5, <1>6 DEF Asked

LEMMA NoOtherIsOpen ==
    ASSUME NEW m, GoodMemory(m), NEW j \in 1..Len(m.history), m.history[j].status = "OPEN"
    PROVE  OpenQuestion(m) = m.history[j].key
<1>1. m.history \in Seq(Asked) /\ j = Len(m.history) /\ m.history # <<>>
  BY GoodIsMemory DEF GoodMemory
<1> QED  BY <1>1, OpenIsLast DEF GoodMemory

\* Settling the open question never fails; it leaves no question open and the
\* others as they were.
LEMMA OpenSettles ==
    ASSUME NEW m, GoodMemory(m), OpenQuestion(m) # None,
           NEW s \in {"ANSWERED", "DECLINED", "DEFERRED", "SUPERSEDED"},
           s = "ANSWERED" => OpenQuestion(m) \notin Conflicted
    PROVE  LET after == Settle(m, OpenQuestion(m), s)
               last  == Len(m.history)
           IN  /\ after # None
               /\ GoodMemory(after)
               /\ OpenQuestion(after) = None
               /\ after.turn = m.turn
               /\ after.abuse = m.abuse
               /\ \A k : LastOf(after.history, k) = LastOf(m.history, k)
               /\ after.history[last].status = s
               /\ \A j \in 1..last - 1 : after.history[j] = m.history[j]
<1> DEFINE h    == m.history
           n    == Len(h)
           k    == OpenQuestion(m)
           done == [h[n] EXCEPT !.status = s, !.answered = m.turn]
           g    == [h EXCEPT ![n] = done]
           after == [m EXCEPT !.history = g]
<1>1. /\ n \in Nat \ {0} /\ h[n].status = "OPEN" /\ h[n].key = k
      /\ LastOf(h, k) = n
  BY OpenIsNewest
<1>2. h \in Seq(Asked) /\ m.turn \in Nat /\ m \in Memory
  BY GoodIsMemory DEF GoodMemory
<1>3. h[n] \in Asked
  BY <1>1, <1>2
<1>4. /\ done \in Asked /\ done.key = k /\ done.status = s
      /\ done.asked = h[n].asked /\ done.answered = m.turn
  BY <1>1, <1>2, <1>3 DEF Asked, AnswerStatus
<1>5. Settle(m, k, s) = after
  BY <1>1, <1>2 DEF Settle, Memory
<1> HIDE DEF done
<1>6. /\ g \in Seq(Asked) /\ Len(g) = n /\ g[n] = done
      /\ \A j \in 1..n - 1 : g[j] = h[j]
  BY <1>1, <1>2, <1>4
<1>7. \A j \in 1..n : g[j].key = h[j].key
  BY <1>1, <1>4, <1>6
<1> HIDE DEF g
<1>8. after \in Memory /\ after.history = g /\ after.turn = m.turn /\ after.abuse = m.abuse
  BY <1>2, <1>6 DEF Memory, Asked
<1> HIDE DEF after
<1>9. GoodMemory(after)
  <2> SUFFICES ASSUME NEW j \in 1..n
               PROVE  /\ g[j].status = "OPEN" => j = n
                      /\ g[j].asked <= m.turn
                      /\ g[j].status = "DEFERRED" => g[j].asked <= g[j].answered
                      /\ g[j].status = "ANSWERED" => g[j].key \notin Conflicted
    BY <1>6, <1>8 DEF GoodMemory
  <2>1. CASE j = n
    BY <1>1, <1>4, <1>6, <2>1 DEF GoodMemory
  <2>2. CASE j # n
    <3>1. j \in 1..n - 1 /\ g[j] = h[j]
      BY <1>1, <1>6, <2>2
    <3> QED  BY <3>1 DEF GoodMemory
  <2> QED  BY <2>1, <2>2
<1>10. OpenQuestion(after) = None
  <2>1. g[n].status # "OPEN"
    BY <1>4, <1>6
  <2> QED  BY <1>6, <1>8, <1>9, <2>1, OpenIsNewest
<1>11. \A l : LastOf(g, l) = LastOf(h, l)
  BY <1>2, <1>6, <1>7, SameKeysSameLast
<1>12. after # None
  BY <1>9, GoodIsMemory
<1> QED  BY <1>4, <1>5, <1>6, <1>8, <1>9, <1>10, <1>11, <1>12


LEMMA DecideIsGood ==
    ASSUME NEW m, GoodMemory(m), NEW d \in Decisions
    PROVE  /\ GoodMemory(Decide(m, d))
           /\ Decide(m, d).history = m.history
           /\ Decide(m, d).turn = m.turn
           /\ Decide(m, d).abuse = m.abuse
<1> DEFINE revoked == [m.offer EXCEPT !.life = "REVOKED"]
           offer   == IF m.offer = None THEN None ELSE revoked
<1>1. m.offer # None => revoked \in [id : Nat, life : OfferState]
  BY DEF GoodMemory, Memory, OfferState
<1>2. Decide(m, d) = [m EXCEPT !.decision = d, !.offer = offer]
  BY DEF Decide, GoodMemory, Memory
<1>3. offer \in [id : Nat, life : OfferState] \cup {None}
  BY <1>1
<1> HIDE DEF offer
<1>4. /\ [m EXCEPT !.decision = d, !.offer = offer] \in Memory
      /\ Decide(m, d).history = m.history
      /\ Decide(m, d).turn = m.turn
      /\ Decide(m, d).abuse = m.abuse
  BY <1>2, <1>3 DEF GoodMemory, Memory
<1> QED  BY <1>2, <1>4 DEF GoodMemory

LEMMA RecordIsGood ==
    ASSUME NEW m, GoodMemory(m)
    PROVE  LET after == Record(m, "constraint")
           IN  /\ GoodMemory(after)
               /\ after.history = m.history
               /\ after.turn = m.turn
               /\ after.abuse = m.abuse
<1> DEFINE after == [m EXCEPT !.constrained = TRUE]
<1>1. after \in Memory /\ after.history = m.history /\ after.turn = m.turn /\ after.abuse = m.abuse
  BY DEF GoodMemory, Memory
<1>2. Record(m, "constraint") = after
  BY DEF Record
<1> HIDE DEF after
<1> QED  BY <1>1, <1>2 DEF GoodMemory

LEMMA InsultIsGood ==
    ASSUME NEW m, GoodMemory(m)
    PROVE  LET after == Insult(m, AbuseTransition(m))
           IN  /\ after = None => m.abuse = AbuseEnded
               /\ after # None => /\ GoodMemory(after)
                                  /\ after.history = m.history
                                  /\ after.turn = m.turn
<1> DEFINE level == AbuseTransition(m)
           after == [m EXCEPT !.abuse = level]
<1>1. m.abuse \in 0..3 /\ level = (IF m.abuse < 2 THEN m.abuse + 1 ELSE 3)
  BY GoodIsMemory DEF AbuseEnded, AbuseTransition
<1>2. level = m.abuse + 1 \/ m.abuse = 3
  BY <1>1
<1>3. level \in 0..3
  BY <1>1
<1> HIDE DEF level
<1>4. after \in Memory /\ after.history = m.history /\ after.turn = m.turn
  BY <1>3 DEF GoodMemory, Memory, AbuseEnded
<1>5. GoodMemory(after)
  BY <1>4 DEF GoodMemory
<1>6. Insult(m, level) = IF level = m.abuse + 1 THEN after ELSE None
  BY DEF Insult
<1> HIDE DEF after
<1>7. Insult(m, level) = None => m.abuse = AbuseEnded
  BY <1>2, <1>5, <1>6, GoodIsMemory DEF AbuseEnded
<1> QED  BY <1>4, <1>5, <1>6, <1>7 DEF level

\* Asking when no question is open: it is the new one that is open then.
LEMMA AskOpens ==
    ASSUME NEW m, GoodMemory(m), OpenQuestion(m) = None, NEW k \in Questions
    PROVE  /\ Ask(m, k) = None => ~MayBeAsked(m, k, m.turn)
           /\ Ask(m, k) # None => GoodMemory(Ask(m, k)) /\ OpenQuestion(Ask(m, k)) = k
<1> DEFINE h     == m.history
           n     == Len(h)
           asked == [key |-> k, status |-> "OPEN", asked |-> m.turn, answered |-> 0]
           g     == Append(h, asked)
           after == [m EXCEPT !.history = g]
<1>1. h \in Seq(Asked) /\ m.turn \in Nat /\ m \in Memory /\ n \in Nat
  BY GoodIsMemory DEF GoodMemory
<1>2. asked \in Asked /\ asked.status = "OPEN" /\ asked.asked = m.turn /\ asked.key = k
  BY <1>1 DEF Asked, AnswerStatus
<1>3. Ask(m, k) = IF MayBeAsked(m, k, m.turn) THEN after ELSE None
  BY <1>1 DEF Ask, Memory
<1> HIDE DEF asked
<1>4. /\ g \in Seq(Asked) /\ Len(g) = n + 1 /\ g[n + 1] = asked /\ g # <<>>
      /\ \A j \in 1..n : g[j] = h[j]
  BY <1>1, <1>2
<1>5. \A j \in 1..n : h[j].status # "OPEN"
  <2> SUFFICES ASSUME NEW j \in 1..n, h[j].status = "OPEN" PROVE FALSE
    OBVIOUS
  <2>1. h[j].key = None
    BY NoOtherIsOpen
  <2>2. h[j] \in Asked
    BY <1>1
  <2> QED  BY <2>1, <2>2, NoneIsNoValue DEF Asked
<1> HIDE DEF g
<1>6. after \in Memory /\ after.history = g /\ after.turn = m.turn
  BY <1>1, <1>4 DEF Memory, Asked
<1> HIDE DEF after
<1>7. GoodMemory(after)
  <2> SUFFICES ASSUME NEW j \in 1..n + 1
               PROVE  /\ g[j].status = "OPEN" => j = n + 1
                      /\ g[j].asked <= m.turn
                      /\ g[j].status = "DEFERRED" => g[j].asked <= g[j].answered
                      /\ g[j].status = "ANSWERED" => g[j].key \notin Conflicted
    BY <1>4, <1>6 DEF GoodMemory
  <2>1. CASE j = n + 1
    BY <1>1, <1>2, <1>4, <2>1
  <2>2. CASE j \in 1..n
    BY <1>4, <1>5, <2>2 DEF GoodMemory
  <2> QED  BY <1>1, <2>1, <2>2
<1>8. OpenQuestion(after) = k
  <2>1. n + 1 \in 1..Len(after.history) /\ after.history[n + 1] = asked
    BY <1>1, <1>4, <1>6
  <2> QED  BY <1>2, <1>7, <2>1, NoOtherIsOpen
<1>9. after # None
  BY <1>7, GoodIsMemory
<1> QED  BY <1>3, <1>7, <1>8, <1>9

\* The turn's question ends up as the open one, or it may not be asked at all:
\* closing the one before is never what fails.
LEMMA QuestionedOpens ==
    ASSUME NEW m, GoodMemory(m), NEW k \in Questions
    PROVE  /\ Questioned(m, k) = None => k # OpenQuestion(m) /\ ~MayBeAsked(m, k, m.turn)
           /\ Questioned(m, k) # None =>
                GoodMemory(Questioned(m, k)) /\ OpenQuestion(Questioned(m, k)) = k
<1> DEFINE open   == OpenQuestion(m)
           closed == IF open = None THEN m ELSE Settle(m, open, "SUPERSEDED")
<1>1. k # None
  BY NoneIsNoValue
<1>2. CASE k = open
  <2>1. Questioned(m, k) = m
    BY <1>2 DEF Questioned
  <2> QED  BY <1>2, <2>1, GoodIsMemory
<1>3. CASE k # open
  <2>1. /\ closed # None /\ GoodMemory(closed) /\ OpenQuestion(closed) = None
        /\ MayBeAsked(closed, k, closed.turn) => MayBeAsked(m, k, m.turn)
        /\ MayBeAsked(m, k, m.turn) => MayBeAsked(closed, k, closed.turn)
    <3>1. CASE open = None
      BY <3>1, GoodIsMemory
    <3>2. CASE open # None
      <4> DEFINE n == Len(m.history)
                 i == LastOf(m.history, k)
      <4>1. /\ closed = Settle(m, open, "SUPERSEDED")
            /\ closed # None /\ GoodMemory(closed) /\ OpenQuestion(closed) = None
            /\ closed.turn = m.turn
            /\ LastOf(closed.history, k) = i
            /\ \A j \in 1..n - 1 : closed.history[j] = m.history[j]
        BY <3>2, OpenSettles
      <4>2. i \in 0..n /\ (i # 0 => m.history[i].key = k)
        BY GoodIsMemory, LastOfLast
      <4>3. n \in Nat \ {0} /\ m.history[n].key = open
        BY <3>2, OpenIsNewest
      <4>4. i # 0 => closed.history[i] = m.history[i]
        BY <1>3, <4>1, <4>2, <4>3
      <4> HIDE DEF closed, i
      <4> QED  BY <4>1, <4>4 DEF MayBeAsked, i
    <3> QED  BY <3>1, <3>2
  <2>2. Questioned(m, k) = Ask(closed, k)
    BY <1>1, <1>3, <2>1 DEF Questioned
  <2> HIDE DEF closed
  <2> QED  BY <1>3, <2>1, <2>2, AskOpens
<1> QED  BY <1>2, <1>3


\* How a plan may settle the open question.
IsSettlement(m, s) ==
    /\ s \in {None, "ANSWERED", "DECLINED", "DEFERRED", "SUPERSEDED"}
    /\ s # None => OpenQuestion(m) # None
    /\ s = "ANSWERED" => OpenQuestion(m) \in Keys

LEMMA SettlementsAllowed ==
    ASSUME NEW m, NEW to, NEW adds, NEW s \in Settlements(m, to, adds)
    PROVE  IsSettlement(m, s)
BY NoneIsNoValue DEF Settlements, IsSettlement, AnswerStatus, Questions

\* What a plan adds to the record.  A correction names another field's constraint
\* only where the record has one.
IsAddition(m, a) ==
    /\ a \in {None, "constraint", "misnamed", "oversized"}
    /\ a = "misnamed" => m.constrained

IsPlan(m, p) ==
    IsSettlement(m, p.settles) /\ IsAddition(m, p.adds) /\ p.abuse \in BOOLEAN

LEMMA PlansSettle ==
    ASSUME NEW r \in Requests, NEW m, NEW plan \in Plans(r, m)
    PROVE  IsPlan(m, plan)
<1>1. \A adds \in Carried : IsAddition(m, adds)
  BY NoneIsNoText DEF Carried, IsAddition
<1>2. ASSUME NEW reply, NEW p \in FreePlans(m, reply)
      PROVE  IsPlan(m, p)
  <2>1. PICK to \in Decisions \cup {None}, adds \in Carried :
          p \in {Plan(to, adds, settles, abuse, reply) :
                    settles \in Settlements(m, to, adds), abuse \in BOOLEAN}
    BY DEF FreePlans
  <2>2. PICK settles \in Settlements(m, to, adds), abuse \in BOOLEAN :
          p = Plan(to, adds, settles, abuse, reply)
    BY <2>1
  <2>3. p.settles = settles /\ p.adds = adds /\ p.abuse = abuse
    BY <2>2 DEF Plan
  <2> QED  BY <1>1, <2>3, SettlementsAllowed DEF IsPlan
<1>3. ASSUME NEW p \in OptionPlans(m)
      PROVE  IsPlan(m, p)
  <2>1. /\ p.settles \in Settlements(m, FirstDecision, None)
        /\ p.adds \in Carried /\ p.abuse = FALSE
    BY DEF OptionPlans, Plan
  <2> QED  BY <1>1, <2>1, SettlementsAllowed DEF IsPlan
<1>4. ASSUME NEW p \in UnheldPlans(m)
      PROVE  IsPlan(m, p)
  <2>1. /\ p.settles = None /\ p.abuse = FALSE
        /\ \/ p.adds = "oversized"
           \/ p.adds = "misnamed" /\ m.constrained
    <3>1. PICK adds \in {"oversized"} \cup (IF m.constrained THEN {"misnamed"} ELSE {}) :
            p = Plan(None, adds, None, FALSE, None)
      BY DEF UnheldPlans
    <3>2. p.settles = None /\ p.abuse = FALSE /\ p.adds = adds
      BY <3>1 DEF Plan
    <3> QED  BY <3>1, <3>2
  <2> QED  BY <2>1, NoneIsNoValue DEF IsPlan, IsSettlement, IsAddition, AnswerStatus
<1>5. CASE Body(r).text \in {"accept", "no"} /\ OfferIsOpen(r, m)
  <2>1. \/ plan = Plan(None, None, None, FALSE, "ACCEPT")
        \/ plan = Plan(None, None, None, FALSE, "DECLINE")
    <3>1. CASE Body(r).text = "accept"
      BY <1>5, <3>1, Zenon DEF Plans
    <3>2. CASE Body(r).text = "no" /\ Body(r).text # "accept"
      BY <1>5, <3>2, Zenon DEF Plans
    <3> QED  BY <1>5, <3>1, <3>2
  <2>2. plan.settles = None /\ plan.adds = None /\ plan.abuse = FALSE
    BY <2>1 DEF Plan
  <2>3. None \in Carried
    BY DEF Carried
  <2> QED  BY <1>1, <2>2, <2>3, NoneIsNoValue DEF IsPlan, IsSettlement, AnswerStatus
<1>6. CASE Body(r).text = "skip" /\ OpenQuestion(m) # None
  <2>1. plan \in UnheldPlans(m) \cup SkipPlans
    <3>1. Body(r).text # "accept" /\ Body(r).text # "no"
      BY <1>6
    <3> QED  BY <1>6, <3>1, Zenon DEF Plans
  <2>2. CASE plan \notin UnheldPlans(m)
    <3>1. plan.settles = "DECLINED" /\ plan.adds \in Carried /\ plan.abuse = FALSE
      BY <2>1, <2>2 DEF SkipPlans, Plan
    <3> QED  BY <1>1, <1>6, <3>1 DEF IsPlan, IsSettlement
  <2> QED  BY <1>4, <2>2
<1>7. CASE Body(r).text = "option"
  <2>1. plan \in OptionPlans(m)
    BY <1>7, Zenon DEF Plans
  <2> QED  BY <1>3, <2>1
<1>8. CASE ~(Body(r).text \in {"accept", "no"} /\ OfferIsOpen(r, m))
           /\ ~(Body(r).text = "skip" /\ OpenQuestion(m) # None)
           /\ Body(r).text # "option"
  <2>1. plan \in UnheldPlans(m) \cup UNION {FreePlans(m, reply) : reply \in Replies(r)}
    BY <1>8 DEF Plans
  <2> QED  BY <1>2, <1>4, <2>1
<1> QED  BY <1>5, <1>6, <1>7, <1>8

\* A plan is refused for its insult or its addition only; otherwise the open question
\* is settled as planned and the others are as they were.
LEMMA PlannedIsGood ==
    ASSUME NEW m, GoodMemory(m), NEW plan, IsPlan(m, plan),
           plan.to \in Decisions \cup {None}
    PROVE  LET after == Planned(m, plan)
               last  == Len(m.history)
           IN  /\ after = None => \/ plan.abuse /\ m.abuse = AbuseEnded
                                  \/ plan.adds \in {"misnamed", "oversized"}
               /\ after # None =>
                    /\ GoodMemory(after)
                    /\ after.turn = m.turn + 1
                    /\ \A k : LastOf(after.history, k) = LastOf(m.history, k)
                    /\ \A j \in 1..last - 1 : after.history[j] = m.history[j]
                    /\ plan.settles = None => after.history = m.history
                    /\ plan.settles # None => after.history[last].status = plan.settles
<1> DEFINE begun    == [m EXCEPT !.turn = @ + 1]
           settled  == IF plan.settles = None THEN begun
                       ELSE Settle(begun, OpenQuestion(m), plan.settles)
           recorded == IF settled = None \/ plan.adds = None THEN settled
                       ELSE Record(settled, plan.adds)
           changed  == IF recorded = None \/ plan.to = None THEN recorded
                       ELSE Decide(recorded, plan.to)
           planned  == IF changed = None \/ ~plan.abuse THEN changed
                       ELSE Insult(changed, AbuseTransition(m))
           n       == Len(m.history)
<1>0. Planned(m, plan) = planned
  BY Zenon DEF Planned
<1>1. /\ GoodMemory(begun) /\ begun.turn = m.turn + 1 /\ begun.history = m.history
      /\ begun.abuse = m.abuse
  <2>1. /\ begun \in Memory /\ begun.turn = m.turn + 1 /\ begun.history = m.history
        /\ begun.abuse = m.abuse
    <3> DEFINE later == m.turn + 1
    <3>1. later \in Nat /\ begun = [m EXCEPT !.turn = later]
      BY GoodIsMemory DEF GoodMemory, Memory
    <3> HIDE DEF later
    <3>2. /\ [m EXCEPT !.turn = later] \in Memory /\ begun.turn = later
          /\ begun.history = m.history /\ begun.abuse = m.abuse
      BY <3>1 DEF GoodMemory, Memory
    <3> QED  BY <3>1, <3>2 DEF later
  <2>2. m.history \in Seq(Asked) /\ m.turn \in Nat
    BY GoodIsMemory
  <2> HIDE DEF begun
  <2>3. ASSUME NEW j \in 1..n PROVE m.history[j].asked \in Nat
    <3>1. m.history[j] \in Asked
      BY <2>2
    <3> QED  BY <3>1 DEF Asked
  <2> QED  BY <2>1, <2>2, <2>3 DEF GoodMemory
<1> HIDE DEF begun
<1>2. OpenQuestion(begun) = OpenQuestion(m)
  BY <1>1 DEF OpenQuestion
<1>3. /\ settled # None /\ GoodMemory(settled)
      /\ settled.turn = m.turn + 1
      /\ settled.abuse = m.abuse
      /\ \A k : LastOf(settled.history, k) = LastOf(m.history, k)
      /\ \A j \in 1..n - 1 : settled.history[j] = m.history[j]
      /\ plan.settles = None => settled.history = m.history
      /\ plan.settles # None => settled.history[n].status = plan.settles
  <2>1. CASE plan.settles = None
    BY <1>1, <2>1, GoodIsMemory
  <2>2. CASE plan.settles # None
    <3>1. /\ OpenQuestion(begun) # None
          /\ plan.settles \in {"ANSWERED", "DECLINED", "DEFERRED", "SUPERSEDED"}
          /\ plan.settles = "ANSWERED" => OpenQuestion(begun) \notin Conflicted
      BY <1>2, <2>2, KeysApart DEF IsPlan, IsSettlement
    <3> QED  BY <1>1, <1>2, <2>2, <3>1, OpenSettles
  <2> QED  BY <2>1, <2>2
<1> HIDE DEF settled
<1>4. /\ recorded = None => plan.adds \in {"misnamed", "oversized"}
      /\ recorded # None => /\ GoodMemory(recorded)
                            /\ recorded.turn = settled.turn /\ recorded.abuse = settled.abuse
                            /\ recorded.history = settled.history
  <2>1. CASE plan.adds = None
    BY <1>3, <2>1
  <2>2. CASE plan.adds = "constraint" /\ plan.adds # None
    <3>1. recorded = Record(settled, "constraint")
      BY <1>3, <2>2
    <3> HIDE DEF recorded
    <3> QED  BY <1>3, <3>1, RecordIsGood, GoodIsMemory
  <2>3. CASE plan.adds \in {"misnamed", "oversized"} /\ plan.adds # None
    <3>1. recorded = None
      BY <1>3, <2>3 DEF Record
    <3> QED  BY <2>3, <3>1
  <2> QED  BY <2>1, <2>2, <2>3 DEF IsPlan, IsAddition
<1> HIDE DEF recorded
<1>5. /\ recorded = None => changed = None
      /\ recorded # None => /\ changed # None /\ GoodMemory(changed)
                            /\ changed.turn = recorded.turn /\ changed.abuse = recorded.abuse
                            /\ changed.history = recorded.history
  BY <1>4, DecideIsGood, GoodIsMemory
<1> HIDE DEF changed
<1>6. changed # None => AbuseTransition(m) = AbuseTransition(changed)
  BY <1>3, <1>4, <1>5 DEF AbuseTransition
<1>7. /\ changed = None => planned = None
      /\ changed # None /\ planned = None => plan.abuse /\ m.abuse = AbuseEnded
      /\ planned # None => /\ GoodMemory(planned)
                           /\ planned.turn = changed.turn
                           /\ planned.history = changed.history
  BY <1>3, <1>4, <1>5, <1>6, InsultIsGood
<1> HIDE DEF planned
<1> QED  BY <1>0, <1>3, <1>4, <1>5, <1>7

\* The question an action asks.
LEMMA ActionsAsk ==
    ASSUME NEW r \in Requests, NEW m, NEW plan, NEW a \in Actions(r, plan, m), a.asks # None
    PROVE  /\ ~a.makes /\ a.reveals = None /\ a.revokes = None
           /\ \/ a.asks \in Conflicted /\ a.asks = m.decision
              \/ a.asks \in Eligible(m)
BY DEF Actions, Action

\* What becomes of the offer is refused only to a reply that is not to the offer
\* as it stands.
LEMMA MovedIsGood ==
    ASSUME NEW m, GoodMemory(m), NEW o, NEW life \in OfferState
    PROVE  /\ MoveOffer(m, o, life) = None =>
                ~(m.offer # None /\ m.offer.id = o /\ life \in NextOfferStates(m.offer.life))
           /\ MoveOffer(m, o, life) # None =>
                /\ GoodMemory(MoveOffer(m, o, life))
                /\ MoveOffer(m, o, life).offer = [id |-> o, life |-> life]
                /\ MoveOffer(m, o, life).offer # None
<1> DEFINE offer == [id |-> o, life |-> life]
           after == [m EXCEPT !.offer = offer]
<1>1. MoveOffer(m, o, life) = IF /\ m.offer # None /\ m.offer.id = o
                                 /\ life \in NextOfferStates(m.offer.life)
                              THEN after ELSE None
  BY DEF MoveOffer
<1>2. ASSUME m.offer # None, m.offer.id = o PROVE GoodMemory(after) /\ offer # None
  <2>1. offer \in [id : Nat, life : OfferState]
    BY <1>2 DEF GoodMemory, Memory
  <2> HIDE DEF offer
  <2>2. after \in Memory /\ after.history = m.history /\ after.turn = m.turn
    BY <2>1 DEF GoodMemory, Memory
  <2> QED  BY <2>1, <2>2, NoneIsNoValue DEF GoodMemory
<1>3. after.offer = offer
  BY DEF GoodMemory, Memory
<1> HIDE DEF after
<1>4. GoodMemory(after) => after # None
  BY GoodIsMemory
<1> QED  BY <1>1, <1>2, <1>3, <1>4

LEMMA MadeIsGood ==
    ASSUME NEW m, GoodMemory(m), NEW o \in Nat
    PROVE  GoodMemory(MakeOffer(m, o)) /\ MakeOffer(m, o) # None
<1> DEFINE offer == [id |-> o, life |-> "CREATED"]
           after == [m EXCEPT !.offer = offer]
<1>1. offer \in [id : Nat, life : OfferState]
  BY DEF OfferState
<1> HIDE DEF offer
<1>2. after \in Memory /\ after.history = m.history /\ after.turn = m.turn
  BY <1>1 DEF GoodMemory, Memory
<1>3. GoodMemory(after)
  BY <1>2 DEF GoodMemory
<1>4. MakeOffer(m, o) = after
  BY DEF MakeOffer, offer
<1> QED  BY <1>3, <1>4, GoodIsMemory

LEMMA RevealedIsGood ==
    ASSUME NEW m, GoodMemory(m), NEW o \in Nat
    PROVE  /\ Revealed(m, o) = None => m.offer # [id |-> o, life |-> "CREATED"]
           /\ Revealed(m, o) # None => GoodMemory(Revealed(m, o))
<1> DEFINE consented == MoveOffer(m, o, "CONSENTED")
<1>1. Revealed(m, o) = IF consented = None THEN None ELSE MoveOffer(consented, o, "REVEALED")
  BY DEF Revealed
<1>2. /\ consented = None =>
           ~(m.offer # None /\ m.offer.id = o /\ "CONSENTED" \in NextOfferStates(m.offer.life))
      /\ consented # None => /\ GoodMemory(consented) /\ consented.offer # None
                             /\ consented.offer = [id |-> o, life |-> "CONSENTED"]
  BY MovedIsGood DEF OfferState
<1>3. "CONSENTED" \in NextOfferStates("CREATED") /\ "REVEALED" \in NextOfferStates("CONSENTED")
  BY DEF NextOfferStates
<1>4. m.offer = [id |-> o, life |-> "CREATED"] => m.offer # None
  BY NoneIsNoValue DEF OfferState
<1>5. consented = None => m.offer # [id |-> o, life |-> "CREATED"]
  BY <1>2, <1>3, <1>4
<1> HIDE DEF consented
<1>6. consented # None => /\ MoveOffer(consented, o, "REVEALED") # None
                          /\ GoodMemory(MoveOffer(consented, o, "REVEALED"))
  <2> SUFFICES ASSUME consented # None
               PROVE  /\ MoveOffer(consented, o, "REVEALED") # None
                      /\ GoodMemory(MoveOffer(consented, o, "REVEALED"))
    OBVIOUS
  <2>1. GoodMemory(consented) /\ consented.offer.id = o /\ consented.offer.life = "CONSENTED"
        /\ consented.offer # None
    BY <1>2
  <2> QED  BY <1>3, <2>1, MovedIsGood DEF OfferState
<1> QED  BY <1>1, <1>5, <1>6


\* A question the selector may choose, other than the open one, may be asked.
LEMMA EligibleMayBeAsked ==
    ASSUME NEW m, GoodMemory(m), NEW k \in Eligible(m), k # OpenQuestion(m)
    PROVE  MayBeAsked(m, k, m.turn)
<1> DEFINE i == LastOf(m.history, k)
<1>1. m.history \in Seq(Asked) /\ m.turn \in Nat
  BY GoodIsMemory
<1>2. i \in 0..Len(m.history) /\ (i # 0 => m.history[i].key = k)
  BY <1>1, LastOfLast
<1>3. CASE i = 0
  BY <1>3 DEF MayBeAsked
<1>4. CASE i # 0
  <2>1. i \in 1..Len(m.history) /\ m.history[i] \in Asked
    BY <1>1, <1>2, <1>4
  <2>2. m.history[i].status # "OPEN"
    BY <1>2, <2>1, NoOtherIsOpen
  <2>3. m.history[i].status = "DEFERRED" /\ m.turn - m.history[i].answered > 1
    BY <1>4, <2>2 DEF Eligible
  <2>4. m.history[i].asked <= m.history[i].answered
    BY <2>1, <2>3 DEF GoodMemory
  <2>5. m.history[i].asked \in Nat /\ m.history[i].answered \in Nat
    BY <2>1 DEF Asked
  <2>6. m.turn > m.history[i].asked + 1
    BY <1>1, <2>3, <2>4, <2>5
  <2> HIDE DEF i
  <2> QED  BY <2>3, <2>6 DEF MayBeAsked, i
<1> QED  BY <1>3, <1>4

\* What the plan did, seen from the question about a conflict: where it may not be
\* asked it was waved away or put off, before this turn or in it.
LEMMA ConflictIsClosed ==
    ASSUME NEW m, GoodMemory(m), NEW plan, IsPlan(m, plan),
           plan.to \in Decisions \cup {None}, Planned(m, plan) # None,
           NEW k \in Conflicted, k # OpenQuestion(Planned(m, plan)),
           ~MayBeAsked(Planned(m, plan), k, Planned(m, plan).turn)
    PROVE  \/ StatusOf(m, k) \in {"DECLINED", "DEFERRED"}
           \/ OpenQuestion(m) = k /\ plan.settles \in {"DECLINED", "DEFERRED"}
<1> DEFINE p == Planned(m, plan)
           i == LastOf(m.history, k)
           n == Len(m.history)
<1>1. /\ GoodMemory(p)
      /\ LastOf(p.history, k) = i
      /\ \A j \in 1..n - 1 : p.history[j] = m.history[j]
      /\ plan.settles = None => p.history = m.history
      /\ plan.settles # None => p.history[n].status = plan.settles
  BY PlannedIsGood
<1>2. i \in 0..n /\ n \in Nat /\ (i # 0 => m.history[i].key = k)
  BY GoodIsMemory, LastOfLast
<1> HIDE DEF p
<1>3. i # 0 /\ p.history[i].status \in {"ANSWERED", "DECLINED", "DEFERRED"}
  BY <1>1 DEF MayBeAsked, p
<1>4. i \in 1..n
  BY <1>2, <1>3
<1>5. i \in 1..Len(p.history) /\ p.history[i].key = k
  <2>1. p.history \in Seq(Asked)
    BY <1>1, GoodIsMemory
  <2> QED  BY <1>1, <1>3, <2>1, LastOfLast
<1>6. p.history[i].status \in {"DECLINED", "DEFERRED"}
  BY <1>1, <1>3, <1>5 DEF GoodMemory
<1>7. StatusOf(m, k) = m.history[i].status
  BY <1>3 DEF StatusOf
<1>8. CASE plan.settles = None \/ i # n
  <2>1. p.history[i] = m.history[i]
    BY <1>1, <1>4, <1>8
  <2> QED  BY <1>6, <1>7, <2>1
<1>9. CASE plan.settles # None /\ i = n
  <2>1. OpenQuestion(m) = k
    BY <1>2, <1>3, <1>9, OpenIsNewest DEF IsPlan, IsSettlement
  <2> QED  BY <1>1, <1>6, <1>9, <2>1
<1> QED  BY <1>8, <1>9

\* What the fold refuses of a turn.
LEMMA RefusedIsGap ==
    ASSUME NEW r \in Requests, Body(r) \in Bodies, NEW m, GoodMemory(m),
           NEW plan \in Plans(r, m), NEW message \in Messages,
           \/ Planned(m, plan) = None
           \/ /\ Planned(m, plan) # None
              /\ \E a \in Actions(r, plan, Planned(m, plan)) :
                    Acted(message, Planned(m, plan), a) = None
    PROVE  Gap(m, plan, Body(r))
<1> DEFINE p == Planned(m, plan)
<1>1. /\ IsMemory(m) /\ IsPlan(m, plan) /\ plan.to \in Decisions \cup {None}
  BY GoodIsMemory, PlansSettle, PlansAllowed
<1>2. CASE p = None
  <2>1. \/ plan.abuse /\ m.abuse = AbuseEnded
        \/ plan.adds \in {"misnamed", "oversized"}
    BY <1>1, <1>2, PlannedIsGood
  <2> QED  BY <1>1, <2>1 DEF Gap, IsPlan, IsAddition
<1>3. CASE p # None
  <2>1. PICK a \in Actions(r, plan, p) : Acted(message, p, a) = None
    BY <1>3
  <2>2. GoodMemory(p) /\ IsMemory(p)
    BY <1>1, <1>3, PlannedIsGood, GoodIsMemory
  <2>3. /\ plan.to = None => p.decision = m.decision /\ p.offer = m.offer
        /\ plan.to # None => p.decision = plan.to
    BY <1>1, <1>3, PlannedMemory
  <2>4. /\ IsAction(a)
        /\ a.reveals # None => a.reveals = Body(r).token /\ plan.reply = "ACCEPT"
        /\ a.revokes # None => a.revokes = Body(r).token /\ plan.reply = "DECLINE"
    <3>1. a.revokes # None => plan.reply = "DECLINE"
      BY DEF Actions, Action
    <3> QED  BY <2>2, <3>1, ActionsAllowed
  <2> HIDE DEF p
  <2>5. Body(r).token # None => Body(r).token \in Nat
    BY DEF Bodies, Messages, Requests
  <2>6. CASE a.makes
    <3>1. Acted(message, p, a) = MakeOffer(p, message)
      BY <2>4, <2>6 DEF Acted, IsAction
    <3> QED  BY <2>1, <2>2, <3>1, MadeIsGood DEF Messages, Requests
  <2>7. CASE a.reveals # None
    <3>1. Acted(message, p, a) = Revealed(p, a.reveals)
      BY <2>4, <2>7 DEF Acted, IsAction
    <3>2. p.offer # [id |-> a.reveals, life |-> "CREATED"]
      BY <2>1, <2>2, <2>4, <2>5, <2>7, <3>1, RevealedIsGood
    <3> QED  BY <2>3, <2>4, <2>7, <3>2, NoneIsNoText DEF Gap
  <2>8. CASE ~a.makes /\ a.reveals = None /\ a.revokes # None
    <3>1. Acted(message, p, a) = MoveOffer(p, a.revokes, "REVOKED")
      BY <2>8 DEF Acted
    <3>2. ~(p.offer # None /\ p.offer.id = a.revokes /\ "REVOKED" \in NextOfferStates(p.offer.life))
      BY <2>1, <2>2, <3>1, MovedIsGood DEF OfferState
    <3>3. p.offer # [id |-> a.revokes, life |-> "CREATED"]
      BY <2>4, <2>5, <2>8, <3>2, NoneIsNoValue DEF NextOfferStates, OfferState
    <3> QED  BY <2>3, <2>4, <2>8, <3>3, NoneIsNoText DEF Gap
  <2>9. CASE ~a.makes /\ a.reveals = None /\ a.revokes = None
    <3>1. Acted(message, p, a) = Questioned(p, a.asks)
      BY <2>9 DEF Acted
    <3>2. a.asks # None
      <4>1. p # None
        BY <1>3
      <4> QED  BY <2>1, <3>1, <4>1 DEF Questioned
    <3>3. a.asks \in Questions /\ a.asks # OpenQuestion(p) /\ ~MayBeAsked(p, a.asks, p.turn)
      BY <2>1, <2>2, <2>4, <3>1, <3>2, QuestionedOpens DEF IsAction
    <3>4. a.asks \in Conflicted /\ a.asks = p.decision
      BY <2>2, <3>2, <3>3, ActionsAsk, EligibleMayBeAsked
    <3>5. \/ StatusOf(m, a.asks) \in {"DECLINED", "DEFERRED"}
          \/ OpenQuestion(m) = a.asks /\ plan.settles \in {"DECLINED", "DEFERRED"}
      BY <1>1, <1>3, <3>3, <3>4, ConflictIsClosed DEF p
    <3> QED  BY <2>3, <3>4, <3>5 DEF Gap
  <2> QED  BY <2>6, <2>7, <2>8, <2>9
<1> QED  BY <1>2, <1>3


\* What the fold makes of a turn: the question the answer asks is the open one.
LEMMA ActedIsGood ==
    ASSUME NEW r \in Requests, Body(r) \in Bodies, NEW m, GoodMemory(m), NEW plan,
           NEW a \in Actions(r, plan, m), NEW message \in Messages,
           Acted(message, m, a) # None
    PROVE  /\ GoodMemory(Acted(message, m, a))
           /\ a.asks # None => OpenQuestion(Acted(message, m, a)) = a.asks
<1>1. /\ IsAction(a)
      /\ a.reveals # None => a.reveals = Body(r).token
      /\ a.asks # None => ~a.makes /\ a.reveals = None /\ a.revokes = None
  BY GoodIsMemory, ActionsAllowed, ActionsAsk
<1>2. Body(r).token # None => Body(r).token \in Nat
  BY DEF Bodies, Messages, Requests
<1>3. CASE a.makes
  <2>1. Acted(message, m, a) = MakeOffer(m, message)
    BY <1>1, <1>3 DEF Acted, IsAction
  <2> QED  BY <1>1, <1>3, <2>1, MadeIsGood DEF Messages, Requests
<1>4. CASE a.reveals # None
  <2>1. Acted(message, m, a) = Revealed(m, a.reveals)
    BY <1>1, <1>4 DEF Acted, IsAction
  <2> QED  BY <1>1, <1>2, <1>4, <2>1, RevealedIsGood
<1>5. CASE ~a.makes /\ a.reveals = None /\ a.revokes # None
  <2>1. Acted(message, m, a) = MoveOffer(m, a.revokes, "REVOKED")
    BY <1>5 DEF Acted
  <2> QED  BY <1>1, <1>5, <2>1, MovedIsGood DEF OfferState
<1>6. CASE ~a.makes /\ a.reveals = None /\ a.revokes = None
  <2>1. Acted(message, m, a) = Questioned(m, a.asks)
    BY <1>6 DEF Acted
  <2>2. CASE a.asks = None
    BY <2>1, <2>2 DEF Questioned
  <2>3. CASE a.asks # None
    BY <1>1, <2>1, <2>3, QuestionedOpens DEF IsAction
  <2> QED  BY <2>2, <2>3
<1> QED  BY <1>3, <1>4, <1>5, <1>6

(***************************************************************************)
(* The invariant about questions.  The newest answer's question is the     *)
(* row's open one, and a request that saw its option among the newest      *)
(* answers keeps that as long as the row has the revision it saw.          *)
(***************************************************************************)
RequestAsks(q, R) ==
    /\ q.pc \in {"loading", "turning", "rejected"} => GoodMemory(q.loaded.memory)
    /\ q.pc = "running" /\ q.body.option # None /\ q.expected = R.revision =>
          OpenQuestion(R.memory) = q.body.option
    /\ q.pc = "loading" /\ q.body.option # None /\ q.loaded.revision = q.expected =>
          OpenQuestion(q.loaded.memory) = q.body.option
    /\ q.pc = "turning" /\ q.body.option # None =>
          OpenQuestion(q.loaded.memory) = q.body.option
    /\ q.pc = "committing" =>
          /\ GoodMemory(q.turn.memory)
          /\ q.output.asks # None => OpenQuestion(q.turn.memory) = q.output.asks
    /\ q.pc = "rejected" => Gap(q.loaded.memory, q.turn, q.body)

\* The answers: the newest has the row's revision and asks the row's open question.
LatestAsks ==
    /\ \A m \in Messages : stored[m] # None =>
          /\ stored[m].output.revision \in Nat
          /\ stored[m].output.revision <= row.revision
          /\ stored[m].output.revision = row.revision /\ stored[m].output.asks # None =>
                OpenQuestion(row.memory) = stored[m].output.asks
    /\ row.revision > 0 =>
          \E m \in Messages : stored[m] # None /\ stored[m].output.revision = row.revision

QuestionsInv ==
    /\ GoodMemory(row.memory)
    /\ LatestAsks
    /\ \A r \in Requests : RequestAsks(requests[r], row)

LEMMA InitQuestions == DecisionInit => QuestionsInv
<1> SUFFICES ASSUME DecisionInit PROVE QuestionsInv
  OBVIOUS
<1>1. GoodMemory(EmptyMemory)
  <2>1. EmptyMemory \in Memory /\ Len(EmptyMemory.history) = 0
    BY DecisionsAssumption DEF EmptyMemory, Memory, AbuseEnded
  <2> QED  BY <2>1 DEF GoodMemory
<1>2. LatestAsks
  BY DEF DecisionInit, LatestAsks
<1>3. ASSUME NEW r \in Requests PROVE RequestAsks(requests[r], row)
  <2>1. requests[r].pc = "idle"
    BY DEF DecisionInit, Bare
  <2> QED  BY <2>1 DEF RequestAsks
<1> QED  BY <1>1, <1>2, <1>3 DEF DecisionInit, QuestionsInv

\* A step of one request that leaves the rows alone.
LEMMA QuietAsks ==
    ASSUME QuestionsInv, UNCHANGED <<row, stored>>, NEW r \in Requests,
           \A s \in Requests \ {r} : requests'[s] = requests[s],
           RequestAsks(requests'[r], row)
    PROVE  QuestionsInv'
BY DEF QuestionsInv, LatestAsks

\* Steps after which a request has nothing of the conversation in hand.
LEMMA IdleAsks ==
    ASSUME DecisionInv, QuestionsInv, UNCHANGED <<row, stored>>, NEW r \in Requests,
           \E q : /\ requests' = [requests EXCEPT ![r] = q]
                  /\ q.pc \in {"sent", "routing", "answering", "done"}
    PROVE  QuestionsInv'
<1>1. PICK q : /\ requests' = [requests EXCEPT ![r] = q]
               /\ q.pc \in {"sent", "routing", "answering", "done"}
  OBVIOUS
<1>2. requests'[r] = q /\ \A s \in Requests \ {r} : requests'[s] = requests[s]
  BY <1>1, ChangedRequest
<1>3. RequestAsks(q, row)
  BY <1>1 DEF RequestAsks
<1> QED  BY <1>2, <1>3, QuietAsks

LEMMA DoneAsks ==
    ASSUME DecisionInv, QuestionsInv, UNCHANGED <<row, stored>>, NEW r \in Requests,
           requests' = Done(r)
    PROVE  QuestionsInv'
<1>1. Bare("done", Body(r)).pc = "done"
  BY DEF Bare
<1> QED  BY <1>1, IdleAsks DEF Done

LEMMA SendAsks ==
    ASSUME DecisionInv, QuestionsInv, NEW r \in Requests, Send(r) \/ Repeat(r)
    PROVE  QuestionsInv'
<1>1. PICK b : requests' = [requests EXCEPT ![r].pc = "sent", ![r].body = b]
  BY DEF Send, Repeat
<1> DEFINE q == [requests[r] EXCEPT !.pc = "sent", !.body = b]
<1>2. requests' = [requests EXCEPT ![r] = q]
  BY <1>1
<1>3. q.pc = "sent"
  BY RequestKnown DEF IsRequest
<1> QED  BY <1>2, <1>3, IdleAsks DEF Send, Repeat

LEMMA RouteRowAsks ==
    ASSUME DecisionInv, QuestionsInv, NEW r \in Requests, RouteRow(r)
    PROVE  QuestionsInv'
<1> DEFINE valid == Body(r).token # None /\ Body(r).token \notin lapsed
           q == [requests[r] EXCEPT !.pc = "routing", !.expected = row.revision,
                                    !.valid = valid]
<1>1. requests' = [requests EXCEPT ![r] = q]
  BY DEF RouteRow
<1> HIDE DEF valid
<1>2. q.pc = "routing"
  BY RequestKnown DEF IsRequest
<1> QED  BY <1>1, <1>2, IdleAsks DEF RouteRow

\* The options the route looks at are those of the row, if the row still has the
\* revision the route saw: then the newest answer is the one that wrote it.
LEMMA OptionIsOpen ==
    ASSUME DecisionInv, QuestionsInv, NEW r \in Requests, OptionResolves(r),
           Body(r).option # None, requests[r].expected = row.revision
    PROVE  OpenQuestion(row.memory) = Body(r).option
<1>1. PICK n \in Messages : stored[n] # None /\ stored[n].output.revision = row.revision
  BY DEF OptionResolves, QuestionsInv, LatestAsks
<1>2. \A m \in Answered : /\ stored[m].output.revision \in Nat
                          /\ stored[m].output.revision <= stored[n].output.revision
  BY <1>1 DEF Answered, QuestionsInv, LatestAsks
<1>3. n \in Answered
  BY <1>1 DEF Answered
<1>4. Latest \in Answered /\ stored[n].output.revision <= stored[Latest].output.revision
  BY <1>2, <1>3 DEF Latest
<1>5. Latest \in Messages /\ stored[Latest] # None
  BY <1>4 DEF Answered
<1>6. stored[Latest].output.revision = row.revision
  BY <1>1, <1>2, <1>3, <1>4, SMT
<1> QED  BY <1>5, <1>6 DEF OptionResolves, QuestionsInv, LatestAsks

LEMMA RouteMessagesAsks ==
    ASSUME DecisionInv, QuestionsInv, NEW r \in Requests, RouteMessages(r)
    PROVE  QuestionsInv'
<1>1. UNCHANGED <<row, stored>>
  BY DEF RouteMessages
<1>2. CASE requests' = Done(r)
  BY <1>1, <1>2, DoneAsks
<1>3. CASE OptionResolves(r) /\ requests' = [requests EXCEPT ![r].pc = "running"]
  <2> DEFINE q == [requests[r] EXCEPT !.pc = "running"]
  <2>1. requests' = [requests EXCEPT ![r] = q]
    BY <1>3
  <2>2. q.pc = "running" /\ q.body = Body(r) /\ q.expected = requests[r].expected
    BY RequestKnown DEF IsRequest, Body
  <2> HIDE DEF q
  <2>3. RequestAsks(q, row)
    BY <1>3, <2>2, OptionIsOpen DEF RequestAsks
  <2> QED  BY <1>1, <2>1, <2>3, ChangedRequest, QuietAsks
<1> QED  BY <1>2, <1>3 DEF RouteMessages

LEMMA RunRowAsks ==
    ASSUME DecisionInv, QuestionsInv, NEW r \in Requests, RunRow(r)
    PROVE  QuestionsInv'
<1> DEFINE late == Body(r).token \in lapsed
           q == [requests[r] EXCEPT !.pc = "loading", !.loaded = row, !.late = late]
<1>1. requests' = [requests EXCEPT ![r] = q]
  BY DEF RunRow
<1> HIDE DEF late
<1>2. /\ q.pc = "loading" /\ q.loaded = row
      /\ q.body = requests[r].body /\ q.expected = requests[r].expected
  BY RequestKnown DEF IsRequest
<1> HIDE DEF q
<1>3. RequestAsks(requests[r], row) /\ GoodMemory(row.memory) /\ requests[r].pc = "running"
  BY DEF QuestionsInv, RunRow
<1>4. RequestAsks(q, row)
  BY <1>2, <1>3 DEF RequestAsks
<1> QED  BY <1>1, <1>4, ChangedRequest, QuietAsks DEF RunRow

LEMMA RunMessagesAsks ==
    ASSUME DecisionInv, QuestionsInv, NEW r \in Requests, RunMessages(r)
    PROVE  QuestionsInv'
<1>1. UNCHANGED <<row, stored>> /\ requests[r].pc = "loading"
  BY DEF RunMessages
<1>2. CASE requests' = Done(r)
  BY <1>1, <1>2, DoneAsks
<1>3. CASE requests' = [requests EXCEPT ![r].pc = "answering", ![r].loaded = None,
                                        ![r].output = stored[Message(r)].output]
  <2> DEFINE output == stored[Message(r)].output
             q == [requests[r] EXCEPT !.pc = "answering", !.loaded = None,
                                      !.output = output]
  <2>1. requests' = [requests EXCEPT ![r] = q]
    BY <1>3
  <2> HIDE DEF output
  <2>2. q.pc = "answering"
    BY RequestKnown DEF IsRequest
  <2> QED  BY <1>1, <2>1, <2>2, IdleAsks
<1>4. CASE /\ requests[r].loaded.revision = requests[r].expected
           /\ requests' = [requests EXCEPT ![r].pc = "turning"]
  <2> DEFINE q == [requests[r] EXCEPT !.pc = "turning"]
  <2>1. requests' = [requests EXCEPT ![r] = q]
    BY <1>4
  <2>2. q.pc = "turning" /\ q.body = requests[r].body /\ q.loaded = requests[r].loaded
    BY RequestKnown DEF IsRequest
  <2> HIDE DEF q
  <2>3. RequestAsks(q, row)
    BY <1>1, <1>4, <2>2 DEF QuestionsInv, RequestAsks
  <2> QED  BY <1>1, <2>1, <2>3, ChangedRequest, QuietAsks
<1> QED  BY <1>2, <1>3, <1>4 DEF RunMessages

LEMMA EvaluateAsks ==
    ASSUME DecisionInv, QuestionsInv, NEW r \in Requests, Evaluate(r)
    PROVE  QuestionsInv'
<1> DEFINE m == requests[r].loaded.memory
<1>1. UNCHANGED <<row, stored>> /\ requests[r].pc = "turning"
  BY DEF Evaluate
<1>2. /\ GoodMemory(m) /\ IsMemory(m)
      /\ Body(r) \in Bodies /\ Message(r) \in Messages
  <2>1. GoodMemory(m)
    BY <1>1 DEF QuestionsInv, RequestAsks
  <2> QED  BY <1>1, <2>1, GoodIsMemory, RequestKnown DEF Body, Message, Bodies
<1>3. ASSUME NEW plan \in Plans(r, m),
             \/ Planned(m, plan) = None
             \/ /\ Planned(m, plan) # None
                /\ \E a \in Actions(r, plan, Planned(m, plan)) :
                      Acted(Message(r), Planned(m, plan), a) = None,
             requests' = Rejecting(r, plan)
      PROVE  QuestionsInv'
  <2> DEFINE q == [requests[r] EXCEPT !.pc = "rejected", !.turn = plan]
  <2>1. requests' = [requests EXCEPT ![r] = q]
    BY <1>3 DEF Rejecting
  <2>2. /\ q.pc = "rejected" /\ q.body = Body(r) /\ q.turn = plan
        /\ q.loaded = requests[r].loaded
    BY RequestKnown DEF IsRequest, Body
  <2> HIDE DEF q
  <2>3. Gap(m, plan, Body(r))
    BY <1>2, <1>3, RefusedIsGap
  <2>4. RequestAsks(q, row)
    BY <1>2, <2>2, <2>3 DEF RequestAsks
  <2> QED  BY <1>1, <2>1, <2>4, ChangedRequest, QuietAsks
<1>4. ASSUME NEW plan \in Plans(r, m), Planned(m, plan) # None,
             NEW a \in Actions(r, plan, Planned(m, plan)),
             Acted(Message(r), Planned(m, plan), a) # None,
             requests' = Committing(r, plan, a, Acted(Message(r), Planned(m, plan), a))
      PROVE  QuestionsInv'
  <2> DEFINE final  == Acted(Message(r), Planned(m, plan), a)
             turn   == [memory |-> final, makes |-> a.makes, reveals |-> a.reveals,
                        revokes |-> a.revokes, touches |-> plan.to # None]
             output == Output(requests[r].expected + 1, Message(r), a)
             q      == [requests[r] EXCEPT !.pc = "committing", !.loaded = None,
                                           !.turn = turn, !.output = output]
  <2>1. requests' = [requests EXCEPT ![r] = q]
    BY <1>4 DEF Committing
  <2>2. GoodMemory(Planned(m, plan))
    BY <1>2, <1>4, PlansAllowed, PlansSettle, PlannedIsGood
  <2>3. GoodMemory(final) /\ (a.asks # None => OpenQuestion(final) = a.asks)
    BY <1>2, <1>4, <2>2, ActedIsGood
  <2>4. turn.memory = final
    OBVIOUS
  <2>5. output.asks = a.asks
    BY DEF Output
  <2> HIDE DEF turn, output, final
  <2>6. q.pc = "committing" /\ q.turn = turn /\ q.output = output
    BY RequestKnown DEF IsRequest
  <2> HIDE DEF q
  <2>7. RequestAsks(q, row)
    BY <2>3, <2>4, <2>5, <2>6 DEF RequestAsks
  <2> QED  BY <1>1, <2>1, <2>7, ChangedRequest, QuietAsks
<1>5. PICK plan \in Plans(r, m) :
        IF Planned(m, plan) = None
        THEN requests' = Rejecting(r, plan)
        ELSE \E a \in Actions(r, plan, Planned(m, plan)) :
               requests' = IF Acted(Message(r), Planned(m, plan), a) = None
                           THEN Rejecting(r, plan)
                           ELSE Committing(r, plan, a, Acted(Message(r), Planned(m, plan), a))
  BY Zenon DEF Evaluate
<1>6. CASE Planned(m, plan) = None
  BY <1>3, <1>5, <1>6
<1>7. CASE Planned(m, plan) # None
  <2>1. PICK a \in Actions(r, plan, Planned(m, plan)) :
          requests' = IF Acted(Message(r), Planned(m, plan), a) = None
                      THEN Rejecting(r, plan)
                      ELSE Committing(r, plan, a, Acted(Message(r), Planned(m, plan), a))
    BY <1>5, <1>7
  <2>2. CASE Acted(Message(r), Planned(m, plan), a) = None
    BY <1>3, <1>7, <2>1, <2>2
  <2>3. CASE Acted(Message(r), Planned(m, plan), a) # None
    BY <1>4, <1>7, <2>1, <2>3
  <2> QED  BY <2>2, <2>3
<1> QED  BY <1>6, <1>7

LEMMA CommitAsks ==
    ASSUME DecisionInv, QuestionsInv, NEW r \in Requests, Commit(r)
    PROVE  QuestionsInv'
<1>1. /\ requests[r].pc = "committing"
      /\ CommitHolds(r)
      /\ requests' = [requests EXCEPT ![r].pc = "answering", ![r].turn = None]
      /\ row'.revision = requests[r].output.revision
      /\ row'.memory = Turn(r).memory
  BY DEF Commit
<1>2. /\ Body(r) \in Bodies
      /\ Message(r) \in Messages
      /\ requests[r].output \in Outputs
      /\ row'.revision = row.revision + 1
  BY <1>1, CommitKnown
<1>3. row.revision \in Nat /\ stored \in [Messages -> StoredMessages \cup {None}]
  BY DEF DecisionInv, RowsOK
<1>4. /\ GoodMemory(row'.memory)
      /\ requests[r].output.asks # None =>
           OpenQuestion(row'.memory) = requests[r].output.asks
  BY <1>1 DEF QuestionsInv, RequestAsks, Turn
<1> DEFINE kept == [payload |-> Body(r), output |-> requests[r].output]
<1>5. kept \in StoredMessages /\ kept.output = requests[r].output
  BY <1>2 DEF StoredMessages
<1>6. stored' = [stored EXCEPT ![Message(r)] = kept]
  BY DEF Commit
<1> HIDE DEF kept
<1>7. /\ stored'[Message(r)] = kept /\ kept # None
      /\ \A m \in Messages \ {Message(r)} : stored'[m] = stored[m]
  BY <1>2, <1>3, <1>5, <1>6, NoneIsNoRow
<1>8. LatestAsks'
  <2>1. ASSUME NEW m \in Messages, stored'[m] # None
        PROVE  /\ stored'[m].output.revision \in Nat
               /\ stored'[m].output.revision <= row'.revision
               /\ stored'[m].output.revision = row'.revision /\ stored'[m].output.asks # None =>
                     OpenQuestion(row'.memory) = stored'[m].output.asks
    <3>1. CASE m = Message(r)
      <4>1. stored'[m].output = requests[r].output
        BY <1>5, <1>7, <3>1
      <4>2. row'.revision \in Nat /\ row'.revision = requests[r].output.revision
        BY <1>1, <1>2, <1>3
      <4> QED  BY <1>4, <4>1, <4>2
    <3>2. CASE m # Message(r)
      <4>1. stored[m] # None /\ stored'[m] = stored[m]
        BY <1>7, <2>1, <3>2
      <4>2. stored[m].output.revision \in Nat /\ stored[m].output.revision <= row.revision
        BY <4>1 DEF QuestionsInv, LatestAsks
      <4> QED  BY <1>2, <1>3, <4>1, <4>2
    <3> QED  BY <3>1, <3>2
  <2>2. stored'[Message(r)] # None /\ stored'[Message(r)].output.revision = row'.revision
    BY <1>1, <1>5, <1>7
  <2> QED  BY <1>2, <2>1, <2>2 DEF LatestAsks
<1>9. ASSUME NEW s \in Requests PROVE RequestAsks(requests'[s], row')
  <2> DEFINE q == [requests[r] EXCEPT !.pc = "answering", !.turn = None]
  <2>1. requests' = [requests EXCEPT ![r] = q]
    BY <1>1
  <2>2. q.pc = "answering"
    BY RequestKnown DEF IsRequest
  <2> HIDE DEF q
  <2>3. CASE s = r
    <3>1. requests'[s] = q
      BY <2>1, <2>3, ChangedRequest
    <3> QED  BY <2>2, <3>1 DEF RequestAsks
  <2>4. CASE s # r
    <3>1. requests'[s] = requests[s]
      BY <2>1, <2>4, ChangedRequest
    <3>2. requests[s].pc = "running" => requests[s].expected # row'.revision
      BY <1>2, <1>3, RequestKnown DEF RequestOK, KnowsRevision
    <3> QED  BY <3>1, <3>2 DEF QuestionsInv, RequestAsks
  <2> QED  BY <2>3, <2>4
<1> QED  BY <1>4, <1>8, <1>9 DEF QuestionsInv

LEMMA NextKeepsQuestions ==
    DecisionInv /\ QuestionsInv /\ [DecisionNext]_vars => QuestionsInv'
<1> SUFFICES ASSUME DecisionInv, QuestionsInv, [DecisionNext]_vars PROVE QuestionsInv'
  OBVIOUS
<1>1. ASSUME NEW r \in Requests, RequestStep(r) PROVE QuestionsInv'
  <2>1. CASE Refuse(r) \/ Answer(r) \/ Fail(r)
    <3>1. UNCHANGED <<row, stored>> /\ requests' = Done(r)
      BY <2>1 DEF Refuse, Answer, Fail
    <3> QED  BY <3>1, DoneAsks
  <2> QED
    BY <1>1, <2>1, SendAsks, RouteRowAsks, RouteMessagesAsks, RunRowAsks, RunMessagesAsks,
       EvaluateAsks, CommitAsks
       DEF RequestStep
<1>2. ASSUME UNCHANGED <<row, stored, requests>> PROVE QuestionsInv'
  BY <1>2 DEF QuestionsInv, LatestAsks
<1> QED  BY <1>1, <1>2 DEF DecisionNext, Lapse, vars

LEMMA QuestionsHold == DecisionSpec => []QuestionsInv
<1> QED  BY InitQuestions, NextKeepsQuestions, Invariance, PTL DEF DecisionSpec

\* A clicked option is taken as the answer to the question it was shown under:
\* the route reads the conversation and then its messages, the turn reads both
\* again, other turns are committed in between, and no load is a snapshot.
THEOREM OptionsMeetTheirQuestion == DecisionSpec => []AnswerMeetsItsQuestion
<1>1. QuestionsInv => AnswerMeetsItsQuestion
  BY DEF QuestionsInv, RequestAsks, AnswerMeetsItsQuestion, Body
<1> QED  BY <1>1, QuestionsHold, PTL

\* The fold over the conversation's events refuses a turn in the named cases only:
\* settling, superseding and asking questions never fails otherwise, however long
\* the history is and in whatever order its questions were put off and came back.
THEOREM OnlyGapsAreRefused == DecisionSpec => []RefusesOnlyGaps
<1>1. QuestionsInv => RefusesOnlyGaps
  BY DEF QuestionsInv, RequestAsks, RefusesOnlyGaps, Body, Turn
<1> QED  BY <1>1, QuestionsHold, PTL
=============================================================================
