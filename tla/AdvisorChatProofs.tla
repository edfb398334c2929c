-------------------------- MODULE AdvisorChatProofs ---------------------------
(***************************************************************************)
(* Proofs about AdvisorChat.                                               *)
(***************************************************************************)
EXTENDS AdvisorChat, FiniteSetTheorems, TLAPS

USE DEF redisVars, requestVars, GoTo

\* Every request that arrived has a message and an instance.
Addressed == \A r \in Requests : pc[r] # "idle" => msg[r] \in Messages /\ at[r] \in Instances

StateOK == TypeOK /\ Addressed

LEMMA StateInit == Init => StateOK
BY TurnsAreNatural DEF Init, StateOK, TypeOK, Addressed

LEMMA RememberedType ==
    ASSUME NEW s \in Seq(Requests), NEW r \in Requests
    PROVE  Remembered(s, r) \in Seq(Requests)
BY TurnsAreNatural DEF Remembered

LEMMA StateNext == StateOK /\ [Next]_vars => StateOK'
<1> SUFFICES ASSUME TypeOK, Addressed, [Next]_vars PROVE TypeOK' /\ Addressed'
  BY DEF StateOK
<1> USE TurnsAreNatural, NoneIsNew DEF TypeOK, Addressed
<1>1. ASSUME NEW r \in Requests, NEW m \in Messages, NEW i \in Instances, Arrive(r, m, i)
      PROVE  TypeOK' /\ Addressed'
  BY <1>1 DEF Arrive
<1>2. ASSUME NEW r \in Requests, TakeLock(r) PROVE TypeOK' /\ Addressed'
  <2>1. lock' \in Requests \cup {None}
    BY <1>2 DEF TakeLock, Owned
  <2>2. pc' = [pc EXCEPT ![r] = pc'[r]] /\ pc'[r] \in {"locked", "busy", "failed"}
    BY <1>2 DEF TakeLock
  <2>3. pc[r] = "arrived" /\ UNCHANGED <<turns, replays, histories, msg, at, turn, answer, overdue, lapsed>>
    BY <1>2 DEF TakeLock
  <2> QED  BY <2>1, <2>2, <2>3
<1>3. ASSUME NEW r \in Requests, FindReplay(r) PROVE TypeOK' /\ Addressed'
  <2>1. Found(r) \in Answer \cup {None}
    BY <1>3 DEF FindReplay, Found
  <2>2. answer' \in [Requests -> Answer \cup {None}]
    BY <1>3, <2>1 DEF FindReplay
  <2>3. /\ pc' = [pc EXCEPT ![r] = pc'[r]]
        /\ pc'[r] \in {"fresh", "leaving", "failing"}
    BY <1>3, Zenon DEF FindReplay
  <2>4. UNCHANGED <<lock, turns, replays, histories, msg, at, turn, overdue, lapsed>>
    BY <1>3 DEF FindReplay
  <2>5. pc[r] # "idle"
    BY <1>3 DEF FindReplay
  <2> QED  BY <2>2, <2>3, <2>4, <2>5
<1>4. ASSUME NEW r \in Requests, ClaimTurn(r) PROVE TypeOK' /\ Addressed'
  <2>1. [by |-> r, turn |-> None] \in Answer
    BY DEF Answer
  <2>2. TurnIsLeft => turns + 1 \in 1..MaxTurns
    BY DEF TurnIsLeft
  <2>3. turns' \in 0..MaxTurns
    BY <1>4, <2>2 DEF ClaimTurn
  <2>4. turn' \in [Requests -> 1..MaxTurns \cup {None}]
    BY <1>4, <2>2 DEF ClaimTurn
  <2>5. answer' \in [Requests -> Answer \cup {None}]
    BY <1>4, <2>1 DEF ClaimTurn
  <2> QED  BY <1>4, <2>3, <2>4, <2>5 DEF ClaimTurn
<1>5. ASSUME NEW r \in Requests, AnswerQuestion(r) PROVE TypeOK' /\ Addressed'
  <2>1. [by |-> r, turn |-> turn[r]] \in Answer
    BY DEF Answer
  <2>2. Remembered(histories[at[r]], r) \in Seq(Requests)
    BY <1>5, RememberedType DEF AnswerQuestion
  <2>3. histories' \in [Instances -> Seq(Requests)]
    BY <1>5, <2>2 DEF AnswerQuestion
  <2> QED  BY <1>5, <2>1, <2>3 DEF AnswerQuestion
<1>6. ASSUME NEW r \in Requests, StoreReplay(r) PROVE TypeOK' /\ Addressed'
  BY <1>6 DEF StoreReplay, Stored
<1>7. ASSUME NEW r \in Requests, Release(r) PROVE TypeOK' /\ Addressed'
  BY <1>7 DEF Release, Released
<1>8. ASSUME NEW r \in Requests, ExpireLock(r) PROVE TypeOK' /\ Addressed'
  BY <1>8 DEF ExpireLock
<1>9. ASSUME NEW i \in Instances, Crash(i) PROVE TypeOK' /\ Addressed'
  <2>1. \A r \in Requests : pc'[r] \in {pc[r], "gone"} /\ (pc[r] = "idle" => pc'[r] = "idle")
    BY <1>9 DEF Crash, Inside
  <2>2. pc' = [r \in Requests |-> pc'[r]]
    BY <1>9 DEF Crash
  <2>3. UNCHANGED <<lock, turns, replays, msg, at, turn, answer, overdue, lapsed>>
    BY <1>9 DEF Crash
  <2>4. histories' \in [Instances -> Seq(Requests)]
    BY <1>9 DEF Crash
  <2> QED  BY <2>1, <2>2, <2>3, <2>4
<1>10. ASSUME NEW m \in Messages, ExpireReplay(m) PROVE TypeOK' /\ Addressed'
  BY <1>10 DEF ExpireReplay
<1>11. CASE UNCHANGED vars
  BY <1>11 DEF vars
<1> QED  BY <1>1, <1>2, <1>3, <1>4, <1>5, <1>6, <1>7, <1>8, <1>9, <1>10, <1>11 DEF Next, RequestStep

-----------------------------------------------------------------------------
(***************************************************************************)
(* The lock.  Who is inside and has not outlived the lease owns it.        *)
(***************************************************************************)
Holding == \A r \in Requests : Inside(r) /\ r \notin overdue => lock = r

LEMMA HoldingNext ==
    ASSUME StateOK, Holding, [Next]_vars
    PROVE  Holding'
<1> USE NoneIsNew, TurnsAreNatural DEF StateOK, TypeOK, Addressed, Holding, Inside
<1>1. ASSUME NEW r \in Requests, NEW m \in Messages, NEW i \in Instances, Arrive(r, m, i) PROVE Holding'
  BY <1>1 DEF Arrive
<1>2. ASSUME NEW r \in Requests, TakeLock(r) PROVE Holding'
  BY <1>2 DEF TakeLock, Owned
<1>3. ASSUME NEW r \in Requests, FindReplay(r) PROVE Holding'
  BY <1>3 DEF FindReplay, Found
<1>4. ASSUME NEW r \in Requests, ClaimTurn(r) PROVE Holding'
  BY <1>4 DEF ClaimTurn, TurnIsLeft
<1>5. ASSUME NEW r \in Requests, AnswerQuestion(r) PROVE Holding'
  BY <1>5 DEF AnswerQuestion
<1>6. ASSUME NEW r \in Requests, StoreReplay(r) PROVE Holding'
  BY <1>6 DEF StoreReplay, Stored
<1>7. ASSUME NEW r \in Requests, Release(r) PROVE Holding'
  BY <1>7 DEF Release, Released
<1>8. ASSUME NEW r \in Requests, ExpireLock(r) PROVE Holding'
  BY <1>8 DEF ExpireLock, LeaseEnds
<1>9. ASSUME NEW i \in Instances, Crash(i) PROVE Holding'
  BY <1>9 DEF Crash
<1>10. ASSUME NEW m \in Messages, ExpireReplay(m) PROVE Holding'
  BY <1>10 DEF ExpireReplay
<1>11. CASE UNCHANGED vars
  BY <1>11 DEF vars
<1> QED  BY <1>1, <1>2, <1>3, <1>4, <1>5, <1>6, <1>7, <1>8, <1>9, <1>10, <1>11
         DEF Next, RequestStep

(***************************************************************************)
(* The turns.  Nobody has more than were taken, and no two have the same.  *)
(***************************************************************************)
TurnsApart ==
    /\ \A r \in Requests : turn[r] # None => turn[r] <= turns
    /\ \A r, q \in Requests : turn[r] # None /\ turn[r] = turn[q] => r = q
    /\ \A r \in Requests :
          pc[r] \in {"idle", "arrived", "locked", "fresh", "busy"} => turn[r] = None
    /\ \A r \in Requests : pc[r] = "claimed" => turn[r] # None
    /\ \A r \in overdue : pc[r] # "idle"

LEMMA TurnsApartNext ==
    ASSUME StateOK, TurnsApart, [Next]_vars
    PROVE  TurnsApart'
<1> USE NoneIsNew, TurnsAreNatural DEF StateOK, TypeOK, Addressed, TurnsApart, Inside
<1>1. ASSUME NEW r \in Requests, NEW m \in Messages, NEW i \in Instances, Arrive(r, m, i) PROVE TurnsApart'
  BY <1>1 DEF Arrive
<1>2. ASSUME NEW r \in Requests, TakeLock(r) PROVE TurnsApart'
  BY <1>2 DEF TakeLock, Owned
<1>3. ASSUME NEW r \in Requests, FindReplay(r) PROVE TurnsApart'
  BY <1>3 DEF FindReplay, Found
<1>4. ASSUME NEW r \in Requests, ClaimTurn(r) PROVE TurnsApart'
  <2>1. pc[r] = "fresh" /\ turn[r] = None /\ turns \in Nat
    BY <1>4 DEF ClaimTurn
  <2>2. /\ \A q \in Requests \ {r} : turn'[q] = turn[q] /\ pc'[q] = pc[q]
        /\ pc'[r] \in {"claimed", "computed", "failing"}
        /\ turn'[r] \in {None, turns + 1}
        /\ pc'[r] = "claimed" => turn'[r] # None
        /\ turns' \in {turns, turns + 1}
        /\ turn'[r] # None => turns' = turns + 1
        /\ UNCHANGED overdue
    BY <1>4, <2>1 DEF ClaimTurn, TurnIsLeft
  <2>3. \A q \in Requests : turn'[q] # None => turn'[q] <= turns'
    BY <2>1, <2>2
  <2>4. \A q, p \in Requests : turn'[q] # None /\ turn'[q] = turn'[p] => q = p
    <3> SUFFICES ASSUME NEW q \in Requests, NEW p \in Requests,
                        turn'[q] # None, turn'[q] = turn'[p]
                 PROVE  q = p
      OBVIOUS
    <3>1. CASE q # r /\ p # r
      BY <2>2, <3>1
    <3>2. CASE q = r /\ p # r
      BY <2>1, <2>2, <3>2
    <3>3. CASE q # r /\ p = r
      BY <2>1, <2>2, <3>3
    <3> QED  BY <3>1, <3>2, <3>3
  <2> QED  BY <2>2, <2>3, <2>4
<1>5. ASSUME NEW r \in Requests, AnswerQuestion(r) PROVE TurnsApart'
  BY <1>5 DEF AnswerQuestion
<1>6. ASSUME NEW r \in Requests, StoreReplay(r) PROVE TurnsApart'
  BY <1>6 DEF StoreReplay, Stored
<1>7. ASSUME NEW r \in Requests, Release(r) PROVE TurnsApart'
  BY <1>7 DEF Release, Released
<1>8. ASSUME NEW r \in Requests, ExpireLock(r) PROVE TurnsApart'
  BY <1>8 DEF ExpireLock, LeaseEnds
<1>9. ASSUME NEW i \in Instances, Crash(i) PROVE TurnsApart'
  BY <1>9 DEF Crash
<1>10. ASSUME NEW m \in Messages, ExpireReplay(m) PROVE TurnsApart'
  BY <1>10 DEF ExpireReplay
<1>11. CASE UNCHANGED vars
  BY <1>11 DEF vars
<1> QED  BY <1>1, <1>2, <1>3, <1>4, <1>5, <1>6, <1>7, <1>8, <1>9, <1>10, <1>11
         DEF Next, RequestStep

(***************************************************************************)
(* The answers.  As long as no delivery of a message outlives the lock,    *)
(* who works on it has found none, and who leaves has the stored one, for  *)
(* as long as it is stored.                                                *)
(***************************************************************************)
Punctual(r) == \A x \in overdue : msg[x] # msg[r]

AnswersStored ==
    \A r \in Requests :
        Punctual(r) =>
          /\ pc[r] \in {"fresh", "claimed", "computed"} => replays[msg[r]] = None
          /\ pc[r] = "computed" => answer[r] # None
          /\ pc[r] \in {"leaving", "answered"} /\ r \notin lapsed =>
                replays[msg[r]] # None /\ answer[r] = replays[msg[r]]

LEMMA AnswersStoredNext ==
    ASSUME StateOK, Holding, TurnsApart, AnswersStored, [Next]_vars
    PROVE  AnswersStored'
<1> USE NoneIsNew, TurnsAreNatural DEF StateOK, TypeOK, Addressed, AnswersStored, Punctual, Holding, TurnsApart, Inside
<1>1. ASSUME NEW r \in Requests, NEW m \in Messages, NEW i \in Instances, Arrive(r, m, i) PROVE AnswersStored'
  BY <1>1 DEF Arrive
<1>2. ASSUME NEW r \in Requests, TakeLock(r) PROVE AnswersStored'
  BY <1>2 DEF TakeLock, Owned
<1>3. ASSUME NEW r \in Requests, FindReplay(r) PROVE AnswersStored'
  <2>1. pc[r] = "locked"
    BY <1>3 DEF FindReplay
  <2>2. /\ \A q \in Requests \ {r} : pc'[q] = pc[q] /\ answer'[q] = answer[q]
        /\ pc'[r] \in {"fresh", "leaving", "failing"}
        /\ pc'[r] = "fresh" => replays[msg[r]] = None
        /\ pc'[r] = "leaving" => replays[msg[r]] # None /\ answer'[r] = replays[msg[r]]
        /\ UNCHANGED <<replays, msg, overdue, lapsed>>
    BY <1>3, <2>1 DEF FindReplay, Found
  <2> QED  BY <2>1, <2>2
<1>4. ASSUME NEW r \in Requests, ClaimTurn(r) PROVE AnswersStored'
  <2>1. [by |-> r, turn |-> None] # None
    BY DEF Answer
  <2>2. pc[r] = "fresh"
    BY <1>4 DEF ClaimTurn
  <2>3. /\ \A q \in Requests \ {r} : pc'[q] = pc[q] /\ answer'[q] = answer[q]
        /\ pc'[r] \in {"claimed", "computed", "failing"}
        /\ pc'[r] = "computed" => answer'[r] # None
        /\ UNCHANGED <<replays, msg, overdue, lapsed>>
    BY <1>4, <2>1 DEF ClaimTurn
  <2> QED  BY <2>2, <2>3
<1>5. ASSUME NEW r \in Requests, AnswerQuestion(r) PROVE AnswersStored'
  <2>1. [by |-> r, turn |-> turn[r]] # None
    BY DEF Answer
  <2>2. pc[r] = "claimed"
    BY <1>5 DEF AnswerQuestion
  <2>3. /\ \A q \in Requests \ {r} : pc'[q] = pc[q] /\ answer'[q] = answer[q]
        /\ pc'[r] = "computed" /\ answer'[r] # None
        /\ UNCHANGED <<replays, msg, overdue, lapsed>>
    BY <1>5, <2>1, <2>2 DEF AnswerQuestion
  <2> QED  BY <2>2, <2>3
<1>6. ASSUME NEW r \in Requests, StoreReplay(r) PROVE AnswersStored'
  BY <1>6 DEF StoreReplay, Stored
<1>7. ASSUME NEW r \in Requests, Release(r) PROVE AnswersStored'
  BY <1>7 DEF Release, Released
<1>8. ASSUME NEW r \in Requests, ExpireLock(r) PROVE AnswersStored'
  BY <1>8 DEF ExpireLock, LeaseEnds
<1>9. ASSUME NEW i \in Instances, Crash(i) PROVE AnswersStored'
  BY <1>9 DEF Crash
<1>10. ASSUME NEW m \in Messages, ExpireReplay(m) PROVE AnswersStored'
  BY <1>10 DEF ExpireReplay
<1>11. CASE UNCHANGED vars
  BY <1>11 DEF vars
<1> QED  BY <1>1, <1>2, <1>3, <1>4, <1>5, <1>6, <1>7, <1>8, <1>9, <1>10, <1>11
         DEF Next, RequestStep

(***************************************************************************)
(* The order.  Who is being answered has the latest turn of those in time, *)
(* and is not in a history yet.                                            *)
(***************************************************************************)
LatestTurn ==
    \A r, q \in Requests \ overdue :
        pc[r] = "claimed" /\ q # r /\ turn[q] # None => turn[q] < turn[r]

LEMMA LatestTurnNext ==
    ASSUME StateOK, Holding, TurnsApart, LatestTurn, [Next]_vars
    PROVE  LatestTurn'
<1> USE NoneIsNew, TurnsAreNatural DEF StateOK, TypeOK, Addressed, LatestTurn, Holding, TurnsApart, Inside
<1>1. ASSUME NEW r \in Requests, NEW m \in Messages, NEW i \in Instances, Arrive(r, m, i) PROVE LatestTurn'
  BY <1>1 DEF Arrive
<1>2. ASSUME NEW r \in Requests, TakeLock(r) PROVE LatestTurn'
  BY <1>2 DEF TakeLock, Owned
<1>3. ASSUME NEW r \in Requests, FindReplay(r) PROVE LatestTurn'
  BY <1>3 DEF FindReplay, Found
<1>4. ASSUME NEW r \in Requests, ClaimTurn(r) PROVE LatestTurn'
  BY <1>4 DEF ClaimTurn, TurnIsLeft
<1>5. ASSUME NEW r \in Requests, AnswerQuestion(r) PROVE LatestTurn'
  BY <1>5 DEF AnswerQuestion
<1>6. ASSUME NEW r \in Requests, StoreReplay(r) PROVE LatestTurn'
  BY <1>6 DEF StoreReplay, Stored
<1>7. ASSUME NEW r \in Requests, Release(r) PROVE LatestTurn'
  BY <1>7 DEF Release, Released
<1>8. ASSUME NEW r \in Requests, ExpireLock(r) PROVE LatestTurn'
  BY <1>8 DEF ExpireLock, LeaseEnds
<1>9. ASSUME NEW i \in Instances, Crash(i) PROVE LatestTurn'
  BY <1>9 DEF Crash
<1>10. ASSUME NEW m \in Messages, ExpireReplay(m) PROVE LatestTurn'
  BY <1>10 DEF ExpireReplay
<1>11. CASE UNCHANGED vars
  BY <1>11 DEF vars
<1> QED  BY <1>1, <1>2, <1>3, <1>4, <1>5, <1>6, <1>7, <1>8, <1>9, <1>10, <1>11
         DEF Next, RequestStep

(***************************************************************************)
(* The spending.  A request has one of four ways out of the account of its *)
(* message: it failed, it died, it outlived the lock, or its answer did    *)
(* not last.                                                               *)
(***************************************************************************)
Excused(r) == pc[r] \in {"failing", "failed", "gone"} \/ r \in overdue \cup lapsed
Spent(r) == turn[r] # None /\ ~Excused(r)

SpentOnce ==
    /\ \A r \in Requests :
          pc[r] \in {"leaving", "answered"} /\ r \notin lapsed => replays[msg[r]] # None
    /\ \A r \in Requests : pc[r] = "computed" => answer[r] # None
    /\ \A r, q \in Requests :
          pc[r] = "fresh" /\ r \notin overdue /\ msg[q] = msg[r] => ~Spent(q)
    /\ \A r, q \in Requests : Spent(r) /\ Spent(q) /\ msg[r] = msg[q] => r = q

LEMMA SpentOnceNext ==
    ASSUME StateOK, Holding, TurnsApart, SpentOnce, [Next]_vars
    PROVE  SpentOnce'
<1> USE NoneIsNew, TurnsAreNatural DEF StateOK, TypeOK, Addressed, SpentOnce, Spent, Excused, Holding, TurnsApart, Inside
<1>1. ASSUME NEW r \in Requests, NEW m \in Messages, NEW i \in Instances, Arrive(r, m, i) PROVE SpentOnce'
  BY <1>1 DEF Arrive
<1>2. ASSUME NEW r \in Requests, TakeLock(r) PROVE SpentOnce'
  <2>1. pc[r] = "arrived"
    BY <1>2 DEF TakeLock
  <2>2. /\ \A q \in Requests \ {r} : pc'[q] = pc[q]
        /\ pc'[r] \in {"locked", "busy", "failed"}
        /\ UNCHANGED <<replays, msg, turn, answer, overdue, lapsed>>
    BY <1>2, <2>1 DEF TakeLock, Owned
  <2> QED  BY <2>1, <2>2
<1>3. ASSUME NEW r \in Requests, FindReplay(r) PROVE SpentOnce'
  <2>1. pc[r] = "locked" /\ turn[r] = None
    BY <1>3 DEF FindReplay
  <2>2. /\ \A q \in Requests \ {r} : pc'[q] = pc[q]
        /\ pc'[r] \in {"fresh", "leaving", "failing"}
        /\ pc'[r] = "fresh" => replays[msg[r]] = None
        /\ pc'[r] = "leaving" => replays[msg[r]] # None
        /\ \A q \in Requests \ {r} : answer'[q] = answer[q]
        /\ UNCHANGED <<replays, msg, turn, overdue, lapsed>>
    BY <1>3, <2>1 DEF FindReplay, Found
  <2>3. ASSUME NEW q \in Requests, pc'[r] = "fresh", r \notin overdue, msg[q] = msg[r]
        PROVE  ~Spent(q)
    <3>1. q # r => ~Inside(q) \/ q \in overdue
      BY <2>1, <2>3
    <3>2. pc[q] # "answered" \/ q \in lapsed
      BY <2>2, <2>3
    <3> QED  BY <2>1, <3>1, <3>2
  <2>4. \A q \in Requests : Spent(q)' => Spent(q)
    BY <2>1, <2>2
  <2>5. \A q, p \in Requests :
            pc'[q] = "fresh" /\ q \notin overdue /\ msg[p] = msg[q] => ~Spent(p)
    BY <2>2, <2>3
  <2> QED  BY <2>1, <2>2, <2>4, <2>5
<1>4. ASSUME NEW r \in Requests, ClaimTurn(r) PROVE SpentOnce'
  <2>1. pc[r] = "fresh" /\ turn[r] = None
    BY <1>4 DEF ClaimTurn
  <2>2. /\ \A q \in Requests \ {r} :
              pc'[q] = pc[q] /\ turn'[q] = turn[q] /\ answer'[q] = answer[q]
        /\ pc'[r] \in {"claimed", "computed", "failing"}
        /\ pc'[r] = "computed" => answer'[r] # None /\ turn'[r] = None
        /\ UNCHANGED <<replays, msg, overdue, lapsed>>
    BY <1>4, <2>1 DEF ClaimTurn, Answer
  <2>3. \A q \in Requests \ {r} : Spent(q)' <=> Spent(q)
    BY <2>2
  <2>4. Spent(r)' => /\ r \notin overdue
                     /\ \A q \in Requests : msg[q] = msg[r] => ~Spent(q)
                     /\ \A q \in Requests \ {r} : pc[q] = "fresh" => q \in overdue
    BY <2>1, <2>2
  <2>5. \A q, p \in Requests :
            pc'[q] = "fresh" /\ q \notin overdue /\ msg[p] = msg[q] => ~Spent(p)'
    BY <2>1, <2>2, <2>3, <2>4
  <2>6. \A q, p \in Requests : Spent(q)' /\ Spent(p)' /\ msg[q] = msg[p] => q = p
    BY <2>1, <2>2, <2>3, <2>4
  <2> QED  BY <2>1, <2>2, <2>5, <2>6
<1>5. ASSUME NEW r \in Requests, AnswerQuestion(r) PROVE SpentOnce'
  <2>1. pc[r] = "claimed"
    BY <1>5 DEF AnswerQuestion
  <2>2. /\ \A q \in Requests \ {r} : pc'[q] = pc[q]
        /\ pc'[r] = "computed"
        /\ \A q \in Requests \ {r} : answer'[q] = answer[q]
        /\ answer'[r] # None
        /\ UNCHANGED <<replays, msg, turn, overdue, lapsed>>
    BY <1>5, <2>1 DEF AnswerQuestion, Answer
  <2> QED  BY <2>1, <2>2
<1>6. ASSUME NEW r \in Requests, StoreReplay(r) PROVE SpentOnce'
  <2>1. pc[r] = "computed" /\ answer[r] # None
    BY <1>6 DEF StoreReplay
  <2>2. /\ \A q \in Requests \ {r} : pc'[q] = pc[q]
        /\ pc'[r] \in {"leaving", "failing"}
        /\ UNCHANGED <<msg, turn, answer, overdue, lapsed>>
    BY <1>6, <2>1 DEF StoreReplay
  <2>3. \A m \in Messages : replays[m] # None => replays'[m] # None
    BY <1>6 DEF StoreReplay, Stored
  <2>4. pc'[r] = "leaving" => replays'[msg[r]] # None
    BY <1>6, <2>1 DEF StoreReplay, Stored
  <2>5. \A q \in Requests : 
            pc'[q] \in {"leaving", "answered"} /\ q \notin lapsed => replays'[msg'[q]] # None
    BY <2>1, <2>2, <2>3, <2>4
  <2> QED  BY <2>1, <2>2, <2>5
<1>7. ASSUME NEW r \in Requests, Release(r) PROVE SpentOnce'
  BY <1>7 DEF Release, Released
<1>8. ASSUME NEW r \in Requests, ExpireLock(r) PROVE SpentOnce'
  BY <1>8 DEF ExpireLock, LeaseEnds
<1>9. ASSUME NEW i \in Instances, Crash(i) PROVE SpentOnce'
  BY <1>9 DEF Crash
<1>10. ASSUME NEW m \in Messages, ExpireReplay(m) PROVE SpentOnce'
  BY <1>10 DEF ExpireReplay
<1>11. CASE UNCHANGED vars
  BY <1>11 DEF vars
<1> QED  BY <1>1, <1>2, <1>3, <1>4, <1>5, <1>6, <1>7, <1>8, <1>9, <1>10, <1>11
         DEF Next, RequestStep


-----------------------------------------------------------------------------
(***************************************************************************)
(* The histories.  They hold questions that were answered, in order.       *)
(***************************************************************************)
Before == {"idle", "arrived", "locked", "fresh", "claimed", "busy"}

HistoryKnown ==
    \A i \in Instances : \A a \in DOMAIN histories[i] :
        turn[histories[i][a]] # None /\ pc[histories[i][a]] \notin Before

HistoryOK == HistoryKnown /\ HistoryInOrder

LEMMA RememberedIsSuffix ==
    ASSUME NEW s \in Seq(Requests), NEW r \in Requests
    PROVE  LET t == Remembered(s, r) IN
           \E d \in Nat : \A a \in DOMAIN t :
              /\ a \in Nat
              /\ \/ a + d \in DOMAIN s /\ t[a] = s[a + d]
                 \/ a + d = Len(s) + 1 /\ t[a] = r
<1> DEFINE all == Append(s, r)
           first == IF Len(all) > HistoryLength THEN Len(all) - HistoryLength + 1 ELSE 1
           t == Remembered(s, r)
<1>1. all \in Seq(Requests) /\ Len(all) = Len(s) + 1 /\ Len(s) \in Nat
  OBVIOUS
<1>2. \A a \in 1..Len(all) : \/ a \in DOMAIN s /\ all[a] = s[a]
                             \/ a = Len(s) + 1 /\ all[a] = r
  OBVIOUS
<1> HIDE DEF all
<1>3. first \in Nat /\ first >= 1 /\ first <= Len(all)
  BY <1>1, TurnsAreNatural
<1>4. t = SubSeq(all, first, Len(all))
  BY DEF Remembered, all
<1> HIDE DEF first, t
<1>5. \A a \in DOMAIN t : a \in Nat /\ a >= 1 /\ a + (first - 1) \in 1..Len(all) /\ t[a] = all[a + (first - 1)]
  BY <1>1, <1>3, <1>4
<1>6. first - 1 \in Nat
  BY <1>3
<1> QED  BY <1>2, <1>5, <1>6 DEF t

\* A step that adds nothing to a history, and no turn to what is in one.
LEMMA HistoriesKept ==
    ASSUME StateOK, HistoryOK,
           \A i \in Instances : histories'[i] \in {histories[i], <<>>},
           \A q \in Requests : pc[q] \notin Before => pc'[q] \notin Before,
           \A q \in Requests : turn[q] # None /\ pc[q] \notin Before => turn'[q] = turn[q],
           \A q \in Requests : q \in overdue => q \in overdue'
    PROVE  HistoryOK'
<1>1. \A i \in Instances : \A a \in DOMAIN histories[i] :
          /\ histories[i][a] \in Requests
          /\ turn[histories[i][a]] # None
          /\ pc[histories[i][a]] \notin Before
  BY DEF StateOK, TypeOK, HistoryOK, HistoryKnown
<1>2. \A i \in Instances : \A a \in DOMAIN histories'[i] :
          a \in DOMAIN histories[i] /\ histories'[i][a] = histories[i][a]
  OBVIOUS
<1>3. HistoryKnown'
  BY <1>1, <1>2 DEF HistoryKnown
<1>4. ASSUME NEW i \in Instances, NEW a \in DOMAIN histories'[i], NEW b \in DOMAIN histories'[i],
             a < b, {histories'[i][a], histories'[i][b]} \cap overdue' = {}
      PROVE  turn'[histories'[i][a]] < turn'[histories'[i][b]]
  <2> DEFINE x == histories[i][a]
             y == histories[i][b]
  <2>1. histories'[i][a] = x /\ histories'[i][b] = y
    BY <1>2
  <2>2. x \in Requests /\ y \in Requests /\ turn'[x] = turn[x] /\ turn'[y] = turn[y]
    BY <1>1, <1>2
  <2>3. {x, y} \cap overdue = {}
    BY <1>4, <2>1, <2>2
  <2>4. turn[x] < turn[y]
    BY <1>2, <1>4, <2>3 DEF HistoryOK, HistoryInOrder
  <2> QED  BY <2>1, <2>2, <2>4
<1>5. HistoryInOrder'
  BY <1>4 DEF HistoryInOrder
<1> QED  BY <1>3, <1>5 DEF HistoryOK

LEMMA HistoryNext ==
    ASSUME StateOK, Holding, TurnsApart, LatestTurn, HistoryOK, [Next]_vars
    PROVE  HistoryOK'
<1> USE NoneIsNew, TurnsAreNatural DEF StateOK, TypeOK, Addressed, HistoryOK, HistoryKnown, HistoryInOrder, TurnsApart
<1>1. ASSUME NEW r \in Requests, NEW m \in Messages, NEW i \in Instances, Arrive(r, m, i) PROVE HistoryOK'
  <2>1. /\ UNCHANGED <<histories, turn, overdue>>
        /\ \A q \in Requests : pc[q] \notin Before => pc'[q] \notin Before
    BY <1>1 DEF Before, Arrive
  <2> QED  BY <2>1, HistoriesKept
<1>2. ASSUME NEW r \in Requests, TakeLock(r) PROVE HistoryOK'
  <2>1. /\ UNCHANGED <<histories, msg>>
        /\ \A q \in Requests : pc[q] \notin Before => pc'[q] \notin Before
        /\ \A q \in Requests : turn[q] # None /\ pc[q] \notin Before => turn'[q] = turn[q]
        /\ \A q \in Requests : q \in overdue => q \in overdue'
    BY <1>2 DEF Before, TakeLock, Owned
  <2> QED  BY <2>1, HistoriesKept
<1>3. ASSUME NEW r \in Requests, FindReplay(r) PROVE HistoryOK'
  <2>1. /\ UNCHANGED <<histories, msg>>
        /\ \A q \in Requests : pc[q] \notin Before => pc'[q] \notin Before
        /\ \A q \in Requests : turn[q] # None /\ pc[q] \notin Before => turn'[q] = turn[q]
        /\ \A q \in Requests : q \in overdue => q \in overdue'
    BY <1>3 DEF Before, FindReplay, Found
  <2> QED  BY <2>1, HistoriesKept
<1>4. ASSUME NEW r \in Requests, ClaimTurn(r) PROVE HistoryOK'
  <2>1. /\ UNCHANGED <<histories, msg>>
        /\ \A q \in Requests : pc[q] \notin Before => pc'[q] \notin Before
        /\ \A q \in Requests : turn[q] # None /\ pc[q] \notin Before => turn'[q] = turn[q]
        /\ \A q \in Requests : q \in overdue => q \in overdue'
    BY <1>4 DEF Before, ClaimTurn, TurnIsLeft
  <2> QED  BY <2>1, HistoriesKept
<1>5. ASSUME NEW r \in Requests, AnswerQuestion(r) PROVE HistoryOK'
  <2>1. /\ pc[r] = "claimed" /\ turn[r] # None
        /\ pc' = [pc EXCEPT ![r] = "computed"]
        /\ UNCHANGED <<turn, overdue>>
        /\ at[r] \in Instances
    BY <1>5 DEF AnswerQuestion, TurnsApart
  <2>2. CASE UNCHANGED histories
    BY <2>1, <2>2 DEF Before
  <2>3. CASE histories' = [histories EXCEPT ![at[r]] = Remembered(histories[at[r]], r)]
    <3> DEFINE s == histories[at[r]]
               t == Remembered(s, r)
    <3>1. s \in Seq(Requests)
      BY <2>1
    <3>2. PICK d \in Nat : \A a \in DOMAIN t :
              /\ a \in Nat
              /\ \/ a + d \in DOMAIN s /\ t[a] = s[a + d]
                 \/ a + d = Len(s) + 1 /\ t[a] = r
      BY <3>1, RememberedIsSuffix
    <3>3. \A a \in DOMAIN s : /\ s[a] \in Requests /\ s[a] # r
                               /\ turn[s[a]] # None /\ pc[s[a]] \notin Before
                               /\ a \in Nat /\ a < Len(s) + 1
      BY <2>1, <3>1 DEF Before
    <3>4. \A i \in Instances : histories'[i] = IF i = at[r] THEN t ELSE histories[i]
      BY <2>1, <2>3
    <3> HIDE DEF t
    <3>5. \A a \in DOMAIN t : turn'[t[a]] # None /\ pc'[t[a]] \notin Before
      BY <2>1, <3>2, <3>3 DEF Before
    <3>6. ASSUME NEW a \in DOMAIN t, NEW b \in DOMAIN t, a < b, t[a] \notin overdue, t[b] \notin overdue
          PROVE  turn[t[a]] < turn[t[b]]
      <4>1. /\ a + d < b + d
            /\ \/ b + d \in DOMAIN s /\ t[b] = s[b + d]
               \/ t[b] = r
        BY <3>2, <3>6
      <4>2. a + d \in DOMAIN s /\ t[a] = s[a + d]
        BY <3>2, <3>3, <3>6, <4>1
      <4>3. CASE b + d \in DOMAIN s /\ t[b] = s[b + d]
        <5>1. {s[a + d], s[b + d]} \cap overdue = {}
          BY <3>6, <4>2, <4>3
        <5>2. \A x, y \in DOMAIN s : x < y /\ {s[x], s[y]} \cap overdue = {} => turn[s[x]] < turn[s[y]]
          BY <2>1
        <5> QED  BY <4>1, <4>2, <4>3, <5>1, <5>2
      <4>4. CASE t[b] = r
        BY <2>1, <3>3, <3>6, <4>2, <4>4 DEF LatestTurn
      <4> QED  BY <4>1, <4>3, <4>4
    <3> HIDE DEF s
    <3>7. \A i \in Instances \ {at[r]} : \A a \in DOMAIN histories[i] :
              turn'[histories[i][a]] # None /\ pc'[histories[i][a]] \notin Before
      BY <2>1 DEF Before
    <3>8. HistoryKnown'
      <4> SUFFICES ASSUME NEW i \in Instances, NEW a \in DOMAIN histories'[i]
                   PROVE  turn'[histories'[i][a]] # None /\ pc'[histories'[i][a]] \notin Before
        BY DEF HistoryKnown
      <4>1. CASE i = at[r]
        BY <3>4, <3>5, <4>1
      <4>2. CASE i # at[r]
        BY <3>4, <3>7, <4>2
      <4> QED  BY <4>1, <4>2
    <3>9. HistoryInOrder'
      BY <2>1, <3>4, <3>6 DEF HistoryInOrder
    <3> QED  BY <3>8, <3>9
  <2> QED  BY <1>5, <2>2, <2>3 DEF AnswerQuestion
<1>6. ASSUME NEW r \in Requests, StoreReplay(r) PROVE HistoryOK'
  <2>1. /\ UNCHANGED <<histories, msg>>
        /\ \A q \in Requests : pc[q] \notin Before => pc'[q] \notin Before
        /\ \A q \in Requests : turn[q] # None /\ pc[q] \notin Before => turn'[q] = turn[q]
        /\ \A q \in Requests : q \in overdue => q \in overdue'
    BY <1>6 DEF Before, StoreReplay, Stored
  <2> QED  BY <2>1, HistoriesKept
<1>7. ASSUME NEW r \in Requests, Release(r) PROVE HistoryOK'
  <2>1. /\ UNCHANGED <<histories, msg>>
        /\ \A q \in Requests : pc[q] \notin Before => pc'[q] \notin Before
        /\ \A q \in Requests : turn[q] # None /\ pc[q] \notin Before => turn'[q] = turn[q]
        /\ \A q \in Requests : q \in overdue => q \in overdue'
    BY <1>7 DEF Before, Release, Released
  <2> QED  BY <2>1, HistoriesKept
<1>8. ASSUME NEW r \in Requests, ExpireLock(r) PROVE HistoryOK'
  <2>1. /\ UNCHANGED <<histories, msg>>
        /\ \A q \in Requests : pc[q] \notin Before => pc'[q] \notin Before
        /\ \A q \in Requests : turn[q] # None /\ pc[q] \notin Before => turn'[q] = turn[q]
        /\ \A q \in Requests : q \in overdue => q \in overdue'
    BY <1>8 DEF Before, ExpireLock, LeaseEnds
  <2> QED  BY <2>1, HistoriesKept
<1>9. ASSUME NEW i \in Instances, Crash(i) PROVE HistoryOK'
  <2>1. \A j \in Instances : histories'[j] = histories[j] \/ histories'[j] = <<>>
    BY <1>9 DEF Crash
  <2>2. /\ UNCHANGED <<turn, overdue>>
        /\ \A q \in Requests : pc[q] \notin Before => pc'[q] \notin Before
    BY <1>9 DEF Crash, Before, Inside
  <2> QED  BY <2>1, <2>2, HistoriesKept
<1>10. ASSUME NEW m \in Messages, ExpireReplay(m) PROVE HistoryOK'
  <2>1. /\ UNCHANGED <<histories, turn, overdue, pc>>
    BY <1>10 DEF ExpireReplay
  <2> QED  BY <2>1, HistoriesKept
<1>11. CASE UNCHANGED vars
  BY <1>11 DEF vars
<1> QED  BY <1>1, <1>2, <1>3, <1>4, <1>5, <1>6, <1>7, <1>8, <1>9, <1>10, <1>11
         DEF Next, RequestStep


-----------------------------------------------------------------------------
(***************************************************************************)
(* The invariant and the theorems.                                         *)
(***************************************************************************)
AdvisorInv ==
    StateOK /\ Holding /\ TurnsApart /\ AnswersStored /\ LatestTurn /\ SpentOnce /\ HistoryOK

LEMMA AdvisorInit == Init => AdvisorInv
<1> SUFFICES ASSUME Init PROVE AdvisorInv
  OBVIOUS
<1>1. StateOK
  BY StateInit
<1>2. Holding /\ TurnsApart /\ AnswersStored /\ LatestTurn /\ SpentOnce
  BY DEF Init, Holding, TurnsApart, AnswersStored, LatestTurn, SpentOnce, Spent, Inside
<1>3. HistoryOK
  BY DEF Init, HistoryOK, HistoryKnown, HistoryInOrder
<1> QED  BY <1>1, <1>2, <1>3 DEF AdvisorInv

LEMMA AdvisorNext == AdvisorInv /\ [Next]_vars => AdvisorInv'
BY StateNext, HoldingNext, TurnsApartNext, AnswersStoredNext, LatestTurnNext, SpentOnceNext,
   HistoryNext DEF AdvisorInv

LEMMA AdvisorAlways == Spec => []AdvisorInv
BY AdvisorInit, AdvisorNext, PTL DEF Spec

\* Redis and the instances keep well-formed values.
THEOREM TypeCorrect == Spec => []TypeOK
<1>1. AdvisorInv => TypeOK
  BY DEF AdvisorInv, StateOK
<1> QED  BY <1>1, AdvisorAlways, PTL

\* Two questions of a conversation are not answered at a time while both are in time.
THEOREM LeasesExclude == Spec => []LiveLeaseExcludes
<1>1. AdvisorInv => LiveLeaseExcludes
  BY DEF AdvisorInv, Holding, LiveLeaseExcludes
<1> QED  BY <1>1, AdvisorAlways, PTL

\* All deliveries of a message that are answered get one answer as long as it is stored,
\* unless one of them was late.
THEOREM OneAnswer == Spec => []SameAnswer
<1>1. AdvisorInv => SameAnswer
  BY DEF AdvisorInv, AnswersStored, Punctual, SameAnswer
<1> QED  BY <1>1, AdvisorAlways, PTL

\* However slow the requests are, at most MaxTurns questions get a turn, each its own.
THEOREM BudgetKept == Spec => []BudgetIsKept
<1>1. AdvisorInv => BudgetIsKept
  <2> SUFFICES ASSUME AdvisorInv PROVE BudgetIsKept
    OBVIOUS
  <2>1. /\ \A r \in Requests : turn[r] \in 1..MaxTurns \cup {None}
        /\ \A r, q \in Requests : turn[r] # None /\ turn[r] = turn[q] => r = q
    BY DEF AdvisorInv, StateOK, TypeOK, TurnsApart
  <2> DEFINE S == {r \in Requests : turn[r] # None}
             f == [r \in S |-> turn[r]]
  <2>2. f \in Injection(S, 1..MaxTurns)
    BY <2>1 DEF Injection, IsInjective
  <2>3. IsFiniteSet(1..MaxTurns) /\ Cardinality(1..MaxTurns) = MaxTurns
    BY FS_Interval, TurnsAreNatural
  <2> HIDE DEF f
  <2>4. Cardinality(S) <= MaxTurns
    BY <2>2, <2>3, FS_Injection
  <2> QED  BY <2>1, <2>4 DEF BudgetIsKept
<1> QED  BY <1>1, AdvisorAlways, PTL

\* A message pays for one turn, and for one more only after a delivery that paid failed,
\* died, was late or had its answer expire.
THEOREM SpentAtMostOnce == Spec => []TurnsAreSpentOnce
<1>1. AdvisorInv => TurnsAreSpentOnce
  <2> SUFFICES ASSUME AdvisorInv, NEW m \in Messages
               PROVE  Cardinality({r \in Requests : msg[r] = m /\ turn[r] # None})
                        <= 1 + Cardinality({r \in {q \in Requests : msg[q] = m /\ turn[q] # None} :
                                  pc[r] \in {"failing", "failed", "gone"} \/ r \in overdue \cup lapsed})
    BY DEF TurnsAreSpentOnce
  <2> DEFINE P == {r \in Requests : msg[r] = m /\ turn[r] # None}
             F == {r \in P : pc[r] \in {"failing", "failed", "gone"} \/ r \in overdue \cup lapsed}
  <2>1. \A r, q \in P \ F : r = q
    BY DEF AdvisorInv, SpentOnce, Spent, Excused
  <2>2. P \subseteq Requests /\ F \subseteq Requests
    OBVIOUS
  <2> HIDE DEF P, F
  <2>3. IsFiniteSet(P) /\ IsFiniteSet(F)
    BY <2>2, RequestsAreFinite, FS_Subset
  <2>4. Cardinality(P) \in Nat /\ Cardinality(F) \in Nat
    BY <2>3, FS_CardinalityType
  <2>5. CASE P \subseteq F
    <3>1. Cardinality(P) <= Cardinality(F)
      BY <2>3, <2>5, FS_Subset
    <3> QED  BY <2>4, <3>1 DEF P, F
  <2>6. CASE ~(P \subseteq F)
    <3>1. PICK x \in P \ F : P \subseteq F \cup {x}
      BY <2>1, <2>6
    <3>2. IsFiniteSet(F \cup {x}) /\ Cardinality(F \cup {x}) = Cardinality(F) + 1
      BY <2>3, FS_AddElement
    <3>3. Cardinality(P) <= Cardinality(F \cup {x})
      BY <3>1, <3>2, FS_Subset
    <3> QED  BY <2>4, <3>2, <3>3 DEF P, F
  <2> QED  BY <2>5, <2>6
<1> QED  BY <1>1, AdvisorAlways, PTL

\* An instance tells the model of its answers in the order of their turns, except for
\* the late ones.
THEOREM HistoriesInOrder == Spec => []HistoryInOrder
<1>1. AdvisorInv => HistoryInOrder
  BY DEF AdvisorInv, HistoryOK
<1> QED  BY <1>1, AdvisorAlways, PTL
===============================================================================
