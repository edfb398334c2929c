------------------------------ MODULE AdvisorChat ------------------------------
(***************************************************************************)
(* The sales advisor's chat about one vehicle of one conversation:         *)
(* POST /api/cars/sales-advisor/chat on several server instances.          *)
(*                                                                         *)
(* A question is answered under a lock of the conversation, kept in Redis  *)
(* with a lease of 20 seconds; it costs one of ten turns, also kept there; *)
(* its answer is stored in Redis under the id of its message, and appended *)
(* to a history in the memory of the instance.                             *)
(***************************************************************************)
EXTENDS Naturals, Sequences, FiniteSets

CONSTANTS
    Instances,
    Messages,       \* ids of the questions
    Requests,       \* deliveries of questions
    None,
    MaxTurns,       \* MAX_PHASE2_CHAT_TURNS, ten in the code
    HistoryLength,  \* questions whose answers the history keeps
    Faults          \* subset of {"redis", "crash", "slow"}

ASSUME TurnsAreNatural == MaxTurns \in Nat \ {0} /\ HistoryLength \in Nat \ {0}

\* An answer is known by the request that computed it and the turn it cost.
Answer == [by : Requests, turn : 1..MaxTurns \cup {None}]

ASSUME RequestsAreFinite == IsFiniteSet(Requests)
ASSUME NoneIsNew == None \notin Requests \cup Messages \cup Instances \cup Nat \cup Answer

VARIABLES
    lock,       \* the request that owns the conversation's lock in Redis
    turns,      \* turns taken, in Redis
    replays,    \* the stored answers, in Redis
    histories,  \* per instance: the questions it remembers, in order
    pc, msg, at,
    turn,       \* the turn a request was granted, None if the turns are over
    answer,
    overdue,    \* requests whose lease ran out while they were at work
    lapsed      \* requests whose answer was given before the stored one expired

redisVars   == <<lock, turns, replays>>
requestVars == <<pc, msg, at, turn, answer>>
vars == <<redisVars, histories, requestVars, overdue, lapsed>>

Inside(r) == pc[r] \in {"locked", "fresh", "claimed", "computed", "leaving", "failing"}

TypeOK ==
    /\ lock \in Requests \cup {None}
    /\ turns \in 0..MaxTurns
    /\ replays \in [Messages -> Answer \cup {None}]
    /\ histories \in [Instances -> Seq(Requests)]
    /\ pc \in [Requests -> {"idle", "arrived", "locked", "fresh", "claimed", "computed",
                            "leaving", "failing", "answered", "busy", "failed", "gone"}]
    /\ msg \in [Requests -> Messages \cup {None}]
    /\ at \in [Requests -> Instances \cup {None}]
    /\ turn \in [Requests -> 1..MaxTurns \cup {None}]
    /\ answer \in [Requests -> Answer \cup {None}]
    /\ overdue \in SUBSET Requests
    /\ lapsed \in SUBSET Requests

Init ==
    /\ lock = None
    /\ turns = 0
    /\ replays = [m \in Messages |-> None]
    /\ histories = [i \in Instances |-> <<>>]
    /\ pc = [r \in Requests |-> "idle"]
    /\ msg = [r \in Requests |-> None]
    /\ at = [r \in Requests |-> None]
    /\ turn = [r \in Requests |-> None]
    /\ answer = [r \in Requests |-> None]
    /\ overdue = {}
    /\ lapsed = {}

GoTo(r, label) == pc' = [pc EXCEPT ![r] = label]

-----------------------------------------------------------------------------
\* A question arrives, for the first time or again.
Arrive(r, m, i) ==
    /\ pc[r] = "idle"
    /\ GoTo(r, "arrived")
    /\ msg' = [msg EXCEPT ![r] = m]
    /\ at' = [at EXCEPT ![r] = i]
    /\ UNCHANGED <<redisVars, histories, turn, answer, overdue, lapsed>>

\* The lock is taken from whoever has it.
OwnedUnasked(r) == r

\* SET NX: the owner of the lock after r asked for it.
Owned(r) == IF lock = None THEN r ELSE lock

\* A conversation that is busy turns the request away with 429.  If Redis does
\* not answer the request ends, perhaps with a lock that nobody will release.
TakeLock(r) ==
    /\ pc[r] = "arrived"
    /\ \/ /\ lock' = Owned(r)
          /\ GoTo(r, IF Owned(r) = r THEN "locked" ELSE "busy")
       \/ /\ "redis" \in Faults
          /\ lock' \in {lock, Owned(r)}
          /\ GoTo(r, "failed")
    /\ UNCHANGED <<turns, replays, histories, msg, at, turn, answer, overdue, lapsed>>

\* Every delivery is answered anew.
FoundNothing(r) == None

\* The stored answer to the same message.
Found(r) == replays[msg[r]]

FindReplay(r) ==
    /\ pc[r] = "locked"
    /\ \/ /\ answer' = [answer EXCEPT ![r] = Found(r)]
          /\ GoTo(r, IF Found(r) = None THEN "fresh" ELSE "leaving")
       \/ /\ "redis" \in Faults
          /\ GoTo(r, "failing")
          /\ UNCHANGED answer
    /\ UNCHANGED <<redisVars, histories, msg, at, turn, overdue, lapsed>>

\* One question too many.
TurnIsLeftStill == turns <= MaxTurns

\* CLAIM_TURN_SCRIPT compares and counts in one step.
TurnIsLeft == turns < MaxTurns

\* The question costs a turn, or is told that the turns are over.  If the answer
\* of Redis is lost the turn may be lost with it.
ClaimTurn(r) ==
    /\ pc[r] = "fresh"
    /\ \/ /\ TurnIsLeft
          /\ turns' = turns + 1
          /\ turn' = [turn EXCEPT ![r] = turns + 1]
          /\ GoTo(r, "claimed")
          /\ UNCHANGED answer
       \/ /\ ~TurnIsLeft
          /\ answer' = [answer EXCEPT ![r] = [by |-> r, turn |-> None]]
          /\ GoTo(r, "computed")
          /\ UNCHANGED <<turns, turn>>
       \/ /\ "redis" \in Faults
          /\ turns' \in {turns, IF TurnIsLeft THEN turns + 1 ELSE turns}
          /\ GoTo(r, "failing")
          /\ UNCHANGED <<turn, answer>>
    /\ UNCHANGED <<lock, replays, histories, msg, at, overdue, lapsed>>

\* appendSalesAdvisorHistory keeps the youngest.
Remembered(s, r) ==
    LET all == Append(s, r)
        first == IF Len(all) > HistoryLength THEN Len(all) - HistoryLength + 1 ELSE 1 IN
    SubSeq(all, first, Len(all))

\* Model, research and answer, which joins the history as it is then; a question
\* about the advisor's instructions is turned down without a trace.
AnswerQuestion(r) ==
    /\ pc[r] = "claimed"
    /\ answer' = [answer EXCEPT ![r] = [by |-> r, turn |-> turn[r]]]
    /\ \/ histories' = [histories EXCEPT ![at[r]] = Remembered(histories[at[r]], r)]
       \/ UNCHANGED histories
    /\ GoTo(r, "computed")
    /\ UNCHANGED <<redisVars, msg, at, turn, overdue, lapsed>>

\* SET NX: the first answer stays.
Stored(r) == IF replays[msg[r]] = None THEN [replays EXCEPT ![msg[r]] = answer[r]] ELSE replays

\* Whoever stored first, the request answers with what it computed.
StoreReplay(r) ==
    /\ pc[r] = "computed"
    /\ \/ /\ replays' = Stored(r)
          /\ GoTo(r, "leaving")
       \/ /\ "redis" \in Faults
          /\ replays' \in {replays, Stored(r)}
          /\ GoTo(r, "failing")
    /\ UNCHANGED <<lock, turns, histories, msg, at, turn, answer, overdue, lapsed>>

\* The lock is deleted, whoever holds it.
ReleasedByAnyone(r) == None

\* RELEASE_SCRIPT: the owner of the lock after r gave it back.
Released(r) == IF lock = r THEN None ELSE lock

\* A release that fails is ignored.
Release(r) ==
    /\ pc[r] \in {"leaving", "failing"}
    /\ lock' = Released(r) \/ ("redis" \in Faults /\ lock' = lock)
    /\ GoTo(r, IF pc[r] = "leaving" THEN "answered" ELSE "failed")
    /\ UNCHANGED <<turns, replays, histories, msg, at, turn, answer, overdue, lapsed>>

-----------------------------------------------------------------------------
\* The lease ends: its owner is gone, or it is slow: the model may take 12
\* seconds, two sources 4 each, and every command of Redis 2.
LeaseEnds(r) == lock = r /\ (Inside(r) => "slow" \in Faults)

ExpireLock(r) ==
    /\ LeaseEnds(r)
    /\ lock' = None
    /\ overdue' = IF Inside(r) THEN overdue \cup {r} ELSE overdue
    /\ UNCHANGED <<turns, replays, histories, requestVars, lapsed>>

\* A stored answer is kept for an hour, the turns for as long as the hand-off lives:
\* a day.  A message that comes back in between is a new one.
ExpireReplay(m) ==
    /\ replays[m] # None
    /\ replays' = [replays EXCEPT ![m] = None]
    /\ lapsed' = lapsed \cup {r \in Requests : msg[r] = m /\ pc[r] \in {"leaving", "answered"}}
    /\ UNCHANGED <<lock, turns, histories, requestVars, overdue>>

\* An instance is recycled.
Crash(i) ==
    /\ "crash" \in Faults
    /\ histories' = [histories EXCEPT ![i] = <<>>]
    /\ pc' = [r \in Requests |->
                 IF at[r] = i /\ (Inside(r) \/ pc[r] = "arrived") THEN "gone" ELSE pc[r]]
    /\ UNCHANGED <<redisVars, msg, at, turn, answer, overdue, lapsed>>

RequestStep(r) ==
    \/ TakeLock(r)
    \/ FindReplay(r)
    \/ ClaimTurn(r)
    \/ AnswerQuestion(r)
    \/ StoreReplay(r)
    \/ Release(r)

Next ==
    \/ \E r \in Requests, m \in Messages, i \in Instances : Arrive(r, m, i)
    \/ \E r \in Requests : RequestStep(r) \/ ExpireLock(r)
    \/ \E m \in Messages : ExpireReplay(m)
    \/ \E i \in Instances : Crash(i)

Spec == Init /\ [][Next]_vars

-----------------------------------------------------------------------------
(* Safety.                                                                 *)

\* Two questions of a conversation are never answered at a time, as long as
\* neither of them has outlived its lease: the slow one's release, or a release
\* whose answer was lost, never frees the lock of another.
LiveLeaseExcludes ==
    \A r, q \in Requests \ overdue : Inside(r) /\ Inside(q) => r = q

\* All deliveries of a message get one answer as long as it is stored, unless one
\* of them was slow: also when an answer was lost, or the instance that computed it.
SameAnswer ==
    \A r, q \in Requests :
        /\ pc[r] = "answered" /\ pc[q] = "answered" /\ msg[r] = msg[q]
        /\ {r, q} \cap lapsed = {}
        /\ \A x \in overdue : msg[x] # msg[r]
        => answer[r] = answer[q]

\* No more questions are answered than there are turns, and no two with the same
\* turn, however slow requests are.
BudgetIsKept ==
    /\ Cardinality({r \in Requests : turn[r] # None}) <= MaxTurns
    /\ \A r, q \in Requests : turn[r] # None /\ turn[r] = turn[q] => r = q

\* A message costs one turn, and one more for each delivery that paid and failed,
\* died, outlived its lease or was answered before the stored answer expired, at most.
TurnsAreSpentOnce ==
    \A m \in Messages :
        LET paid == {r \in Requests : msg[r] = m /\ turn[r] # None} IN
        Cardinality(paid) <= 1 + Cardinality({r \in paid :
            pc[r] \in {"failing", "failed", "gone"} \/ r \in overdue \cup lapsed})

\* What an instance remembers, and tells the model of, is in the order of the
\* turns, except for what slow requests add to it.
HistoryInOrder ==
    \A i \in Instances : \A a, b \in DOMAIN histories[i] :
        a < b /\ {histories[i][a], histories[i][b]} \cap overdue = {}
            => turn[histories[i][a]] < turn[histories[i][b]]
=============================================================================
