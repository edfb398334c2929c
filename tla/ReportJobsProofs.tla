-------------------------- MODULE ReportJobsProofs --------------------------
(* The safety of ReportJobs for every number of orders and workers, with   *)
(* or without faults.                                                      *)
EXTENDS ReportJobs, TLAPS

-----------------------------------------------------------------------------
(* The inductive invariant.                                                *)

\* A worker that is not idle holds a job that was claimed or may be claimed.
WorkerInv ==
    \A w \in Workers :
        /\ worker[w] # "idle" => task[w] \in Orders
        /\ worker[w] = "claiming" => Claimable(task[w])
        /\ worker[w] \in {"working", "drafted", "failing"} => jobStatus[task[w]] # "ABSENT"

\* At most one claim transaction holds the lock of a job.
SoleClaim ==
    \A v, w \in Workers :
        worker[v] = "claiming" /\ worker[w] = "claiming" /\ task[v] = task[w] => v = w

\* The attempts that a job's status implies.
AttemptInv ==
    \A o \in Orders :
        /\ jobStatus[o] = "ABSENT" => attempts[o] = 0
        /\ jobStatus[o] = "QUEUED" => attempts[o] < MaxAttempts

IInv ==
    /\ TypeOK
    /\ WorkerInv
    /\ SoleClaim
    /\ AttemptInv
    /\ ReportIsWhole
    /\ RefundIsEarned

-----------------------------------------------------------------------------
\* The initial states satisfy the invariant.
LEMMA InitEstablishes == Init => IInv
BY DEF Init, IInv, TypeOK, WorkerInv, SoleClaim, AttemptInv, ReportIsWhole,
     RefundIsEarned, MaxAttempts, JobStatus, WorkerState

\* A new job is neither claimed nor settled.
LEMMA EnqueuePreserves ==
    ASSUME IInv, NEW o \in Orders, Enqueue(o)
    PROVE  IInv'
<1> USE DEF Enqueue, jobVars, workerVars, reportVars
<1>1. TypeOK'
  BY DEF IInv, TypeOK, JobStatus
<1>2. WorkerInv'
  BY DEF IInv, WorkerInv, Claimable
<1>3. AttemptInv'
  BY DEF IInv, AttemptInv, MaxAttempts
<1>4. ReportIsWhole'
  BY DEF IInv, ReportIsWhole
<1>5. RefundIsEarned'
  BY DEF IInv, RefundIsEarned
<1>6. SoleClaim'
  BY DEF IInv, SoleClaim
<1> QED  BY <1>1, <1>2, <1>3, <1>4, <1>5, <1>6 DEF IInv

\* A lease that runs out makes a running job claimable, nothing more.
LEMMA ExpireLeasePreserves ==
    ASSUME IInv, NEW o \in Orders, ExpireLease(o)
    PROVE  IInv'
<1> USE DEF ExpireLease, jobVars, workerVars, reportVars
<1>1. TypeOK'
  BY DEF IInv, TypeOK
<1>2. WorkerInv'
  BY DEF IInv, WorkerInv, Claimable
<1>3. (SoleClaim /\ AttemptInv /\ ReportIsWhole /\ RefundIsEarned)'
  BY DEF IInv, SoleClaim, AttemptInv, ReportIsWhole, RefundIsEarned
<1> QED  BY <1>1, <1>2, <1>3 DEF IInv

\* The lock is taken on an unlocked, claimable job.
LEMMA ClaimLockPreserves ==
    ASSUME IInv, NEW w \in Workers, NEW o \in Orders, ClaimLock(w, o)
    PROVE  IInv'
<1> USE DEF ClaimLock, Locked, jobVars, workerVars, reportVars
<1>1. TypeOK'
  BY DEF IInv, TypeOK, WorkerState
<1>2. WorkerInv'
  BY DEF IInv, WorkerInv, TypeOK, Claimable
<1>3. SoleClaim'
  BY DEF IInv, SoleClaim, TypeOK
<1>4. (AttemptInv /\ ReportIsWhole /\ RefundIsEarned)'
  BY DEF IInv, AttemptInv, ReportIsWhole, RefundIsEarned
<1> QED  BY <1>1, <1>2, <1>3, <1>4 DEF IInv

\* A rolled back claim releases its lock.
LEMMA ClaimRollbackPreserves ==
    ASSUME IInv, NEW w \in Workers, ClaimRollback(w)
    PROVE  IInv'
<1> USE DEF ClaimRollback, Release, jobVars, workerVars, reportVars
<1>1. TypeOK'
  BY DEF IInv, TypeOK, WorkerState
<1>2. WorkerInv'
  BY DEF IInv, WorkerInv, TypeOK, Claimable
<1>3. SoleClaim'
  BY DEF IInv, SoleClaim, TypeOK
<1>4. (AttemptInv /\ ReportIsWhole /\ RefundIsEarned)'
  BY DEF IInv, AttemptInv, ReportIsWhole, RefundIsEarned
<1> QED  BY <1>1, <1>2, <1>3, <1>4 DEF IInv

\* The claim counts the attempt of a job nobody else has locked.
LEMMA ClaimCommitPreserves ==
    ASSUME IInv, NEW w \in Workers, ClaimCommit(w)
    PROVE  IInv'
<1> USE DEF ClaimCommit, Release, jobVars, workerVars, reportVars
<1>1. TypeOK'
  BY DEF IInv, TypeOK, WorkerInv, Claimable, MaxAttempts, JobStatus,
       WorkerState
<1>2. WorkerInv'
  BY DEF IInv, WorkerInv, TypeOK, SoleClaim, Claimable
<1>3. SoleClaim'
  BY DEF IInv, SoleClaim, TypeOK
<1>4. AttemptInv'
  BY DEF IInv, AttemptInv, TypeOK
<1>5. ReportIsWhole'
  BY DEF IInv, ReportIsWhole, WorkerInv, Claimable
<1>6. RefundIsEarned'
  BY DEF IInv, RefundIsEarned, WorkerInv, Claimable
<1> QED  BY <1>1, <1>2, <1>3, <1>4, <1>5, <1>6 DEF IInv

\* Building the document touches no row.
LEMMA GeneratePreserves ==
    ASSUME IInv, NEW w \in Workers, Generate(w)
    PROVE  IInv'
<1> USE DEF Generate, jobVars, workerVars, reportVars
<1>1. TypeOK'
  BY DEF IInv, TypeOK, WorkerState
<1>2. WorkerInv'
  BY DEF IInv, WorkerInv, TypeOK, Claimable
<1>3. SoleClaim'
  BY DEF IInv, SoleClaim, TypeOK
<1>4. (AttemptInv /\ ReportIsWhole /\ RefundIsEarned)'
  BY DEF IInv, AttemptInv, ReportIsWhole, RefundIsEarned
<1> QED  BY <1>1, <1>2, <1>3, <1>4 DEF IInv

\* Completion writes all rows of the report or none; a locked job waits.
LEMMA CompletePreserves ==
    ASSUME IInv, NEW w \in Workers, Complete(w)
    PROVE  IInv'
<1> USE DEF Complete, Locked, Release, ReportRows, jobVars, workerVars, reportVars
<1>1. TypeOK'
  BY DEF IInv, TypeOK, WorkerInv, ReportIsWhole, JobStatus, WorkerState
<1>2. WorkerInv'
  BY DEF IInv, WorkerInv, TypeOK, Claimable
<1>3. SoleClaim'
  BY DEF IInv, SoleClaim, TypeOK
<1>4. AttemptInv'
  BY DEF IInv, AttemptInv, TypeOK
<1>5. ReportIsWhole'
  BY DEF IInv, ReportIsWhole, TypeOK
<1>6. RefundIsEarned'
  BY DEF IInv, RefundIsEarned, TypeOK
<1> QED  BY <1>1, <1>2, <1>3, <1>4, <1>5, <1>6 DEF IInv

\* Giving a job back looks at its attempts, and only at a RUNNING job.
LEMMA FailPreserves ==
    ASSUME IInv, NEW w \in Workers, Fail(w)
    PROVE  IInv'
<1> USE DEF Fail, Locked, Release, jobVars, workerVars, reportVars
<1>1. TypeOK'
  BY DEF IInv, TypeOK, RefundIsEarned, JobStatus, WorkerState
<1>2. WorkerInv'
  BY DEF IInv, WorkerInv, TypeOK, Claimable
<1>3. SoleClaim'
  BY DEF IInv, SoleClaim
<1>4. AttemptInv'
  BY DEF IInv, AttemptInv, TypeOK
<1>5. ReportIsWhole'
  BY DEF IInv, ReportIsWhole, TypeOK
<1>6. RefundIsEarned'
  BY DEF IInv, RefundIsEarned, TypeOK, ReportIsWhole, MaxAttempts
<1> QED  BY <1>1, <1>2, <1>3, <1>4, <1>5, <1>6 DEF IInv

\* A crash loses the worker's own state only.
LEMMA CrashPreserves ==
    ASSUME IInv, NEW w \in Workers, Crash(w)
    PROVE  IInv'
<1> USE DEF Crash, Release, jobVars, workerVars, reportVars
<1>1. TypeOK'
  BY DEF IInv, TypeOK, WorkerState
<1>2. WorkerInv'
  BY DEF IInv, WorkerInv, TypeOK, Claimable
<1>3. SoleClaim'
  BY DEF IInv, SoleClaim
<1>4. (AttemptInv /\ ReportIsWhole /\ RefundIsEarned)'
  BY DEF IInv, AttemptInv, ReportIsWhole, RefundIsEarned
<1> QED  BY <1>1, <1>2, <1>3, <1>4 DEF IInv

\* The invariant is inductive.
LEMMA NextPreserves == IInv /\ [Next]_vars => IInv'
<1> SUFFICES ASSUME IInv, [Next]_vars PROVE IInv'
  OBVIOUS
<1>1. CASE UNCHANGED vars
  BY <1>1 DEF vars, jobVars, workerVars, reportVars, IInv, TypeOK, WorkerInv,
       SoleClaim, AttemptInv, ReportIsWhole, RefundIsEarned, Claimable
<1>2. ASSUME NEW o \in Orders, Enqueue(o) PROVE IInv'
  BY <1>2, EnqueuePreserves
<1>3. ASSUME NEW o \in Orders, ExpireLease(o) PROVE IInv'
  BY <1>3, ExpireLeasePreserves
<1>4. ASSUME NEW w \in Workers, NEW o \in Orders, ClaimLock(w, o) PROVE IInv'
  BY <1>4, ClaimLockPreserves
<1>5. ASSUME NEW w \in Workers, ClaimRollback(w) PROVE IInv'
  BY <1>5, ClaimRollbackPreserves
<1>6. ASSUME NEW w \in Workers, ClaimCommit(w) PROVE IInv'
  BY <1>6, ClaimCommitPreserves
<1>7. ASSUME NEW w \in Workers, Generate(w) PROVE IInv'
  BY <1>7, GeneratePreserves
<1>8. ASSUME NEW w \in Workers, Complete(w) PROVE IInv'
  BY <1>8, CompletePreserves
<1>9. ASSUME NEW w \in Workers, Fail(w) PROVE IInv'
  BY <1>9, FailPreserves
<1>10. ASSUME NEW w \in Workers, Crash(w) PROVE IInv'
  BY <1>10, CrashPreserves
<1> QED
  BY <1>1, <1>2, <1>3, <1>4, <1>5, <1>6, <1>7, <1>8, <1>9, <1>10 DEF Next, WorkersNext, WorkerStep

\* The inductive invariant holds in every reachable state.
THEOREM Invariance == Spec => []IInv
BY InitEstablishes, NextPreserves, PTL DEF Spec

\* Every variable keeps the values its column or program counter has.
THEOREM TypeCorrect == Spec => []TypeOK
BY Invariance, PTL DEF IInv

\* A report is delivered whole and once.
THEOREM ReportsAreWhole == Spec => []ReportIsWhole
BY Invariance, PTL DEF IInv

\* A refund is announced once, after every attempt, and never beside a report.
THEOREM RefundsAreEarned == Spec => []RefundIsEarned
BY Invariance, PTL DEF IInv

\* A waiting job can always be claimed.
THEOREM WaitingJobsAreClaimable == Spec => []QueuedIsClaimable
<1>1. ASSUME IInv PROVE QueuedIsClaimable
  BY <1>1 DEF IInv, AttemptInv, QueuedIsClaimable
<1>2. IInv => QueuedIsClaimable
  BY <1>1
<1> QED  BY <1>2, Invariance, PTL

\* An attempt begins only on a job that waits or whose lease is over.
THEOREM ClaimsAreFree == Spec => ClaimOnlyFree
<1> DEFINE Step ==
      \A o \in Orders : attempts'[o] # attempts[o] =>
          jobStatus[o] = "QUEUED" \/ (jobStatus[o] = "RUNNING" /\ leaseOver[o])
<1>1. IInv /\ [Next]_vars => [Step]_vars
  <2> SUFFICES ASSUME IInv, Next PROVE Step
    OBVIOUS
  <2>1. ASSUME NEW o \in Orders, Enqueue(o) PROVE Step
    BY <2>1 DEF Enqueue
  <2>2. ASSUME NEW o \in Orders, ExpireLease(o) PROVE Step
    BY <2>2 DEF ExpireLease
  <2>3. ASSUME NEW w \in Workers, NEW o \in Orders, ClaimLock(w, o) PROVE Step
    BY <2>3 DEF ClaimLock, jobVars
  <2>4. ASSUME NEW w \in Workers, ClaimRollback(w) PROVE Step
    BY <2>4 DEF ClaimRollback, jobVars
  <2>5. ASSUME NEW w \in Workers, ClaimCommit(w) PROVE Step
    BY <2>5 DEF IInv, ClaimCommit, WorkerInv, Claimable
  <2>6. ASSUME NEW w \in Workers, Generate(w) PROVE Step
    BY <2>6 DEF Generate, jobVars
  <2>7. ASSUME NEW w \in Workers, Complete(w) PROVE Step
    BY <2>7 DEF Complete
  <2>8. ASSUME NEW w \in Workers, Fail(w) PROVE Step
    BY <2>8 DEF Fail
  <2>9. ASSUME NEW w \in Workers, Crash(w) PROVE Step
    BY <2>9 DEF Crash, jobVars
  <2> QED
    BY <2>1, <2>2, <2>3, <2>4, <2>5, <2>6, <2>7, <2>8, <2>9 DEF Next, WorkersNext, WorkerStep
<1> QED  BY <1>1, Invariance, PTL DEF Spec, ClaimOnlyFree

\* What a step leaves of the jobs: those that ended, and that there is one.
Final ==
    \A o \in Orders :
        /\ jobStatus[o] \in {"SUCCEEDED", "REFUND_REQUIRED"} => jobStatus'[o] = jobStatus[o]
        /\ jobStatus[o] # "ABSENT" => jobStatus'[o] # "ABSENT"

LEMMA StepIsFinal == IInv /\ Next => Final
<1> SUFFICES ASSUME IInv, Next PROVE Final
  OBVIOUS
<1> USE DEF Final
<1>1. ASSUME NEW o \in Orders, Enqueue(o) PROVE Final
  BY <1>1 DEF Enqueue
<1>2. ASSUME NEW o \in Orders, ExpireLease(o) PROVE Final
  BY <1>2 DEF ExpireLease
<1>3. ASSUME NEW w \in Workers, NEW o \in Orders, ClaimLock(w, o) PROVE Final
  BY <1>3 DEF ClaimLock, jobVars
<1>4. ASSUME NEW w \in Workers, ClaimRollback(w) PROVE Final
  BY <1>4 DEF ClaimRollback, jobVars
<1>5. ASSUME NEW w \in Workers, ClaimCommit(w) PROVE Final
  BY <1>5 DEF IInv, ClaimCommit, WorkerInv, Claimable
<1>6. ASSUME NEW w \in Workers, Generate(w) PROVE Final
  BY <1>6 DEF Generate, jobVars
<1>7. ASSUME NEW w \in Workers, Complete(w) PROVE Final
  BY <1>7 DEF IInv, Complete, ReportRows, TypeOK
<1>8. ASSUME NEW w \in Workers, Fail(w) PROVE Final
  BY <1>8 DEF IInv, Fail, TypeOK
<1>9. ASSUME NEW w \in Workers, Crash(w) PROVE Final
  BY <1>9 DEF Crash, jobVars
<1> QED
  BY <1>1, <1>2, <1>3, <1>4, <1>5, <1>6, <1>7, <1>8, <1>9 DEF Next, WorkersNext, WorkerStep

\* SUCCEEDED and REFUND_REQUIRED are final.
THEOREM TerminalIsFinal == Spec => TerminalStays
<1>1. IInv /\ [Next]_vars =>
        [\A o \in Orders : jobStatus[o] \in {"SUCCEEDED", "REFUND_REQUIRED"} =>
            jobStatus'[o] = jobStatus[o]]_vars
  BY StepIsFinal DEF Final
<1> QED  BY <1>1, Invariance, PTL DEF Spec, TerminalStays

-----------------------------------------------------------------------------
\* A worker's step changes the status of one job at most, which waits or runs
\* and does not vanish.
LEMMA OneJobMoves ==
    IInv /\ WorkersNext =>
      \/ UNCHANGED jobStatus
      \/ \E o \in Orders, s \in JobStatus \ {"ABSENT"} :
            /\ jobStatus[o] \in {"QUEUED", "RUNNING"}
            /\ jobStatus' = [jobStatus EXCEPT ![o] = s]
<1> DEFINE Goal ==
      \/ UNCHANGED jobStatus
      \/ \E o \in Orders, s \in JobStatus \ {"ABSENT"} :
            /\ jobStatus[o] \in {"QUEUED", "RUNNING"}
            /\ jobStatus' = [jobStatus EXCEPT ![o] = s]
<1> SUFFICES ASSUME IInv, WorkersNext PROVE Goal
  OBVIOUS
<1> USE DEF IInv, WorkerInv, JobStatus
<1>1. ASSUME NEW o \in Orders, ExpireLease(o) PROVE Goal
  BY <1>1 DEF ExpireLease
<1>2. ASSUME NEW w \in Workers, NEW o \in Orders, ClaimLock(w, o) PROVE Goal
  BY <1>2 DEF ClaimLock, jobVars
<1>3. ASSUME NEW w \in Workers, ClaimRollback(w) \/ Generate(w) \/ Crash(w) PROVE Goal
  BY <1>3 DEF ClaimRollback, Generate, Crash, jobVars
<1>4. ASSUME NEW w \in Workers, ClaimCommit(w) PROVE Goal
  BY <1>4 DEF ClaimCommit, Claimable
<1>5. ASSUME NEW w \in Workers, Complete(w) PROVE Goal
  BY <1>5 DEF Complete, ReportRows
<1>6. ASSUME NEW w \in Workers, Fail(w) PROVE Goal
  BY <1>6 DEF Fail
<1> QED  BY <1>1, <1>2, <1>3, <1>4, <1>5, <1>6 DEF WorkersNext, WorkerStep
=============================================================================
