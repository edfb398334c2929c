----------------------------- MODULE ReportJobs -----------------------------
(***************************************************************************)
(* The queue that turns a PAID order into a comparison report.  Workers    *)
(* are one-shot processes that claim the oldest free job of the table      *)
(* comparison_report_jobs, build the report and commit it, or give the job *)
(* back.  A claim is a lease of 15 minutes: a worker that outlives it goes *)
(* on working while another one claims the same job.                       *)
(***************************************************************************)
EXTENDS Naturals

CONSTANTS
    Orders,     \* orders, each with at most one job (order_id is unique)
    HasEmail,   \* the orders with a delivery address
    Workers,
    Times,      \* the values comparison_report_jobs.created_at may take
    None,
    Faults      \* subset of {"crash", "database"}

ASSUME NoneAssumption == None \notin Orders
ASSUME EmailAssumption == HasEmail \subseteq Orders
ASSUME TimesAssumption == Times \subseteq Nat /\ Times # {}

MaxAttempts == 3

VARIABLES
    jobStatus,  \* comparison_report_jobs.status, "ABSENT" before the insert
    createdAt,
    attempts,   \* attempt_count
    leaseOver,  \* started_at is more than 15 minutes ago
    worker,     \* where each worker stands
    task,       \* the job it holds
    documents,  \* orders with a comparison_report_documents row
    entitled,   \* orders with paid_report_vehicle_entitlements rows
    mailed,     \* orders with a paid_report_email_outbox row
    readyEvents,    \* number of REPORT_READY events of each order
    failedEvents    \* number of REPORT_FAILED events of each order

jobVars    == <<jobStatus, createdAt, attempts, leaseOver>>
workerVars == <<worker, task>>
reportVars == <<documents, entitled, mailed, readyEvents>>
vars == <<jobVars, workerVars, reportVars, failedEvents>>

JobStatus == {"ABSENT", "QUEUED", "RUNNING", "SUCCEEDED", "REFUND_REQUIRED"}

\* claiming: holds the row lock of the claim transaction; working: job claimed;
\* drafted: document built; failing: in the catch block.
WorkerState == {"idle", "claiming", "working", "drafted", "failing"}

TypeOK ==
    /\ jobStatus \in [Orders -> JobStatus]
    /\ createdAt \in [Orders -> Times]
    /\ attempts \in [Orders -> 0 .. MaxAttempts]
    /\ leaseOver \in [Orders -> BOOLEAN]
    /\ worker \in [Workers -> WorkerState]
    /\ task \in [Workers -> Orders \cup {None}]
    /\ documents \subseteq Orders
    /\ entitled \subseteq Orders
    /\ mailed \subseteq Orders
    /\ readyEvents \in [Orders -> 0 .. 1]
    /\ failedEvents \in [Orders -> 0 .. 1]

Init ==
    /\ jobStatus = [o \in Orders |-> "ABSENT"]
    /\ createdAt \in [Orders -> Times]
    /\ attempts = [o \in Orders |-> 0]
    /\ leaseOver = [o \in Orders |-> FALSE]
    /\ worker = [w \in Workers |-> "idle"]
    /\ task = [w \in Workers |-> None]
    /\ documents = {}
    /\ entitled = {}
    /\ mailed = {}
    /\ readyEvents = [o \in Orders |-> 0]
    /\ failedEvents = [o \in Orders |-> 0]

-----------------------------------------------------------------------------
(* The row is inserted by markPaidAndQueue.  created_at is the callback's  *)
(* clock, drawn in Init; clocks of two web instances need not agree.       *)

Enqueue(o) ==
    /\ jobStatus[o] = "ABSENT"
    /\ jobStatus' = [jobStatus EXCEPT ![o] = "QUEUED"]
    /\ UNCHANGED <<createdAt, attempts, leaseOver, workerVars, reportVars, failedEvents>>

ExpireLease(o) ==
    /\ jobStatus[o] = "RUNNING"
    /\ ~leaseOver[o]
    /\ leaseOver' = [leaseOver EXCEPT ![o] = TRUE]
    /\ UNCHANGED <<jobStatus, createdAt, attempts, workerVars, reportVars, failedEvents>>

-----------------------------------------------------------------------------
(* claim: one transaction, select for update skip locked, then update.     *)

Claimable(o) ==
    /\ jobStatus[o] = "QUEUED" \/ (jobStatus[o] = "RUNNING" /\ leaseOver[o])
    /\ attempts[o] < MaxAttempts

\* A select without `for update skip locked` sees no row as locked.
NeverLocked(o) == FALSE

Locked(o) == \E w \in Workers : worker[w] = "claiming" /\ task[w] = o

ClaimLock(w, o) ==
    /\ worker[w] = "idle"
    /\ Claimable(o) /\ ~Locked(o)
    /\ \A p \in Orders : Claimable(p) /\ ~Locked(p) => createdAt[o] <= createdAt[p]
    /\ worker' = [worker EXCEPT ![w] = "claiming"]
    /\ task' = [task EXCEPT ![w] = o]
    /\ UNCHANGED <<jobVars, reportVars, failedEvents>>

Release(w) ==
    /\ worker' = [worker EXCEPT ![w] = "idle"]
    /\ task' = [task EXCEPT ![w] = None]

ClaimRollback(w) ==
    /\ worker[w] = "claiming"
    /\ "database" \in Faults
    /\ Release(w)
    /\ UNCHANGED <<jobVars, reportVars, failedEvents>>

\* The commit's answer may be lost: the job then runs without a worker.
ClaimCommit(w) ==
    /\ worker[w] = "claiming"
    /\ jobStatus' = [jobStatus EXCEPT ![task[w]] = "RUNNING"]
    /\ attempts' = [attempts EXCEPT ![task[w]] = @ + 1]
    /\ leaseOver' = [leaseOver EXCEPT ![task[w]] = FALSE]
    /\ \/ worker' = [worker EXCEPT ![w] = "working"] /\ UNCHANGED task
       \/ "database" \in Faults /\ Release(w)
    /\ UNCHANGED <<createdAt, reportVars, failedEvents>>

\* Loading the pinned catalogue and building the document succeeds or throws.
Generate(w) ==
    /\ worker[w] = "working"
    /\ worker' \in {[worker EXCEPT ![w] = "drafted"], [worker EXCEPT ![w] = "failing"]}
    /\ UNCHANGED <<jobVars, task, reportVars, failedEvents>>

-----------------------------------------------------------------------------
(* complete: one transaction; its job update waits for a claim's row lock. *)

ReportRows(o) ==
    /\ documents' = documents \cup {o}
    /\ jobStatus' = [jobStatus EXCEPT ![o] = "SUCCEEDED"]
    /\ entitled' = entitled \cup {o}
    /\ readyEvents' = [readyEvents EXCEPT ![o] = @ + 1]
    /\ mailed' = mailed \cup ({o} \cap HasEmail)

\* The statements of complete without a transaction: a refused job update
\* leaves the document behind.
CompleteWithoutRollback(w) ==
    /\ worker[w] = "drafted"
    /\ ~Locked(task[w])
    /\ IF task[w] \notin documents /\ jobStatus[task[w]] = "RUNNING"
       THEN ReportRows(task[w]) /\ Release(w)
       ELSE /\ documents' = documents \cup {task[w]}
            /\ worker' = [worker EXCEPT ![w] = "failing"]
            /\ UNCHANGED <<jobStatus, task, entitled, mailed, readyEvents>>
    /\ UNCHANGED <<createdAt, attempts, leaseOver, failedEvents>>

\* order_id is unique among documents and the job must still be RUNNING, or
\* everything rolls back.
Complete(w) ==
    /\ worker[w] = "drafted"
    /\ ~Locked(task[w])
    /\ \/ /\ task[w] \notin documents /\ jobStatus[task[w]] = "RUNNING"
          /\ ReportRows(task[w])
          /\ \/ Release(w)
             \/ "database" \in Faults /\ worker' = [worker EXCEPT ![w] = "failing"] /\ UNCHANGED task
       \/ /\ task[w] \in documents \/ jobStatus[task[w]] # "RUNNING" \/ "database" \in Faults
          /\ worker' = [worker EXCEPT ![w] = "failing"]
          /\ UNCHANGED <<jobStatus, task, reportVars>>
    /\ UNCHANGED <<createdAt, attempts, leaseOver, failedEvents>>

\* The catch block's update without `and status = 'RUNNING'`.
FailUnguarded(w) ==
    /\ worker[w] = "failing"
    /\ ~Locked(task[w])
    /\ IF attempts[task[w]] >= MaxAttempts
       THEN /\ jobStatus' = [jobStatus EXCEPT ![task[w]] = "REFUND_REQUIRED"]
            /\ failedEvents' = [failedEvents EXCEPT ![task[w]] = @ + 1]
       ELSE /\ jobStatus' = [jobStatus EXCEPT ![task[w]] = "QUEUED"]
            /\ UNCHANGED failedEvents
    /\ Release(w)
    /\ UNCHANGED <<createdAt, attempts, leaseOver, reportVars>>

\* The retry limit compared with > instead of >=.
FailOneTooMany(w) ==
    /\ worker[w] = "failing"
    /\ ~Locked(task[w])
    /\ jobStatus[task[w]] = "RUNNING"
    /\ jobStatus' = [jobStatus EXCEPT ![task[w]] = "QUEUED"]
    /\ Release(w)
    /\ UNCHANGED <<createdAt, attempts, leaseOver, reportVars, failedEvents>>

\* Any worker that thinks it holds the job may give it back: the update asks
\* for a RUNNING job, not for the attempt this worker started.
Fail(w) ==
    /\ worker[w] = "failing"
    /\ ~Locked(task[w])
    /\ \/ /\ jobStatus[task[w]] = "RUNNING" /\ attempts[task[w]] >= MaxAttempts
          /\ jobStatus' = [jobStatus EXCEPT ![task[w]] = "REFUND_REQUIRED"]
          /\ failedEvents' = [failedEvents EXCEPT ![task[w]] = @ + 1]
       \/ /\ jobStatus[task[w]] = "RUNNING" /\ attempts[task[w]] < MaxAttempts
          /\ jobStatus' = [jobStatus EXCEPT ![task[w]] = "QUEUED"]
          /\ UNCHANGED failedEvents
       \/ /\ jobStatus[task[w]] # "RUNNING" \/ "database" \in Faults
          /\ UNCHANGED <<jobStatus, failedEvents>>
    /\ Release(w)
    /\ UNCHANGED <<createdAt, attempts, leaseOver, reportVars>>

Crash(w) ==
    /\ "crash" \in Faults
    /\ worker[w] \in {"working", "drafted", "failing"}
    /\ Release(w)
    /\ UNCHANGED <<jobVars, reportVars, failedEvents>>

-----------------------------------------------------------------------------
WorkerStep(w) ==
    \/ \E o \in Orders : ClaimLock(w, o)
    \/ ClaimCommit(w)
    \/ Generate(w)
    \/ Complete(w)
    \/ Fail(w)

\* What happens to jobs that were queued.
WorkersNext ==
    \/ \E o \in Orders : ExpireLease(o)
    \/ \E w \in Workers : WorkerStep(w) \/ ClaimRollback(w) \/ Crash(w)

Next == (\E o \in Orders : Enqueue(o)) \/ WorkersNext

Spec == Init /\ [][Next]_vars

\* The worker script is started again and again, and a started one runs on;
\* leases run out; the database does not roll back every claim for ever.
FairSpec ==
    /\ Spec
    /\ \A w \in Workers : WF_vars(WorkerStep(w)) /\ SF_vars(ClaimCommit(w))
    /\ \A o \in Orders : WF_vars(ExpireLease(o))

-----------------------------------------------------------------------------
(* Safety.                                                                 *)

\* A report is delivered whole and once, however many workers worked on it:
\* document, SUCCEEDED, entitlements, one REPORT_READY event and, for an order
\* with an address, the email go together.
ReportIsWhole ==
    \A o \in Orders :
        LET done == jobStatus[o] = "SUCCEEDED" IN
        /\ done <=> o \in documents
        /\ done <=> o \in entitled
        /\ done <=> readyEvents[o] = 1
        /\ (done /\ o \in HasEmail) <=> o \in mailed

\* A refund is announced once, only after every attempt was used, and never
\* for an order whose report was delivered.
RefundIsEarned ==
    \A o \in Orders :
        /\ jobStatus[o] = "REFUND_REQUIRED" <=> failedEvents[o] = 1
        /\ failedEvents[o] = 1 => attempts[o] = MaxAttempts /\ o \notin documents

\* A job that waits can always be claimed: no worker, late or not, puts back a
\* job whose attempts are used up.
QueuedIsClaimable == \A o \in Orders : jobStatus[o] = "QUEUED" => attempts[o] < MaxAttempts

\* An attempt begins only on a job that waits or whose lease is over, also
\* when two workers select at the same time.
ClaimOnlyFree ==
    [][\A o \in Orders : attempts'[o] # attempts[o] =>
        jobStatus[o] = "QUEUED" \/ (jobStatus[o] = "RUNNING" /\ leaseOver[o])]_vars

\* SUCCEEDED and REFUND_REQUIRED are final.
TerminalStays ==
    [][\A o \in Orders : jobStatus[o] \in {"SUCCEEDED", "REFUND_REQUIRED"} =>
        jobStatus'[o] = jobStatus[o]]_vars

(* Liveness.                                                               *)

\* A job whose last attempt was lost in a crash is out of every worker's reach.
Stuck(o) ==
    /\ jobStatus[o] = "RUNNING" /\ attempts[o] = MaxAttempts
    /\ \A w \in Workers : task[w] # o

\* Lost commits, crashes and late workers cost attempts, but the job ends unless
\* the third attempt itself is lost.
JobEndsOrIsStuck ==
    \A o \in Orders : jobStatus[o] = "QUEUED" ~>
        jobStatus[o] \in {"SUCCEEDED", "REFUND_REQUIRED"} \/ Stuck(o)

\* A queued job ends with a report or with the refund path shown, as the
\* documents say of a job that has failed three times.
QueuedIsSettled ==
    \A o \in Orders : jobStatus[o] = "QUEUED" ~> jobStatus[o] \in {"SUCCEEDED", "REFUND_REQUIRED"}
=============================================================================
