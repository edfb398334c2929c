---------------------------- MODULE EmailOutbox -----------------------------
(***************************************************************************)
(* Delivery of a finished report by email.  A one-shot sender claims the   *)
(* oldest unsent row of paid_report_email_outbox, posts the message to     *)
(* Resend under the idempotency key paid-report/<order>, and records the   *)
(* outcome.  The provider may accept a message whose answer never comes.   *)
(***************************************************************************)
EXTENDS Naturals, OrderNames

CONSTANT Senders

MaxAttempts == 3

VARIABLES
    mail,           \* paid_report_email_outbox.status, keyed by order, "ABSENT" before the insert
    mailAttempts,   \* attempt_count
    sender,         \* where each sender stands
    parcel,         \* the order whose row it claimed
    keys,           \* idempotency keys the provider has accepted
    inbox           \* number of report emails the customer received

rowVars    == <<mail, mailAttempts>>
senderVars == <<sender, parcel>>
resendVars == <<keys, inbox>>
mailVars == <<rowVars, senderVars, resendVars>>

MailStatus == {"ABSENT", "PENDING", "SENDING", "SENT", "FAILED"}

\* claiming: holds the row lock; sending: row claimed; sent: the provider
\* confirmed; failing: in the catch block.
SenderState == {"idle", "claiming", "sending", "sent", "failing"}

MailTypeOK ==
    /\ mail \in [Orders -> MailStatus]
    /\ mailAttempts \in [Orders -> 0 .. MaxAttempts]
    /\ sender \in [Senders -> SenderState]
    /\ parcel \in [Senders -> Orders \cup {None}]
    /\ keys \subseteq Orders
    /\ inbox \in [Orders -> Nat]

MailInit ==
    /\ mail = [o \in Orders |-> "ABSENT"]
    /\ mailAttempts = [o \in Orders |-> 0]
    /\ sender = [s \in Senders |-> "idle"]
    /\ parcel = [s \in Senders |-> None]
    /\ keys = {}
    /\ inbox = [o \in Orders |-> 0]

-----------------------------------------------------------------------------
\* The row is inserted by the transaction that completes the report.
Post(o) ==
    /\ mail[o] = "ABSENT"
    /\ mail' = [mail EXCEPT ![o] = "PENDING"]
    /\ UNCHANGED <<mailAttempts, senderVars, resendVars>>

\* The selection that also takes up rows left in SENDING.
UnsentOrSending(o) == mail[o] \in {"PENDING", "FAILED", "SENDING"} /\ mailAttempts[o] < MaxAttempts

\* The selection that forgets rows to be tried again.
UnsentPending(o) == mail[o] = "PENDING" /\ mailAttempts[o] < MaxAttempts

Unsent(o) == mail[o] \in {"PENDING", "FAILED"} /\ mailAttempts[o] < MaxAttempts

Locked(o) == \E s \in Senders : sender[s] = "claiming" /\ parcel[s] = o

\* The oldest free row; which one is oldest no property tells apart.
ClaimRow(s, o) ==
    /\ sender[s] = "idle"
    /\ Unsent(o) /\ ~Locked(o)
    /\ sender' = [sender EXCEPT ![s] = "claiming"]
    /\ parcel' = [parcel EXCEPT ![s] = o]
    /\ UNCHANGED <<rowVars, resendVars>>

Release(s) ==
    /\ sender' = [sender EXCEPT ![s] = "idle"]
    /\ parcel' = [parcel EXCEPT ![s] = None]

ClaimRollback(s) ==
    /\ sender[s] = "claiming"
    /\ "database" \in Faults
    /\ Release(s)
    /\ UNCHANGED <<rowVars, resendVars>>

\* The commit's answer may be lost: the row then stays SENDING.
ClaimCommit(s) ==
    /\ sender[s] = "claiming"
    /\ mail' = [mail EXCEPT ![parcel[s]] = "SENDING"]
    /\ mailAttempts' = [mailAttempts EXCEPT ![parcel[s]] = @ + 1]
    /\ \/ sender' = [sender EXCEPT ![s] = "sending"] /\ UNCHANGED parcel
       \/ "database" \in Faults /\ Release(s)
    /\ UNCHANGED resendVars

\* A key for every attempt.
KeyOfAttempt(o) == <<o, mailAttempts[o]>>

\* paid-report/<order>, the same for every attempt.
IdempotencyKey(o) == o

\* Resend delivers a message once per idempotency key.
Accept(o) ==
    /\ keys' = keys \cup {IdempotencyKey(o)}
    /\ inbox' = [inbox EXCEPT ![o] = IF IdempotencyKey(o) \in keys THEN @ ELSE @ + 1]

\* A send whose response status is not looked at.
SendUnchecked(s) ==
    /\ sender[s] = "sending"
    /\ sender' = [sender EXCEPT ![s] = "sent"]
    /\ Accept(parcel[s]) \/ UNCHANGED resendVars
    /\ UNCHANGED <<rowVars, parcel>>

\* Building the message, the request or its answer may fail; the provider may
\* have accepted the message all the same.  After a confirmed send an internal
\* notification goes out whose failure is swallowed.
Send(s) ==
    /\ sender[s] = "sending"
    /\ \/ Accept(parcel[s]) /\ sender' \in {[sender EXCEPT ![s] = "sent"], [sender EXCEPT ![s] = "failing"]}
       \/ UNCHANGED resendVars /\ sender' = [sender EXCEPT ![s] = "failing"]
    /\ UNCHANGED <<rowVars, parcel>>

Complete(s) ==
    /\ sender[s] = "sent"
    /\ \/ /\ mail[parcel[s]] = "SENDING"
          /\ mail' = [mail EXCEPT ![parcel[s]] = "SENT"]
          /\ \/ Release(s)
             \/ "database" \in Faults /\ sender' = [sender EXCEPT ![s] = "failing"] /\ UNCHANGED parcel
       \/ /\ mail[parcel[s]] # "SENDING" \/ "database" \in Faults
          /\ sender' = [sender EXCEPT ![s] = "failing"]
          /\ UNCHANGED <<mail, parcel>>
    /\ UNCHANGED <<mailAttempts, resendVars>>

\* The catch block's update without `and status='SENDING'`.
FailUnguarded(s) ==
    /\ sender[s] = "failing"
    /\ mail' = [mail EXCEPT ![parcel[s]] = "FAILED"]
    /\ Release(s)
    /\ UNCHANGED <<mailAttempts, resendVars>>

\* The catch block; when its update fails the row stays SENDING.
Fail(s) ==
    /\ sender[s] = "failing"
    /\ \/ mail[parcel[s]] = "SENDING" /\ mail' = [mail EXCEPT ![parcel[s]] = "FAILED"]
       \/ (mail[parcel[s]] # "SENDING" \/ "database" \in Faults) /\ UNCHANGED mail
    /\ Release(s)
    /\ UNCHANGED <<mailAttempts, resendVars>>

SenderCrash(s) ==
    /\ "crash" \in Faults
    /\ sender[s] \in {"sending", "sent", "failing"}
    /\ Release(s)
    /\ UNCHANGED <<rowVars, resendVars>>

-----------------------------------------------------------------------------
SenderStep(s) ==
    \/ \E o \in Orders : ClaimRow(s, o)
    \/ ClaimCommit(s)
    \/ Send(s)
    \/ Complete(s)
    \/ Fail(s)

SendersNext == \E s \in Senders : SenderStep(s) \/ ClaimRollback(s) \/ SenderCrash(s)

MailNext == (\E o \in Orders : Post(o)) \/ SendersNext

MailSpec == MailInit /\ [][MailNext]_mailVars

\* The sender script is started again and again, and a started one runs on; the
\* database does not roll back every claim for ever.
FairMailSpec ==
    MailSpec /\ \A s \in Senders : WF_mailVars(SenderStep(s)) /\ SF_mailVars(ClaimCommit(s))

-----------------------------------------------------------------------------
\* Retries after lost answers do not reach the customer twice.
OneEmailPerOrder == \A o \in Orders : inbox[o] <= 1

\* SENT is never a guess: the customer has the report.
SentWasDelivered == \A o \in Orders : mail[o] = "SENT" => inbox[o] = 1

\* A row is worked on by one sender only, and only while it is SENDING; there
\* is no lease, so a row a dead sender left behind is nobody's.
SenderOwnsRow ==
    \A s \in Senders : sender[s] \in {"sending", "sent"} =>
        /\ mail[parcel[s]] = "SENDING"
        /\ \A t \in Senders : sender[t] \in {"sending", "sent"} /\ parcel[t] = parcel[s] => t = s

\* SENT stays SENT, and after three attempts the row is tried no more.
DeliveryStops ==
    [][\A o \in Orders :
        /\ mail[o] = "SENT" => mail'[o] = "SENT"
        /\ mail[o] = "FAILED" /\ mailAttempts[o] = MaxAttempts => mail'[o] = "FAILED"]_mailVars

\* Retries after lost answers do not reach the customer twice, and SENT is never
\* a guess: the customer has the report.
DeliveredOnce == OneEmailPerOrder /\ SentWasDelivered

\* A row whose sender died, or could not write the outcome, is nobody's.
Stranded(o) == mail[o] = "SENDING" /\ \A s \in Senders : parcel[s] # o

\* Every posted report is sent, has failed three times, or was left behind by a
\* sender in the middle of an attempt.
EmailIsSettled ==
    \A o \in Orders : mail[o] = "PENDING" ~>
        \/ mail[o] = "SENT"
        \/ mail[o] = "FAILED" /\ mailAttempts[o] = MaxAttempts
        \/ Stranded(o)
=============================================================================
