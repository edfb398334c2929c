---------------------------- MODULE PaidJourney -----------------------------
(***************************************************************************)
(* The whole way of a paid report: checkout and callbacks, report workers, *)
(* email senders and invoice requests on one database.  The components     *)
(* share rows: the callback's transaction inserts the job, the worker's    *)
(* transaction inserts the outbox row, and the access token granted by the *)
(* callback is what the status page and the invoice form are opened with.  *)
(***************************************************************************)
EXTENDS Naturals, FiniteSets

CONSTANTS Quotes, Orders, Callbacks, Workers, Senders, Requests, HasEmail, Times, None, Faults

\* What the status page calls a job's status.
PageStatus == {"QUEUED", "RUNNING", "READY", "REFUND_REQUIRED"}

ASSUME NoneIsNew == None \notin Quotes \cup Orders \cup Callbacks \cup PageStatus
ASSUME EmailAssumption == HasEmail \subseteq Orders
ASSUME TimesAssumption == Times \subseteq Nat /\ Times # {}

VARIABLES
    quoteStatus, quoteExpired, wants, late, checkout, orderStatus, accessToken,
    charged, callback, callbackOrder,                       \* IyzicoCheckout
    jobStatus, createdAt, attempts, leaseOver, worker, task,
    documents, entitled, readyEvents, failedEvents,         \* ReportJobs
    mail, mailAttempts, sender, parcel, keys, inbox,        \* EmailOutbox
    invoice, issued, request, asks, answer                  \* IsbasiInvoice

checkoutVars == <<quoteStatus, quoteExpired, wants, late, checkout, orderStatus,
                  accessToken, charged, callback, callbackOrder>>
jobVars      == <<jobStatus, createdAt, attempts, leaseOver, worker, task,
                  documents, entitled, readyEvents, failedEvents>>
mailVars     == <<mail, mailAttempts, sender, parcel, keys, inbox>>
invoiceVars  == <<invoice, issued, request, asks, answer>>
vars == <<checkoutVars, jobVars, mailVars, invoiceVars>>

\* The rows one component inserts and another one reads.
Queued == {o \in Orders : jobStatus[o] # "ABSENT"}
Posted == {o \in Orders : mail[o] # "ABSENT"}
Opened == {o \in Orders : orderStatus[o] = "PAID" /\ accessToken[o] # None}

Checkout == INSTANCE IyzicoCheckout WITH jobs <- Queued, Faults <- Faults # {}
Reports  == INSTANCE ReportJobs WITH mailed <- Posted
Emails   == INSTANCE EmailOutbox
Invoices == INSTANCE IsbasiInvoice WITH paid <- Opened

TypeOK == Checkout!TypeOK /\ Reports!TypeOK /\ Emails!MailTypeOK /\ Invoices!InvoiceTypeOK

Init ==
    /\ jobStatus = [o \in Orders |-> "ABSENT"]
    /\ Checkout!Init
    /\ Emails!MailInit
    /\ Reports!Init
    /\ Invoices!InvoiceInit

-----------------------------------------------------------------------------
\* Queued may only grow as Checkout's step says, so the job is inserted by
\* exactly the transaction that makes the order PAID.
CheckoutStep ==
    /\ UNCHANGED <<mailVars, invoiceVars>>
    /\ UNCHANGED jobVars \/ \E o \in Orders : Reports!Enqueue(o)
    /\ Checkout!Next

ReportStep ==
    /\ UNCHANGED <<checkoutVars, invoiceVars>>
    /\ UNCHANGED mailVars \/ \E o \in Orders : Emails!Post(o)
    /\ Reports!WorkersNext

EmailStep ==
    /\ UNCHANGED <<checkoutVars, jobVars, invoiceVars>>
    /\ Emails!SendersNext

InvoiceStep ==
    /\ UNCHANGED <<checkoutVars, jobVars, mailVars>>
    /\ Invoices!RequestsNext

Next == CheckoutStep \/ ReportStep \/ EmailStep \/ InvoiceStep

Spec == Init /\ [][Next]_vars

-----------------------------------------------------------------------------
(* What the buyer's browser is shown.                                      *)

\* The status page of a job without the order's state and the cookie.
ShownToAnyone(o) ==
    IF jobStatus[o] = "SUCCEEDED" THEN "READY"
    ELSE IF jobStatus[o] = "ABSENT" THEN None ELSE jobStatus[o]

\* findByAccessTokenHash of the status repository.
Shown(o) ==
    IF o \notin Opened \/ jobStatus[o] = "ABSENT" THEN None
    ELSE IF jobStatus[o] = "SUCCEEDED" THEN "READY" ELSE jobStatus[o]

\* findByAccessTokenHash of the document repository.
Readable(o) == o \in Opened /\ o \in documents /\ jobStatus[o] = "SUCCEEDED"

-----------------------------------------------------------------------------
\* Nothing is delivered, mailed or invoiced for an order that is not PAID, and
\* no PAID order is without a job.
NothingForUnpaid ==
    LET paid == {o \in Orders : orderStatus[o] = "PAID"} IN
    /\ Queued = paid
    /\ documents \cup entitled \cup Posted \subseteq paid
    /\ \A o \in Orders : (invoice[o] # "ABSENT" \/ issued[o] > 0 \/ inbox[o] > 0) => o \in paid

\* A page that says READY can be followed by the document, and only then.
ReadyIsReadable == \A o \in Orders : Shown(o) = "READY" <=> Readable(o)

\* What the buyer has seen is not taken back: READY and REFUND_REQUIRED stay,
\* and a page that could be opened can be opened again.
ShownStays ==
    [][\A o \in Orders :
        /\ Shown(o) # None => Shown(o)' # None
        /\ Shown(o) \in {"READY", "REFUND_REQUIRED"} => Shown(o)' = Shown(o)]_vars

-----------------------------------------------------------------------------
(* Refinement of what the buyer is promised.                               *)

Phase(o) ==
    CASE orderStatus[o] = "PAYMENT_FAILED" -> "declined"
      [] orderStatus[o] = "PAYMENT_REVIEW_REQUIRED" -> "review"
      [] orderStatus[o] = "PAID" ->
            IF jobStatus[o] = "SUCCEEDED" THEN "ready"
            ELSE IF jobStatus[o] = "REFUND_REQUIRED" THEN "refund" ELSE "paid"
      [] OTHER -> "open"

Promise == INSTANCE PaidReport WITH
    phase <- [o \in Orders |-> Phase(o)],
    captured <- charged,
    mailedTo <- {o \in Orders : inbox[o] > 0},
    invoiced <- {o \in Orders : issued[o] > 0}

\* Every step of the components is a step of the promise, or invisible to it.
KeepsPromise == Promise!Spec
=============================================================================
