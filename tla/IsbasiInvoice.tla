---------------------------- MODULE IsbasiInvoice ---------------------------
(***************************************************************************)
(* The invoice of a paid report.  A customer's request inserts the row     *)
(* that claims the order, logs in at Isbasi, creates the invoice there and *)
(* records the outcome.  Creating is not idempotent at the provider, so    *)
(* nothing is ever tried twice: what is unclear goes to review.            *)
(***************************************************************************)
EXTENDS Naturals, OrderNames

CONSTANT Requests   \* POST /invoice requests

VARIABLES
    paid,       \* the orders that are PAID and opened by a cookie
    invoice,    \* paid_report_invoices.status, "ABSENT" before the insert
    issued,     \* number of invoices the provider holds for each order
    request,    \* where each request stands
    asks,       \* the order its cookie opens
    answer      \* what the customer was told

invoiceVars == <<paid, invoice, issued, request, asks, answer>>

InvoiceStatus == {"ABSENT", "PROCESSING", "ISSUED", "REVIEW_REQUIRED"}

\* asked: body parsed; inserted: the claim's row is in; found: another claim's
\* row was there, or the order is not PAID; claimed: paid_at read; created: the
\* provider's answer names an invoice; unclear: in the catch block.
RequestState == {"idle", "asked", "inserted", "found", "claimed", "created", "unclear", "answered"}
Answer == {"NONE", "ISSUED", "REVIEW_REQUIRED", "NOT_FOUND", "ERROR"}

InvoiceTypeOK ==
    /\ paid \subseteq Orders
    /\ invoice \in [Orders -> InvoiceStatus]
    /\ issued \in [Orders -> Nat]
    /\ request \in [Requests -> RequestState]
    /\ asks \in [Requests -> Orders \cup {None}]
    /\ answer \in [Requests -> Answer]

InvoiceInit ==
    /\ paid = {}
    /\ invoice = [o \in Orders |-> "ABSENT"]
    /\ issued = [o \in Orders |-> 0]
    /\ request = [r \in Requests |-> "idle"]
    /\ asks = [r \in Requests |-> None]
    /\ answer = [r \in Requests |-> "NONE"]

-----------------------------------------------------------------------------
\* An order becomes PAID and its cookie is granted.
Pay(o) ==
    /\ o \notin paid
    /\ paid' = paid \cup {o}
    /\ UNCHANGED <<invoice, issued, request, asks, answer>>

Ask(r, o) ==
    /\ request[r] = "idle"
    /\ request' = [request EXCEPT ![r] = "asked"]
    /\ asks' = [asks EXCEPT ![r] = o]
    /\ UNCHANGED <<paid, invoice, issued, answer>>

Move(r, to) ==
    /\ request' = [request EXCEPT ![r] = to]
    /\ UNCHANGED <<paid, asks>>

Reply(r, what) ==
    /\ Move(r, "answered")
    /\ answer' = [answer EXCEPT ![r] = what]

\* The claim as a select followed by an insert that ignores the conflict.
ClaimWithoutKey(r) ==
    /\ request[r] = "asked"
    /\ asks[r] \in paid
    /\ invoice' = [invoice EXCEPT ![asks[r]] = "PROCESSING"]
    /\ Move(r, "inserted")
    /\ UNCHANGED <<issued, answer>>

\* The claim's select without `o.status = 'PAID'`.
ClaimUnpaid(r) ==
    /\ request[r] = "asked"
    /\ invoice[asks[r]] = "ABSENT"
    /\ invoice' = [invoice EXCEPT ![asks[r]] = "PROCESSING"]
    /\ Move(r, "inserted")
    /\ UNCHANGED <<issued, answer>>

\* insert .. select .. on conflict do nothing, one statement.
Claim(r) ==
    /\ request[r] = "asked"
    /\ \/ /\ asks[r] \in paid /\ invoice[asks[r]] = "ABSENT"
          /\ invoice' = [invoice EXCEPT ![asks[r]] = "PROCESSING"]
          /\ \/ Move(r, "inserted") /\ UNCHANGED answer
             \/ "database" \in Faults /\ Reply(r, "ERROR")
       \/ /\ ~(asks[r] \in paid /\ invoice[asks[r]] = "ABSENT")
          /\ Move(r, "found")
          /\ UNCHANGED <<invoice, answer>>
       \/ /\ "database" \in Faults
          /\ Reply(r, "ERROR")
          /\ UNCHANGED invoice
    /\ UNCHANGED issued

\* Reading paid_at is a second query, outside the try block.
ReadPaidAt(r) ==
    /\ request[r] = "inserted"
    /\ \/ Move(r, "claimed") /\ UNCHANGED answer
       \/ "database" \in Faults /\ Reply(r, "ERROR")
    /\ UNCHANGED <<invoice, issued>>

\* The status read after a claim that inserted nothing; a claim that is still
\* at work counts as one under review.
ReadStatus(r) ==
    /\ request[r] = "found"
    /\ \/ asks[r] \in paid /\ invoice[asks[r]] = "ISSUED" /\ Reply(r, "ISSUED")
       \/ asks[r] \in paid /\ invoice[asks[r]] \in {"PROCESSING", "REVIEW_REQUIRED"} /\ Reply(r, "REVIEW_REQUIRED")
       \/ (asks[r] \notin paid \/ invoice[asks[r]] = "ABSENT") /\ Reply(r, "NOT_FOUND")
       \/ "database" \in Faults /\ Reply(r, "ERROR")
    /\ UNCHANGED <<invoice, issued>>

\* Login and create: the provider may have made the invoice although the
\* answer was lost, late or unreadable.
CreateInvoice(r) ==
    /\ request[r] = "claimed"
    /\ \/ issued' = [issued EXCEPT ![asks[r]] = @ + 1] /\ (Move(r, "created") \/ Move(r, "unclear"))
       \/ issued' = issued /\ Move(r, "unclear")
    /\ UNCHANGED <<invoice, answer>>

MarkIssued(r) ==
    /\ request[r] = "created"
    /\ \/ /\ invoice[asks[r]] = "PROCESSING"
          /\ invoice' = [invoice EXCEPT ![asks[r]] = "ISSUED"]
          /\ \/ Reply(r, "ISSUED")
             \/ "database" \in Faults /\ Move(r, "unclear") /\ UNCHANGED answer
       \/ /\ invoice[asks[r]] # "PROCESSING" \/ "database" \in Faults
          /\ Move(r, "unclear")
          /\ UNCHANGED <<invoice, answer>>
    /\ UNCHANGED issued

\* The catch block's update without `and status = 'PROCESSING'`.
MarkReviewUnguarded(r) ==
    /\ request[r] = "unclear"
    /\ invoice' = [invoice EXCEPT ![asks[r]] = "REVIEW_REQUIRED"]
    /\ Reply(r, "REVIEW_REQUIRED")
    /\ UNCHANGED issued

\* A catch block that only answers.
ReplyWithoutMark(r) ==
    /\ request[r] = "unclear"
    /\ Reply(r, "REVIEW_REQUIRED")
    /\ UNCHANGED <<invoice, issued>>

MarkReviewRequired(r) ==
    /\ request[r] = "unclear"
    /\ \/ /\ invoice[asks[r]] = "PROCESSING"
          /\ invoice' = [invoice EXCEPT ![asks[r]] = "REVIEW_REQUIRED"]
          /\ Reply(r, "REVIEW_REQUIRED")
       \/ /\ invoice[asks[r]] # "PROCESSING"
          /\ Reply(r, "REVIEW_REQUIRED")
          /\ UNCHANGED invoice
       \/ /\ "database" \in Faults
          /\ Reply(r, "ERROR")
          /\ UNCHANGED invoice
    /\ UNCHANGED issued

RequestCrash(r) ==
    /\ "crash" \in Faults
    /\ request[r] \notin {"idle", "answered"}
    /\ Reply(r, "ERROR")
    /\ UNCHANGED <<invoice, issued>>

-----------------------------------------------------------------------------
RequestStep(r) ==
    \/ Claim(r)
    \/ ReadPaidAt(r)
    \/ ReadStatus(r)
    \/ CreateInvoice(r)
    \/ MarkIssued(r)
    \/ MarkReviewRequired(r)

RequestsNext ==
    \E r \in Requests :
        \/ \E o \in Orders : Ask(r, o)
        \/ RequestStep(r) \/ RequestCrash(r)

InvoiceNext == (\E o \in Orders : Pay(o)) \/ RequestsNext

InvoiceSpec == InvoiceInit /\ [][InvoiceNext]_invoiceVars

\* A request that arrived is served until it is answered or crashes.
FairInvoiceSpec == InvoiceSpec /\ \A r \in Requests : WF_invoiceVars(RequestStep(r))

-----------------------------------------------------------------------------
\* No order is invoiced twice, however often the form is sent in parallel.
OneProviderInvoice == \A o \in Orders : issued[o] <= 1

\* ISSUED, in the table or in an answer, is only said of an invoice that exists.
IssuedExists ==
    /\ \A o \in Orders : invoice[o] = "ISSUED" => issued[o] = 1
    /\ \A r \in Requests : answer[r] = "ISSUED" => invoice[asks[r]] = "ISSUED"

\* Only PAID orders are invoiced, and an invoice at the provider is always on
\* record, if only as an open or doubtful case.
InvoiceIsOnRecord ==
    \A o \in Orders : issued[o] > 0 => o \in paid /\ invoice[o] # "ABSENT"

\* A settled invoice is never touched again, and a claim is never withdrawn.
InvoiceStays ==
    [][\A o \in Orders :
        /\ invoice[o] \in {"ISSUED", "REVIEW_REQUIRED"} => invoice'[o] = invoice[o]
        /\ invoice[o] # "ABSENT" => invoice'[o] # "ABSENT"]_invoiceVars

\* What the table or an answer calls ISSUED exists, what exists is on record, and
\* belongs to a PAID order.
RecordsAgree == IssuedExists /\ InvoiceIsOnRecord

\* Every claim ends as ISSUED or, when the outcome is unclear, in review, unless
\* the request that claimed it ended in an error of its own.
ClaimIsSettled ==
    \A o \in Orders : invoice[o] = "PROCESSING" ~>
        \/ invoice[o] \in {"ISSUED", "REVIEW_REQUIRED"}
        \/ \E r \in Requests : asks[r] = o /\ answer[r] = "ERROR"
=============================================================================
