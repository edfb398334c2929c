--------------------------- MODULE PaidDeliveries ---------------------------
(***************************************************************************)
(* What leaves the system for a paid order: the report's email through     *)
(* Resend and the invoice through Isbasi.  Both are written by processes   *)
(* that know nothing of each other, over rows of the same order, and both  *)
(* providers may have done what their answer did not live to say.          *)
(***************************************************************************)
EXTENDS EmailOutbox, IsbasiInvoice

vars == <<mailVars, invoiceVars>>

Init == MailInit /\ InvoiceInit

\* A report is only written, and its outbox row posted, for an order that paid.
Posted == {o \in Orders : mail[o] # "ABSENT"}

EmailStep   == MailNext /\ Posted' \subseteq paid /\ UNCHANGED invoiceVars
InvoiceStep == InvoiceNext /\ UNCHANGED mailVars

Next == EmailStep \/ InvoiceStep

Spec == Init /\ [][Next]_vars

\* The fairness of the two components: the sender script is started again and
\* again, a request that arrived is served, a started transaction ends.
FairSpec ==
    /\ Spec
    /\ \A s \in Senders :
        /\ WF_vars(SenderStep(s) /\ UNCHANGED invoiceVars)
        /\ SF_vars(ClaimCommit(s) /\ UNCHANGED invoiceVars)
    /\ \A r \in Requests : WF_vars(RequestStep(r) /\ UNCHANGED mailVars)
=============================================================================
