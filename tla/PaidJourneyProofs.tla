------------------------- MODULE PaidJourneyProofs --------------------------
(***************************************************************************)
(* The safety of the whole way of a paid report, and that it implements    *)
(* PaidReport, for every number of quotes, orders and processes, with or   *)
(* without faults.  The invariant is that of the three components, each    *)
(* with the others' rows put in for its variables; what remains to be      *)
(* shown here is that a step of one is a step or a stutter of the others.  *)
(***************************************************************************)
EXTENDS PaidJourney, TLAPS

CheckoutFacts == INSTANCE IyzicoCheckoutProofs WITH jobs <- Queued, Faults <- Faults # {}
ReportFacts   == INSTANCE ReportJobsProofs WITH mailed <- Posted
DeliveryFacts == INSTANCE PaidDeliveriesProofs WITH paid <- Opened

-----------------------------------------------------------------------------
(* The components' assumptions hold, and the components the theorems speak *)
(* of are those of PaidJourney.                                            *)

LEMMA CheckoutAssumptions == CheckoutFacts!NoneAssumption /\ CheckoutFacts!FaultsAssumption
BY NoneIsNew DEF CheckoutFacts!NoneAssumption, CheckoutFacts!FaultsAssumption

LEMMA ReportAssumptions ==
    ReportFacts!NoneAssumption /\ ReportFacts!EmailAssumption /\ ReportFacts!TimesAssumption
BY NoneIsNew, EmailAssumption, TimesAssumption
   DEF ReportFacts!NoneAssumption, ReportFacts!EmailAssumption, ReportFacts!TimesAssumption

LEMMA DeliveryAssumptions == DeliveryFacts!NoneAssumption
BY NoneIsNew DEF DeliveryFacts!NoneAssumption

LEMMA SameCheckout ==
    /\ Checkout!Init <=> CheckoutFacts!Init
    /\ Checkout!Next <=> CheckoutFacts!Next
    /\ Checkout!TypeOK <=> CheckoutFacts!TypeOK
BY DEF
      Checkout!Init, CheckoutFacts!Init, Checkout!Next, CheckoutFacts!Next, Checkout!ExpireQuote,
      CheckoutFacts!ExpireQuote, Checkout!requestVars, CheckoutFacts!requestVars, Checkout!orderVars,
      CheckoutFacts!orderVars, Checkout!callbackVars, CheckoutFacts!callbackVars, Checkout!ReceiveCheckout,
      CheckoutFacts!ReceiveCheckout, Checkout!quoteVars, CheckoutFacts!quoteVars, Checkout!CheckoutStep,
      CheckoutFacts!CheckoutStep, Checkout!CreateFromQuote, CheckoutFacts!CreateFromQuote,
      Checkout!InsertOrder, CheckoutFacts!InsertOrder, Checkout!QuoteReady, CheckoutFacts!QuoteReady,
      Checkout!RefuseCheckout, CheckoutFacts!RefuseCheckout, Checkout!InitializeCheckout,
      CheckoutFacts!InitializeCheckout, Checkout!MarkInitialized, CheckoutFacts!MarkInitialized,
      Checkout!MarkFailed, CheckoutFacts!MarkFailed, Checkout!CrashCheckout, CheckoutFacts!CrashCheckout,
      Checkout!Charge, CheckoutFacts!Charge, Checkout!Deliver, CheckoutFacts!Deliver, Checkout!CallbackStep,
      CheckoutFacts!CallbackStep, Checkout!FindPendingByToken, CheckoutFacts!FindPendingByToken,
      Checkout!Move, CheckoutFacts!Move, Checkout!RetrieveCheckout, CheckoutFacts!RetrieveCheckout,
      Checkout!MarkPaidAndQueue, CheckoutFacts!MarkPaidAndQueue, Checkout!PaidRows, CheckoutFacts!PaidRows,
      Checkout!AfterPaid, CheckoutFacts!AfterPaid, Checkout!MarkReviewRequired,
      CheckoutFacts!MarkReviewRequired, Checkout!GrantReportAccess, CheckoutFacts!GrantReportAccess,
      Checkout!CrashCallback, CheckoutFacts!CrashCallback, Checkout!TypeOK, CheckoutFacts!TypeOK,
      Checkout!QuoteStatus, CheckoutFacts!QuoteStatus, Checkout!CheckoutState, CheckoutFacts!CheckoutState,
      Checkout!OrderStatus, CheckoutFacts!OrderStatus, Checkout!CallbackState, CheckoutFacts!CallbackState

LEMMA SameReports ==
    /\ Reports!Init <=> ReportFacts!Init
    /\ Reports!WorkersNext <=> ReportFacts!WorkersNext
    /\ \A o \in Orders : Reports!Enqueue(o) <=> ReportFacts!Enqueue(o)
    /\ Reports!TypeOK <=> ReportFacts!TypeOK
BY DEF
      Reports!Init, ReportFacts!Init, Reports!WorkersNext, ReportFacts!WorkersNext, Reports!ExpireLease,
      ReportFacts!ExpireLease, Reports!workerVars, ReportFacts!workerVars, Reports!reportVars,
      ReportFacts!reportVars, Reports!WorkerStep, ReportFacts!WorkerStep, Reports!ClaimLock,
      ReportFacts!ClaimLock, Reports!Claimable, ReportFacts!Claimable, Reports!MaxAttempts,
      ReportFacts!MaxAttempts, Reports!Locked, ReportFacts!Locked, Reports!jobVars, ReportFacts!jobVars,
      Reports!ClaimCommit, ReportFacts!ClaimCommit, Reports!Release, ReportFacts!Release, Reports!Generate,
      ReportFacts!Generate, Reports!Complete, ReportFacts!Complete, Reports!ReportRows,
      ReportFacts!ReportRows, Reports!Fail, ReportFacts!Fail, Reports!ClaimRollback,
      ReportFacts!ClaimRollback, Reports!Crash, ReportFacts!Crash, Reports!Enqueue, ReportFacts!Enqueue,
      Reports!TypeOK, ReportFacts!TypeOK, Reports!JobStatus, ReportFacts!JobStatus, Reports!WorkerState,
      ReportFacts!WorkerState

LEMMA SameEmails ==
    /\ Emails!MailInit <=> DeliveryFacts!MailInit
    /\ Emails!SendersNext <=> DeliveryFacts!SendersNext
    /\ \A o \in Orders : Emails!Post(o) <=> DeliveryFacts!Post(o)
    /\ Emails!MailTypeOK <=> DeliveryFacts!MailTypeOK
BY DEF
      Emails!MailInit, DeliveryFacts!MailInit, Emails!SendersNext, DeliveryFacts!SendersNext,
      Emails!SenderStep, DeliveryFacts!SenderStep, Emails!ClaimRow, DeliveryFacts!ClaimRow, Emails!Unsent,
      DeliveryFacts!Unsent, Emails!MaxAttempts, DeliveryFacts!MaxAttempts, Emails!Locked,
      DeliveryFacts!Locked, Emails!rowVars, DeliveryFacts!rowVars, Emails!resendVars,
      DeliveryFacts!resendVars, Emails!ClaimCommit, DeliveryFacts!ClaimCommit, Emails!Release,
      DeliveryFacts!Release, Emails!Send, DeliveryFacts!Send, Emails!Accept, DeliveryFacts!Accept,
      Emails!IdempotencyKey, DeliveryFacts!IdempotencyKey, Emails!Complete, DeliveryFacts!Complete,
      Emails!Fail, DeliveryFacts!Fail, Emails!ClaimRollback, DeliveryFacts!ClaimRollback,
      Emails!SenderCrash, DeliveryFacts!SenderCrash, Emails!Post, DeliveryFacts!Post, Emails!senderVars,
      DeliveryFacts!senderVars, Emails!MailTypeOK, DeliveryFacts!MailTypeOK, Emails!MailStatus,
      DeliveryFacts!MailStatus, Emails!SenderState, DeliveryFacts!SenderState

LEMMA SameInvoices ==
    /\ Invoices!InvoiceInit <=> DeliveryFacts!InvoiceInit
    /\ Invoices!RequestsNext <=> DeliveryFacts!RequestsNext
    /\ Invoices!InvoiceTypeOK <=> DeliveryFacts!InvoiceTypeOK
BY DEF
      Invoices!InvoiceInit, DeliveryFacts!InvoiceInit, Invoices!RequestsNext, DeliveryFacts!RequestsNext,
      Invoices!Ask, DeliveryFacts!Ask, Invoices!RequestStep, DeliveryFacts!RequestStep, Invoices!Claim,
      DeliveryFacts!Claim, Invoices!Move, DeliveryFacts!Move, Invoices!Reply, DeliveryFacts!Reply,
      Invoices!ReadPaidAt, DeliveryFacts!ReadPaidAt, Invoices!ReadStatus, DeliveryFacts!ReadStatus,
      Invoices!CreateInvoice, DeliveryFacts!CreateInvoice, Invoices!MarkIssued, DeliveryFacts!MarkIssued,
      Invoices!MarkReviewRequired, DeliveryFacts!MarkReviewRequired, Invoices!RequestCrash,
      DeliveryFacts!RequestCrash, Invoices!InvoiceTypeOK, DeliveryFacts!InvoiceTypeOK,
      Invoices!InvoiceStatus, DeliveryFacts!InvoiceStatus, Invoices!RequestState,
      DeliveryFacts!RequestState, Invoices!Answer, DeliveryFacts!Answer

-----------------------------------------------------------------------------
(* The inductive invariant.                                                *)

JInv ==
    /\ CheckoutFacts!IInv
    /\ ReportFacts!IInv
    /\ DeliveryFacts!MailInv
    /\ DeliveryFacts!InvoiceInv

\* The initial states satisfy the invariant.
LEMMA InitEstablishes == Init => JInv
<1> SUFFICES ASSUME Init PROVE JInv
  OBVIOUS
<1>1. CheckoutFacts!IInv
  BY CheckoutAssumptions, SameCheckout, CheckoutFacts!InitEstablishes
     DEF Init, CheckoutFacts!InitEstablishes
<1>2. ReportFacts!IInv
  BY ReportAssumptions, SameReports, ReportFacts!InitEstablishes
     DEF Init, ReportFacts!InitEstablishes
<1>3. DeliveryFacts!MailInv /\ DeliveryFacts!InvoiceInv
  BY DeliveryAssumptions, SameEmails, SameInvoices,
     DeliveryFacts!MailInitEstablishes, DeliveryFacts!InvoiceInitEstablishes
     DEF Init, DeliveryFacts!MailInitEstablishes, DeliveryFacts!InvoiceInitEstablishes
<1> QED  BY <1>1, <1>2, <1>3 DEF JInv

\* The theorems about one step of a component, of the rows it has here.
LEMMA CheckoutMoves ==
    CheckoutFacts!IInv /\ Checkout!Next =>
      CheckoutFacts!IInv' /\ CheckoutFacts!Final /\ CheckoutFacts!OneOrder /\ CheckoutFacts!OneToken
BY CheckoutAssumptions, SameCheckout, CheckoutFacts!NextPreserves, CheckoutFacts!StepIsFinal,
   CheckoutFacts!OneOrderMoves
   DEF CheckoutFacts!NextPreserves, CheckoutFacts!StepIsFinal, CheckoutFacts!OneOrderMoves

\* What the workers leave of the table of jobs: which orders have one.
OneJob ==
    \/ UNCHANGED jobStatus
    \/ \E o \in Orders, s \in {"QUEUED", "RUNNING", "SUCCEEDED", "REFUND_REQUIRED"} :
          /\ jobStatus[o] \in {"QUEUED", "RUNNING"}
          /\ jobStatus' = [jobStatus EXCEPT ![o] = s]

LEMMA ReportMoves ==
    ReportFacts!IInv /\ Reports!WorkersNext => ReportFacts!IInv' /\ ReportFacts!Final /\ OneJob
<1> SUFFICES ASSUME ReportFacts!IInv, Reports!WorkersNext
             PROVE  ReportFacts!IInv' /\ ReportFacts!Final /\ OneJob
  OBVIOUS
<1>1. ReportFacts!WorkersNext
  BY SameReports
<1>2. ReportFacts!Next
  BY <1>1 DEF ReportFacts!Next
<1>3. ReportFacts!IInv' /\ ReportFacts!Final
  BY <1>2, ReportAssumptions, ReportFacts!NextPreserves, ReportFacts!StepIsFinal
     DEF ReportFacts!NextPreserves, ReportFacts!StepIsFinal
<1>4. OneJob
  BY <1>1, ReportAssumptions, ReportFacts!OneJobMoves
     DEF ReportFacts!OneJobMoves, OneJob, ReportFacts!JobStatus
<1> QED  BY <1>3, <1>4

LEMMA JobIsQueued ==
    ASSUME ReportFacts!IInv, NEW o \in Orders, Reports!Enqueue(o), UNCHANGED mailVars
    PROVE  ReportFacts!IInv' /\ ReportFacts!Final
<1>1. ReportFacts!Next
  BY SameReports DEF ReportFacts!Next
<1> QED
  BY <1>1, ReportAssumptions, ReportFacts!NextPreserves, ReportFacts!StepIsFinal
     DEF ReportFacts!NextPreserves, ReportFacts!StepIsFinal

LEMMA MailMoves ==
    DeliveryFacts!MailInv /\ Emails!SendersNext =>
      /\ DeliveryFacts!MailInv'
      /\ \A o \in Orders : mail'[o] = "ABSENT" <=> mail[o] = "ABSENT"
      /\ \/ UNCHANGED inbox
         \/ \E o \in Orders :
               mail[o] # "ABSENT" /\ inbox[o] = 0 /\ inbox' = [inbox EXCEPT ![o] = 1]
<1> SUFFICES ASSUME DeliveryFacts!MailInv, Emails!SendersNext
             PROVE  /\ DeliveryFacts!MailInv'
                    /\ \A o \in Orders : mail'[o] = "ABSENT" <=> mail[o] = "ABSENT"
                    /\ \/ UNCHANGED inbox
                       \/ \E o \in Orders :
                             mail[o] # "ABSENT" /\ inbox[o] = 0 /\ inbox' = [inbox EXCEPT ![o] = 1]
  OBVIOUS
<1>1. DeliveryFacts!SendersNext /\ DeliveryFacts!MailNext
  BY SameEmails DEF DeliveryFacts!MailNext
<1>2. DeliveryFacts!MailInv'
  BY <1>1, DeliveryAssumptions, DeliveryFacts!MailNextPreserves DEF DeliveryFacts!MailNextPreserves
<1> QED
  BY <1>1, <1>2, DeliveryAssumptions, DeliveryFacts!OneMailLeaves DEF DeliveryFacts!OneMailLeaves

LEMMA MailIsPosted ==
    ASSUME DeliveryFacts!MailInv, NEW o \in Orders, Emails!Post(o) PROVE DeliveryFacts!MailInv'
<1>1. DeliveryFacts!MailNext
  BY SameEmails DEF DeliveryFacts!MailNext
<1> QED
  BY <1>1, DeliveryAssumptions, DeliveryFacts!MailNextPreserves DEF DeliveryFacts!MailNextPreserves

LEMMA InvoiceMoves ==
    DeliveryFacts!InvoiceInv /\ Invoices!RequestsNext =>
      /\ DeliveryFacts!InvoiceInv'
      /\ \/ UNCHANGED issued
         \/ \E o \in Opened : issued[o] = 0 /\ issued' = [issued EXCEPT ![o] = 1]
<1> SUFFICES ASSUME DeliveryFacts!InvoiceInv, Invoices!RequestsNext
             PROVE  /\ DeliveryFacts!InvoiceInv'
                    /\ \/ UNCHANGED issued
                       \/ \E o \in Opened : issued[o] = 0 /\ issued' = [issued EXCEPT ![o] = 1]
  OBVIOUS
<1>1. DeliveryFacts!RequestsNext /\ DeliveryFacts!InvoiceNext
  BY SameInvoices DEF DeliveryFacts!InvoiceNext
<1>2. DeliveryFacts!InvoiceInv'
  BY <1>1, DeliveryAssumptions, DeliveryFacts!InvoiceNextPreserves DEF DeliveryFacts!InvoiceNextPreserves
<1> QED
  BY <1>1, <1>2, DeliveryAssumptions, DeliveryFacts!OneInvoiceIsMade DEF DeliveryFacts!OneInvoiceIsMade

-----------------------------------------------------------------------------
(* The rows that one component inserts and another one reads.              *)

\* A job is an order's from its payment on: the two are written together.
LEMMA QueuedIsPaid ==
    CheckoutFacts!IInv => Queued = {o \in Orders : orderStatus[o] = "PAID"}
BY DEF CheckoutFacts!IInv, CheckoutFacts!PaidQueuesAndConsumes

\* An order is opened by its token alone: only a PAID one has a token.
LEMMA OpenedHasToken ==
    CheckoutFacts!IInv => Opened = {o \in Orders : accessToken[o] # None}
BY DEF CheckoutFacts!IInv, CheckoutFacts!TokenInv, Opened

\* A checkout step opens one order at most; an invoice request sees it as paid.
LEMMA OneOrderOpens ==
    ASSUME CheckoutFacts!IInv, CheckoutFacts!IInv', CheckoutFacts!Final, CheckoutFacts!OneToken
    PROVE  \/ UNCHANGED Opened
           \/ \E o \in Orders : o \notin Opened /\ Opened' = Opened \cup {o}
<1>1. Opened = {o \in Orders : accessToken[o] # None}
  BY OpenedHasToken
<1>2. Opened' = {o \in Orders : accessToken'[o] # None}
  BY OpenedHasToken, CheckoutFacts!IInv'
     DEF CheckoutFacts!IInv, CheckoutFacts!TokenInv, Opened
<1>3. accessToken \in [Orders -> Callbacks \cup {None}]
  BY DEF CheckoutFacts!IInv, CheckoutFacts!TypeOK
<1>4. CASE UNCHANGED accessToken
  BY <1>1, <1>2, <1>4
<1>5. ASSUME NEW o \in Orders, NEW c \in Callbacks, accessToken' = [accessToken EXCEPT ![o] = c]
      PROVE  Opened' = Opened \cup {o}
  BY <1>1, <1>2, <1>3, <1>5, NoneIsNew
<1> QED
  BY <1>4, <1>5 DEF CheckoutFacts!OneToken

\* Steps that leave the checkout's and the jobs' rows alone, or the opened
\* orders, leave the components alone that only read them.
LEMMA CheckoutRests ==
    ASSUME CheckoutFacts!IInv, UNCHANGED checkoutVars, UNCHANGED Queued
    PROVE  CheckoutFacts!IInv'
<1>1. UNCHANGED CheckoutFacts!vars
  BY DEF checkoutVars, CheckoutFacts!vars, CheckoutFacts!quoteVars, CheckoutFacts!requestVars,
         CheckoutFacts!orderVars, CheckoutFacts!callbackVars
<1> QED
  BY <1>1, CheckoutAssumptions, CheckoutFacts!NextPreserves DEF CheckoutFacts!NextPreserves

LEMMA ReportsRest ==
    ASSUME ReportFacts!IInv, UNCHANGED jobVars, UNCHANGED Posted
    PROVE  ReportFacts!IInv'
<1>1. UNCHANGED ReportFacts!vars
  BY DEF jobVars, ReportFacts!vars, ReportFacts!jobVars, ReportFacts!workerVars, ReportFacts!reportVars
<1> QED
  BY <1>1, ReportAssumptions, ReportFacts!NextPreserves DEF ReportFacts!NextPreserves

LEMMA EmailsRest ==
    ASSUME DeliveryFacts!MailInv, UNCHANGED mailVars
    PROVE  DeliveryFacts!MailInv'
<1>1. UNCHANGED DeliveryFacts!mailVars
  BY DEF mailVars, DeliveryFacts!mailVars, DeliveryFacts!rowVars, DeliveryFacts!senderVars,
         DeliveryFacts!resendVars
<1> QED
  BY <1>1, DeliveryAssumptions, DeliveryFacts!MailNextPreserves DEF DeliveryFacts!MailNextPreserves

LEMMA InvoicesRest ==
    ASSUME DeliveryFacts!InvoiceInv, UNCHANGED invoiceVars, UNCHANGED Opened
    PROVE  DeliveryFacts!InvoiceInv'
<1>1. UNCHANGED DeliveryFacts!invoiceVars
  BY DEF invoiceVars, DeliveryFacts!invoiceVars
<1> QED
  BY <1>1, DeliveryAssumptions, DeliveryFacts!InvoiceNextPreserves
     DEF DeliveryFacts!InvoiceNextPreserves

-----------------------------------------------------------------------------
(* Each component's step preserves the invariant of all.                   *)

LEMMA CheckoutStepPreserves == JInv /\ CheckoutStep => JInv'
<1> SUFFICES ASSUME JInv, CheckoutStep PROVE JInv'
  OBVIOUS
<1>1. /\ CheckoutFacts!IInv' /\ CheckoutFacts!Final /\ CheckoutFacts!OneOrder
      /\ CheckoutFacts!OneToken
  BY CheckoutMoves DEF JInv, CheckoutStep
<1>2. UNCHANGED mailVars /\ UNCHANGED invoiceVars
  BY DEF CheckoutStep
<1>3. ReportFacts!IInv'
  <2>1. UNCHANGED Posted
    BY <1>2 DEF mailVars, Posted
  <2>2. ASSUME NEW o \in Orders, Reports!Enqueue(o) PROVE ReportFacts!IInv'
    BY <1>2, <2>2, JobIsQueued DEF JInv
  <2> QED  BY <2>1, <2>2, ReportsRest DEF JInv, CheckoutStep
<1>4. DeliveryFacts!MailInv'
  BY <1>2, EmailsRest DEF JInv
<1>5. DeliveryFacts!InvoiceInv'
  <2>1. ASSUME NEW o \in Orders, o \notin Opened, Opened' = Opened \cup {o}
        PROVE  DeliveryFacts!InvoiceInv'
    <3>1. DeliveryFacts!InvoiceNext
      BY <1>2, <2>1 DEF invoiceVars, DeliveryFacts!InvoiceNext, DeliveryFacts!Pay
    <3> QED
      BY <3>1, DeliveryAssumptions, DeliveryFacts!InvoiceNextPreserves
         DEF JInv, DeliveryFacts!InvoiceNextPreserves
  <2> QED  BY <1>1, <1>2, <2>1, OneOrderOpens, InvoicesRest DEF JInv
<1> QED  BY <1>1, <1>3, <1>4, <1>5 DEF JInv

LEMMA ReportStepPreserves == JInv /\ ReportStep => JInv'
<1> SUFFICES ASSUME JInv, ReportStep PROVE JInv'
  OBVIOUS
<1>1. ReportFacts!IInv' /\ OneJob
  BY ReportMoves DEF JInv, ReportStep
<1>2. UNCHANGED checkoutVars /\ UNCHANGED invoiceVars
  BY DEF ReportStep
<1>3. UNCHANGED Queued
  BY <1>1 DEF JInv, ReportFacts!IInv, ReportFacts!TypeOK, OneJob, Queued
<1>4. UNCHANGED Opened
  BY <1>2 DEF checkoutVars, Opened
<1>5. DeliveryFacts!MailInv'
  BY EmailsRest, MailIsPosted DEF JInv, ReportStep
<1>6. CheckoutFacts!IInv'
  BY <1>2, <1>3, CheckoutRests DEF JInv
<1>7. DeliveryFacts!InvoiceInv'
  BY <1>2, <1>4, InvoicesRest DEF JInv
<1> QED  BY <1>1, <1>5, <1>6, <1>7 DEF JInv

LEMMA EmailStepPreserves == JInv /\ EmailStep => JInv'
<1> SUFFICES ASSUME JInv, EmailStep PROVE JInv'
  OBVIOUS
<1>1. DeliveryFacts!MailInv' /\ \A o \in Orders : mail'[o] = "ABSENT" <=> mail[o] = "ABSENT"
  BY MailMoves DEF JInv, EmailStep
<1>2. UNCHANGED <<Posted, Queued, Opened>>
  BY <1>1 DEF EmailStep, checkoutVars, jobVars, Posted, Queued, Opened
<1> QED
  BY <1>1, <1>2, CheckoutRests, ReportsRest, InvoicesRest DEF JInv, EmailStep

LEMMA InvoiceStepPreserves == JInv /\ InvoiceStep => JInv'
<1> SUFFICES ASSUME JInv, InvoiceStep PROVE JInv'
  OBVIOUS
<1>1. DeliveryFacts!InvoiceInv'
  BY InvoiceMoves DEF JInv, InvoiceStep
<1>2. UNCHANGED <<Posted, Queued>>
  BY DEF InvoiceStep, jobVars, mailVars, Posted, Queued
<1> QED
  BY <1>1, <1>2, CheckoutRests, ReportsRest, EmailsRest DEF JInv, InvoiceStep

\* Every step preserves the invariant.
LEMMA NextPreserves == JInv /\ [Next]_vars => JInv'
<1>1. ASSUME JInv, UNCHANGED vars PROVE JInv'
  <2>1. UNCHANGED <<Posted, Queued, Opened>>
    BY <1>1 DEF vars, checkoutVars, jobVars, mailVars, Posted, Queued, Opened
  <2> QED
    BY <1>1, <2>1, CheckoutRests, ReportsRest, EmailsRest, InvoicesRest DEF JInv, vars
<1> QED
  BY <1>1, CheckoutStepPreserves, ReportStepPreserves, EmailStepPreserves, InvoiceStepPreserves
     DEF Next

THEOREM Invariance == Spec => []JInv
BY InitEstablishes, NextPreserves, PTL DEF Spec

-----------------------------------------------------------------------------
(* What follows for the rows of all components.                            *)

\* Types.
THEOREM TypeCorrect == Spec => []TypeOK
<1>1. JInv => TypeOK
  BY SameCheckout, SameReports, SameEmails, SameInvoices
     DEF JInv, TypeOK, CheckoutFacts!IInv, ReportFacts!IInv, DeliveryFacts!MailInv, DeliveryFacts!InvoiceInv
<1> QED  BY <1>1, Invariance, PTL

\* Nothing is delivered, mailed or invoiced for an order that is not PAID, and
\* no PAID order is without a job, in whatever order the processes of the four
\* components run, crash and are retried.
THEOREM OnlyPaidIsServed == Spec => []NothingForUnpaid
<1>1. JInv => NothingForUnpaid
  <2> SUFFICES ASSUME JInv PROVE NothingForUnpaid
    OBVIOUS
  <2> DEFINE paid == {o \in Orders : orderStatus[o] = "PAID"}
  <2>1. Queued = paid
    BY QueuedIsPaid DEF JInv
  <2>2. documents \cup entitled \cup Posted \subseteq Queued
    BY DEF JInv, ReportFacts!IInv, ReportFacts!TypeOK, ReportFacts!ReportIsWhole, Queued
  <2>3. ASSUME NEW o \in Orders, invoice[o] # "ABSENT" \/ issued[o] > 0 PROVE o \in paid
    <3>1. invoice[o] # "ABSENT"
      BY <2>3 DEF JInv, DeliveryFacts!InvoiceInv, DeliveryFacts!OrderInv
    <3> QED
      BY <3>1 DEF JInv, DeliveryFacts!InvoiceInv, DeliveryFacts!OrderInv, Opened
  <2>4. ASSUME NEW o \in Orders, inbox[o] > 0 PROVE o \in Posted
    BY <2>4 DEF JInv, DeliveryFacts!MailInv, DeliveryFacts!InboxInv, DeliveryFacts!KeysInv, Posted
  <2> QED  BY <2>1, <2>2, <2>3, <2>4 DEF NothingForUnpaid
<1> QED  BY <1>1, Invariance, PTL

\* A page that says READY can be followed by the document, and only then.
THEOREM ReadyCanBeRead == Spec => []ReadyIsReadable
<1>1. JInv => ReadyIsReadable
  BY NoneIsNew
     DEF JInv, ReportFacts!IInv, ReportFacts!TypeOK, ReportFacts!JobStatus, ReportFacts!ReportIsWhole,
         ReadyIsReadable, Shown, Readable, PageStatus
<1> QED  BY <1>1, Invariance, PTL

-----------------------------------------------------------------------------
(* What the buyer has seen.                                                *)

\* What a step leaves of the pages: opened orders stay open, jobs stay and
\* those that ended stay as they ended.
PagesStay ==
    /\ Opened \subseteq Opened'
    /\ \A o \in Orders :
          /\ jobStatus[o] \in {"SUCCEEDED", "REFUND_REQUIRED"} => jobStatus'[o] = jobStatus[o]
          /\ jobStatus[o] # "ABSENT" => jobStatus'[o] # "ABSENT"

LEMMA StepKeepsPages == JInv /\ Next => PagesStay
<1> SUFFICES ASSUME JInv, Next PROVE PagesStay
  OBVIOUS
<1>1. CASE CheckoutStep
  <2>1. CheckoutFacts!IInv' /\ CheckoutFacts!Final
    BY <1>1, CheckoutMoves DEF JInv, CheckoutStep
  <2>2. Opened \subseteq Opened'
    BY <2>1 DEF CheckoutFacts!Final, Opened
  <2>3. CASE UNCHANGED jobVars
    BY <2>2, <2>3 DEF PagesStay, jobVars
  <2>4. ASSUME NEW o \in Orders, Reports!Enqueue(o) PROVE PagesStay
    <3>1. ReportFacts!Final
      BY <1>1, <2>4, JobIsQueued DEF JInv, CheckoutStep
    <3> QED  BY <2>2, <3>1 DEF PagesStay, ReportFacts!Final
  <2> QED  BY <1>1, <2>3, <2>4 DEF CheckoutStep
<1>2. CASE ReportStep
  <2>1. ReportFacts!Final
    BY <1>2, ReportMoves DEF JInv, ReportStep
  <2> QED  BY <1>2, <2>1 DEF ReportStep, checkoutVars, Opened, PagesStay, ReportFacts!Final
<1>3. CASE EmailStep \/ InvoiceStep
  BY <1>3 DEF EmailStep, InvoiceStep, checkoutVars, jobVars, Opened, PagesStay
<1> QED  BY <1>1, <1>2, <1>3 DEF Next

\* A page that could be opened can be opened again, and READY and
\* REFUND_REQUIRED stay on it.
THEOREM WhatWasShownStays == Spec => ShownStays
<1> DEFINE Stays == \A o \in Orders :
              /\ Shown(o) # None => Shown(o)' # None
              /\ Shown(o) \in {"READY", "REFUND_REQUIRED"} => Shown(o)' = Shown(o)
<1>1. ASSUME JInv, JInv', Next PROVE Stays
  <2>1. PagesStay
    BY <1>1, StepKeepsPages
  <2>2. \A o \in Orders : jobStatus[o] \in ReportFacts!JobStatus /\ jobStatus'[o] \in ReportFacts!JobStatus
    BY <1>1 DEF JInv, ReportFacts!IInv, ReportFacts!TypeOK
  <2> QED
    BY <2>1, <2>2, NoneIsNew DEF PagesStay, ReportFacts!JobStatus, PageStatus, Shown
<1>2. JInv /\ [Next]_vars => [Stays]_vars
  BY <1>1, NextPreserves
<1> QED  BY <1>2, Invariance, PTL DEF Spec, ShownStays

-----------------------------------------------------------------------------
(* The refinement of PaidReport, one lemma for each component.             *)

phases    == [o \in Orders |-> Phase(o)]
delivered == {o \in Orders : inbox[o] > 0}
invoiced  == {o \in Orders : issued[o] > 0}

\* The phase as a function of the two statuses it is read from.
PhaseOf(status, job) ==
    IF status = "PAYMENT_FAILED" THEN "declined"
    ELSE IF status = "PAYMENT_REVIEW_REQUIRED" THEN "review"
    ELSE IF status # "PAID" THEN "open"
    ELSE IF job = "SUCCEEDED" THEN "ready"
    ELSE IF job = "REFUND_REQUIRED" THEN "refund" ELSE "paid"

LEMMA PhaseOfStatuses ==
    \A o \in Orders : /\ Phase(o) = PhaseOf(orderStatus[o], jobStatus[o])
                      /\ Phase(o)' = PhaseOf(orderStatus'[o], jobStatus'[o])
BY DEF Phase, PhaseOf

LEMMA PaidHasJob ==
    JInv => \A o \in Orders : jobStatus[o] # "ABSENT" <=> orderStatus[o] = "PAID"
BY QueuedIsPaid DEF JInv, Queued

\* Only the phase changes, of one order.
LEMMA PhaseStep ==
    ASSUME NEW o \in Orders, NEW to,
           \A p \in Orders \ {o} : Phase(p)' = Phase(p),
           Phase(o)' = to
    PROVE  phases' = [phases EXCEPT ![o] = to]
BY DEF phases

\* The rows a checkout step changes are one order's, and so is the promise.
LEMMA CheckoutStepRefines == JInv /\ CheckoutStep => [Promise!Next]_Promise!vars
<1> SUFFICES ASSUME JInv, CheckoutStep PROVE [Promise!Next]_Promise!vars
  OBVIOUS
<1>1. JInv' /\ CheckoutFacts!OneOrder
  BY CheckoutMoves, CheckoutStepPreserves DEF JInv, CheckoutStep
<1>2. UNCHANGED delivered /\ UNCHANGED invoiced
  BY DEF CheckoutStep, mailVars, invoiceVars, delivered, invoiced
<1>3. \/ UNCHANGED jobStatus
      \/ \E o \in Orders : jobStatus[o] = "ABSENT" /\ jobStatus' = [jobStatus EXCEPT ![o] = "QUEUED"]
  BY DEF CheckoutStep, jobVars, Reports!Enqueue
<1>4. /\ orderStatus \in [Orders -> CheckoutFacts!OrderStatus]
      /\ jobStatus \in [Orders -> ReportFacts!JobStatus]
  BY DEF JInv, CheckoutFacts!IInv, CheckoutFacts!TypeOK, ReportFacts!IInv, ReportFacts!TypeOK
<1>5. \A o \in Orders : /\ jobStatus[o] # "ABSENT" <=> orderStatus[o] = "PAID"
                        /\ jobStatus'[o] # "ABSENT" <=> orderStatus'[o] = "PAID"
  BY <1>1, PaidHasJob
     DEF JInv, CheckoutFacts!IInv, CheckoutFacts!PaidQueuesAndConsumes, Queued
<1>6. ASSUME NEW o \in Orders, orderStatus'[o] = orderStatus[o] PROVE Phase(o)' = Phase(o)
  BY <1>3, <1>4, <1>5, <1>6, PhaseOfStatuses DEF PhaseOf
<1>7. CASE UNCHANGED <<orderStatus, charged>>
  <2>1. UNCHANGED phases
    BY <1>6, <1>7 DEF phases
  <2> QED  BY <1>2, <1>7, <2>1 DEF Promise!vars, phases, delivered, invoiced
<1>8. ASSUME NEW o \in Orders, UNCHANGED orderStatus,
             orderStatus[o] \in {"CHECKOUT_INITIALIZED", "PAYMENT_REVIEW_REQUIRED"},
             charged' = charged \cup {o}
      PROVE  Promise!Capture(o)
  <2>1. UNCHANGED phases
    BY <1>6, <1>8 DEF phases
  <2>2. phases[o] \in {"open", "review"}
    BY <1>8, PhaseOfStatuses DEF phases, PhaseOf
  <2> QED  BY <1>2, <1>8, <2>1, <2>2 DEF Promise!Capture, phases, delivered, invoiced
<1>9. ASSUME NEW o \in Orders, NEW status \in CheckoutFacts!OrderStatus,
             CheckoutFacts!Advances(o, status),
             orderStatus' = [orderStatus EXCEPT ![o] = status], UNCHANGED charged
      PROVE  [Promise!Next]_Promise!vars
  <2>1. phases' = [phases EXCEPT ![o] = Phase(o)']
    BY <1>4, <1>6, <1>9, PhaseStep
  <2>2. orderStatus'[o] = status
    BY <1>4, <1>9
  <2>3. CASE status \in {"CREATED", "CHECKOUT_INITIALIZED"}
    <3>1. Phase(o)' = Phase(o)
      BY <1>9, <2>2, <2>3, PhaseOfStatuses DEF CheckoutFacts!Advances, PhaseOf
    <3>2. UNCHANGED phases
      BY <2>1, <3>1 DEF phases
    <3> QED  BY <1>2, <1>9, <3>2 DEF Promise!vars, phases, delivered, invoiced
  <2>4. CASE status = "PAYMENT_FAILED"
    <3>1. Phase(o) = "open" /\ Phase(o)' = "declined" /\ o \notin charged
      BY <1>9, <2>2, <2>4, PhaseOfStatuses DEF CheckoutFacts!Advances, PhaseOf
    <3>2. Promise!Decline(o)
      BY <1>2, <1>9, <2>1, <3>1 DEF Promise!Decline, Promise!Step, phases, delivered, invoiced
    <3> QED  BY <3>2 DEF Promise!Next
  <2>5. CASE status = "PAYMENT_REVIEW_REQUIRED"
    <3>1. Phase(o) = "open" /\ Phase(o)' = "review"
      BY <1>9, <2>2, <2>5, PhaseOfStatuses DEF CheckoutFacts!Advances, PhaseOf
    <3>2. Promise!Review(o)
      BY <1>2, <1>9, <2>1, <3>1 DEF Promise!Review, Promise!Step, phases, delivered, invoiced
    <3> QED  BY <3>2 DEF Promise!Next
  <2>6. CASE status = "PAID"
    <3>1. jobStatus[o] = "ABSENT" /\ jobStatus'[o] # "ABSENT"
      BY <1>5, <1>9, <2>2, <2>6 DEF CheckoutFacts!Advances
    <3>2. jobStatus'[o] = "QUEUED"
      BY <1>3, <1>4, <3>1
    <3>3. Phase(o) = "open" /\ Phase(o)' = "paid" /\ o \in charged
      BY <1>9, <2>2, <2>6, <3>2, PhaseOfStatuses DEF CheckoutFacts!Advances, PhaseOf
    <3>4. Promise!Settle(o)
      BY <1>2, <1>9, <2>1, <3>3 DEF Promise!Settle, Promise!Step, phases, delivered, invoiced
    <3> QED  BY <3>4 DEF Promise!Next
  <2> QED  BY <1>9, <2>3, <2>4, <2>5, <2>6 DEF CheckoutFacts!Advances
<1>10. (\E o \in Orders : Promise!Capture(o)) => Promise!Next
  BY DEF Promise!Next
<1> QED  BY <1>1, <1>7, <1>8, <1>9, <1>10 DEF CheckoutFacts!OneOrder

\* A worker delivers the report of a paid order, owes its refund, or shows nothing.
LEMMA ReportStepRefines == JInv /\ ReportStep => [Promise!Next]_Promise!vars
<1> SUFFICES ASSUME JInv, ReportStep PROVE [Promise!Next]_Promise!vars
  OBVIOUS
<1>1. OneJob
  BY ReportMoves DEF JInv, ReportStep
<1>2. UNCHANGED <<orderStatus, charged, inbox, issued>>
  BY DEF ReportStep, checkoutVars, mailVars, invoiceVars, Emails!Post, Emails!resendVars
<1>3. UNCHANGED delivered /\ UNCHANGED invoiced
  BY <1>2 DEF delivered, invoiced
<1>4. jobStatus \in [Orders -> ReportFacts!JobStatus]
  BY DEF JInv, ReportFacts!IInv, ReportFacts!TypeOK
<1>5. CASE UNCHANGED jobStatus
  <2>1. UNCHANGED phases
    BY <1>2, <1>5, PhaseOfStatuses DEF phases
  <2> QED  BY <1>2, <1>3, <2>1 DEF Promise!vars, phases, delivered, invoiced
<1>6. ASSUME NEW o \in Orders, NEW s \in {"QUEUED", "RUNNING", "SUCCEEDED", "REFUND_REQUIRED"},
             jobStatus[o] \in {"QUEUED", "RUNNING"},
             jobStatus' = [jobStatus EXCEPT ![o] = s]
      PROVE  [Promise!Next]_Promise!vars
  <2>1. \A p \in Orders \ {o} : Phase(p)' = Phase(p)
    BY <1>2, <1>4, <1>6, PhaseOfStatuses
  <2>2. phases' = [phases EXCEPT ![o] = Phase(o)']
    BY <2>1, PhaseStep
  <2>3. orderStatus[o] = "PAID" /\ orderStatus'[o] = "PAID" /\ jobStatus'[o] = s
    BY <1>2, <1>4, <1>6, PaidHasJob
  <2>4. Phase(o) = "paid"
    BY <1>6, <2>3, PhaseOfStatuses DEF PhaseOf
  <2>5. CASE s \in {"QUEUED", "RUNNING"}
    <3>1. Phase(o)' = "paid"
      BY <2>3, <2>5, PhaseOfStatuses DEF PhaseOf
    <3>2. UNCHANGED phases
      BY <2>2, <2>4, <3>1 DEF phases
    <3> QED  BY <1>2, <1>3, <3>2 DEF Promise!vars, phases, delivered, invoiced
  <2>6. CASE s = "SUCCEEDED"
    <3>1. Phase(o)' = "ready"
      BY <2>3, <2>6, PhaseOfStatuses DEF PhaseOf
    <3>2. Promise!Deliver(o)
      BY <1>2, <1>3, <2>2, <2>4, <3>1 DEF Promise!Deliver, Promise!Step, phases, delivered, invoiced
    <3> QED  BY <3>2 DEF Promise!Next
  <2>7. CASE s = "REFUND_REQUIRED"
    <3>1. Phase(o)' = "refund"
      BY <2>3, <2>7, PhaseOfStatuses DEF PhaseOf
    <3>2. Promise!OweRefund(o)
      BY <1>2, <1>3, <2>2, <2>4, <3>1 DEF Promise!OweRefund, Promise!Step, phases, delivered, invoiced
    <3> QED  BY <3>2 DEF Promise!Next
  <2> QED  BY <2>5, <2>6, <2>7
<1> QED  BY <1>1, <1>5, <1>6 DEF OneJob

\* A mail that arrives is the first, of a report that is ready.
LEMMA EmailStepRefines == JInv /\ EmailStep => [Promise!Next]_Promise!vars
<1> SUFFICES ASSUME JInv, EmailStep PROVE [Promise!Next]_Promise!vars
  OBVIOUS
<1>1. UNCHANGED <<orderStatus, charged, jobStatus, issued>>
  BY DEF EmailStep, checkoutVars, jobVars, invoiceVars
<1>2. UNCHANGED phases /\ UNCHANGED invoiced
  BY <1>1, PhaseOfStatuses DEF phases, invoiced
<1>3. CASE UNCHANGED inbox
  BY <1>1, <1>2, <1>3 DEF Promise!vars, phases, delivered, invoiced
<1>4. ASSUME NEW o \in Orders, mail[o] # "ABSENT", inbox[o] = 0, inbox' = [inbox EXCEPT ![o] = 1]
      PROVE  Promise!Mail(o)
  <2>1. jobStatus[o] = "SUCCEEDED"
    BY <1>4 DEF JInv, ReportFacts!IInv, ReportFacts!ReportIsWhole, Posted
  <2>2. orderStatus[o] = "PAID"
    BY <2>1, PaidHasJob
  <2>3. phases[o] = "ready"
    BY <2>1, <2>2, PhaseOfStatuses DEF phases, PhaseOf
  <2>4. inbox \in [Orders -> Nat]
    BY DEF JInv, DeliveryFacts!MailInv, DeliveryFacts!MailTypeOK
  <2>5. o \notin delivered /\ delivered' = delivered \cup {o}
    BY <1>4, <2>4 DEF delivered
  <2> QED  BY <1>1, <1>2, <2>3, <2>5 DEF Promise!Mail, phases, delivered, invoiced
<1>5. (\E o \in Orders : Promise!Mail(o)) => Promise!Next
  BY DEF Promise!Next
<1> QED  BY <1>3, <1>4, <1>5, MailMoves DEF JInv, EmailStep

\* An invoice that is made is the first, of an order that paid.
LEMMA InvoiceStepRefines == JInv /\ InvoiceStep => [Promise!Next]_Promise!vars
<1> SUFFICES ASSUME JInv, InvoiceStep PROVE [Promise!Next]_Promise!vars
  OBVIOUS
<1>1. UNCHANGED <<orderStatus, charged, jobStatus, inbox>>
  BY DEF InvoiceStep, checkoutVars, jobVars, mailVars
<1>2. UNCHANGED phases /\ UNCHANGED delivered
  BY <1>1, PhaseOfStatuses DEF phases, delivered
<1>3. CASE UNCHANGED issued
  BY <1>1, <1>2, <1>3 DEF Promise!vars, phases, delivered, invoiced
<1>4. ASSUME NEW o \in Opened, issued[o] = 0, issued' = [issued EXCEPT ![o] = 1]
      PROVE  o \in Orders /\ Promise!Invoice(o)
  <2>1. o \in Orders /\ orderStatus[o] = "PAID"
    BY DEF Opened
  <2>2. phases[o] \in {"paid", "ready", "refund"}
    BY <2>1, PhaseOfStatuses DEF phases, PhaseOf
  <2>3. issued \in [Orders -> Nat]
    BY DEF JInv, DeliveryFacts!InvoiceInv, DeliveryFacts!InvoiceTypeOK
  <2>4. o \notin invoiced /\ invoiced' = invoiced \cup {o}
    BY <1>4, <2>1, <2>3 DEF invoiced
  <2> QED  BY <1>1, <1>2, <2>1, <2>2, <2>4 DEF Promise!Invoice, phases, delivered, invoiced
<1>5. (\E o \in Orders : Promise!Invoice(o)) => Promise!Next
  BY DEF Promise!Next
<1> QED  BY <1>3, <1>4, <1>5, InvoiceMoves DEF JInv, InvoiceStep

\* Whatever callbacks, workers, senders and requests do, crashes and retries
\* included, the buyer is kept what PaidReport promises.
THEOREM PromiseIsKept == Spec => KeepsPromise
<1>1. Init => Promise!Init
  BY DEF Init, Checkout!Init, Reports!Init, Emails!MailInit, Invoices!InvoiceInit, Promise!Init, Phase
<1>2. ASSUME UNCHANGED vars PROVE UNCHANGED Promise!vars
  <2>1. UNCHANGED phases
    BY <1>2, PhaseOfStatuses DEF vars, checkoutVars, jobVars, phases
  <2> QED
    BY <1>2, <2>1
       DEF vars, checkoutVars, mailVars, invoiceVars, Promise!vars, phases, delivered, invoiced
<1>3. JInv /\ [Next]_vars => [Promise!Next]_Promise!vars
  BY <1>2, CheckoutStepRefines, ReportStepRefines, EmailStepRefines, InvoiceStepRefines DEF Next
<1> QED  BY <1>1, <1>3, Invariance, PTL DEF Spec, KeepsPromise, Promise!Spec
=============================================================================
