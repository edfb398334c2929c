------------------------ MODULE PaidDeliveriesProofs ------------------------
(* The safety of EmailOutbox, of IsbasiInvoice and of the two together, for *)
(* every number of orders, senders and requests, with or without faults.   *)
EXTENDS PaidDeliveries, TLAPS

-----------------------------------------------------------------------------
(* The email outbox: the inductive invariant.                              *)

\* A sender past its claim holds a SENDING row, which the outcome it is about
\* to record, possibly already committed, may have left.
SenderInv ==
    \A s \in Senders :
        /\ sender[s] # "idle" => parcel[s] \in Orders
        /\ sender[s] = "claiming" => Unsent(parcel[s])
        /\ sender[s] \in {"sending", "sent"} => mail[parcel[s]] = "SENDING"
        /\ sender[s] = "failing" => mail[parcel[s]] \in {"SENDING", "SENT"}
        /\ sender[s] = "sent" => parcel[s] \in keys

\* No two senders hold one row, in the claim transaction or after it.
SoleHolder ==
    \A s, t \in Senders :
        /\ sender[s] # "idle" /\ sender[t] # "idle"
        /\ parcel[s] = parcel[t]
        => s = t

\* The provider's memory and the inbox agree.
InboxInv ==
    \A o \in Orders :
        /\ o \in keys => inbox[o] = 1
        /\ o \notin keys => inbox[o] = 0

\* What the provider accepted was posted, and what is SENT was accepted.
KeysInv ==
    \A o \in Orders :
        /\ mail[o] = "SENT" => o \in keys
        /\ mail[o] = "ABSENT" => o \notin keys

MailInv ==
    /\ MailTypeOK
    /\ SenderInv
    /\ SoleHolder
    /\ InboxInv
    /\ KeysInv

-----------------------------------------------------------------------------
\* The initial states satisfy the invariant.
LEMMA MailInitEstablishes == MailInit => MailInv
BY DEF MailInit, MailInv, MailTypeOK, SenderInv, SoleHolder, InboxInv, KeysInv,
     MaxAttempts, MailStatus, SenderState

\* A new row is in nobody's hands.
LEMMA PostPreserves ==
    ASSUME MailInv, NEW o \in Orders, Post(o)
    PROVE  MailInv'
<1> USE DEF Post, rowVars, senderVars, resendVars
<1>1. MailTypeOK'
  BY DEF MailInv, MailTypeOK, MailStatus
<1>2. SenderInv'
  BY DEF MailInv, SenderInv, Unsent
<1>3. KeysInv'
  BY DEF MailInv, KeysInv
<1>4. (SoleHolder /\ InboxInv)'
  BY DEF MailInv, SoleHolder, InboxInv
<1> QED  BY <1>1, <1>2, <1>3, <1>4 DEF MailInv

\* The lock is taken on an unlocked, unsent row.
LEMMA ClaimRowPreserves ==
    ASSUME MailInv, NEW s \in Senders, NEW o \in Orders, ClaimRow(s, o)
    PROVE  MailInv'
<1> USE DEF ClaimRow, Locked, rowVars, senderVars, resendVars
<1>1. MailTypeOK'
  BY DEF MailInv, MailTypeOK, SenderState
<1>2. SenderInv'
  BY DEF MailInv, SenderInv, MailTypeOK, Unsent
<1>3. SoleHolder'
  BY DEF MailInv, SoleHolder, MailTypeOK, SenderInv, Unsent, SenderState
<1>4. (InboxInv /\ KeysInv)'
  BY DEF MailInv, InboxInv, KeysInv
<1> QED  BY <1>1, <1>2, <1>3, <1>4 DEF MailInv

\* A rolled back claim releases its lock.
LEMMA ClaimRollbackPreserves ==
    ASSUME MailInv, NEW s \in Senders, ClaimRollback(s)
    PROVE  MailInv'
<1> USE DEF ClaimRollback, Release, rowVars, senderVars, resendVars
<1>1. MailTypeOK'
  BY DEF MailInv, MailTypeOK, SenderState
<1>2. SenderInv'
  BY DEF MailInv, SenderInv, MailTypeOK, Unsent
<1>3. SoleHolder'
  BY DEF MailInv, SoleHolder, MailTypeOK
<1>4. (InboxInv /\ KeysInv)'
  BY DEF MailInv, InboxInv, KeysInv
<1> QED  BY <1>1, <1>2, <1>3, <1>4 DEF MailInv

\* The claim makes a row SENDING that nobody else holds.
LEMMA ClaimCommitPreserves ==
    ASSUME MailInv, NEW s \in Senders, ClaimCommit(s)
    PROVE  MailInv'
<1> USE DEF ClaimCommit, Release, rowVars, senderVars, resendVars
<1>1. MailTypeOK'
  BY DEF MailInv, MailTypeOK, SenderInv, Unsent, MaxAttempts, MailStatus, SenderState
<1>2. SenderInv'
  BY DEF MailInv, SenderInv, MailTypeOK, SoleHolder, Unsent
<1>3. SoleHolder'
  BY DEF MailInv, SoleHolder, MailTypeOK
<1>4. KeysInv'
  BY DEF MailInv, KeysInv
<1>5. InboxInv'
  BY DEF MailInv, InboxInv
<1> QED  BY <1>1, <1>2, <1>3, <1>4, <1>5 DEF MailInv

\* The provider counts a key once, confirmed or not.
LEMMA SendPreserves ==
    ASSUME MailInv, NEW s \in Senders, Send(s)
    PROVE  MailInv'
<1> USE DEF Send, Accept, IdempotencyKey, rowVars, senderVars, resendVars
<1>1. MailTypeOK'
  BY DEF MailInv, MailTypeOK, SenderInv, SenderState
<1>2. SenderInv'
  BY DEF MailInv, SenderInv, MailTypeOK, Unsent
<1>3. SoleHolder'
  BY DEF MailInv, SoleHolder, MailTypeOK
<1>4. InboxInv'
  BY DEF MailInv, InboxInv, MailTypeOK
<1>5. KeysInv'
  BY DEF MailInv, KeysInv, MailTypeOK, SenderInv
<1> QED  BY <1>1, <1>2, <1>3, <1>4, <1>5 DEF MailInv

\* SENT is written after the provider's confirmation.
LEMMA CompletePreserves ==
    ASSUME MailInv, NEW s \in Senders, Complete(s)
    PROVE  MailInv'
<1> USE DEF Complete, Release, rowVars, senderVars, resendVars
<1>1. MailTypeOK'
  BY DEF MailInv, MailTypeOK, MailStatus, SenderState
<1>2. SenderInv'
  BY DEF MailInv, SenderInv, MailTypeOK, SoleHolder, Unsent
<1>3. SoleHolder'
  BY DEF MailInv, SoleHolder, MailTypeOK
<1>4. KeysInv'
  BY DEF MailInv, KeysInv, MailTypeOK, SenderInv
<1>5. InboxInv'
  BY DEF MailInv, InboxInv
<1> QED  BY <1>1, <1>2, <1>3, <1>4, <1>5 DEF MailInv

\* The catch block leaves a SENT row alone.
LEMMA FailPreserves ==
    ASSUME MailInv, NEW s \in Senders, Fail(s)
    PROVE  MailInv'
<1> USE DEF Fail, Release, rowVars, senderVars, resendVars
<1>1. MailTypeOK'
  BY DEF MailInv, MailTypeOK, MailStatus, SenderState
<1>2. SenderInv'
  BY DEF MailInv, SenderInv, MailTypeOK, SoleHolder, Unsent
<1>3. SoleHolder'
  BY DEF MailInv, SoleHolder, MailTypeOK
<1>4. KeysInv'
  BY DEF MailInv, KeysInv, MailTypeOK
<1>5. InboxInv'
  BY DEF MailInv, InboxInv
<1> QED  BY <1>1, <1>2, <1>3, <1>4, <1>5 DEF MailInv

\* A crash loses the sender's own state only.
LEMMA SenderCrashPreserves ==
    ASSUME MailInv, NEW s \in Senders, SenderCrash(s)
    PROVE  MailInv'
<1> USE DEF SenderCrash, Release, rowVars, senderVars, resendVars
<1>1. MailTypeOK'
  BY DEF MailInv, MailTypeOK, SenderState
<1>2. SenderInv'
  BY DEF MailInv, SenderInv, MailTypeOK, Unsent
<1>3. SoleHolder'
  BY DEF MailInv, SoleHolder, MailTypeOK
<1>4. (InboxInv /\ KeysInv)'
  BY DEF MailInv, InboxInv, KeysInv
<1> QED  BY <1>1, <1>2, <1>3, <1>4 DEF MailInv

\* The invariant is inductive.
LEMMA MailNextPreserves == MailInv /\ [MailNext]_mailVars => MailInv'
<1> SUFFICES ASSUME MailInv, [MailNext]_mailVars PROVE MailInv'
  OBVIOUS
<1>1. CASE UNCHANGED mailVars
  BY <1>1 DEF mailVars, rowVars, senderVars, resendVars, MailInv, MailTypeOK, SenderInv,
       SoleHolder, InboxInv, KeysInv, Unsent
<1>2. ASSUME NEW o \in Orders, Post(o) PROVE MailInv'
  BY <1>2, PostPreserves
<1>3. ASSUME NEW s \in Senders, NEW o \in Orders, ClaimRow(s, o) PROVE MailInv'
  BY <1>3, ClaimRowPreserves
<1>4. ASSUME NEW s \in Senders, ClaimRollback(s) PROVE MailInv'
  BY <1>4, ClaimRollbackPreserves
<1>5. ASSUME NEW s \in Senders, ClaimCommit(s) PROVE MailInv'
  BY <1>5, ClaimCommitPreserves
<1>6. ASSUME NEW s \in Senders, Send(s) PROVE MailInv'
  BY <1>6, SendPreserves
<1>7. ASSUME NEW s \in Senders, Complete(s) PROVE MailInv'
  BY <1>7, CompletePreserves
<1>8. ASSUME NEW s \in Senders, Fail(s) PROVE MailInv'
  BY <1>8, FailPreserves
<1>9. ASSUME NEW s \in Senders, SenderCrash(s) PROVE MailInv'
  BY <1>9, SenderCrashPreserves
<1> QED
  BY <1>1, <1>2, <1>3, <1>4, <1>5, <1>6, <1>7, <1>8, <1>9 DEF MailNext, SendersNext, SenderStep

\* The inductive invariant holds in every reachable state.
THEOREM MailInvariance == MailSpec => []MailInv
BY MailInitEstablishes, MailNextPreserves, PTL DEF MailSpec

\* Every variable keeps the values its column or program counter has.
THEOREM MailTypeCorrect == MailSpec => []MailTypeOK
BY MailInvariance, PTL DEF MailInv

\* The customer receives the report at most once.
THEOREM OneEmail == MailSpec => []OneEmailPerOrder
<1>1. ASSUME MailInv, NEW o \in Orders PROVE inbox[o] <= 1
  <2>1. CASE o \in keys
    BY <1>1, <2>1 DEF MailInv, InboxInv
  <2>2. CASE o \notin keys
    BY <1>1, <2>2 DEF MailInv, InboxInv
  <2> QED  BY <2>1, <2>2
<1>2. MailInv => OneEmailPerOrder
  BY <1>1, Zenon DEF OneEmailPerOrder
<1> QED  BY <1>2, MailInvariance, PTL

\* SENT is only said of a report the customer has.
THEOREM SentIsTrue == MailSpec => []SentWasDelivered
<1>1. ASSUME MailInv PROVE SentWasDelivered
  BY <1>1 DEF MailInv, KeysInv, InboxInv, SentWasDelivered
<1>2. MailInv => SentWasDelivered
  BY <1>1
<1> QED  BY <1>2, MailInvariance, PTL

\* The customer has the report once if the row says SENT, and never twice.
THEOREM DeliveredAtMostOnce == MailSpec => []DeliveredOnce
BY OneEmail, SentIsTrue, PTL DEF DeliveredOnce

\* A row is in one sender's hands at a time.
THEOREM RowsHaveOneOwner == MailSpec => []SenderOwnsRow
<1>1. ASSUME MailInv PROVE SenderOwnsRow
  BY <1>1 DEF MailInv, SenderInv, SoleHolder, SenderOwnsRow
<1>2. MailInv => SenderOwnsRow
  BY <1>1
<1> QED  BY <1>2, MailInvariance, PTL

\* SENT stays, and the third failure is the last.
THEOREM DeliveryEnds == MailSpec => DeliveryStops
<1> DEFINE Step ==
      \A o \in Orders :
          /\ mail[o] = "SENT" => mail'[o] = "SENT"
          /\ mail[o] = "FAILED" /\ mailAttempts[o] = MaxAttempts => mail'[o] = "FAILED"
<1>1. MailInv /\ [MailNext]_mailVars => [Step]_mailVars
  <2> SUFFICES ASSUME MailInv, MailNext PROVE Step
    OBVIOUS
  <2>1. ASSUME NEW o \in Orders, Post(o) PROVE Step
    BY <2>1 DEF Post
  <2>2. ASSUME NEW s \in Senders, NEW o \in Orders, ClaimRow(s, o) PROVE Step
    BY <2>2 DEF ClaimRow, rowVars
  <2>3. ASSUME NEW s \in Senders, ClaimRollback(s) PROVE Step
    BY <2>3 DEF ClaimRollback, rowVars
  <2>4. ASSUME NEW s \in Senders, ClaimCommit(s) PROVE Step
    BY <2>4 DEF MailInv, ClaimCommit, MailTypeOK, SenderInv, Unsent
  <2>5. ASSUME NEW s \in Senders, Send(s) PROVE Step
    BY <2>5 DEF Send, rowVars
  <2>6. ASSUME NEW s \in Senders, Complete(s) PROVE Step
    BY <2>6 DEF MailInv, Complete, MailTypeOK
  <2>7. ASSUME NEW s \in Senders, Fail(s) PROVE Step
    BY <2>7 DEF MailInv, Fail, MailTypeOK
  <2>8. ASSUME NEW s \in Senders, SenderCrash(s) PROVE Step
    BY <2>8 DEF SenderCrash, rowVars
  <2> QED
    BY <2>1, <2>2, <2>3, <2>4, <2>5, <2>6, <2>7, <2>8 DEF MailNext, SendersNext, SenderStep
<1> QED  BY <1>1, MailInvariance, PTL DEF MailSpec, DeliveryStops

-----------------------------------------------------------------------------
(* The invoices: the inductive invariant.                                  *)

\* The request that inserted an order's row works on it alone.
Winner(r) == request[r] \in {"inserted", "claimed", "created", "unclear"}

RequestInv ==
    \A r \in Requests :
        /\ request[r] # "idle" => asks[r] \in Orders
        /\ request[r] \in {"inserted", "claimed"} =>
              invoice[asks[r]] = "PROCESSING" /\ issued[asks[r]] = 0
        /\ request[r] = "created" => invoice[asks[r]] = "PROCESSING" /\ issued[asks[r]] = 1
        /\ request[r] = "unclear" => invoice[asks[r]] \in {"PROCESSING", "ISSUED"}
        /\ answer[r] = "ISSUED" => request[r] = "answered" /\ invoice[asks[r]] = "ISSUED"

SoleWinner ==
    \A q, r \in Requests : Winner(q) /\ Winner(r) /\ asks[q] = asks[r] => q = r

OrderInv ==
    \A o \in Orders :
        /\ invoice[o] = "ABSENT" => issued[o] = 0
        /\ invoice[o] # "ABSENT" => o \in paid
        /\ invoice[o] = "ISSUED" => issued[o] = 1
        /\ issued[o] <= 1

InvoiceInv ==
    /\ InvoiceTypeOK
    /\ RequestInv
    /\ SoleWinner
    /\ OrderInv

-----------------------------------------------------------------------------
\* The initial states satisfy the invariant.
LEMMA InvoiceInitEstablishes == InvoiceInit => InvoiceInv
BY DEF InvoiceInit, InvoiceInv, InvoiceTypeOK, RequestInv, SoleWinner, OrderInv, Winner,
     InvoiceStatus, RequestState, Answer

\* Payment adds to the orders that may be invoiced.
LEMMA PayPreserves ==
    ASSUME InvoiceInv, NEW o \in Orders, Pay(o)
    PROVE  InvoiceInv'
<1> USE DEF Pay
<1>1. InvoiceTypeOK'
  BY DEF InvoiceInv, InvoiceTypeOK
<1>2. OrderInv'
  BY DEF InvoiceInv, OrderInv
<1>3. (RequestInv /\ SoleWinner)'
  BY DEF InvoiceInv, RequestInv, SoleWinner, Winner
<1> QED  BY <1>1, <1>2, <1>3 DEF InvoiceInv

\* A request that has just arrived has claimed nothing.
LEMMA AskPreserves ==
    ASSUME InvoiceInv, NEW r \in Requests, NEW o \in Orders, Ask(r, o)
    PROVE  InvoiceInv'
<1> USE DEF Ask
<1>1. InvoiceTypeOK'
  BY DEF InvoiceInv, InvoiceTypeOK, RequestState
<1>2. RequestInv'
  BY DEF InvoiceInv, RequestInv, InvoiceTypeOK
<1>3. SoleWinner'
  BY DEF InvoiceInv, SoleWinner, Winner
<1>4. OrderInv'
  BY DEF InvoiceInv, OrderInv
<1> QED  BY <1>1, <1>2, <1>3, <1>4 DEF InvoiceInv

\* Only an ABSENT row is claimed, so there is no other winner of its order.
LEMMA ClaimPreserves ==
    ASSUME InvoiceInv, NEW r \in Requests, Claim(r)
    PROVE  InvoiceInv'
<1> USE DEF Claim, Reply, Move
<1>1. InvoiceTypeOK'
  BY DEF InvoiceInv, InvoiceTypeOK, InvoiceStatus, RequestState, Answer
<1>2. RequestInv'
  BY DEF InvoiceInv, RequestInv, InvoiceTypeOK, OrderInv
<1>3. SoleWinner'
  BY DEF InvoiceInv, SoleWinner, InvoiceTypeOK, RequestInv, Winner
<1>4. OrderInv'
  BY DEF InvoiceInv, OrderInv, InvoiceTypeOK
<1> QED  BY <1>1, <1>2, <1>3, <1>4 DEF InvoiceInv

\* Reading paid_at leaves the claim as it is.
LEMMA ReadPaidAtPreserves ==
    ASSUME InvoiceInv, NEW r \in Requests, ReadPaidAt(r)
    PROVE  InvoiceInv'
<1> USE DEF ReadPaidAt, Reply, Move
<1>1. InvoiceTypeOK'
  BY DEF InvoiceInv, InvoiceTypeOK, RequestState, Answer
<1>2. RequestInv'
  BY DEF InvoiceInv, RequestInv, InvoiceTypeOK
<1>3. SoleWinner'
  BY DEF InvoiceInv, SoleWinner, InvoiceTypeOK, Winner
<1>4. OrderInv'
  BY DEF InvoiceInv, OrderInv
<1> QED  BY <1>1, <1>2, <1>3, <1>4 DEF InvoiceInv

\* A request that lost the claim repeats what the row says.
LEMMA ReadStatusPreserves ==
    ASSUME InvoiceInv, NEW r \in Requests, ReadStatus(r)
    PROVE  InvoiceInv'
<1> USE DEF ReadStatus, Reply, Move
<1>1. InvoiceTypeOK'
  BY DEF InvoiceInv, InvoiceTypeOK, RequestState, Answer
<1>2. RequestInv'
  BY DEF InvoiceInv, RequestInv, InvoiceTypeOK
<1>3. SoleWinner'
  BY DEF InvoiceInv, SoleWinner, InvoiceTypeOK, Winner
<1>4. OrderInv'
  BY DEF InvoiceInv, OrderInv
<1> QED  BY <1>1, <1>2, <1>3, <1>4 DEF InvoiceInv

\* The one winner creates the one invoice, whatever answer it gets.
LEMMA CreateInvoicePreserves ==
    ASSUME InvoiceInv, NEW r \in Requests, CreateInvoice(r)
    PROVE  InvoiceInv'
<1> USE DEF CreateInvoice, Reply, Move
<1>1. InvoiceTypeOK'
  BY DEF InvoiceInv, InvoiceTypeOK, RequestState
<1>2. RequestInv'
  BY DEF InvoiceInv, RequestInv, InvoiceTypeOK, SoleWinner, Winner
<1>3. SoleWinner'
  BY DEF InvoiceInv, SoleWinner, InvoiceTypeOK, Winner
<1>4. OrderInv'
  BY DEF InvoiceInv, OrderInv, InvoiceTypeOK, RequestInv
<1> QED  BY <1>1, <1>2, <1>3, <1>4 DEF InvoiceInv

\* ISSUED is written after the provider named the invoice.
LEMMA MarkIssuedPreserves ==
    ASSUME InvoiceInv, NEW r \in Requests, MarkIssued(r)
    PROVE  InvoiceInv'
<1> USE DEF MarkIssued, Reply, Move
<1>1. InvoiceTypeOK'
  BY DEF InvoiceInv, InvoiceTypeOK, InvoiceStatus, RequestState, Answer
<1>2. RequestInv'
  BY DEF InvoiceInv, RequestInv, InvoiceTypeOK, SoleWinner, Winner
<1>3. SoleWinner'
  BY DEF InvoiceInv, SoleWinner, InvoiceTypeOK, Winner
<1>4. OrderInv'
  BY DEF InvoiceInv, OrderInv, InvoiceTypeOK, RequestInv
<1> QED  BY <1>1, <1>2, <1>3, <1>4 DEF InvoiceInv

\* The catch block leaves an ISSUED row alone.
LEMMA MarkReviewRequiredPreserves ==
    ASSUME InvoiceInv, NEW r \in Requests, MarkReviewRequired(r)
    PROVE  InvoiceInv'
<1> USE DEF MarkReviewRequired, Reply, Move
<1>1. InvoiceTypeOK'
  BY DEF InvoiceInv, InvoiceTypeOK, InvoiceStatus, RequestState, Answer
<1>2. RequestInv'
  BY DEF InvoiceInv, RequestInv, InvoiceTypeOK, SoleWinner, Winner
<1>3. SoleWinner'
  BY DEF InvoiceInv, SoleWinner, InvoiceTypeOK, Winner
<1>4. OrderInv'
  BY DEF InvoiceInv, OrderInv, InvoiceTypeOK
<1> QED  BY <1>1, <1>2, <1>3, <1>4 DEF InvoiceInv

\* A crash loses the request only.
LEMMA RequestCrashPreserves ==
    ASSUME InvoiceInv, NEW r \in Requests, RequestCrash(r)
    PROVE  InvoiceInv'
<1> USE DEF RequestCrash, Reply, Move
<1>1. InvoiceTypeOK'
  BY DEF InvoiceInv, InvoiceTypeOK, RequestState, Answer
<1>2. RequestInv'
  BY DEF InvoiceInv, RequestInv
<1>3. SoleWinner'
  BY DEF InvoiceInv, SoleWinner, Winner
<1>4. OrderInv'
  BY DEF InvoiceInv, OrderInv
<1> QED  BY <1>1, <1>2, <1>3, <1>4 DEF InvoiceInv

\* The invariant is inductive.
LEMMA InvoiceNextPreserves == InvoiceInv /\ [InvoiceNext]_invoiceVars => InvoiceInv'
<1> SUFFICES ASSUME InvoiceInv, [InvoiceNext]_invoiceVars PROVE InvoiceInv'
  OBVIOUS
<1>1. CASE UNCHANGED invoiceVars
  BY <1>1 DEF invoiceVars, InvoiceInv, InvoiceTypeOK, RequestInv, SoleWinner, OrderInv, Winner
<1>2. ASSUME NEW o \in Orders, Pay(o) PROVE InvoiceInv'
  BY <1>2, PayPreserves
<1>3. ASSUME NEW r \in Requests, NEW o \in Orders, Ask(r, o) PROVE InvoiceInv'
  BY <1>3, AskPreserves
<1>4. ASSUME NEW r \in Requests, Claim(r) PROVE InvoiceInv'
  BY <1>4, ClaimPreserves
<1>5. ASSUME NEW r \in Requests, ReadPaidAt(r) PROVE InvoiceInv'
  BY <1>5, ReadPaidAtPreserves
<1>6. ASSUME NEW r \in Requests, ReadStatus(r) PROVE InvoiceInv'
  BY <1>6, ReadStatusPreserves
<1>7. ASSUME NEW r \in Requests, CreateInvoice(r) PROVE InvoiceInv'
  BY <1>7, CreateInvoicePreserves
<1>8. ASSUME NEW r \in Requests, MarkIssued(r) PROVE InvoiceInv'
  BY <1>8, MarkIssuedPreserves
<1>9. ASSUME NEW r \in Requests, MarkReviewRequired(r) PROVE InvoiceInv'
  BY <1>9, MarkReviewRequiredPreserves
<1>10. ASSUME NEW r \in Requests, RequestCrash(r) PROVE InvoiceInv'
  BY <1>10, RequestCrashPreserves
<1> QED
  BY <1>1, <1>2, <1>3, <1>4, <1>5, <1>6, <1>7, <1>8, <1>9, <1>10 DEF InvoiceNext, RequestsNext, RequestStep

\* The inductive invariant holds in every reachable state.
THEOREM InvoiceInvariance == InvoiceSpec => []InvoiceInv
BY InvoiceInitEstablishes, InvoiceNextPreserves, PTL DEF InvoiceSpec

\* Every variable keeps the values its column or program counter has.
THEOREM InvoiceTypeCorrect == InvoiceSpec => []InvoiceTypeOK
BY InvoiceInvariance, PTL DEF InvoiceInv

\* No order is invoiced twice.
THEOREM InvoicedOnce == InvoiceSpec => []OneProviderInvoice
<1>1. InvoiceInv => OneProviderInvoice
  BY Zenon DEF InvoiceInv, OrderInv, OneProviderInvoice
<1> QED  BY <1>1, InvoiceInvariance, PTL

\* ISSUED is only said of an invoice that exists.
THEOREM IssuedIsTrue == InvoiceSpec => []IssuedExists
<1>1. ASSUME InvoiceInv PROVE IssuedExists
  BY <1>1 DEF InvoiceInv, OrderInv, RequestInv, IssuedExists
<1>2. InvoiceInv => IssuedExists
  BY <1>1
<1> QED  BY <1>2, InvoiceInvariance, PTL

\* Every invoice belongs to a PAID order and is on record.
THEOREM InvoicesAreOnRecord == InvoiceSpec => []InvoiceIsOnRecord
<1>1. ASSUME InvoiceInv PROVE InvoiceIsOnRecord
  BY <1>1 DEF InvoiceInv, OrderInv, InvoiceIsOnRecord
<1>2. InvoiceInv => InvoiceIsOnRecord
  BY <1>1
<1> QED  BY <1>2, InvoiceInvariance, PTL

\* The table, the answers and the provider agree about every invoice.
THEOREM RecordsStayInAgreement == InvoiceSpec => []RecordsAgree
BY IssuedIsTrue, InvoicesAreOnRecord, PTL DEF RecordsAgree

\* A settled invoice is final and a claim is never withdrawn.
THEOREM InvoicesAreFinal == InvoiceSpec => InvoiceStays
<1> DEFINE Step ==
      \A o \in Orders :
          /\ invoice[o] \in {"ISSUED", "REVIEW_REQUIRED"} => invoice'[o] = invoice[o]
          /\ invoice[o] # "ABSENT" => invoice'[o] # "ABSENT"
<1>1. InvoiceInv /\ [InvoiceNext]_invoiceVars => [Step]_invoiceVars
  <2> SUFFICES ASSUME InvoiceInv, InvoiceNext PROVE Step
    OBVIOUS
  <2>1. ASSUME NEW o \in Orders, Pay(o) PROVE Step
    BY <2>1 DEF Pay
  <2>2. ASSUME NEW r \in Requests, NEW o \in Orders, Ask(r, o) PROVE Step
    BY <2>2 DEF Ask
  <2>3. ASSUME NEW r \in Requests, Claim(r) PROVE Step
    BY <2>3 DEF InvoiceInv, Claim, InvoiceTypeOK
  <2>4. ASSUME NEW r \in Requests, ReadPaidAt(r) PROVE Step
    BY <2>4 DEF ReadPaidAt
  <2>5. ASSUME NEW r \in Requests, ReadStatus(r) PROVE Step
    BY <2>5 DEF ReadStatus
  <2>6. ASSUME NEW r \in Requests, CreateInvoice(r) PROVE Step
    BY <2>6 DEF CreateInvoice
  <2>7. ASSUME NEW r \in Requests, MarkIssued(r) PROVE Step
    BY <2>7 DEF InvoiceInv, MarkIssued, InvoiceTypeOK
  <2>8. ASSUME NEW r \in Requests, MarkReviewRequired(r) PROVE Step
    BY <2>8 DEF InvoiceInv, MarkReviewRequired, InvoiceTypeOK
  <2>9. ASSUME NEW r \in Requests, RequestCrash(r) PROVE Step
    BY <2>9 DEF RequestCrash
  <2> QED
    BY <2>1, <2>2, <2>3, <2>4, <2>5, <2>6, <2>7, <2>8, <2>9 DEF InvoiceNext, RequestsNext, RequestStep
<1> QED  BY <1>1, InvoiceInvariance, PTL DEF InvoiceSpec, InvoiceStays

-----------------------------------------------------------------------------
(* Both together.                                                          *)

\* The two share no row and no process: the composition is each of them.
LEMMA EachAlone == Spec => MailSpec /\ InvoiceSpec
<1>1. Init => MailInit /\ InvoiceInit
  BY DEF Init
<1>2. [Next]_vars => [MailNext]_mailVars /\ [InvoiceNext]_invoiceVars
  BY DEF Next, EmailStep, InvoiceStep, vars
<1> QED  BY <1>1, <1>2, PTL DEF Spec, MailSpec, InvoiceSpec

\* With senders and invoice requests at work on the same orders, a report is
\* delivered once and SENT is true, deliveries stop, and the invoices of table,
\* answers and provider agree, one for each order.
THEOREM EveryDelivery ==
    Spec => /\ []DeliveredOnce /\ DeliveryStops
            /\ []OneProviderInvoice /\ []RecordsAgree
BY EachAlone, DeliveredAtMostOnce, DeliveryEnds, InvoicedOnce, RecordsStayInAgreement, PTL

-----------------------------------------------------------------------------
\* A sender's step inserts no row and delivers one report at most, which was posted.
LEMMA OneMailLeaves ==
    MailInv /\ SendersNext =>
      /\ \A o \in Orders : mail'[o] = "ABSENT" <=> mail[o] = "ABSENT"
      /\ \/ UNCHANGED inbox
         \/ \E o \in Orders :
               mail[o] # "ABSENT" /\ inbox[o] = 0 /\ inbox' = [inbox EXCEPT ![o] = 1]
<1> DEFINE Rows == \A o \in Orders : mail'[o] = "ABSENT" <=> mail[o] = "ABSENT"
           One == \/ UNCHANGED inbox
                  \/ \E o \in Orders :
                        mail[o] # "ABSENT" /\ inbox[o] = 0 /\ inbox' = [inbox EXCEPT ![o] = 1]
<1> SUFFICES ASSUME MailInv, SendersNext PROVE Rows /\ One
  OBVIOUS
<1> USE DEF MailInv, MailTypeOK, SenderInv, InboxInv, rowVars, senderVars, resendVars
<1>1. ASSUME NEW s \in Senders, NEW o \in Orders, ClaimRow(s, o) PROVE Rows /\ One
  BY <1>1 DEF ClaimRow
<1>2. ASSUME NEW s \in Senders, ClaimRollback(s) \/ SenderCrash(s) PROVE Rows /\ One
  BY <1>2 DEF ClaimRollback, SenderCrash
<1>3. ASSUME NEW s \in Senders, ClaimCommit(s) PROVE Rows /\ One
  BY <1>3 DEF ClaimCommit, Unsent
<1>4. ASSUME NEW s \in Senders, Send(s) PROVE Rows /\ One
  BY <1>4 DEF Send, Accept, IdempotencyKey
<1>5. ASSUME NEW s \in Senders, Complete(s) \/ Fail(s) PROVE Rows /\ One
  BY <1>5 DEF Complete, Fail
<1> QED  BY <1>1, <1>2, <1>3, <1>4, <1>5 DEF SendersNext, SenderStep

\* A request's step makes one invoice at most, the first of an order that paid.
LEMMA OneInvoiceIsMade ==
    InvoiceInv /\ RequestsNext =>
      \/ UNCHANGED issued
      \/ \E o \in paid : issued[o] = 0 /\ issued' = [issued EXCEPT ![o] = 1]
<1> DEFINE One == \/ UNCHANGED issued
                  \/ \E o \in paid : issued[o] = 0 /\ issued' = [issued EXCEPT ![o] = 1]
<1> SUFFICES ASSUME InvoiceInv, RequestsNext PROVE One
  OBVIOUS
<1> USE DEF InvoiceInv, RequestInv, OrderInv
<1>1. ASSUME NEW r \in Requests, NEW o \in Orders, Ask(r, o) PROVE One
  BY <1>1 DEF Ask
<1>2. ASSUME NEW r \in Requests, Claim(r) \/ ReadPaidAt(r) \/ ReadStatus(r) PROVE One
  BY <1>2 DEF Claim, ReadPaidAt, ReadStatus
<1>3. ASSUME NEW r \in Requests, CreateInvoice(r) PROVE One
  BY <1>3 DEF CreateInvoice
<1>4. ASSUME NEW r \in Requests, MarkIssued(r) \/ MarkReviewRequired(r) \/ RequestCrash(r) PROVE One
  BY <1>4 DEF MarkIssued, MarkReviewRequired, RequestCrash
<1> QED  BY <1>1, <1>2, <1>3, <1>4 DEF RequestsNext, RequestStep
=============================================================================
