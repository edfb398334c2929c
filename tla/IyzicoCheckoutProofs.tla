------------------------ MODULE IyzicoCheckoutProofs ------------------------
(* The safety of IyzicoCheckout for every number of quotes, requests and   *)
(* callbacks, with or without faults.                                      *)
EXTENDS IyzicoCheckout, TLAPS

-----------------------------------------------------------------------------
(* The inductive invariant.                                                *)

\* What the position of a checkout request says about its order row.  The two
\* facts the payment rests on: only a request that returned the payment page
\* can lead to a capture, and such a request never reaches its catch block.
CheckoutInv ==
    \A o \in Orders :
        /\ checkout[o] # "idle" => wants[o] \in Quotes
        /\ checkout[o] \in {"idle", "received"} => orderStatus[o] = "ABSENT"
        /\ checkout[o] \in {"created", "tokenised"} => orderStatus[o] = "CREATED"
        /\ checkout[o] = "failing" => orderStatus[o] \in {"CREATED", "CHECKOUT_INITIALIZED"}
        /\ checkout[o] = "redirected" =>
              orderStatus[o] \in {"CHECKOUT_INITIALIZED", "PAID", "PAYMENT_REVIEW_REQUIRED"}
        /\ checkout[o] = "ended" =>
              orderStatus[o] \in {"ABSENT", "CREATED", "CHECKOUT_INITIALIZED", "PAYMENT_FAILED"}
        /\ o \in charged => checkout[o] = "redirected"

\* What the position of a callback says about its order.
CallbackInv ==
    \A c \in Callbacks :
        /\ callback[c] # "idle" =>
              callbackOrder[c] \in Orders /\ checkout[callbackOrder[c]] = "redirected"
        /\ callback[c] = "verified" => callbackOrder[c] \in charged
        /\ callback[c] = "paid" =>
              orderStatus[callbackOrder[c]] = "PAID" /\ accessToken[callbackOrder[c]] = None

\* At most one callback wins an order.
SoleWinner ==
    \A c, d \in Callbacks :
        /\ callback[c] \in {"paid", "granted"}
        /\ callback[d] \in {"paid", "granted"}
        /\ callbackOrder[c] = callbackOrder[d]
        => c = d

\* The quote follows its one order.
QuoteInv ==
    \A o \in Orders : orderStatus[o] # "ABSENT" =>
        quoteStatus[wants[o]] = IF orderStatus[o] = "PAID" THEN "CONSUMED" ELSE "CHECKOUT_STARTED"

TokenInv == \A o \in Orders : accessToken[o] # None => orderStatus[o] = "PAID"

IInv ==
    /\ TypeOK
    /\ CheckoutInv
    /\ CallbackInv
    /\ SoleWinner
    /\ QuoteInv
    /\ TokenInv
    /\ PaidOnlyIfCharged
    /\ OneOrderPerQuote
    /\ PaidQueuesAndConsumes
    /\ CookieOpensReport

-----------------------------------------------------------------------------
\* The empty database satisfies the invariant.
LEMMA InitEstablishes == Init => IInv
BY DEF Init, IInv, TypeOK, CheckoutInv, CallbackInv, SoleWinner, QuoteInv,
     TokenInv, PaidOnlyIfCharged, OneOrderPerQuote, PaidQueuesAndConsumes,
     CookieOpensReport, QuoteStatus, OrderStatus, CheckoutState, CallbackState

\* ExpireQuote keeps the invariant.
LEMMA ExpireQuotePreserves ==
    ASSUME IInv, NEW q \in Quotes, ExpireQuote(q)
    PROVE  IInv'
<1> USE DEF ExpireQuote, quoteVars, requestVars, orderVars, callbackVars
<1>1. TypeOK'
  BY DEF IInv, TypeOK
<1>2. (CheckoutInv /\ CallbackInv /\ SoleWinner /\ QuoteInv /\ TokenInv /\ PaidOnlyIfCharged /\ OneOrderPerQuote /\ PaidQueuesAndConsumes /\ CookieOpensReport)'
  BY DEF IInv, CheckoutInv, CallbackInv, SoleWinner, QuoteInv, TokenInv,
       PaidOnlyIfCharged, OneOrderPerQuote, PaidQueuesAndConsumes,
       CookieOpensReport
<1> QED  BY <1>1, <1>2 DEF IInv

\* ReceiveCheckout keeps the invariant.
LEMMA ReceiveCheckoutPreserves ==
    ASSUME IInv, NEW o \in Orders, NEW q \in Quotes, ReceiveCheckout(o, q)
    PROVE  IInv'
<1> USE DEF ReceiveCheckout, quoteVars, requestVars, orderVars, callbackVars
<1>1. TypeOK'
  BY DEF IInv, TypeOK, CheckoutState
<1>2. CheckoutInv'
  BY DEF IInv, CheckoutInv, TypeOK
<1>3. CallbackInv'
  BY DEF IInv, CallbackInv
<1>4. QuoteInv'
  BY DEF IInv, QuoteInv, CheckoutInv
<1>5. OneOrderPerQuote'
  BY DEF IInv, OneOrderPerQuote, CheckoutInv
<1>6. PaidQueuesAndConsumes'
  BY DEF IInv, PaidQueuesAndConsumes, CheckoutInv
<1>7. (SoleWinner /\ TokenInv /\ PaidOnlyIfCharged /\ CookieOpensReport)'
  BY DEF IInv, SoleWinner, TokenInv, PaidOnlyIfCharged, CookieOpensReport
<1> QED  BY <1>1, <1>2, <1>3, <1>4, <1>5, <1>6, <1>7 DEF IInv

\* CreateFromQuote keeps the invariant.
LEMMA CreateFromQuotePreserves ==
    ASSUME IInv, NEW o \in Orders, CreateFromQuote(o)
    PROVE  IInv'
<1> USE DEF CreateFromQuote, InsertOrder, QuoteReady, quoteVars, requestVars, orderVars, callbackVars
<1>1. TypeOK'
  BY DEF IInv, TypeOK, CheckoutInv, QuoteStatus, OrderStatus, CheckoutState
<1>2. CheckoutInv'
  BY DEF IInv, CheckoutInv, TypeOK
<1>3. CallbackInv'
  BY DEF IInv, CallbackInv
<1>4. QuoteInv'
  BY DEF IInv, QuoteInv, TypeOK, CheckoutInv
<1>5. TokenInv'
  BY DEF IInv, TokenInv
<1>6. PaidOnlyIfCharged'
  BY DEF IInv, PaidOnlyIfCharged
<1>7. OneOrderPerQuote'
  BY DEF IInv, OneOrderPerQuote
<1>8. PaidQueuesAndConsumes'
  BY DEF IInv, PaidQueuesAndConsumes
<1>9. CookieOpensReport'
  BY DEF IInv, CookieOpensReport
<1>10. SoleWinner'
  BY DEF IInv, SoleWinner
<1> QED  BY <1>1, <1>2, <1>3, <1>4, <1>5, <1>6, <1>7, <1>8, <1>9, <1>10 DEF IInv

\* RefuseCheckout keeps the invariant.
LEMMA RefuseCheckoutPreserves ==
    ASSUME IInv, NEW o \in Orders, RefuseCheckout(o)
    PROVE  IInv'
<1> USE DEF RefuseCheckout, quoteVars, requestVars, orderVars, callbackVars
<1>1. TypeOK'
  BY DEF IInv, TypeOK, CheckoutState
<1>2. CheckoutInv'
  BY DEF IInv, CheckoutInv
<1>3. CallbackInv'
  BY DEF IInv, CallbackInv
<1>4. (SoleWinner /\ QuoteInv /\ TokenInv /\ PaidOnlyIfCharged /\ OneOrderPerQuote /\ PaidQueuesAndConsumes /\ CookieOpensReport)'
  BY DEF IInv, SoleWinner, QuoteInv, TokenInv, PaidOnlyIfCharged,
       OneOrderPerQuote, PaidQueuesAndConsumes, CookieOpensReport
<1> QED  BY <1>1, <1>2, <1>3, <1>4 DEF IInv

\* InitializeCheckout keeps the invariant.
LEMMA InitializeCheckoutPreserves ==
    ASSUME IInv, NEW o \in Orders, InitializeCheckout(o)
    PROVE  IInv'
<1> USE DEF InitializeCheckout, quoteVars, requestVars, orderVars, callbackVars
<1>1. TypeOK'
  BY DEF IInv, TypeOK, CheckoutState
<1>2. CheckoutInv'
  BY DEF IInv, CheckoutInv, TypeOK
<1>3. CallbackInv'
  BY DEF IInv, CallbackInv, TypeOK
<1>4. (SoleWinner /\ QuoteInv /\ TokenInv /\ PaidOnlyIfCharged /\ OneOrderPerQuote /\ PaidQueuesAndConsumes /\ CookieOpensReport)'
  BY DEF IInv, SoleWinner, QuoteInv, TokenInv, PaidOnlyIfCharged,
       OneOrderPerQuote, PaidQueuesAndConsumes, CookieOpensReport
<1> QED  BY <1>1, <1>2, <1>3, <1>4 DEF IInv

\* MarkInitialized keeps the invariant.
LEMMA MarkInitializedPreserves ==
    ASSUME IInv, NEW o \in Orders, MarkInitialized(o)
    PROVE  IInv'
<1> USE DEF MarkInitialized, quoteVars, requestVars, orderVars, callbackVars
<1>1. TypeOK'
  BY DEF IInv, TypeOK, OrderStatus, CheckoutState
<1>2. CheckoutInv'
  BY DEF IInv, CheckoutInv, TypeOK
<1>3. CallbackInv'
  BY DEF IInv, CallbackInv, TypeOK
<1>4. QuoteInv'
  BY DEF IInv, QuoteInv, TypeOK
<1>5. TokenInv'
  BY DEF IInv, TokenInv, TypeOK
<1>6. PaidOnlyIfCharged'
  BY DEF IInv, PaidOnlyIfCharged, TypeOK
<1>7. OneOrderPerQuote'
  BY DEF IInv, OneOrderPerQuote, TypeOK
<1>8. PaidQueuesAndConsumes'
  BY DEF IInv, PaidQueuesAndConsumes, TypeOK
<1>9. CookieOpensReport'
  BY DEF IInv, CookieOpensReport, TypeOK, CallbackInv
<1>10. SoleWinner'
  BY DEF IInv, SoleWinner
<1> QED  BY <1>1, <1>2, <1>3, <1>4, <1>5, <1>6, <1>7, <1>8, <1>9, <1>10 DEF IInv

\* MarkFailed keeps the invariant.
LEMMA MarkFailedPreserves ==
    ASSUME IInv, NEW o \in Orders, MarkFailed(o)
    PROVE  IInv'
<1> USE DEF MarkFailed, quoteVars, requestVars, orderVars, callbackVars
<1>1. TypeOK'
  BY DEF IInv, TypeOK, OrderStatus, CheckoutState
<1>2. CheckoutInv'
  BY DEF IInv, CheckoutInv, TypeOK
<1>3. CallbackInv'
  BY DEF IInv, CallbackInv, TypeOK
<1>4. QuoteInv'
  BY DEF IInv, QuoteInv, TypeOK
<1>5. TokenInv'
  BY DEF IInv, TokenInv, TypeOK
<1>6. PaidOnlyIfCharged'
  BY DEF IInv, PaidOnlyIfCharged, TypeOK
<1>7. OneOrderPerQuote'
  BY DEF IInv, OneOrderPerQuote, TypeOK
<1>8. PaidQueuesAndConsumes'
  BY DEF IInv, PaidQueuesAndConsumes, TypeOK
<1>9. CookieOpensReport'
  BY DEF IInv, CookieOpensReport, TypeOK, CallbackInv
<1>10. SoleWinner'
  BY DEF IInv, SoleWinner
<1> QED  BY <1>1, <1>2, <1>3, <1>4, <1>5, <1>6, <1>7, <1>8, <1>9, <1>10 DEF IInv

\* CrashCheckout keeps the invariant.
LEMMA CrashCheckoutPreserves ==
    ASSUME IInv, NEW o \in Orders, CrashCheckout(o)
    PROVE  IInv'
<1> USE DEF CrashCheckout, quoteVars, requestVars, orderVars, callbackVars
<1>1. TypeOK'
  BY DEF IInv, TypeOK, CheckoutState
<1>2. CheckoutInv'
  BY DEF IInv, CheckoutInv
<1>3. CallbackInv'
  BY DEF IInv, CallbackInv
<1>4. (SoleWinner /\ QuoteInv /\ TokenInv /\ PaidOnlyIfCharged /\ OneOrderPerQuote /\ PaidQueuesAndConsumes /\ CookieOpensReport)'
  BY DEF IInv, SoleWinner, QuoteInv, TokenInv, PaidOnlyIfCharged,
       OneOrderPerQuote, PaidQueuesAndConsumes, CookieOpensReport
<1> QED  BY <1>1, <1>2, <1>3, <1>4 DEF IInv

\* Charge keeps the invariant.
LEMMA ChargePreserves ==
    ASSUME IInv, NEW o \in Orders, Charge(o)
    PROVE  IInv'
<1> USE DEF Charge, quoteVars, requestVars, orderVars, callbackVars
<1>1. TypeOK'
  BY DEF IInv, TypeOK
<1>2. CheckoutInv'
  BY DEF IInv, CheckoutInv
<1>3. CallbackInv'
  BY DEF IInv, CallbackInv
<1>4. PaidOnlyIfCharged'
  BY DEF IInv, PaidOnlyIfCharged
<1>5. (SoleWinner /\ QuoteInv /\ TokenInv /\ OneOrderPerQuote /\ PaidQueuesAndConsumes /\ CookieOpensReport)'
  BY DEF IInv, SoleWinner, QuoteInv, TokenInv, OneOrderPerQuote,
       PaidQueuesAndConsumes, CookieOpensReport
<1> QED  BY <1>1, <1>2, <1>3, <1>4, <1>5 DEF IInv

\* Deliver keeps the invariant.
LEMMA DeliverPreserves ==
    ASSUME IInv, NEW c \in Callbacks, NEW o \in Orders, Deliver(c, o)
    PROVE  IInv'
<1> USE DEF Deliver, quoteVars, requestVars, orderVars, callbackVars
<1>1. TypeOK'
  BY DEF IInv, TypeOK, CallbackState
<1>2. CallbackInv'
  BY DEF IInv, CallbackInv, TypeOK
<1>3. SoleWinner'
  BY DEF IInv, SoleWinner
<1>4. CookieOpensReport'
  BY DEF IInv, CookieOpensReport
<1>5. (CheckoutInv /\ QuoteInv /\ TokenInv /\ PaidOnlyIfCharged /\ OneOrderPerQuote /\ PaidQueuesAndConsumes)'
  BY DEF IInv, CheckoutInv, QuoteInv, TokenInv, PaidOnlyIfCharged,
       OneOrderPerQuote, PaidQueuesAndConsumes
<1> QED  BY <1>1, <1>2, <1>3, <1>4, <1>5 DEF IInv

\* FindPendingByToken keeps the invariant.
LEMMA FindPendingByTokenPreserves ==
    ASSUME IInv, NEW c \in Callbacks, FindPendingByToken(c)
    PROVE  IInv'
<1> USE DEF FindPendingByToken, Move, quoteVars, requestVars, orderVars, callbackVars
<1>1. TypeOK'
  BY DEF IInv, TypeOK, CallbackState
<1>2. CallbackInv'
  BY DEF IInv, CallbackInv, TypeOK
<1>3. SoleWinner'
  BY DEF IInv, SoleWinner, TypeOK
<1>4. CookieOpensReport'
  BY DEF IInv, CookieOpensReport, TypeOK
<1>5. (CheckoutInv /\ QuoteInv /\ TokenInv /\ PaidOnlyIfCharged /\ OneOrderPerQuote /\ PaidQueuesAndConsumes)'
  BY DEF IInv, CheckoutInv, QuoteInv, TokenInv, PaidOnlyIfCharged,
       OneOrderPerQuote, PaidQueuesAndConsumes
<1> QED  BY <1>1, <1>2, <1>3, <1>4, <1>5 DEF IInv

\* RetrieveCheckout keeps the invariant.
LEMMA RetrieveCheckoutPreserves ==
    ASSUME IInv, NEW c \in Callbacks, RetrieveCheckout(c)
    PROVE  IInv'
<1> USE DEF RetrieveCheckout, Move, quoteVars, requestVars, orderVars, callbackVars
<1>1. TypeOK'
  BY DEF IInv, TypeOK, CallbackState
<1>2. CallbackInv'
  BY DEF IInv, CallbackInv, TypeOK
<1>3. SoleWinner'
  BY DEF IInv, SoleWinner, TypeOK
<1>4. CookieOpensReport'
  BY DEF IInv, CookieOpensReport, TypeOK
<1>5. (CheckoutInv /\ QuoteInv /\ TokenInv /\ PaidOnlyIfCharged /\ OneOrderPerQuote /\ PaidQueuesAndConsumes)'
  BY DEF IInv, CheckoutInv, QuoteInv, TokenInv, PaidOnlyIfCharged,
       OneOrderPerQuote, PaidQueuesAndConsumes
<1> QED  BY <1>1, <1>2, <1>3, <1>4, <1>5 DEF IInv

\* MarkPaidAndQueue keeps the invariant.
LEMMA MarkPaidAndQueuePreserves ==
    ASSUME IInv, NEW c \in Callbacks, MarkPaidAndQueue(c)
    PROVE  IInv'
<1> USE DEF MarkPaidAndQueue, Move, PaidRows, AfterPaid, quoteVars, requestVars, orderVars, callbackVars
<1>1. TypeOK'
  BY DEF IInv, TypeOK, CallbackInv, QuoteStatus, OrderStatus, CallbackState
<1>2. CheckoutInv'
  BY DEF IInv, CheckoutInv, TypeOK, CallbackInv
<1>3. CallbackInv'
  BY DEF IInv, CallbackInv, TypeOK, TokenInv
<1>4. SoleWinner'
  BY DEF IInv, SoleWinner, TypeOK, CallbackInv, CookieOpensReport
<1>5. QuoteInv'
  BY DEF IInv, QuoteInv, TypeOK, CheckoutInv, CallbackInv, OneOrderPerQuote
<1>6. TokenInv'
  BY DEF IInv, TokenInv, TypeOK
<1>7. PaidOnlyIfCharged'
  BY DEF IInv, PaidOnlyIfCharged, TypeOK, CallbackInv
<1>8. OneOrderPerQuote'
  BY DEF IInv, OneOrderPerQuote, TypeOK
<1>9. PaidQueuesAndConsumes'
  BY DEF IInv, PaidQueuesAndConsumes, TypeOK, CheckoutInv, CallbackInv
<1>10. CookieOpensReport'
  BY DEF IInv, CookieOpensReport, TypeOK, CallbackInv
<1> QED  BY <1>1, <1>2, <1>3, <1>4, <1>5, <1>6, <1>7, <1>8, <1>9, <1>10 DEF IInv

\* MarkReviewRequired keeps the invariant.
LEMMA MarkReviewRequiredPreserves ==
    ASSUME IInv, NEW c \in Callbacks, MarkReviewRequired(c)
    PROVE  IInv'
<1> USE DEF MarkReviewRequired, Move, quoteVars, requestVars, orderVars, callbackVars
<1>1. TypeOK'
  BY DEF IInv, TypeOK, OrderStatus, CallbackState
<1>2. CheckoutInv'
  BY DEF IInv, CheckoutInv, TypeOK, CallbackInv
<1>3. CallbackInv'
  BY DEF IInv, CallbackInv, TypeOK
<1>4. SoleWinner'
  BY DEF IInv, SoleWinner, TypeOK
<1>5. QuoteInv'
  BY DEF IInv, QuoteInv, TypeOK
<1>6. TokenInv'
  BY DEF IInv, TokenInv, TypeOK
<1>7. PaidOnlyIfCharged'
  BY DEF IInv, PaidOnlyIfCharged, TypeOK
<1>8. OneOrderPerQuote'
  BY DEF IInv, OneOrderPerQuote, TypeOK
<1>9. PaidQueuesAndConsumes'
  BY DEF IInv, PaidQueuesAndConsumes, TypeOK
<1>10. CookieOpensReport'
  BY DEF IInv, CookieOpensReport, TypeOK, CallbackInv
<1> QED  BY <1>1, <1>2, <1>3, <1>4, <1>5, <1>6, <1>7, <1>8, <1>9, <1>10 DEF IInv

\* GrantReportAccess keeps the invariant.
LEMMA GrantReportAccessPreserves ==
    ASSUME IInv, NEW c \in Callbacks, GrantReportAccess(c)
    PROVE  IInv'
<1> USE DEF GrantReportAccess, Move, quoteVars, requestVars, orderVars, callbackVars
<1>1. TypeOK'
  BY DEF IInv, TypeOK, CallbackState
<1>2. CallbackInv'
  BY DEF IInv, CallbackInv, TypeOK, SoleWinner
<1>3. SoleWinner'
  BY DEF IInv, SoleWinner, TypeOK
<1>4. TokenInv'
  BY DEF IInv, TokenInv, TypeOK
<1>5. CookieOpensReport'
  BY NoneAssumption DEF IInv, CookieOpensReport, TypeOK, CallbackInv
<1>6. (CheckoutInv /\ QuoteInv /\ PaidOnlyIfCharged /\ OneOrderPerQuote /\ PaidQueuesAndConsumes)'
  BY DEF IInv, CheckoutInv, QuoteInv, PaidOnlyIfCharged, OneOrderPerQuote,
       PaidQueuesAndConsumes
<1> QED  BY <1>1, <1>2, <1>3, <1>4, <1>5, <1>6 DEF IInv

\* CrashCallback keeps the invariant.
LEMMA CrashCallbackPreserves ==
    ASSUME IInv, NEW c \in Callbacks, CrashCallback(c)
    PROVE  IInv'
<1> USE DEF CrashCallback, Move, quoteVars, requestVars, orderVars, callbackVars
<1>1. TypeOK'
  BY DEF IInv, TypeOK, CallbackState
<1>2. CallbackInv'
  BY DEF IInv, CallbackInv
<1>3. SoleWinner'
  BY DEF IInv, SoleWinner
<1>4. CookieOpensReport'
  BY DEF IInv, CookieOpensReport
<1>5. (CheckoutInv /\ QuoteInv /\ TokenInv /\ PaidOnlyIfCharged /\ OneOrderPerQuote /\ PaidQueuesAndConsumes)'
  BY DEF IInv, CheckoutInv, QuoteInv, TokenInv, PaidOnlyIfCharged,
       OneOrderPerQuote, PaidQueuesAndConsumes
<1> QED  BY <1>1, <1>2, <1>3, <1>4, <1>5 DEF IInv

\* The invariant is inductive.
LEMMA NextPreserves == IInv /\ [Next]_vars => IInv'
<1> SUFFICES ASSUME IInv, [Next]_vars PROVE IInv'
  OBVIOUS
<1>1. CASE UNCHANGED vars
  BY <1>1 DEF vars, quoteVars, requestVars, orderVars, callbackVars, IInv,
       TypeOK, CheckoutInv, CallbackInv, SoleWinner, QuoteInv, TokenInv,
       PaidOnlyIfCharged, OneOrderPerQuote, PaidQueuesAndConsumes,
       CookieOpensReport
<1>2. ASSUME NEW q \in Quotes, ExpireQuote(q) PROVE IInv'
  BY <1>2, ExpireQuotePreserves
<1>3. ASSUME NEW o \in Orders, NEW q \in Quotes, ReceiveCheckout(o, q) PROVE IInv'
  BY <1>3, ReceiveCheckoutPreserves
<1>4. ASSUME NEW o \in Orders, CreateFromQuote(o) PROVE IInv'
  BY <1>4, CreateFromQuotePreserves
<1>5. ASSUME NEW o \in Orders, RefuseCheckout(o) PROVE IInv'
  BY <1>5, RefuseCheckoutPreserves
<1>6. ASSUME NEW o \in Orders, InitializeCheckout(o) PROVE IInv'
  BY <1>6, InitializeCheckoutPreserves
<1>7. ASSUME NEW o \in Orders, MarkInitialized(o) PROVE IInv'
  BY <1>7, MarkInitializedPreserves
<1>8. ASSUME NEW o \in Orders, MarkFailed(o) PROVE IInv'
  BY <1>8, MarkFailedPreserves
<1>9. ASSUME NEW o \in Orders, CrashCheckout(o) PROVE IInv'
  BY <1>9, CrashCheckoutPreserves
<1>10. ASSUME NEW o \in Orders, Charge(o) PROVE IInv'
  BY <1>10, ChargePreserves
<1>11. ASSUME NEW c \in Callbacks, NEW o \in Orders, Deliver(c, o) PROVE IInv'
  BY <1>11, DeliverPreserves
<1>12. ASSUME NEW c \in Callbacks, FindPendingByToken(c) PROVE IInv'
  BY <1>12, FindPendingByTokenPreserves
<1>13. ASSUME NEW c \in Callbacks, RetrieveCheckout(c) PROVE IInv'
  BY <1>13, RetrieveCheckoutPreserves
<1>14. ASSUME NEW c \in Callbacks, MarkPaidAndQueue(c) PROVE IInv'
  BY <1>14, MarkPaidAndQueuePreserves
<1>15. ASSUME NEW c \in Callbacks, MarkReviewRequired(c) PROVE IInv'
  BY <1>15, MarkReviewRequiredPreserves
<1>16. ASSUME NEW c \in Callbacks, GrantReportAccess(c) PROVE IInv'
  BY <1>16, GrantReportAccessPreserves
<1>17. ASSUME NEW c \in Callbacks, CrashCallback(c) PROVE IInv'
  BY <1>17, CrashCallbackPreserves
<1> QED
  BY <1>1, <1>2, <1>3, <1>4, <1>5, <1>6, <1>7, <1>8, <1>9, <1>10, <1>11, <1>12, <1>13, <1>14, <1>15, <1>16, <1>17 DEF Next, CheckoutStep, CallbackStep

\* The inductive invariant holds in every reachable state.
THEOREM Invariance == Spec => []IInv
BY InitEstablishes, NextPreserves, PTL DEF Spec

\* Every variable keeps the values its column, row set or program counter has.
THEOREM TypeCorrect == Spec => []TypeOK
BY Invariance, PTL DEF IInv

-----------------------------------------------------------------------------
\* An order is PAID only for a captured payment.
THEOREM PaymentIsBacked == Spec => []PaidOnlyIfCharged
BY Invariance, PTL DEF IInv

\* A captured payment never ends as PAYMENT_FAILED: a request that returned
\* the payment page is past its catch block, which alone writes that status.
THEOREM CaptureIsKept == Spec => []ChargedNeverFailed
<1>1. IInv => ChargedNeverFailed
  BY DEF IInv, TypeOK, CheckoutInv, ChargedNeverFailed
<1> QED  BY <1>1, Invariance, PTL

\* Money and orders agree, whatever callbacks, retries and crashes do.
THEOREM MoneyStaysOnRecord == Spec => []MoneyIsRecorded
BY PaymentIsBacked, CaptureIsKept, PTL DEF MoneyIsRecorded

\* A quote never backs two orders.
THEOREM QuoteIsSoldOnce == Spec => []OneOrderPerQuote
BY Invariance, PTL DEF IInv

\* Payment, job and consumption of the quote are one.
THEOREM PaymentQueuesJob == Spec => []PaidQueuesAndConsumes
BY Invariance, PTL DEF IInv

\* Quote, order and job never disagree about a payment.
THEOREM RowsStayTogether == Spec => []RowsAgree
BY QuoteIsSoldOnce, PaymentQueuesJob, PTL DEF RowsAgree

\* Every cookie sent with a success redirect opens the report.
THEOREM CookieIsValid == Spec => []CookieOpensReport
BY Invariance, PTL DEF IInv

\* What a step leaves of payment outcomes and access tokens: all.
Final ==
    \A o \in Orders :
        /\ orderStatus[o] \in {"PAID", "PAYMENT_FAILED", "PAYMENT_REVIEW_REQUIRED"}
              => orderStatus'[o] = orderStatus[o]
        /\ accessToken[o] # None => accessToken'[o] = accessToken[o]

LEMMA StepIsFinal == IInv /\ Next => Final
<1> SUFFICES ASSUME IInv, Next PROVE Final
  OBVIOUS
<1> USE DEF Final, IInv, TypeOK, quoteVars, requestVars, orderVars, callbackVars
<1>1. ASSUME NEW q \in Quotes, ExpireQuote(q) PROVE Final
  BY <1>1 DEF ExpireQuote
<1>2. ASSUME NEW o \in Orders, NEW q \in Quotes, ReceiveCheckout(o, q) PROVE Final
  BY <1>2 DEF ReceiveCheckout
<1>3. ASSUME NEW o \in Orders, CreateFromQuote(o) PROVE Final
  BY <1>3 DEF CreateFromQuote, InsertOrder, QuoteReady
<1>4. ASSUME NEW o \in Orders, RefuseCheckout(o) PROVE Final
  BY <1>4 DEF RefuseCheckout
<1>5. ASSUME NEW o \in Orders, InitializeCheckout(o) PROVE Final
  BY <1>5 DEF InitializeCheckout
<1>6. ASSUME NEW o \in Orders, MarkInitialized(o) PROVE Final
  BY <1>6 DEF MarkInitialized
<1>7. ASSUME NEW o \in Orders, MarkFailed(o) PROVE Final
  BY <1>7 DEF MarkFailed
<1>8. ASSUME NEW o \in Orders, CrashCheckout(o) PROVE Final
  BY <1>8 DEF CrashCheckout
<1>9. ASSUME NEW o \in Orders, Charge(o) PROVE Final
  BY <1>9 DEF Charge
<1>10. ASSUME NEW c \in Callbacks, NEW o \in Orders, Deliver(c, o) PROVE Final
  BY <1>10 DEF Deliver
<1>11. ASSUME NEW c \in Callbacks, FindPendingByToken(c) PROVE Final
  BY <1>11 DEF FindPendingByToken
<1>12. ASSUME NEW c \in Callbacks, RetrieveCheckout(c) PROVE Final
  BY <1>12 DEF RetrieveCheckout
<1>13. ASSUME NEW c \in Callbacks, MarkPaidAndQueue(c) PROVE Final
  BY <1>13 DEF MarkPaidAndQueue, PaidRows
<1>14. ASSUME NEW c \in Callbacks, MarkReviewRequired(c) PROVE Final
  BY <1>14 DEF MarkReviewRequired
<1>15. ASSUME NEW c \in Callbacks, GrantReportAccess(c) PROVE Final
  BY <1>15 DEF GrantReportAccess, CallbackInv
<1>16. ASSUME NEW c \in Callbacks, CrashCallback(c) PROVE Final
  BY <1>16 DEF CrashCallback
<1> QED
  BY <1>1, <1>2, <1>3, <1>4, <1>5, <1>6, <1>7, <1>8, <1>9, <1>10, <1>11, <1>12, <1>13, <1>14, <1>15, <1>16 DEF Next, CheckoutStep, CallbackStep

\* Payment outcomes and access tokens are never rewritten.
THEOREM OutcomeStays == Spec => OutcomeIsFinal
<1>1. IInv /\ [Next]_vars => [Final]_vars
  BY StepIsFinal
<1> QED  BY <1>1, Invariance, PTL DEF Spec, OutcomeIsFinal, Final

-----------------------------------------------------------------------------
\* What one step may do to an order.
Advances(o, status) ==
    \/ orderStatus[o] = "ABSENT" /\ status = "CREATED"
    \/ orderStatus[o] = "CREATED" /\ status = "CHECKOUT_INITIALIZED"
    \/ orderStatus[o] \in {"CREATED", "CHECKOUT_INITIALIZED"} /\ status = "PAYMENT_FAILED" /\ o \notin charged
    \/ orderStatus[o] = "CHECKOUT_INITIALIZED" /\ status = "PAID" /\ o \in charged
    \/ orderStatus[o] = "CHECKOUT_INITIALIZED" /\ status = "PAYMENT_REVIEW_REQUIRED"

OneOrder ==
    \/ UNCHANGED <<orderStatus, charged>>
    \/ \E o \in Orders :
          /\ UNCHANGED orderStatus
          /\ orderStatus[o] \in {"CHECKOUT_INITIALIZED", "PAYMENT_REVIEW_REQUIRED"}
          /\ charged' = charged \cup {o}
    \/ \E o \in Orders, status \in OrderStatus :
          /\ Advances(o, status)
          /\ orderStatus' = [orderStatus EXCEPT ![o] = status]
          /\ UNCHANGED charged

OneToken ==
    \/ UNCHANGED accessToken
    \/ \E o \in Orders, c \in Callbacks : accessToken' = [accessToken EXCEPT ![o] = c]

\* A step changes one order at most, and grants one token at most.
LEMMA OneOrderMoves == IInv /\ Next => OneOrder /\ OneToken
<1> SUFFICES ASSUME IInv, Next PROVE OneOrder /\ OneToken
  OBVIOUS
<1> USE DEF IInv, CheckoutInv, CallbackInv, OneOrder, OneToken, Advances, OrderStatus,
        quoteVars, requestVars, orderVars, callbackVars, Move
<1>1. ASSUME NEW q \in Quotes, ExpireQuote(q) PROVE OneOrder /\ OneToken
  BY <1>1 DEF ExpireQuote
<1>2. ASSUME NEW o \in Orders, NEW q \in Quotes, ReceiveCheckout(o, q) PROVE OneOrder /\ OneToken
  BY <1>2 DEF ReceiveCheckout
<1>3. ASSUME NEW o \in Orders, CreateFromQuote(o) PROVE OneOrder /\ OneToken
  BY <1>3 DEF CreateFromQuote, InsertOrder
<1>4. ASSUME NEW o \in Orders, RefuseCheckout(o) \/ InitializeCheckout(o) \/ CrashCheckout(o)
      PROVE OneOrder /\ OneToken
  BY <1>4 DEF RefuseCheckout, InitializeCheckout, CrashCheckout
<1>5. ASSUME NEW o \in Orders, MarkInitialized(o) PROVE OneOrder /\ OneToken
  BY <1>5 DEF MarkInitialized
<1>6. ASSUME NEW o \in Orders, MarkFailed(o) PROVE OneOrder /\ OneToken
  BY <1>6 DEF MarkFailed
<1>7. ASSUME NEW o \in Orders, Charge(o) PROVE OneOrder /\ OneToken
  BY <1>7 DEF Charge, PaidOnlyIfCharged
<1>8. ASSUME NEW c \in Callbacks, NEW o \in Orders, Deliver(c, o) PROVE OneOrder /\ OneToken
  BY <1>8 DEF Deliver
<1>9. ASSUME NEW c \in Callbacks, FindPendingByToken(c) \/ RetrieveCheckout(c) \/ CrashCallback(c)
      PROVE OneOrder /\ OneToken
  BY <1>9 DEF FindPendingByToken, RetrieveCheckout, CrashCallback
<1>10. ASSUME NEW c \in Callbacks, MarkPaidAndQueue(c) PROVE OneOrder /\ OneToken
  BY <1>10 DEF MarkPaidAndQueue, PaidRows, AfterPaid
<1>11. ASSUME NEW c \in Callbacks, MarkReviewRequired(c) PROVE OneOrder /\ OneToken
  BY <1>11 DEF MarkReviewRequired
<1>12. ASSUME NEW c \in Callbacks, GrantReportAccess(c) PROVE OneOrder /\ OneToken
  BY <1>12 DEF GrantReportAccess
<1> QED
  BY <1>1, <1>2, <1>3, <1>4, <1>5, <1>6, <1>7, <1>8, <1>9, <1>10, <1>11, <1>12 DEF Next, CheckoutStep, CallbackStep
=============================================================================
