--------------------------- MODULE IyzicoCheckout ---------------------------
(***************************************************************************)
(* The purchase of a paid comparison report: a quote is turned into an     *)
(* order, the order into an iyzico checkout session, and the provider's    *)
(* callback into a PAID order with one queued report job and one access    *)
(* cookie.  Every request is a process of its own (there are several web   *)
(* instances); what they share is the Postgres database, so an action is   *)
(* one transaction, one single-statement query or one provider call.       *)
(*                                                                         *)
(* An order id is a fresh UUID chosen by the POST /checkout request, so an *)
(* element of Orders stands for the request and for the row it may insert. *)
(***************************************************************************)
EXTENDS FiniteSets

CONSTANTS
    Quotes,     \* comparison_report_quotes rows, already READY_FOR_CHECKOUT
    Orders,     \* POST /checkout requests and the order ids they draw
    Callbacks,  \* POST /callback requests and the access tokens they draw
    None,       \* SQL null
    Faults      \* TRUE: handlers may crash, queries and provider calls may fail

ASSUME NoneAssumption == None \notin Quotes \cup Orders \cup Callbacks
ASSUME FaultsAssumption == Faults \in BOOLEAN

VARIABLES
    quoteStatus,    \* comparison_report_quotes.status
    quoteExpired,   \* the clock has reached comparison_report_quotes.expires_at
    wants,          \* the quote a checkout request names (orders.quote_id)
    late,           \* the quote had expired at the request's own `now`
    checkout,       \* where each checkout request stands
    orderStatus,    \* paid_report_orders.status, "ABSENT" before the insert
    accessToken,    \* paid_report_orders.access_token_hash
    jobs,           \* orders with a comparison_report_jobs row
    charged,        \* orders whose payment the provider captured
    callback,       \* where each callback request stands
    callbackOrder   \* the order whose provider token the callback carries

quoteVars    == <<quoteStatus, quoteExpired>>
requestVars  == <<wants, late>>
orderVars    == <<orderStatus, accessToken, jobs>>
callbackVars == <<callback, callbackOrder>>
vars == <<quoteVars, requestVars, checkout, orderVars, charged, callbackVars>>

QuoteStatus == {"READY_FOR_CHECKOUT", "CHECKOUT_STARTED", "CONSUMED"}
OrderStatus == {"ABSENT", "CREATED", "CHECKOUT_INITIALIZED", "PAID",
                "PAYMENT_FAILED", "PAYMENT_REVIEW_REQUIRED"}

\* received: `now` taken; created: order row committed; tokenised: provider
\* answered; failing: in the catch block; redirected: the browser has the
\* payment page; ended: answered with an error, or crashed.
CheckoutState == {"idle", "received", "created", "tokenised", "failing",
                  "redirected", "ended"}

\* received: token read; found: pending order loaded; verified: provider says
\* SUCCESS; doubtful: in the catch block; paid: order committed as PAID;
\* granted: success redirect with cookie; refused: failure redirect; lost: ended
\* by a crash or by a query that failed.
CallbackState == {"idle", "received", "found", "verified", "doubtful", "paid",
                  "granted", "refused", "lost"}

TypeOK ==
    /\ quoteStatus \in [Quotes -> QuoteStatus]
    /\ quoteExpired \in [Quotes -> BOOLEAN]
    /\ wants \in [Orders -> Quotes \cup {None}]
    /\ late \in [Orders -> BOOLEAN]
    /\ checkout \in [Orders -> CheckoutState]
    /\ orderStatus \in [Orders -> OrderStatus]
    /\ accessToken \in [Orders -> Callbacks \cup {None}]
    /\ jobs \subseteq Orders
    /\ charged \subseteq Orders
    /\ callback \in [Callbacks -> CallbackState]
    /\ callbackOrder \in [Callbacks -> Orders \cup {None}]

Init ==
    /\ quoteStatus = [q \in Quotes |-> "READY_FOR_CHECKOUT"]
    /\ quoteExpired = [q \in Quotes |-> FALSE]
    /\ wants = [o \in Orders |-> None]
    /\ late = [o \in Orders |-> FALSE]
    /\ checkout = [o \in Orders |-> "idle"]
    /\ orderStatus = [o \in Orders |-> "ABSENT"]
    /\ accessToken = [o \in Orders |-> None]
    /\ jobs = {}
    /\ charged = {}
    /\ callback = [c \in Callbacks |-> "idle"]
    /\ callbackOrder = [c \in Callbacks |-> None]

-----------------------------------------------------------------------------
(* The clock and the checkout request.                                     *)

ExpireQuote(q) ==
    /\ ~quoteExpired[q]
    /\ quoteExpired' = [quoteExpired EXCEPT ![q] = TRUE]
    /\ UNCHANGED <<quoteStatus, requestVars, checkout, orderVars, charged, callbackVars>>

\* The route takes `now` once; every later comparison uses that reading.
ReceiveCheckout(o, q) ==
    /\ checkout[o] = "idle"
    /\ checkout' = [checkout EXCEPT ![o] = "received"]
    /\ wants' = [wants EXCEPT ![o] = q]
    /\ late' = [late EXCEPT ![o] = quoteExpired[q]]
    /\ UNCHANGED <<quoteVars, orderVars, charged, callbackVars>>

\* The transaction locks the quote row; quote_id is unique among the orders.
QuoteReady(o) ==
    /\ quoteStatus[wants[o]] = "READY_FOR_CHECKOUT"
    /\ ~late[o]
    /\ \A p \in Orders : orderStatus[p] # "ABSENT" => wants[p] # wants[o]

InsertOrder(o) ==
    /\ checkout[o] = "received"
    /\ orderStatus' = [orderStatus EXCEPT ![o] = "CREATED"]
    /\ checkout' = [checkout EXCEPT ![o] = "created"]
    /\ quoteStatus' = [quoteStatus EXCEPT ![wants[o]] = "CHECKOUT_STARTED"]
    /\ UNCHANGED <<quoteExpired, requestVars, accessToken, jobs, charged, callbackVars>>

CreateFromQuote(o) == InsertOrder(o) /\ QuoteReady(o)

\* Not ready, expired, or the transaction failed and rolled back.
RefuseCheckout(o) ==
    /\ checkout[o] = "received"
    /\ ~QuoteReady(o) \/ Faults
    /\ checkout' = [checkout EXCEPT ![o] = "ended"]
    /\ UNCHANGED <<quoteVars, requestVars, orderVars, charged, callbackVars>>

\* The provider's reply passes the binding and signature checks, or anything
\* on the way (refusal, timeout, bad signature) throws.
InitializeCheckout(o) ==
    /\ checkout[o] = "created"
    /\ checkout' \in {[checkout EXCEPT ![o] = "tokenised"], [checkout EXCEPT ![o] = "failing"]}
    /\ UNCHANGED <<quoteVars, requestVars, orderVars, charged, callbackVars>>

\* One guarded UPDATE.  The page url goes to the browser only if the handler
\* sees it succeed; a fault may lose the answer of an update that committed.
MarkInitialized(o) ==
    /\ checkout[o] = "tokenised"
    /\ \/ /\ orderStatus[o] = "CREATED"
          /\ orderStatus' = [orderStatus EXCEPT ![o] = "CHECKOUT_INITIALIZED"]
          /\ \/ checkout' = [checkout EXCEPT ![o] = "redirected"]
             \/ Faults /\ checkout' = [checkout EXCEPT ![o] = "failing"]
       \/ /\ orderStatus[o] # "CREATED" \/ Faults
          /\ checkout' = [checkout EXCEPT ![o] = "failing"]
          /\ UNCHANGED orderStatus
    /\ UNCHANGED <<quoteVars, requestVars, accessToken, jobs, charged, callbackVars>>

\* The catch block of startIyzicoCheckout; the error is rethrown to the route.
MarkFailed(o) ==
    /\ checkout[o] = "failing"
    /\ checkout' = [checkout EXCEPT ![o] = "ended"]
    /\ \/ /\ orderStatus[o] \in {"CREATED", "CHECKOUT_INITIALIZED"}
          /\ orderStatus' = [orderStatus EXCEPT ![o] = "PAYMENT_FAILED"]
       \/ /\ orderStatus[o] \notin {"CREATED", "CHECKOUT_INITIALIZED"} \/ Faults
          /\ UNCHANGED orderStatus
    /\ UNCHANGED <<quoteVars, requestVars, accessToken, jobs, charged, callbackVars>>

CrashCheckout(o) ==
    /\ Faults
    /\ checkout[o] \in {"received", "created", "tokenised", "failing"}
    /\ checkout' = [checkout EXCEPT ![o] = "ended"]
    /\ UNCHANGED <<quoteVars, requestVars, orderVars, charged, callbackVars>>

-----------------------------------------------------------------------------
(* The provider: the customer pays on the page the browser was sent to.    *)

Charge(o) ==
    /\ checkout[o] = "redirected"
    /\ o \notin charged
    /\ charged' = charged \cup {o}
    /\ UNCHANGED <<quoteVars, requestVars, checkout, orderVars, callbackVars>>

\* The page posts its token back after a successful or a declined attempt; a
\* reload or the back button posts it again.
Deliver(c, o) ==
    /\ checkout[o] = "redirected"
    /\ callback[c] = "idle"
    /\ callback' = [callback EXCEPT ![c] = "received"]
    /\ callbackOrder' = [callbackOrder EXCEPT ![c] = o]
    /\ UNCHANGED <<quoteVars, requestVars, checkout, orderVars, charged>>

-----------------------------------------------------------------------------
(* The callback request.                                                   *)

Move(c, to) ==
    /\ callback' = [callback EXCEPT ![c] = to]
    /\ UNCHANGED <<quoteVars, requestVars, checkout, charged, callbackOrder>>

\* A lookup for the status before the one markInitialized writes.
FindCreatedByToken(c) ==
    /\ callback[c] = "received"
    /\ Move(c, IF orderStatus[callbackOrder[c]] = "CREATED" THEN "found" ELSE "refused")
    /\ UNCHANGED orderVars

\* Outside the try block: a failing lookup does not mark the order.
FindPendingByToken(c) ==
    /\ callback[c] = "received"
    /\ \/ orderStatus[callbackOrder[c]] = "CHECKOUT_INITIALIZED" /\ Move(c, "found")
       \/ orderStatus[callbackOrder[c]] # "CHECKOUT_INITIALIZED" /\ Move(c, "refused")
       \/ Faults /\ Move(c, "lost")
    /\ UNCHANGED orderVars

\* A retrieve that forgets to compare paymentStatus with SUCCESS.
RetrieveAnyStatus(c) ==
    /\ callback[c] = "found"
    /\ Move(c, "verified")
    /\ UNCHANGED orderVars

\* SUCCESS for a captured payment; a declined or unfinished one, a timeout and
\* a binding or signature mismatch throw.
RetrieveCheckout(c) ==
    /\ callback[c] = "found"
    /\ \/ callbackOrder[c] \in charged /\ Move(c, "verified")
       \/ (callbackOrder[c] \notin charged \/ Faults) /\ Move(c, "doubtful")
    /\ UNCHANGED orderVars

\* The effect of the markPaidAndQueue transaction on the order's rows.
PaidRows(o) ==
    /\ orderStatus' = [orderStatus EXCEPT ![o] = "PAID"]
    /\ jobs' = jobs \cup {o}
    /\ quoteStatus' = [quoteStatus EXCEPT ![wants[o]] = "CONSUMED"]
    /\ UNCHANGED accessToken

AfterPaid(c, to) ==
    /\ callback' = [callback EXCEPT ![c] = to]
    /\ UNCHANGED <<quoteExpired, requestVars, checkout, charged, callbackOrder>>

\* The job is queued by a statement outside the transaction, lost by a crash.
MarkPaidWithoutJob(c) ==
    /\ callback[c] = "verified"
    /\ orderStatus[callbackOrder[c]] = "CHECKOUT_INITIALIZED"
    /\ orderStatus' = [orderStatus EXCEPT ![callbackOrder[c]] = "PAID"]
    /\ quoteStatus' = [quoteStatus EXCEPT ![wants[callbackOrder[c]]] = "CONSUMED"]
    /\ UNCHANGED <<accessToken, jobs>>
    /\ AfterPaid(c, "paid")

\* All or nothing: a failed guard or statement rolls back, and a commit whose
\* answer is lost has happened although the handler sees an error.
MarkPaidAndQueue(c) ==
    /\ callback[c] = "verified"
    /\ \/ /\ orderStatus[callbackOrder[c]] = "CHECKOUT_INITIALIZED"
          /\ PaidRows(callbackOrder[c])
          /\ AfterPaid(c, "paid") \/ (Faults /\ AfterPaid(c, "doubtful"))
       \/ /\ orderStatus[callbackOrder[c]] # "CHECKOUT_INITIALIZED" \/ Faults
          /\ Move(c, "doubtful")
          /\ UNCHANGED orderVars

\* The catch block writes PAYMENT_FAILED, as checkout's catch block does.
MarkReviewAsFailed(c) ==
    /\ callback[c] = "doubtful"
    /\ orderStatus[callbackOrder[c]] = "CHECKOUT_INITIALIZED"
    /\ orderStatus' = [orderStatus EXCEPT ![callbackOrder[c]] = "PAYMENT_FAILED"]
    /\ Move(c, "refused")
    /\ UNCHANGED <<accessToken, jobs>>

\* The catch block without the status guard, as in the in-memory store.
MarkReviewUnguarded(c) ==
    /\ callback[c] = "doubtful"
    /\ orderStatus' = [orderStatus EXCEPT ![callbackOrder[c]] = "PAYMENT_REVIEW_REQUIRED"]
    /\ Move(c, "refused")
    /\ UNCHANGED <<accessToken, jobs>>

\* The catch block of finalizeIyzicoCheckout.
MarkReviewRequired(c) ==
    /\ callback[c] = "doubtful"
    /\ \/ /\ orderStatus[callbackOrder[c]] = "CHECKOUT_INITIALIZED"
          /\ orderStatus' = [orderStatus EXCEPT ![callbackOrder[c]] = "PAYMENT_REVIEW_REQUIRED"]
          /\ Move(c, "refused")
       \/ /\ orderStatus[callbackOrder[c]] # "CHECKOUT_INITIALIZED"
          /\ Move(c, "refused")
          /\ UNCHANGED orderStatus
       \/ /\ Faults
          /\ Move(c, "lost")
          /\ UNCHANGED orderStatus
    /\ UNCHANGED <<accessToken, jobs>>

\* The success redirect goes out although the grant was not stored.
GrantForgotten(c) ==
    /\ callback[c] = "paid"
    /\ Move(c, "granted")
    /\ UNCHANGED orderVars

\* Stores the hash of a token only this callback knows; the cookie leaves with
\* the redirect only if the handler saw the update succeed.
GrantReportAccess(c) ==
    /\ callback[c] = "paid"
    /\ \/ /\ orderStatus[callbackOrder[c]] = "PAID"
          /\ accessToken' = [accessToken EXCEPT ![callbackOrder[c]] = c]
          /\ Move(c, "granted") \/ (Faults /\ Move(c, "lost"))
       \/ /\ orderStatus[callbackOrder[c]] # "PAID"
          /\ Move(c, "refused")
          /\ UNCHANGED accessToken
       \/ /\ Faults
          /\ Move(c, "lost")
          /\ UNCHANGED accessToken
    /\ UNCHANGED <<orderStatus, jobs>>

CrashCallback(c) ==
    /\ Faults
    /\ callback[c] \in {"received", "found", "verified", "doubtful", "paid"}
    /\ Move(c, "lost")
    /\ UNCHANGED orderVars

-----------------------------------------------------------------------------
CheckoutStep(o) ==
    \/ CreateFromQuote(o)
    \/ RefuseCheckout(o)
    \/ InitializeCheckout(o)
    \/ MarkInitialized(o)
    \/ MarkFailed(o)

CallbackStep(c) ==
    \/ FindPendingByToken(c)
    \/ RetrieveCheckout(c)
    \/ MarkPaidAndQueue(c)
    \/ MarkReviewRequired(c)
    \/ GrantReportAccess(c)

Next ==
    \/ \E q \in Quotes : ExpireQuote(q)
    \/ \E o \in Orders, q \in Quotes : ReceiveCheckout(o, q)
    \/ \E o \in Orders : CheckoutStep(o) \/ CrashCheckout(o) \/ Charge(o)
    \/ \E c \in Callbacks, o \in Orders : Deliver(c, o)
    \/ \E c \in Callbacks : CallbackStep(c) \/ CrashCallback(c)

Spec == Init /\ [][Next]_vars

\* A running handler is scheduled until it answers, and the provider's page
\* posts back after a capture.  Nothing is assumed of customers or clocks.
Fairness ==
    /\ \A o \in Orders : WF_vars(CheckoutStep(o))
    /\ \A c \in Callbacks : WF_vars(CallbackStep(c))
    /\ \A o \in Orders : WF_vars(o \in charged /\ \E c \in Callbacks : Deliver(c, o))

FairSpec == Spec /\ Fairness

-----------------------------------------------------------------------------
(* Safety.                                                                 *)

\* An order counts as PAID only for money the provider really captured, in
\* whatever order retries, declined attempts and duplicate callbacks run.
PaidOnlyIfCharged == \A o \in Orders : orderStatus[o] = "PAID" => o \in charged

\* A customer whose payment was captured is never told, by a PAYMENT_FAILED
\* order, that it was not: the uncertain outcomes end in review instead.
ChargedNeverFailed == \A o \in charged : orderStatus[o] # "PAYMENT_FAILED"

\* A quote backs at most one order, however many checkout requests race on it.
OneOrderPerQuote ==
    \A o, p \in Orders :
        (orderStatus[o] # "ABSENT" /\ orderStatus[p] # "ABSENT" /\ wants[o] = wants[p]) => o = p

\* Payment, report job and consumption of the quote appear together: no PAID
\* order without a job, no job or consumed quote without a PAID order.
PaidQueuesAndConsumes ==
    /\ jobs = {o \in Orders : orderStatus[o] = "PAID"}
    /\ {q \in Quotes : quoteStatus[q] = "CONSUMED"} = {wants[o] : o \in jobs}

\* The cookie handed out with a success redirect opens the report: no other
\* callback has replaced the stored hash or moved the order out of PAID.
CookieOpensReport ==
    \A c \in Callbacks : callback[c] = "granted" =>
        accessToken[callbackOrder[c]] = c /\ orderStatus[callbackOrder[c]] = "PAID"

\* A payment outcome is final, and an issued access token is never replaced.
OutcomeIsFinal ==
    [][\A o \in Orders :
        /\ orderStatus[o] \in {"PAID", "PAYMENT_FAILED", "PAYMENT_REVIEW_REQUIRED"}
              => orderStatus'[o] = orderStatus[o]
        /\ accessToken[o] # None => accessToken'[o] = accessToken[o]]_vars

\* Orders count as PAID for captured payments only, and a captured payment is
\* never called failed, in whatever order retries, declined attempts and
\* duplicate callbacks run.
MoneyIsRecorded == PaidOnlyIfCharged /\ ChargedNeverFailed

\* A quote backs one order, and order, job and quote agree about its payment,
\* however many checkout requests and callbacks race.
RowsAgree == OneOrderPerQuote /\ PaidQueuesAndConsumes

(* Liveness.                                                               *)

CallbacksOf(o) == {c \in Callbacks : callbackOrder[c] = o}

\* A captured payment does not stay in CHECKOUT_INITIALIZED for ever, unless a
\* crash or a failing query ends every callback of it.
ChargeIsSettled ==
    \A o \in Orders : o \in charged ~>
        \/ orderStatus[o] \in {"PAID", "PAYMENT_REVIEW_REQUIRED"}
        \/ CallbacksOf(o) # {} /\ \A c \in CallbacksOf(o) : callback[c] = "lost"

\* A PAID order gets its access token, unless every callback of it was told of
\* a failure: the winner lost an answer of the database, or crashed.
PaidGetsAccess ==
    \A o \in Orders : orderStatus[o] = "PAID" ~>
        \/ accessToken[o] # None
        \/ \A c \in CallbacksOf(o) : callback[c] \in {"refused", "lost"}
=============================================================================
