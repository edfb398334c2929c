----------------------------- MODULE PaidReport -----------------------------
(***************************************************************************)
(* What a buyer is promised of one order, whatever callbacks, workers and  *)
(* senders do: money that was captured is never called a failed payment,   *)
(* a paid order ends with the report or with a refund, not with both, and  *)
(* the report is mailed at most once and invoiced at most once.            *)
(***************************************************************************)
CONSTANT Orders

VARIABLES
    phase,      \* where the order stands for its buyer
    captured,   \* orders whose payment was captured
    mailedTo,   \* orders whose report reached the buyer's inbox
    invoiced    \* orders the accounting provider has an invoice of

vars == <<phase, captured, mailedTo, invoiced>>

Init ==
    /\ phase = [o \in Orders |-> "open"]
    /\ captured = {}
    /\ mailedTo = {}
    /\ invoiced = {}

Step(o, from, to) ==
    /\ phase[o] = from
    /\ phase' = [phase EXCEPT ![o] = to]
    /\ UNCHANGED <<captured, mailedTo, invoiced>>

Capture(o) ==
    /\ phase[o] \in {"open", "review"}
    /\ captured' = captured \cup {o}
    /\ UNCHANGED <<phase, mailedTo, invoiced>>

\* The buyer is told that the payment failed: nothing was captured, nor will be.
Decline(o) == o \notin captured /\ Step(o, "open", "declined")

\* The outcome is unclear: a person decides.
Review(o) == Step(o, "open", "review")

Settle(o) == o \in captured /\ Step(o, "open", "paid")

Deliver(o) == Step(o, "paid", "ready")

OweRefund(o) == Step(o, "paid", "refund")

Mail(o) ==
    /\ phase[o] = "ready"
    /\ o \notin mailedTo
    /\ mailedTo' = mailedTo \cup {o}
    /\ UNCHANGED <<phase, captured, invoiced>>

Invoice(o) ==
    /\ phase[o] \in {"paid", "ready", "refund"}
    /\ o \notin invoiced
    /\ invoiced' = invoiced \cup {o}
    /\ UNCHANGED <<phase, captured, mailedTo>>

Next ==
    \E o \in Orders :
        \/ Capture(o) \/ Decline(o) \/ Review(o) \/ Settle(o)
        \/ Deliver(o) \/ OweRefund(o) \/ Mail(o) \/ Invoice(o)

Spec == Init /\ [][Next]_vars
=============================================================================
