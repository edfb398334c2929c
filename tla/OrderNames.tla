----------------------------- MODULE OrderNames ------------------------------
(* What the modules about one order's deliveries share.                    *)
CONSTANTS
    Orders,
    None,
    Faults      \* subset of {"crash", "database"}

ASSUME NoneAssumption == None \notin Orders
=============================================================================
