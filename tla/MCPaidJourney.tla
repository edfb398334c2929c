--------------------------- MODULE MCPaidJourney ----------------------------
(* Small instances of PaidJourney for TLC.                                 *)
EXTENDS PaidJourney, TLC

Symmetry == Permutations(Callbacks) \cup Permutations(Workers)
=============================================================================
