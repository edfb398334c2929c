-------------------------- MODULE MCIyzicoCheckout --------------------------
(* Small instances of IyzicoCheckout for TLC.                              *)
EXTENDS IyzicoCheckout, TLC

Symmetry ==
    Permutations(Quotes) \cup Permutations(Orders) \cup Permutations(Callbacks)
=============================================================================
