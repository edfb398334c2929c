---------------------------- MODULE MCSalesRequest ----------------------------
\* Instances of SalesRequest for TLC.
EXTENDS SalesRequest, TLC

Symmetry ==
    Permutations(Forms) \cup Permutations(Phones) \cup Permutations(Challenges)
        \cup Permutations(Instances)
================================================================================
