----------------------------- MODULE MCAdvisorChat -----------------------------
\* Instances of AdvisorChat for TLC.
EXTENDS AdvisorChat, TLC

Symmetry == Permutations(Requests) \cup Permutations(Messages) \cup Permutations(Instances)
=============================================================================
