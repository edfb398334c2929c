--------------------------- MODULE MCConversation ---------------------------
(* Small instances of Conversation for TLC.                                *)
EXTENDS Conversation, TLC

Symmetry == Permutations(Instances) \cup Permutations(Requests)
            \cup Permutations(Messages) \cup Permutations(Offers)

OnOneInstance ==
    \E i \in Instances : \A j \in Instances \ {i} :
        /\ \A r \in Requests : at[r] # j
        /\ \A o \in Offers : cached[j][o] = "ABSENT"

\* The messages that answers have learnt something from.
Taught == UNION {answer[r].ledger : r \in Requests} \cup held.ledger

\* When requests overlap, on all instances: two messages, one of which may teach
\* something, and one offer.  When the browser waits, on one instance: all of
\* them.  Offers expire, and Redis forgets them, in the first case only.
Bounds ==
    IF overlap THEN /\ Cardinality(sent) <= 2
                    /\ Cardinality(Taught) <= 1
                    /\ Cardinality({o \in Offers : fingerprint[o] # None}) <= 1
    ELSE OnOneInstance /\ expired = {}
=============================================================================
