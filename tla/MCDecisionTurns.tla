--------------------------- MODULE MCDecisionTurns --------------------------
(***************************************************************************)
(* A small instance of DecisionTurns for TLC.  Two bounds are explored     *)
(* together: short conversations whose requests race, are repeated and     *)
(* fail, without insults and up to the first constraint on record; and     *)
(* longer ones of one request after the other without offers, for what     *)
(* needs several turns to come about (a deferred question, a correction of *)
(* another field's constraint, the end after insults).                     *)
(***************************************************************************)
EXTENDS DecisionTurns

CONSTANT MaxRacing      \* bound: requests of a conversation that races

VARIABLE racing

InFlightNow == {r \in Requests : requests[r].pc \notin {"idle", "done"}}

Short == /\ racing
         /\ \A r \in Requests : requests[r].pc # "idle" => r <= MaxRacing
         /\ row.memory.abuse = 0
         /\ ~row.memory.constrained
         /\ \A r \in Requests : requests[r].pc = "rejected" => ~Turn(r).abuse

Long == /\ ~racing
        /\ Cardinality(InFlightNow) <= 1
        /\ \A r \in Requests : requests[r].pc # "idle" => Message(r) = r
        /\ \A r \in Requests : requests[r].pc = "done" => stored[r] # None
        /\ offers = [m \in Messages |-> None]

MCInit == DecisionInit /\ racing \in BOOLEAN
MCNext == DecisionNext /\ racing' = racing /\ (Short \/ Long)'
MCSpec == MCInit /\ [][MCNext]_<<vars, racing>>
=============================================================================
