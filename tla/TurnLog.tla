------------------------------ MODULE TurnLog -------------------------------
(***************************************************************************)
(* What a conversation store promises, whatever happens to the requests: a *)
(* message is answered once; its answer takes the next revision; nobody is *)
(* told an answer that is not kept; a kept answer never changes.           *)
(***************************************************************************)
EXTENDS Naturals

CONSTANTS Messages, Nothing

VARIABLES
    length,     \* answers kept so far
    answers,    \* the answer kept for each message
    heard       \* answers given out, as pairs of message and answer

logVars == <<length, answers, heard>>

LogInit == /\ length = 0
           /\ answers = [m \in Messages |-> Nothing]
           /\ heard = {}

Keep(m) ==
    /\ answers[m] = Nothing
    /\ answers'[m] # Nothing
    /\ answers'[m].revision = length + 1
    /\ length' = length + 1
    /\ answers' = [answers EXCEPT ![m] = answers'[m]]
    /\ UNCHANGED heard

Tell(m) ==
    /\ answers[m] # Nothing
    /\ heard' = heard \cup {<<m, answers[m]>>}
    /\ UNCHANGED <<length, answers>>

LogNext == \E m \in Messages : Keep(m) \/ Tell(m)

LogSpec == LogInit /\ [][LogNext]_logVars
=============================================================================
