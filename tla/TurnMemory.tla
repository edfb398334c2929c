----------------------------- MODULE TurnMemory -----------------------------
(***************************************************************************)
(* The memory of a v2 car conversation: a fold over the conversation's     *)
(* events that may refuse an event.  A refused event refuses the whole     *)
(* turn; the caller gets None in place of a memory.                        *)
(*                                                                         *)
(* Kept of a memory is what decides whether an event is accepted: the turn *)
(* number, the decision (the fingerprint of constraints, budget, persona,  *)
(* rejections and model references), the current offer with its lifecycle, *)
(* the level of abuse, the history of material questions and whether a     *)
(* constraint is on record that a later correction may name.  Events that  *)
(* touch none of these (vehicle intent, social, off-topic, direct answers, *)
(* the two audit events) move only the turn number and are left out.       *)
(***************************************************************************)
EXTENDS Naturals, Sequences, SequencesExt

CONSTANTS
    Keys,           \* semantic keys of the questions the generator may offer
    Decisions,      \* decision fingerprints of the conversation
    FirstDecision,  \* the fingerprint of an empty memory
    Conflicted,     \* decisions whose hard constraints no vehicle satisfies
    None

ASSUME DecisionsAssumption ==
    FirstDecision \in Decisions /\ Conflicted \subseteq Decisions

\* Conflict keys begin with "technicalConflict.", those of the generator never do.
ASSUME KeysApart == Keys \cap Conflicted = {}

\* The key of the conflict question is spelled from the conflicting field and
\* value, so here the conflicted decision itself serves as the key.
Questions == Keys \cup Conflicted

OfferState == {"CREATED", "CONSENTED", "REVEALED", "REVOKED"}
AnswerStatus == {"OPEN", "ANSWERED", "DECLINED", "DEFERRED", "SUPERSEDED"}

\* Levels of abuse: 0 NONE, 1 BOUNDARY_SET, 2 WARNED, 3 ENDED.
AbuseEnded == 3

\* Offers are named by the number of the message that made them.
Memory ==
    [turn : Nat, decision : Decisions, abuse : 0..AbuseEnded, constrained : BOOLEAN,
     offer : [id : Nat, life : OfferState] \cup {None},
     history : Seq([key : Questions, status : AnswerStatus, asked : Nat, answered : Nat])]

ASSUME NoneIsNoValue ==
    /\ None \notin Questions \cup Decisions \cup AnswerStatus \cup OfferState
    /\ None \notin Nat
    /\ None \notin Memory
    /\ None \notin [id : Nat, life : OfferState]

EmptyMemory == [turn |-> 0, decision |-> FirstDecision, abuse |-> 0,
                constrained |-> FALSE, offer |-> None, history |-> <<>>]

(***************************************************************************)
(* Questions in memory.                                                    *)
(***************************************************************************)
LastOf(history, k) == SelectLastInSeq(history, LAMBDA q : q.key = k)

StatusOf(memory, k) ==
    LET i == LastOf(memory.history, k)
    IN  IF i = 0 THEN None ELSE memory.history[i].status

OpenQuestion(memory) ==
    LET i == SelectLastInSeq(memory.history, LAMBDA q : q.status = "OPEN")
    IN  IF i = 0 THEN None ELSE memory.history[i].key

MayBeAsked(memory, k, turn) ==
    LET i == LastOf(memory.history, k)
    IN  i # 0 =>
          /\ memory.history[i].status \notin {"ANSWERED", "DECLINED"}
          /\ memory.history[i].status = "DEFERRED" =>
                turn > memory.history[i].asked + 1

(***************************************************************************)
(* The events, one operator each: the memory after the event, or None.  A  *)
(* change of the decision takes the current offer with it even when the    *)
(* new fingerprint equals the old one, and whatever state it was in.  The  *)
(* two operators before Decide are plausible slips in it.                  *)
(***************************************************************************)
DecideKeepingOffer(memory, d) == [memory EXCEPT !.decision = d]

DecideUnlessSame(memory, d) ==
    [memory EXCEPT !.decision = d,
                   !.offer = IF @ = None \/ memory.decision = d THEN @
                             ELSE [@ EXCEPT !.life = "REVOKED"]]

Decide(memory, d) ==
    [memory EXCEPT !.decision = d,
                   !.offer = IF @ = None THEN None ELSE [@ EXCEPT !.life = "REVOKED"]]

\* A constraint that stands is put on record.  Refused are a correction that names
\* another field's constraint ("misnamed") and a model reference larger than the
\* schema of events allows ("oversized").
Record(memory, addition) ==
    IF addition = "constraint" THEN [memory EXCEPT !.constrained = TRUE] ELSE None

MakeOffer(memory, o) == [memory EXCEPT !.offer = [id |-> o, life |-> "CREATED"]]

NextOfferStates(life) ==
    CASE life = "CREATED"   -> {"CONSENTED", "REVOKED"}
      [] life = "CONSENTED" -> {"REVEALED", "REVOKED"}
      [] OTHER              -> {}

MoveOffer(memory, o, life) ==
    IF /\ memory.offer # None
       /\ memory.offer.id = o
       /\ life \in NextOfferStates(memory.offer.life)
    THEN [memory EXCEPT !.offer = [id |-> o, life |-> life]]
    ELSE None

Settle(memory, k, status) ==
    LET i == LastOf(memory.history, k)
    IN  IF i # 0 /\ memory.history[i].status \in {"OPEN", "DEFERRED"}
        THEN [memory EXCEPT !.history[i].status = status,
                            !.history[i].answered = memory.turn]
        ELSE None

Ask(memory, k) ==
    IF MayBeAsked(memory, k, memory.turn)
    THEN [memory EXCEPT !.history =
            Append(@, [key |-> k, status |-> "OPEN",
                       asked |-> memory.turn, answered |-> 0])]
    ELSE None

Insult(memory, level) ==
    IF level = memory.abuse + 1 THEN [memory EXCEPT !.abuse = level] ELSE None
=============================================================================
