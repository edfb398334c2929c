---------------------------- MODULE BuyerWishes ----------------------------
(***************************************************************************)
(* What a car buyer may expect of a conversation that keeps its book of    *)
(* wishes in an append-only log: the wishes that decide are the ones said  *)
(* last and not taken back, a hint decides only after the buyer agreed to  *)
(* the question about it or repeated it, and a price limits the choice     *)
(* only while the buyer wants it to.                                       *)
(*                                                                         *)
(* A message is a record of what it says:                                  *)
(*   answer    what it replies to an open question: "yes", "no" or, about  *)
(*             the costs, "both", "advise" or "running"; "none" otherwise  *)
(*   frees     concepts that it says no longer matter                      *)
(*   states    wishes it states, at most one per concept                   *)
(*   names     catalogued brands and models it wishes for or excludes      *)
(*   usage     the use a language model reads in it, or None               *)
(*   carries   TRUE if it speaks of goods to carry                         *)
(*   disowns   TRUE if it denies that loads were ever mentioned            *)
(*   relaxes   TRUE if it can be read as giving up a brand                 *)
(*   wants     equipment it asks for                                       *)
(*   drops     equipment it does without                                   *)
(*   budget    [kind : "none", "exact", "raise" or "drop", amount, and     *)
(*              soft : TRUE if the price is only an estimate]              *)
(*   hints     what it hints at without stating it                         *)
(*   mode      "filter" or "needs" where it says what the budget is for    *)
(***************************************************************************)
EXTENDS Naturals, FiniteSets

CONSTANTS
    Messages,
    Idle,           \* messages that a turn may take no preference from
    Hints,          \* concepts that decide only after they are confirmed
    FieldHints,     \* those about a field of the catalogue
    EquipmentHints, \* those about equipment
    CostHint,       \* the hint whose question has answers of its own
    Unasked,        \* hints that are asked about at once or not at all
    None

VARIABLES
    message,    \* the message of the last turn
    wishes,     \* what decides: records [concept, value, use]
    criteria,   \* what the catalogue is filtered and ranked by
    hinted,     \* the hints that were noticed
    question,   \* the hint that the open question is about
    figure,     \* the last price that was named
    mode,       \* "filter" while the budget filters
    relaxing,   \* TRUE while the buyer is asked to give up the brand
    loads       \* TRUE once the buyer spoke of goods to carry

vars == <<message, wishes, criteria, hinted, question, figure, mode, relaxing, loads>>

Wish(c, v, u) == [concept |-> c, value |-> v, use |-> u]
About(W, c) == {w \in W : w.concept = c}
Without(W, concepts) == {w \in W : w.concept \notin concepts}

\* A wish replaces the one it competes with: equipment adds up.
Compete(v, w) ==
    v.concept = w.concept /\ (v.concept = "equipmentFeature" => v.value = w.value)
Replace(W, new) == {w \in W : \A v \in new : ~Compete(w, v)} \cup new

Budgets == {"budgetMax", "budgetTarget"}

\* Equipment is judged elsewhere, an estimate never filters.
CriteriaOf(W, md) ==
    Without(W, {"equipmentFeature"} \cup EquipmentHints \cup Budgets)
        \cup {w \in About(W, "budgetMax") : md = "filter"}

Confirmed(h) ==
    {Wish(h, h, IF h \in FieldHints THEN "HARD_FILTER" ELSE "SOFT_RANK")}

CostWish(answer) ==
    CASE answer = "running" -> {Wish("operatingCostPriority", "OPERATING_COST", "SOFT_RANK")}
      [] answer \in {"both", "advise"} -> {Wish("totalCostPriority", "TOTAL_COST", "SOFT_RANK")}
      [] OTHER -> {}

Percent(amount, p) == (amount * (100 + p) + 50) \div 100

\* The price a message names; a raise is a raise of the last price named,
\* and without one its percentage is taken for the price.
NewFigure(b) ==
    CASE b.kind \in {"none", "drop"} -> None
      [] b.kind = "raise" /\ figure # None -> Percent(figure, b.amount)
      [] OTHER -> b.amount

PriceWish(b) ==
    IF NewFigure(b) = None THEN {}
    ELSE IF b.soft THEN {Wish("budgetTarget", NewFigure(b), "SOFT_RANK")}
    ELSE {Wish("budgetMax", NewFigure(b), "HARD_FILTER")}

CommercialUse == Wish("primaryUsage", "COMMERCIAL", "HARD_FILTER")

\* A use nobody meant is not taken from the message that denies it.
MeantLoads == loads \/ CommercialUse \in wishes
Meant(m, W) == IF m.disowns /\ ~MeantLoads THEN W \ {CommercialUse} ELSE W

\* What is recognised besides the wording counts where the wording, heard,
\* did not settle the matter.
Recognised(m, heard) ==
    {n \in m.names : \A w \in heard : w.concept = n.concept => w.value # n.value}
        \cup {w \in Meant(m, {Wish("primaryUsage", m.usage, "HARD_FILTER")}) :
                  m.usage # None /\ About(heard, "primaryUsage") = {}}

\* The buyer is asked to give up the brand only where brand and fuel type
\* were both wished for, and no longer once they did.
ToBrand(m) == relaxing /\ m.relaxes
MayStillAsk(m, W) ==
    /\ relaxing' \in BOOLEAN
    /\ relaxing' =>
          /\ ~ToBrand(m)
          /\ \/ relaxing
             \/ About(W, "brandPreference") # {} /\ About(W, "fuelType") # {}

\* The end of every turn: W are the wishes after the wording of m was taken
\* in, of which heard were stated.
Decide(m, W, heard) ==
    /\ message' = m
    /\ mode' = IF m.mode = "same" THEN mode ELSE m.mode
    /\ wishes' = Replace(Replace(W, heard), Recognised(m, heard))
    /\ criteria' = CriteriaOf(wishes', mode')
    /\ MayStillAsk(m, wishes')

Init ==
    /\ message = None
    /\ wishes = {} /\ criteria = {} /\ hinted = {} /\ question = None
    /\ figure = None /\ mode = "needs" /\ relaxing = FALSE /\ loads = FALSE

Freed(m) == Without(wishes, m.frees)
ToQuestion(m, answers) == ~ToBrand(m) /\ question # None /\ m.answer \in answers

\* The buyer gives up the brand.
GiveUpBrand(m) ==
    /\ ToBrand(m)
    /\ Decide(m, Without(Freed(m), {"brandPreference"}), {})
    /\ UNCHANGED <<hinted, question, figure, loads>>

\* Hints that were noticed and never agreed to.
Waiting == {h \in hinted : About(wishes, h) = {}}

\* The buyer agrees, and another hint that waits is asked about; one that
\* cannot be asked about may stand in the way of the others.
Agree(m) ==
    /\ ToQuestion(m, {"yes"})
    /\ Decide(m, Replace(Freed(m), Confirmed(question)), {})
    /\ LET others == Waiting \ {question}
       IN  question' \in IF others = {} THEN {None}
                         ELSE {IF h \in Unasked THEN None ELSE h : h \in others}
    /\ UNCHANGED <<hinted, figure, loads>>

Refuse(m) ==
    /\ ToQuestion(m, {"no"})
    /\ Decide(m, Freed(m), {})
    /\ question' = None
    /\ UNCHANGED <<hinted, figure, loads>>

\* The buyer weighs the costs, or leaves that to the advisor.
WeighCosts(m) ==
    /\ question = CostHint /\ ToQuestion(m, {"both", "advise"})
    /\ Decide(m, Replace(Freed(m), CostWish(m.answer)), {})
    /\ question' = None
    /\ UNCHANGED <<hinted, figure, loads>>

\* Anything else: every statement counts, and so does a hint that repeats
\* the open question.  Other hints are noticed while no question is open.
Say(m) ==
    LET running  == question = CostHint /\ m.answer = "running"
        repeated == question # None /\ ~running /\ question \in m.hints
        still    == question # None /\ ~running /\ ~repeated
        new      == {h \in m.hints \ hinted :
                        /\ running => h # CostHint
                        /\ h \in EquipmentHints => m.wants \cup m.drops = {}}
        kept     == Without(Freed(m), IF m.budget.kind = "drop" THEN Budgets ELSE {})
                        \ {w \in wishes : w.concept = "equipmentFeature" /\ w.value \in m.drops}
        heard    == Meant(m, m.states) \cup PriceWish(m.budget)
                        \cup {Wish("equipmentFeature", v, "HARD_FILTER") : v \in m.wants}
                        \cup (IF running THEN CostWish("running") ELSE {})
    IN  /\ ~ToBrand(m)
        /\ ~ToQuestion(m, {"yes", "no"})
        /\ question = CostHint => ~ToQuestion(m, {"both", "advise"})
        /\ Decide(m, IF repeated THEN Replace(kept, Confirmed(question)) ELSE kept, heard)
        /\ hinted' = IF still THEN hinted ELSE hinted \cup new
        /\ question' \in IF still THEN {question} ELSE IF new = {} THEN {None} ELSE new
        /\ figure' = IF NewFigure(m.budget) = None THEN figure ELSE NewFigure(m.budget)
        /\ loads' = (loads \/ (m.carries /\ (m.disowns => MeantLoads)))

\* A message that no preference may be taken from.
Chat(m) ==
    /\ message' = m
    /\ mode' = IF m.mode = "same" THEN mode ELSE m.mode
    /\ criteria' = CriteriaOf(wishes, mode')
    /\ MayStillAsk(m, wishes)
    /\ UNCHANGED <<wishes, hinted, question, figure, loads>>

Turn(m) == GiveUpBrand(m) \/ Agree(m) \/ Refuse(m) \/ WeighCosts(m) \/ Say(m)

Next == (\E m \in Messages : Turn(m)) \/ (\E m \in Idle : Chat(m))

Spec == Init /\ [][Next]_vars
=============================================================================
