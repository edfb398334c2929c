-------------------------- MODULE PreferenceLedger --------------------------
(***************************************************************************)
(* The preference ledger of a v3 car conversation: an append-only sequence *)
(* of events, and the hint whose confirmation is pending.  A turn reads    *)
(* preferences out of its message in a fixed order and appends; what       *)
(* decides is projected from the whole ledger each time.                   *)
(*                                                                         *)
(* What a message says is a record, see BuyerWishes.  The patterns that    *)
(* find it in the wording are left out, and so are the events that never   *)
(* decide (context, delegation, "not important"); of the one about goods   *)
(* to carry the model keeps whether it is there, because a denial reads    *)
(* it.  Events are told apart by the turn that wrote them instead of by an *)
(* id.                                                                     *)
(***************************************************************************)
EXTENDS Naturals, Sequences, FiniteSetsExt, SequencesExt

CONSTANTS
    Messages, Idle, Hints, FieldHints, EquipmentHints, CostHint, Nothing,
    HintOrder,      \* the hints in the order in which they are asked about
    Unasked,        \* hints that weakConfirmationQuestions has no text for
    MaxTurns        \* a conversation ends after 20 turns

ASSUME HintsAssumption ==
    /\ HintOrder \in Seq(Hints)
    /\ \A h \in Hints : \E i \in DOMAIN HintOrder : HintOrder[i] = h
    /\ EquipmentHints \subseteq FieldHints /\ FieldHints \subseteq Hints
    /\ CostHint \in Hints \ FieldHints
    /\ Unasked \subseteq Hints

ASSUME NothingIsNew ==
    Nothing \notin Nat \cup Hints /\ Nothing \notin [concept : Hints, turn : Nat]

VARIABLES
    message,    \* the message of the last turn
    ledger,     \* PreferenceEvents, oldest first
    pending,    \* pendingConfirmation: the hint's concept and turn, or Nothing
    budgetMode, \* "filter" for BUDGET_AS_DECISION_FILTER, else "needs"
    relaxBrand, \* pendingAction is RELAX_BRAND_FOR_POWERTRAIN
    cargo,      \* the ledger has an active cargoRequirement
    revision

ledgerVars == <<message, ledger, pending, budgetMode, relaxBrand, cargo, revision>>

(***************************************************************************)
(* Events.                                                                 *)
(***************************************************************************)
Event(w, strength) ==
    [concept |-> w.concept, value |-> w.value, use |-> w.use,
     strength |-> strength, status |-> "ACTIVE", turn |-> revision + 1]

Stated(w) == Event(w, "EXPLICIT_STRONG")
Wish(c, v, u) == [concept |-> c, value |-> v, use |-> u]
Weak(h) == Event(Wish(h, h, "QUESTION_INPUT"), "WEAK_SIGNAL")
UseOf(h) == IF h \in FieldHints THEN "HARD_FILTER" ELSE "SOFT_RANK"
ConfirmedHint(h) == Event(Wish(h, h, UseOf(h)), "CONFIRMED_STRONG")

IsEquipment(e) == e.concept = "equipmentFeature"
Budgets == {"budgetMax", "budgetTarget"}

\* What the code finds in a message: no statement is about a concept of the
\* weak signals, equipment and prices have fields of their own, three concepts
\* can be freed, four are recognised by the catalogue.
ASSUME HintsAreNotStated ==
    Hints \cap (Budgets \cup {"equipmentFeature", "primaryUsage", "operatingCostPriority",
                              "totalCostPriority", "bodyStyle", "fuelType", "transmission",
                              "brandPreference"}) = {}

ASSUME MessagesAssumption ==
    \A m \in Messages :
        /\ m.frees \subseteq {"bodyStyle", "fuelType", "transmission"}
        /\ IsFiniteSet(m.states) /\ IsFiniteSet(m.names)
        /\ IsFiniteSet(m.wants) /\ IsFiniteSet(m.drops)
        /\ \A w \in m.states \cup m.names :
              /\ w = Wish(w.concept, w.value, w.use)
              /\ w.use \in {"HARD_FILTER", "SOFT_RANK"}
              /\ w.concept \notin Hints \cup Budgets \cup {"equipmentFeature"}
        /\ \A v, w \in m.states : v.concept = w.concept => v = w
        /\ \A v, w \in m.names : v.concept = w.concept => v = w
        /\ \A w \in m.states :
              /\ w.concept = "primaryUsage" => w.use = "HARD_FILTER"
              /\ w.concept = "operatingCostPriority" =>
                    w = Wish("operatingCostPriority", "OPERATING_COST", "SOFT_RANK")
        /\ \A w \in m.names : w.concept \in {"brandPreference", "excludedBrand",
                                            "modelPreference", "excludedModel"}
        /\ m.budget.kind \in {"none", "exact", "raise", "drop"}
        /\ m.budget.amount \in Nat
        /\ m.hints \subseteq Hints

\* The last event that put one of the concepts, or this equipment, in force,
\* even if it was cleared since; 0 if there is none.
LastActive(l, concepts) ==
    SelectLastInSeq(l, LAMBDA e : e.concept \in concepts /\ e.status = "ACTIVE")
LastEquipment(l, v) ==
    SelectLastInSeq(l, LAMBDA e : IsEquipment(e) /\ e.status = "ACTIVE" /\ e.value = v)

\* A copy of event i that ends it.
End(l, i, status) ==
    Append(l, [l[i] EXCEPT !.status = status, !.use = "NONE", !.turn = revision + 1])

ClearAt(l, i) == IF i = 0 THEN l ELSE End(l, i, "CLEARED")
ClearActive(l, concept) == ClearAt(l, LastActive(l, {concept}))
ClearAll(l, concepts) == FoldSet(LAMBDA c, acc : ClearActive(acc, c), l, concepts)

SupersedeAt(l, i, e) == Append(IF i = 0 THEN l ELSE End(l, i, "SUPERSEDED"), e)

SupersedeActive(l, e) ==
    LET i == LastActive(l, {e.concept})
        again == i # 0 /\ l[i].turn = e.turn /\ l[i].value = e.value
    IN  IF again THEN l ELSE SupersedeAt(l, i, e)

StateAll(l, W) == FoldSet(LAMBDA w, acc : SupersedeActive(acc, Stated(w)), l, W)

(***************************************************************************)
(* What the ledger says.                                                   *)
(***************************************************************************)
\* Keys without the value, as latestActiveLedgerEvent has them.
SameConcept(d, e) == d.concept = e.concept

SameKey(d, e) == d.concept = e.concept /\ (IsEquipment(e) => d.value = e.value)

\* Events in force: no later event of their key but copies of superseded ones.
Terminal(l) ==
    {i \in DOMAIN l :
        /\ l[i].status = "ACTIVE"
        /\ \A j \in (i + 1)..Len(l) : SameKey(l[j], l[i]) => l[j].status = "SUPERSEDED"}

ActiveDecisionPreferences(l) ==
    {Wish(l[i].concept, l[i].value, l[i].use) : i \in
        {j \in Terminal(l) : /\ l[j].strength \in {"EXPLICIT_STRONG", "CONFIRMED_STRONG"}
                             /\ l[j].use \in {"HARD_FILTER", "SOFT_RANK"}}}

LatestActive(l, concept) == {i \in Terminal(l) : l[i].concept = concept}

ProjectDecision(l, md) ==
    {w \in ActiveDecisionPreferences(l) :
        w.concept \notin {"equipmentFeature"} \cup EquipmentHints \cup Budgets}
    \cup {Wish("budgetMax", l[i].value, "HARD_FILTER") :
              i \in {j \in LatestActive(l, "budgetMax") : md = "filter"}}

(***************************************************************************)
(* Hints and the question about one of them.                               *)
(***************************************************************************)
Source(l) ==
    SelectInSeq(l, LAMBDA e : /\ pending # Nothing /\ e.status = "ACTIVE"
                              /\ e.strength = "WEAK_SIGNAL"
                              /\ e.concept = pending.concept /\ e.turn = pending.turn)

IsConfirmed(l, h) ==
    \E i \in DOMAIN l : /\ l[i].concept = h
                        /\ l[i].status = "ACTIVE" /\ l[i].strength = "CONFIRMED_STRONG"

\* The question about event i, Nothing where there is none or it has no text.
PendingAt(l, i) ==
    IF i = 0 \/ l[i].concept \in Unasked THEN Nothing
    ELSE [concept |-> l[i].concept, turn |-> l[i].turn]

\* A search that looks for the next hint without looking for its confirmation.
NextWeakAgain(l, excluded) ==
    PendingAt(l, SelectInSeq(l, LAMBDA e : /\ e.status = "ACTIVE" /\ e.strength = "WEAK_SIGNAL"
                                           /\ e.concept # excluded))

\* The first hint that waits, whether or not it can be asked about.
NextWeakConfirmation(l, excluded) ==
    PendingAt(l, SelectInSeq(l, LAMBDA e : /\ e.status = "ACTIVE" /\ e.strength = "WEAK_SIGNAL"
                                           /\ e.concept # excluded
                                           /\ ~IsConfirmed(l, e.concept)))

Confirm(l) == IF Source(l) = 0 THEN l ELSE Append(l, ConfirmedHint(pending.concept))

\* Hints that are already in the ledger, or settled by m, are passed over.
IsNew(h, m, l, resolved) ==
    /\ h \in m.hints
    /\ resolved => h # CostHint
    /\ h \in EquipmentHints => m.wants \cup m.drops = {}
    /\ LastActive(l, {h}) = 0

\* The new hints are noticed in the order of their priority; the first one is
\* asked about, with a text that every hint has here.
Notice(m, l, resolved) ==
    FoldLeft(LAMBDA acc, h : IF IsNew(h, m, acc, resolved) THEN Append(acc, Weak(h)) ELSE acc,
             l, HintOrder)

AskFirst(m, l, resolved) ==
    LET i == SelectInSeq(HintOrder, LAMBDA h : IsNew(h, m, l, resolved))
    IN  IF i = 0 THEN Nothing ELSE [concept |-> HintOrder[i], turn |-> revision + 1]

(***************************************************************************)
(* The price.                                                              *)
(***************************************************************************)
\* Math.round of the amount raised by p per cent
Percent(amount, p) == (amount * (100 + p) + 50) \div 100

\* A raise starts from the last budget event, whatever became of it since.
\* Without one the percentage is the only number of the message.
Amount(l, budget) ==
    LET prior == LastActive(l, Budgets)
    IN  IF budget.kind = "raise" /\ prior # 0
        THEN Percent(l[prior].value, budget.amount) ELSE budget.amount

NamePrice(l, budget) ==
    LET amount == Amount(l, budget)
    IN  CASE budget.kind \in {"none", "drop"} -> l
          [] budget.kind \in {"exact", "raise"} /\ budget.soft ->
                 SupersedeActive(l, Stated(Wish("budgetTarget", amount, "SOFT_RANK")))
          [] OTHER -> SupersedeActive(l, Stated(Wish("budgetMax", amount, "HARD_FILTER")))

(***************************************************************************)
(* What else a turn recognises.                                            *)
(***************************************************************************)
\* Events that message m explains away: nobody spoke of carrying loads.
IsLoadInference(e) ==
    e.turn = revision + 1 /\ e.concept = "primaryUsage" /\ e.value = "COMMERCIAL"

MeantLoads ==
    cargo \/ \E i \in LatestActive(ledger, "primaryUsage") : ledger[i].value = "COMMERCIAL"

\* The message leaves a cargoRequirement that it does not explain away.
Carries(m) == m.carries /\ (m.disowns => MeantLoads)

WithoutRejectedLoadInference(l, m) ==
    IF ~m.disowns \/ MeantLoads THEN l
    ELSE FoldLeft(LAMBDA acc, e : IF IsLoadInference(e) THEN acc ELSE Append(acc, e), <<>>, l)

ApplyCatalogEntitySignals(l, m) == StateAll(l, m.names)

ApplySemanticPreferenceSignals(l, m) ==
    LET said == \E i \in LatestActive(l, "primaryUsage") : l[i].turn = revision + 1
    IN  IF m.usage = Nothing \/ said THEN l
        ELSE SupersedeActive(l, Stated(Wish("primaryUsage", m.usage, "HARD_FILTER")))

\* The order in which a turn collects preferences; l is the ledger that
\* applyPreferenceMessage returned.
Collected(l, m) ==
    WithoutRejectedLoadInference(
        ApplySemanticPreferenceSignals(
            ApplyCatalogEntitySignals(WithoutRejectedLoadInference(l, m), m), m), m)

\* The question whether to give up the brand when no vehicle meets brand and
\* fuel type.  It is dropped where a declined card or the end of all questions
\* makes the discovery of a recommendation the pending action.
AcceptsRelaxation(m) == relaxBrand /\ m.relaxes
AskToRelax(m, l) ==
    /\ relaxBrand' \in BOOLEAN
    /\ relaxBrand' =>
          /\ ~AcceptsRelaxation(m)
          /\ \/ relaxBrand
             \/ LatestActive(l, "brandPreference") # {} /\ LatestActive(l, "fuelType") # {}

\* The rest of a turn.
EndTurn(m, l) ==
    /\ message' = m
    /\ ledger' = l
    /\ revision' = revision + 1
    /\ budgetMode' = IF m.mode = "same" THEN budgetMode ELSE m.mode
    /\ AskToRelax(m, l)

(***************************************************************************)
(* Turns, by the exit that applyPreferenceMessage takes.                   *)
(***************************************************************************)
Loosened(m) == ClearAll(ledger, m.frees)

RelaxBrand(m) ==
    /\ AcceptsRelaxation(m)
    /\ EndTurn(m, Collected(ClearActive(Loosened(m), "brandPreference"), m))
    /\ UNCHANGED <<pending, cargo>>

Answers(m, replies) == ~AcceptsRelaxation(m) /\ pending # Nothing /\ m.answer \in replies

ConfirmPending(m) ==
    /\ Answers(m, {"yes"})
    /\ LET l == Confirm(Loosened(m))
       IN  /\ EndTurn(m, Collected(l, m))
           /\ pending' = NextWeakConfirmation(l, pending.concept)
    /\ UNCHANGED cargo

RejectPending(m) ==
    /\ Answers(m, {"no"})
    /\ LET i == Source(Loosened(m))
           l == IF i = 0 THEN Loosened(m) ELSE End(Loosened(m), i, "REJECTED")
       IN  EndTurn(m, Collected(l, m))
    /\ pending' = Nothing
    /\ UNCHANGED cargo

OnCosts(m, replies) == Answers(m, replies) /\ pending.concept = CostHint
TotalCost == Wish("totalCostPriority", "TOTAL_COST", "SOFT_RANK")
OperatingCost == Wish("operatingCostPriority", "OPERATING_COST", "SOFT_RANK")

\* "Both", or the choice is left to the advisor.
SettleCosts(m) ==
    /\ OnCosts(m, {"both", "advise"})
    /\ LET strength == IF m.answer = "both" THEN "CONFIRMED_STRONG" ELSE "EXPLICIT_STRONG"
       IN  EndTurn(m, Collected(SupersedeActive(Loosened(m), Event(TotalCost, strength)), m))
    /\ pending' = Nothing
    /\ UNCHANGED cargo

DropEquipment(l, m) == FoldSet(LAMBDA v, acc : ClearAt(acc, LastEquipment(acc, v)), l, m.drops)
WantEquipment(l, m) ==
    FoldSet(LAMBDA v, acc :
                SupersedeAt(acc, LastEquipment(acc, v),
                            Stated(Wish("equipmentFeature", v, "HARD_FILTER"))),
            l, m.wants)

\* The statements of a message, in the order of the code.
Statements(m, resolved) ==
    LET costs  == IF resolved
                  THEN SupersedeActive(Loosened(m), Event(OperatingCost, "CONFIRMED_STRONG"))
                  ELSE Loosened(m)
        freed  == ClearAll(costs, IF m.budget.kind = "drop" THEN Budgets ELSE {})
        stated == StateAll(freed, m.states)
    IN  NamePrice(WantEquipment(DropEquipment(stated, m), m), m.budget)

Listen(m) ==
    LET resolved == OnCosts(m, {"running"})
        open     == pending # Nothing /\ ~resolved
        said     == Statements(m, resolved)
        repeated == open /\ pending.concept \in m.hints /\ Source(said) # 0
        settled  == IF repeated THEN Confirm(said) ELSE said
        still    == open /\ ~repeated
        noticed  == IF still THEN settled ELSE Notice(m, settled, resolved)
    IN  /\ ~AcceptsRelaxation(m) /\ ~Answers(m, {"yes", "no"}) /\ ~OnCosts(m, {"both", "advise"})
        /\ EndTurn(m, Collected(noticed, m))
        /\ pending' = IF still THEN pending ELSE AskFirst(m, settled, resolved)
        /\ cargo' = (cargo \/ Carries(m))

\* The router does not let the message change preferences.
Chat(m) ==
    /\ EndTurn(m, ledger)
    /\ UNCHANGED <<pending, cargo>>

LedgerInit ==
    /\ message = Nothing
    /\ ledger = <<>> /\ pending = Nothing
    /\ budgetMode = "needs" /\ relaxBrand = FALSE /\ cargo = FALSE
    /\ revision = 0

LedgerNext ==
    /\ revision < MaxTurns
    /\ \/ \E m \in Messages :
            RelaxBrand(m) \/ ConfirmPending(m) \/ RejectPending(m) \/ SettleCosts(m) \/ Listen(m)
       \/ \E m \in Idle : Chat(m)

LedgerSpec == LedgerInit /\ [][LedgerNext]_ledgerVars

(***************************************************************************)
(* Properties.                                                             *)
(***************************************************************************)
\* The ledger read as the wishes, hints and prices of its buyer.
Wishes == INSTANCE BuyerWishes WITH
    None <- Nothing,
    wishes <- ActiveDecisionPreferences(ledger),
    criteria <- ProjectDecision(ledger, budgetMode),
    hinted <- {h \in Hints : LastActive(ledger, {h}) # 0},
    question <- IF pending = Nothing THEN Nothing ELSE pending.concept,
    figure <- IF LastActive(ledger, Budgets) = 0 THEN Nothing
              ELSE ledger[LastActive(ledger, Budgets)].value,
    mode <- budgetMode,
    relaxing <- relaxBrand,
    loads <- cargo

\* The log with its superseding, clearing and rejecting copies says at every
\* turn what the buyer wishes, and no more: equipment adds up and is taken
\* back piece by piece, everything else is replaced, a hint waits for its
\* yes, a denied use leaves the one before it in force.
FollowsTheBuyer == Wishes!Spec

\* The open question is about a hint that is in the ledger and that nobody
\* has agreed to, so that a yes always has something to confirm and no one is
\* asked what they already confirmed.
QuestionIsOpen ==
    pending # Nothing => Source(ledger) # 0 /\ ~IsConfirmed(ledger, pending.concept)

=============================================================================
