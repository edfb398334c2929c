------------------------- MODULE MCPreferenceLedger -------------------------
(***************************************************************************)
(* Messages for PreferenceLedger: one of every kind, and those that mix    *)
(* kinds in a way whose order matters.                                     *)
(***************************************************************************)
EXTENDS PreferenceLedger

Order == <<"urbanManeuverability", "glassRoofPreference", "valueEconomy">>

Silent == [answer |-> "none", frees |-> {}, states |-> {}, names |-> {}, usage |-> Nothing,
           carries |-> FALSE, disowns |-> FALSE, relaxes |-> FALSE, wants |-> {}, drops |-> {},
           budget |-> [kind |-> "none", amount |-> 0, soft |-> FALSE],
           hints |-> {}, mode |-> "same"]

Body(v) == Wish("bodyStyle", v, "HARD_FILTER")
Brand(v, use) == Wish("brandPreference", v, use)
Use(v) == Wish("primaryUsage", v, "HARD_FILTER")
Price(kind, amount) == [kind |-> kind, amount |-> amount, soft |-> FALSE]
Estimate(kind, amount) == [kind |-> kind, amount |-> amount, soft |-> TRUE]

\* "Evet" is heard by both questions, "uygun" by the one about a hint only,
\* "baska marka" by the one about the brand only.
Suits == [Silent EXCEPT !.answer = "yes"]
Yes == [Suits EXCEPT !.relaxes = TRUE]

Talk ==
    {Silent, Yes,
     \* body, fuel and brand
     [Silent EXCEPT !.states = {Body("SUV")}],
     [Silent EXCEPT !.frees = {"bodyStyle"}],
     [Silent EXCEPT !.frees = {"bodyStyle"}, !.states = {Body("SEDAN")}],
     [Silent EXCEPT !.states = {Wish("fuelType", "BEV", "HARD_FILTER")},
                    !.names = {Brand("A", "HARD_FILTER")}],
     [Silent EXCEPT !.states = {Brand("B", "HARD_FILTER")}, !.names = {Brand("B", "SOFT_RANK")}],
     [Suits EXCEPT !.states = {Body("SUV")}, !.names = {Brand("B", "SOFT_RANK")}],
     [Silent EXCEPT !.relaxes = TRUE],
     \* use
     [Silent EXCEPT !.states = {Use("COMMERCIAL")}, !.usage = "FAMILY", !.disowns = TRUE],
     [Silent EXCEPT !.states = {Use("FAMILY")}, !.usage = "COMMERCIAL"],
     [Silent EXCEPT !.usage = "COMMERCIAL"],
     [Silent EXCEPT !.carries = TRUE],
     \* equipment
     [Silent EXCEPT !.wants = {"CAMERA", "ISOFIX"}],
     [Silent EXCEPT !.drops = {"CAMERA"}],
     [Silent EXCEPT !.wants = {"CAMERA"}, !.hints = {"glassRoofPreference"}],
     \* price
     [Silent EXCEPT !.budget = Price("exact", 10)],
     [Silent EXCEPT !.budget = Estimate("exact", 6), !.mode = "filter"],
     [Silent EXCEPT !.budget = Price("raise", 50)],
     [Silent EXCEPT !.budget = Estimate("raise", 20)],
     [Silent EXCEPT !.budget = Price("drop", 0)],
     [Silent EXCEPT !.mode = "needs"],
     \* hints and answers
     [Silent EXCEPT !.hints = Hints],
     [Silent EXCEPT !.hints = {"valueEconomy"}],
     [Silent EXCEPT !.hints = {"glassRoofPreference", "valueEconomy"}, !.frees = {"bodyStyle"}],
     [Silent EXCEPT !.answer = "no"],
     [Silent EXCEPT !.answer = "both"],
     [Silent EXCEPT !.answer = "advise"],
     [Silent EXCEPT !.answer = "running",
                    !.states = {Wish("operatingCostPriority", "OPERATING_COST", "SOFT_RANK")},
                    !.hints = Hints]}

SmallTalk == {Silent, Yes, [Silent EXCEPT !.mode = "filter"]}

=============================================================================
