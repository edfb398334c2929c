SPECIFICATION LedgerSpec
CONSTANTS
    Messages <- Talk
    Idle <- SmallTalk
    Hints = {"glassRoofPreference", "urbanManeuverability", "valueEconomy"}
    FieldHints = {"glassRoofPreference", "urbanManeuverability"}
    EquipmentHints = {"glassRoofPreference"}
    CostHint = "valueEconomy"
    HintOrder <- Order
    Unasked = {"urbanManeuverability"}
    Nothing = Nothing
    MaxTurns = 4
CHECK_DEADLOCK FALSE
INVARIANTS
    QuestionIsOpen
PROPERTIES
    FollowsTheBuyer
