SPECIFICATION FairSpec
CONSTANTS
    Quotes = {q1}
    Orders = {o1, o2}
    Callbacks = {c1, c2, c3}
    None = None
    Faults = TRUE
CHECK_DEADLOCK FALSE
INVARIANTS
    MoneyIsRecorded
    RowsAgree
    CookieOpensReport
PROPERTIES
    OutcomeIsFinal
    ChargeIsSettled
    PaidGetsAccess
