SPECIFICATION Spec
CONSTANTS
    Instances = {i1, i2}
    Messages = {m1, m2}
    Requests = {r1, r2, r3}
    None = None
    MaxTurns = 2
    HistoryLength = 2
    Faults = {"redis", "crash", "slow"}
SYMMETRY Symmetry
CHECK_DEADLOCK FALSE
INVARIANTS
    LiveLeaseExcludes
    SameAnswer
    BudgetIsKept
    TurnsAreSpentOnce
    HistoryInOrder
