SPECIFICATION FairSpec
CONSTANTS
    Orders = {o1, o2}
    HasEmail = {o1}
    Workers = {w1, w2}
    Times = {1, 2}
    None = None
    Faults = {"crash", "database"}
CHECK_DEADLOCK FALSE
INVARIANTS
    ReportIsWhole
    RefundIsEarned
PROPERTIES
    ClaimOnlyFree
    JobEndsOrIsStuck
