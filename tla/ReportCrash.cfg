SPECIFICATION FairSpec
CONSTANTS
    Orders = {o1}
    HasEmail = {o1}
    Workers = {w1}
    Times = {1}
    None = None
    Faults = {"crash"}
CHECK_DEADLOCK FALSE
PROPERTIES QueuedIsSettled
