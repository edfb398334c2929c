SPECIFICATION Spec
CONSTANTS
    Instances = {i1}
    Messages = {m1, m2, m3}
    Requests = {r1, r2, r3}
    Offers = {o1}
    None = None
    Metric = Metric
    Faults = {}
SYMMETRY Symmetry
CHECK_DEADLOCK FALSE
PROPERTIES TurnsAreKept
