SPECIFICATION Spec
CONSTANTS
    Instances = {i1}
    Forms = {f1}
    Handoffs = {h1}
    Phones = {p1, p2}
    Challenges = {c1}
    None = None
    MaxAttempts = 2
    MaxInFlight = 2
    Faults = {"loss"}
SYMMETRY Symmetry
CHECK_DEADLOCK FALSE
INVARIANT RepeatIsRecognized
