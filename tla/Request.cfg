SPECIFICATION Spec
CONSTANTS
    Instances = {i1, i2}
    Forms = {f1}
    Handoffs = {h1}
    Phones = {p1, p2}
    Challenges = {c1, c2}
    None = None
    MaxAttempts = 2
    MaxInFlight = 2
    Faults = {"loss", "expiry", "refusal", "restart"}
SYMMETRY Symmetry
CHECK_DEADLOCK FALSE
INVARIANTS
    StoredPhoneWasVerified
PROPERTY ExhaustedStaysOpen
