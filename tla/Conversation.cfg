SPECIFICATION Spec
CONSTANTS
    Instances = {i1, i2}
    Messages = {m1, m2, m3}
    Requests = {r1, r2, r3}
    Offers = {o1, o2}
    None = None
    Metric = Metric
    Faults = {"restart", "redis"}
SYMMETRY Symmetry
CONSTRAINT Bounds
CHECK_DEADLOCK FALSE
INVARIANTS
    AppliedOnce
    CardsAreRevealed
    RevealIsConsented
    AnswersWhatWasSeen
    CardMatchesConsent
PROPERTIES
    RefusalMeansLoss
