SPECIFICATION MCSpec
CONSTANTS
    MaxRequests = 4
    MaxRacing = 3
    InFlight = 2
    Faults = TRUE
    Keys = {k1}
    Decisions = {d0, d1}
    FirstDecision = d0
    Conflicted = {d1}
    None = None
INVARIANTS
    AnswerMeetsItsQuestion
    OfferTableAgrees
    RefusesOnlyGaps
PROPERTIES
    KeepsTurnLog
    RevealIsCurrent
CHECK_DEADLOCK FALSE
