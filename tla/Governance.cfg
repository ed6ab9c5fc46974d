SPECIFICATION Spec
CONSTANTS
    t1 = t1
    t2 = t2
    TaskLimit <- MCTaskLimit
    Start = 0
    ClockSteps <- MCClockSteps
    T <- MCThresholds
    ClearStreak = 1
    U32 = 1000
    Never = Never
    Tasks = {t1, t2}
    Domains = {d}
    Hours = {0, 25}
    Recorded = {"hard", "failure", "clean"}
    RecordLimit = 3
    MaxVersion = 7
    None = None
INVARIANTS TypeOK DecisionsFollowDiagram PromotionsAreClean FactForEveryPhase
