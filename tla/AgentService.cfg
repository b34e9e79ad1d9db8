SPECIFICATION ServiceSpec
CONSTANTS
    MaxSteps = 4
    MaxToolRetries = 1
    PreflightSteps = 2
    MaxToolCalls = 4
    RepairBudget = 1
    ThinFallback = TRUE
INVARIANT RunAndStreamAgree
INVARIANT BlockedStaysBlocked
INVARIANT CallsAreBounded
PROPERTY KeepsPromise
PROPERTY KeepsContract
PROPERTY QuestionEnds
CHECK_DEADLOCK FALSE
