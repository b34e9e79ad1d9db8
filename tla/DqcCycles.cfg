SPECIFICATION Spec
CONSTANTS
    c1 = c1
    c2 = c2
    c3 = c3
    Assets = {1, 2}
    Cycles = {c1, c2, c3}
    Scope <- MCScope
    Dims = {"timeliness", "uniqueness"}
    LightDims = {"timeliness"}
    AllDims = 6
    Truths <- MCTruths
    MaxFaults = 1
INVARIANT TypeOK
INVARIANT OneCyclePerKey
INVARIANT ChangesAreAnnounced
INVARIANT ReportIsExact
INVARIANT NothingForgotten
INVARIANT ForksNeedTwoKeys
PROPERTY KeysAreFreed
CHECK_DEADLOCK FALSE
