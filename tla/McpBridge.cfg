SPECIFICATION Spec
CONSTANTS
    Calls = {c1, c2}
    Queries = {c1}
    PipeSize = 1
    MaxAttempts = 2
    MaxFaults = 1
INVARIANT GatewayIsSound
INVARIANT RunsAreExplained
INVARIANT LoneCallRecovers
PROPERTY KeepsPromise
PROPERTY CallsReturn
CHECK_DEADLOCK FALSE
