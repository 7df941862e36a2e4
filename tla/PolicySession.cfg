\* One policy command and one TRY_AGAIN.
CONSTANTS
    Policies <- OnePolicy
    Lists <- OneList
    MaxFaults = 0
    MaxWaits = 1
    MaxRuns = 1
SPECIFICATION Spec
CHECK_DEADLOCK FALSE
INVARIANTS SessionAwaited
