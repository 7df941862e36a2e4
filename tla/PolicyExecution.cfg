\* Every element, with up to two failures and two waits; the object is authorized twice.
CONSTANTS
    Policies <- AllPolicies
    Lists <- AllLists
    MaxFaults = 2
    MaxWaits = 2
    MaxRuns = 2
SPECIFICATION Spec
CHECK_DEADLOCK FALSE
INVARIANTS StackInv DigestsAgree CanBeExecuted TpmLeftClean NoCrash CpHashInClear
