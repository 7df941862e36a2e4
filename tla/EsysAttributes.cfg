CONSTANTS
    ESYS_MAX_SUBMISSIONS = 5
    MaxCmds = 3
    AppWaits = TRUE
    Faults = {}
SPECIFICATION Spec
INVARIANT AttributesRestored
