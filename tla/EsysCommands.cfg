CONSTANTS
    ESYS_MAX_SUBMISSIONS = 5
    MaxCmds = 3
    AppWaits = TRUE
    Faults = {"local", "io", "memory", "malformed"}
SPECIFICATION FairSpec
INVARIANTS TypeOK Resubmissions InitMeansIdle EncryptedAsRequested
PROPERTIES ImplementsAbstract OneCallReturns
