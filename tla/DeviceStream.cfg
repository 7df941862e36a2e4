\* Drivers of all kinds; in half of the behaviours poll() and read() fail and
\* connections end.
CONSTANTS
    MaxCmds = 3
    MaxLen = 3
    Timeouts = {"block", "poll"}
    Faults = {"poll", "eof"}
    MayAskAgain = TRUE
    MayFinalize = TRUE
SPECIFICATION FairSpec
INVARIANT StreamInv
PROPERTIES Answered ImplementsContract
