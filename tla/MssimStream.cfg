\* Both kinds of timeout, poll errors, lost connections, cancel; in half of the
\* behaviours platform faults, and a client that finalizes the context.
CONSTANTS
    MaxCmds = 3
    BodyLen = 2
    Timeouts = {"block", "poll"}
    PollFaults = TRUE
    ConnLoss = TRUE
    PlatformFaults = TRUE
    MayCancel = TRUE
    MayFinalize = TRUE
SPECIFICATION FairSpec
INVARIANT StreamInv
PROPERTIES ImplementsContract Answered
CHECK_DEADLOCK FALSE
