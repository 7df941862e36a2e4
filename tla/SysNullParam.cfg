CONSTANTS
    Commands = {"Create", "Load", "Startup"}
    Layout <- MCLayout
    MaxCmdSize = 12
    MaxAuths = 2
    ParamSizes = {1, 2, 3}
    NullParams = TRUE
    MaxPrepares = 2
    Malformed = {}
SPECIFICATION Spec
INVARIANT CpBufferIsParameters
