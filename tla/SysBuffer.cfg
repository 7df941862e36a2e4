CONSTANTS
    Commands = {"Create", "Load", "Startup"}
    Layout <- MCLayout
    MaxCmdSize = 9
    MaxAuths = 2
    ParamSizes = {1, 2, 3}
    NullParams = FALSE
    MaxPrepares = 2
    Malformed = {"short", "long", "tag", "header"}
SPECIFICATION Spec
INVARIANTS TypeOK TransmitsEncoding CpBufferIsParameters ReadsResponse
