CONSTANTS
    Proc = {"p", "q"}
    InitProc = "p"
    Names = {"a", "b"}
    NInodes = 4
    NINODE = 3
    NFILE = 3
    NOFILE = 2
    MaxTxn = 2
    Starts <- MCStarts
    Calls <- MCFewCalls
    MaxCalls = 2
SPECIFICATION Spec
CHECK_DEADLOCK FALSE
PROPERTY CallsReturn
