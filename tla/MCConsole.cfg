CONSTANTS
    Cpu = {"c0", "c1"}
    BootCpu = "c0"
    Proc = {"p", "q"}
    INPUT_BUF = 2
    Modulus = 4
    Rows = 2
    Cols = 2
    Scripts <- MCScripts
    Calls <- MCCalls
    Victims = {"p"}
    MaxCalls = 1
    MaxTicks = 1
SPECIFICATION Spec
CHECK_DEADLOCK FALSE
INVARIANTS InterruptsMatch BufferHoldsLine NoStuckKey
PROPERTIES ReaderReturns
