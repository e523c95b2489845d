CONSTANTS
    Slot = {"init", "p", "q"}
    Init0 = "init"
    NFrames = 24
    PGSIZE = 16
    NPTE = 2
    UserTables = 3
    KernTables = 3
    INTSZ = 2
    MAXARG = 3
    Images <- MCImages
    Args <- MCArgs
    Deltas <- MCDeltas
    MaxCalls = 4
SPECIFICATION Spec
CHECK_DEADLOCK FALSE
INVARIANTS FramesConserved MemoryIsOwn AcceptedIsMapped
