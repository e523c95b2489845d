CONSTANTS
    Proc = {1, 2}
    Inode = {"i", "j"}
    File <- MCFile
    IpOf <- MCIpOf
    Users <- MCUsers
    NBlocks = 5
    BPB = 2
    BSIZE = 2
    NDIRECT = 1
    MAXOPBLOCKS = 6
    Modulus = 8
    Sizes = {1, 4}
    MaxCalls = 4
SPECIFICATION Spec
CHECK_DEADLOCK FALSE
INVARIANTS BlocksOwnedOnce ContentIsWhatWasWritten LogBudget
