SPECIFICATION Spec
CONSTANTS
    FSSIZE = 14
    LOGSIZE = 2
    NINODES = 4
    BSIZE = 2
    NDIRECT = 2
    NINDIRECT = 2
    IPB = 8
    BPB = 16
    MAXOPBLOCKS = 8
    Procs = {p1, p2}
    NoProc = NoProc
    Files = {f1, f2}
    WriteSizes = {3, 7}
    ReadSizes = {3}
    Images <- MCImages
    MaxCalls = 4
    MaxCrashes = 1
SYMMETRY Symmetry
INVARIANTS BlocksConsistent  TransactionFits
CHECK_DEADLOCK FALSE
