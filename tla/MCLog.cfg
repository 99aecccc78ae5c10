\* Two processes whose calls write up to two of two blocks, the log sized as
\* mkfs and param.h size it (room for two reservations), and two crashes.
CONSTANTS
    p1 = p1  p2 = p2  b1 = b1  b2 = b2
    Procs <- Two
    Blocks <- TwoBlocks
    Values = {0, 1}
    LogSize = 8
    LogBlocks = 8
    MaxOpBlocks = 4
    OpBlocks = 2
    MaxCrashes = 2
SPECIFICATION FairSpec
INVARIANTS TypeOK  PinsBalance
PROPERTIES ImplementsAtomicDisk SleepersWake
