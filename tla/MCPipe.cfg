SPECIFICATION FairSpec
CONSTANTS
    r1 = r1
    r2 = r2
    w1 = w1
    NoProc = NoProc
    Readers <- TwoReaders
    Writers <- OneWriter
    Killable <- OneReader
    Bytes = {0, 1}
    PipeSize = 2
    Counters = 4
    Sizes = {3}
CHECK_DEADLOCK FALSE
INVARIANTS
    PipeConsistent
PROPERTIES
    ImplementsByteChannel
    CallsReturn
