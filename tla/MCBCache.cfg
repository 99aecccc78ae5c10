CONSTANTS
    p1 = p1  p2 = p2  k1 = k1  k2 = k2  k3 = k3  k4 = k4
    NoBlock = NoBlock  NoProc = NoProc
    Procs <- TwoProcs
    Blocks <- FourBlocks
    Values = {0, 1}
    NBuf = 3
    MaxPins = 1
SPECIFICATION Spec
SYMMETRY Symmetry
INVARIANTS  BufferKeepsBlock SeesLatest
