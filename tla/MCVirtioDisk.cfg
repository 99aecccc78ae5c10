\* Three processes and descriptors for two requests: requests overlap in the
\* device, the third process has to wait, and both ring indices wrap.
SPECIFICATION FairSpec
CONSTANTS
    p1 = p1
    p2 = p2
    p3 = p3
    NoProc = NoProc
    Intr = Intr
    None = None
    Procs <- ThreeProcs
    NUM = 6
    Wrap = 6
INVARIANTS
    RingConsistent
    TransferredOnce
    NoLostWakeup
PROPERTIES
    CallsReturn
