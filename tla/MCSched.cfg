SPECIFICATION Spec
CONSTANTS
    c1 = c1
    c2 = c2
    NoCpu = NoCpu
    CPUs <- TwoCPUs
    NProc = 3
SYMMETRY Symmetry
INVARIANTS
    StacksConsistent
    InterruptDiscipline
    NoLostWakeup
