SPECIFICATION Spec
CONSTANTS
    Slots = {1, 2}
    initproc = 1
    NPAGES = 20
    PGSIZE = 4
    FAN = 4
    Wrap = 1024
    USERSTACK = 1
    MAXARG = 3
    ALIGN = 2
    Increments <- MCIncrements
    ExecCalls <- MCExecCalls
    Buffers <- MCBuffers
    MaxKernelPages = 1
INVARIANT MemoryConsistent
PROPERTY ImplementsPrivateMemory
VIEW Unnamed
