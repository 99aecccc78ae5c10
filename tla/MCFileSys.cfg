SPECIFICATION Spec
CONSTANTS
    p1 = p1
    p2 = p2
    Procs <- TwoProcs
    NInum = 3
    NInode = 3
    Names = {"a", "b"}
    MaxCalls = 4
    Paths <- Downward
    Calls <- AllCalls
SYMMETRY Symmetry
INVARIANTS
    
    NamesAreCounted
    NoDeadlock
CHECK_DEADLOCK FALSE
