SPECIFICATION FairSpec
CONSTANTS
    c1 = c1
    c2 = c2
    NoCpu = NoCpu
    CPUs <- TwoCPUs
    NProc = 2
PROPERTIES
    RunnableRuns
    SleeperWakes
