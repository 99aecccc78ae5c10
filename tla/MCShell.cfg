SPECIFICATION Spec
CONSTANTS
    MAXARGS = 5
    NPROC = 6
    NOFILE = 5
    NFILE = 4
    NPIPE = 2
    PIPESIZE = 1
    MaxFaults = 1
    Lines <- MCLines
    Files <- MCFiles
INVARIANTS
    FilesExact
    NoLeakedDescriptors
    OutcomeAsWritten
    ParserReadsBack

    
CHECK_DEADLOCK FALSE
