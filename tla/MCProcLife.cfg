SPECIFICATION FairSpec
CONSTANTS
    NProc = 3
    MaxPid = 5
    KillPids <- UserPids
INVARIANTS
    
    NoSleepWithZombie
PROPERTIES
    InitReaps
    KilledExits
