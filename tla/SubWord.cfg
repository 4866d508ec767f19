SPECIFICATION WordFairSpec
CONSTANTS
    p1 = p1
    p2 = p2
    Idle = Idle
    PoolRegs = 1
    Half = 2
    Procs <- MCProcs
    Requests <- MCRequests
    MaxCalls = 3
PROPERTIES ImplementsAtomicWord AccessorsReturn
CHECK_DEADLOCK FALSE
