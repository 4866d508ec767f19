SPECIFICATION FairSpec
CONSTANTS
    w1 = w1
    w2 = w2
    Free = Free
    Junk = Junk
    Workers <- MCWorkers
    Size = 2
    DefaultCount = 1
    Requests <- MCRequests
    MaxRequests = 2
    MaxSignals = 2
INVARIANTS BlockIsSnapshot JunkOnlyBeyond DrainedExit
PROPERTIES RequestsAnswered QuitEnds WakeEnds
CHECK_DEADLOCK FALSE
