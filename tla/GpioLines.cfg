SPECIFICATION FairSpec
CONSTANTS
    w1 = w1
    main = main
    h1 = h1
    h2 = h2
    chip0 = chip0
    none = none
    N = 1
    Nil = none
    Main = main
    Chips <- MCChips
    Lines <- MCLines
    Defaults <- MCDefaults
    Workers <- MCWorkers
    Posts <- MCPosts
    OldFiles <- MCOldFiles
    Present <- MCPresent
    Existing <- MCExisting
    Forced <- MCForced
    Handles <- MCHandles
INVARIANTS
    AllOrNothing
    ServingInv
    SavedIsRunning
PROPERTIES
    OutputsRecover
