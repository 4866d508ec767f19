SPECIFICATION Spec
CONSTANTS
    w1 = w1
    w2 = w2
    NCoils = 2
    NInputs = 1
    Depth = 1
    MaxInstr = 3
    Loaders <- OneWorker
    Programs <- MCPrograms
    Channels <- MCChannels
    Forced <- MCForced
INVARIANTS
    OthersKeep
