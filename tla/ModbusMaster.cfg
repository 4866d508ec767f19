SPECIFICATION Spec
CONSTANTS
    Base = 3
    SlotRegs = 6
    PoolRegs = 10
    MaxRegs = 3
    SlaveRegs = 8
    Default <- MCDefault
    Configs <- MCConfigs
    Beats = 3
    MaxOutages = 2
    MaxRestarts = 1
INVARIANTS LinkInv MirrorPlaced
PROPERTIES SlavePolled HeartbeatGoesOn
