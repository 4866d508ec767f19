SPECIFICATION Spec
CONSTANTS
    blinky = blinky
    pump = pump
    broken = broken
    pages = pages
    u1 = u1
    u2 = u2
    a1 = a1
    Nil = Nil
    Projects <- MCProjects
    Invalid <- MCInvalid
    Bare <- MCBare
    NChunks = 2
    Uploaders <- TwoUploaders
    Appliers <- OneApplier
    DiskFills = TRUE
    MaxUploads = 3
    MaxApplies = 2
    MaxOutages = 2
INVARIANTS
    TypeOK
    OnlyValidInstalled
    RunsWhatBoots
    AppliedSurvives
