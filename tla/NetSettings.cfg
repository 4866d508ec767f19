SPECIFICATION Spec
CONSTANTS
    Part = Part
    Down = Down
    Ifaces <- MCIfaces
    Present = {"eth0", "wlan0"}
    Nets = {"lab"}
    NoNet = "none"
    Default <- MCDefault
    Choices <- MCChoices
    MaxActs = 4
    MaxSaves = 2
    MaxFaults = 2
INVARIANTS PointersTell LookKept ConfWhole SettledIsSaved
PROPERTY SavedIsApplied
CHECK_DEADLOCK FALSE
