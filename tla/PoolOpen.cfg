SPECIFICATION FairSpec
CONSTANTS
    firmware = firmware
    hmi = hmi
    Procs <- MCProcs
    Setter = hmi
    MaxWrites = 2
    MaxKills = 2
INVARIANTS
    MappedIsBacked
    AllOpenMeansReady
    SetValueStays
PROPERTIES
    OpensReturn
