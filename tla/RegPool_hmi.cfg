SPECIFICATION FairSpec
CONSTANTS
    hmi = hmi
    poller = poller
    r1 = r1
    r2 = r2
    Writers <- OneWriter
    Readers <- OneReader
    Regs <- MCRegs
    Cells <- MCCells
    Owner <- HmiWrites
    Ranges <- MCRanges
    MaxWrites = 2
    MaxCrashes = 0
INVARIANTS
    UntornReads
    SeqlockInv
PROPERTIES
    ImplementsAtomicPool
    ReadsReturn
