SPECIFICATION Spec
CONSTANTS
    hmi = hmi
    poller = poller
    r1 = r1
    r2 = r2
    Writers <- TwoWriters
    Readers <- OneReader
    Regs <- MCRegs
    Cells <- MCCells
    Owner <- WriterPerRange
    Ranges <- MCRanges
    MaxWrites = 1
    MaxCrashes = 2
INVARIANTS
    AcceptWindow
