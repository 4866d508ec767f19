SPECIFICATION ScanSpec
CONSTANTS
    NCoils = 2
    NInputs = 2
    Depth = 4
    Diagrams <- MCDiagrams
INVARIANTS
    ScanMeansDiagram
    ScanIsBalanced
