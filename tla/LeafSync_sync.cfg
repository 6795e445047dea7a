\* Three runs on one file, so that one can follow two that overlapped.
CONSTANTS
    Runs = {r1, r2, r3}
    Chunk = 2
    Concurrency = 2
    NoFile = NoFile
    OtherPool = OtherPool
    Torn = Torn
    NoSeed = NoSeed
    NoBlocks = NoBlocks
    Settings <- BestAndWorst
    MaxHeight = 3
    MaxDeposits = 2
SYMMETRY Symmetry
\* Every run has ended and the chain is at its bound.
CHECK_DEADLOCK FALSE
SPECIFICATION Spec
INVARIANTS
    TypeOK
    LeavesAreDeposits
    CompleteToLastBlock
