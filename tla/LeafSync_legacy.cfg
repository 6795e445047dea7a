\* Two runs over a cache file without leafBlocks.
CONSTANTS
    Runs = {r1, r2}
    Chunk = 2
    Concurrency = 2
    NoFile = NoFile
    OtherPool = OtherPool
    Torn = Torn
    NoSeed = NoSeed
    NoBlocks = NoBlocks
    Settings <- OldFile
    MaxHeight = 4
    MaxDeposits = 2
SYMMETRY Symmetry
\* Every run has ended and the chain is at its bound.
CHECK_DEADLOCK FALSE
SPECIFICATION Spec
INVARIANTS
    CompleteToLastBlock
