\* A tree of four leaves that fills up, a ring of two, four notes, two with one nullifier,
\* and the zero value.
CONSTANTS
    c1 = c1
    c2 = c2
    c3 = c3
    c4 = c4
    Commitments = {c1, c2, c3, c4, ZeroValue}
    nullifierOf <- SharedNullifier
    NoRoot = NoRoot
    ZeroValue = ZeroValue
    Levels = 2
    RootHistorySize = 2
    Denomination = 2
    Fees = {0, 1, 2, 3}
\* The tree is full and every note in it spent.
CHECK_DEADLOCK FALSE
SPECIFICATION Spec
INVARIANTS
    RootMatchesLeaves
    KnownRootsAreRecent
    TypeOK
    Solvent
PROPERTIES
    ImplementsNotePool
