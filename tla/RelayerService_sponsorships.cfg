\* Two requests and a signature of an earlier release on two notes, one crash: who may sign, and
\* what the deposit owes.
CONSTANTS
    r1 = r1
    r2 = r2
    r3 = r3
    n1 = n1
    n2 = n2
    Requests = {r1, r2, r3}
    Tokens = {r1, r2, r3}
    LegacyRequests = {r3}
    Notes = {n1, n2}
    NoEntry = NoEntry
    UnknownCost = UnknownCost
    None = None
    Elsewhere = Elsewhere
    GasCosts = {1, 2}
    SignatureTtlSec = 1
    MinDepositWei = 1
    MaxSponsorshipGasWei = 2
    ClockLag = 0
    SlowDepositReads = FALSE
    MaxTime = 3
    MaxDeposit = 4
    MaxCrashes = 1
    MaxMoves = 0
SPECIFICATION Spec
SYMMETRY Symmetry
INVARIANTS
    TypeOK
    OneLiveSignaturePerNote
    LiveSignatureOnDisk
    NeverPaysTwiceForNote
    LiveSignaturesCovered
PROPERTIES
    LiveRecordKept
    ImplementsLedger
