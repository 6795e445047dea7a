\* A deposit read that spans the expiry of a signature landed meanwhile.
CONSTANTS
    r1 = r1
    r2 = r2
    n1 = n1
    n2 = n2
    Requests = {r1, r2}
    Tokens = {r1, r2}
    LegacyRequests = {}
    Notes = {n1, n2}
    NoEntry = NoEntry
    UnknownCost = UnknownCost
    None = None
    Elsewhere = Elsewhere
    GasCosts = {1}
    SignatureTtlSec = 1
    MinDepositWei = 0
    MaxSponsorshipGasWei = 2
    ClockLag = 0
    SlowDepositReads = TRUE
    MaxTime = 2
    MaxDeposit = 1
    MaxCrashes = 0
    MaxMoves = 0
SPECIFICATION Spec
SYMMETRY Symmetry
INVARIANTS
    LiveSignaturesCovered
