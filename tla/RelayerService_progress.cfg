\* Every request and every reservation comes to an end.
CONSTANTS
    r1 = r1
    r2 = r2
    n1 = n1
    n2 = n2
    Requests = {r1, r2}
    Tokens = {r1, r2}
    LegacyRequests = {}
    Notes = {n1, n2}
    NoEntry = NoEntry
    UnknownCost = UnknownCost
    None = None
    Elsewhere = Elsewhere
    GasCosts = {1}
    SignatureTtlSec = 1
    MinDepositWei = 0
    MaxSponsorshipGasWei = 1
    ClockLag = 1
    SlowDepositReads = TRUE
    MaxTime = 1
    MaxDeposit = 1
    MaxCrashes = 1
    MaxMoves = 1
SPECIFICATION FairSpec
PROPERTIES
    EveryRequestEnds
    EveryReservationResolved
