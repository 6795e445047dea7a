\* An account of another make whose code relays again while a pool of ether pays it.
CONSTANTS
    s1 = s1
    s2 = s2
    n1 = n1
    n2 = n2
    n3 = n3
    Senders = {s1, s2}
    hundred = hundred
    thousand = thousand
    dollars = dollars
    Notes = {n1, n2, n3}
    poolOf <- MCPoolOf
    Withdrawals <- MCWithdrawals
    Eth = Eth
    Token = Token
    NoKey = NoKey
    Bps = 2
    RateScale = 2
    GasMarginBps = 1
    PostOpGasOverhead = 1
    TokenRate = 3
    FeePerGas = 1
    Ops = {o1, o2}
    Keys = {k1, k2}
    FaithfulSenders = {s1}
    Prefunds = {1, 2}
    ServiceFees = {1}
    MaxFunds = 4
    MaxAdmin = 1
CHECK_DEADLOCK FALSE
SPECIFICATION Spec
INVARIANTS
    HeldUntouched
