\* An ERC-20 pool; three relayer configurations, two gas prices, two rates and no
\* price, three needs.
CONSTANTS
    Paymaster = "paymaster"
    Instances = {"pool"}
    Bps = 10000
    RateScale = 10
    GasMarginBps = 1000
    PostOpGasOverhead = 4
    None = None
    Word = 4096
    Bare = "0x7702"
    Padded = "0x7702 padded"
    Implementation = "Simple7702"
    Foreign = "foreign"
    AllowedImplementations = {"Simple7702"}
    Forms <- MCForms
    Pool = "pool"
    Sender = "sender"
    Elsewhere = "elsewhere"
    Note = "note"
    Denomination = 12000
    DEFAULT_GAS <- MCGas
    TailCallsGas = 40
    ERC20_WITHDRAW_EXTRA_GAS = 8
    Configs <- MCConfigs
    GasPrices <- MCGasPrices
    IsToken = TRUE
    Rates = {0, 20, 30}
    Needs <- MCNeeds
    Standings <- MCStandings
    Serving <- MCServing
    RootHistorySize = 2
    OtherCalls <- MCOtherCalls
    MaxMoves = 2
\* A client that is done has nothing left to do.
CHECK_DEADLOCK FALSE
SPECIFICATION FairSpec
INVARIANTS
    TypeOK
    TailCallsSpendWhatArrives
    SponsoredPaysOnce
    SignatureHolds
    RefusalsHaveCause
PROPERTIES
    NoteWithdrawn
    ApprovedCodeRuns
