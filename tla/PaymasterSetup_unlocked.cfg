\* A configured contract with more stake than asked for, which its owner unlocks.
CONSTANTS
    Contracts = {c1}
    None = None
    Router = None
    Master = Master
    OtherMasters = {}
    Configured = c1
    Foreign = {}
    Administered = {c1, c2, c3}
    AutoSetup = TRUE
    RequireRegistration = TRUE
    WaitForRegistration = TRUE
    TransactionsRevert = FALSE
    OwnerUnlocks = TRUE
    StakeWei = 2
    DepositWei = 1
    StakedBefore = {0, 3}
    MaxCrashes = 0
CHECK_DEADLOCK FALSE
SPECIFICATION FairSpec
PROPERTY SetupCompletes
