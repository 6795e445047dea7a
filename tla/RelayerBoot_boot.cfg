\* A remembered contract of an earlier release or none, two to deploy, one crash, reverts,
\* another master; an ETH and an ERC-20 pool; two changes of settings, reads or registrations.
CONSTANTS
    Contracts = {c1, c2, c4}
    None = None
    Router = Router
    Master = Master
    OtherMasters = {Other}
    Configured = None
    Foreign = {c4}
    Administered = {c1, c2}
    AutoSetup = TRUE
    RequireRegistration = TRUE
    WaitForRegistration = TRUE
    TransactionsRevert = TRUE
    OwnerUnlocks = TRUE
    StakeWei = 2
    DepositWei = 1
    StakedBefore = {0}
    MaxCrashes = 1
    Instances = {"eth pool", "dai pool"}
    TokenOf <- MCTokenOf
    Environments <- MCEnvironments
    MaxMoves = 2
\* A service that cannot start may stop for good.
CHECK_DEADLOCK FALSE
SPECIFICATION BootFairSpec
INVARIANTS
    BootTypeOK
    PoolsAsDeployed
    SpendingBounded
PROPERTIES
    FundedOnlyCompatible
    FundedOnlyRemembered
    StatusTellsRefusals
    BootCompletes
