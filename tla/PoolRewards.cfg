\* Two providers and one reward token that is a token of the pool.
SPECIFICATION Spec
CONSTANTS
    Users = {u1, u2}
    RewardPrecision = 6
    Pool = Pool
    Outside = Outside
    RewardToken = "A"
    FeeMultiplier = 4
    FeeFraction = 2
    ProtocolFractions = {}
    Callers = {"RewardsAdmin"}
    InitialBalance = 1
    RewardFunds = 3
    DepositAmounts = {1}
    SwapAmounts = {}
    ShareAmounts = {1}
    GiftAmounts = {3}
    MinAmounts = {0}
    TpsValues = {0, 2}
    Expirations = {2, 3}
    Diffs = {2}
    LockAmounts = {2}
    RewardSwitches = {FALSE}
    MaxAccumulated = 4
    MaxLedger = 3
SYMMETRY Sym
CONSTRAINT Focus
INVARIANTS
    WorkingSupplyIsSum
    DefaultsNeverUsed
    RewardsCovered
PROPERTIES
    AccruedNeverLost
    FundedStays
