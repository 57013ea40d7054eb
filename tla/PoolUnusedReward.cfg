SPECIFICATION Spec
CONSTANTS
    Users = {u1}
    RewardPrecision = 6
    Pool = Pool
    Outside = Outside
    RewardToken = "A"
    FeeMultiplier = 4
    FeeFraction = 2
    ProtocolFractions = {4}
    Callers = {"OperationsAdmin", "RewardsAdmin", "SystemFeeAdmin"}
    InitialBalance = 5
    RewardFunds = 2
    DepositAmounts = {2}
    SwapAmounts = {2}
    ShareAmounts = {2}
    GiftAmounts = {2}
    MinAmounts = {0}
    TpsValues = {2}
    Expirations = {2}
    Diffs = {}
    LockAmounts = {}
    RewardSwitches = {}
    MaxAccumulated = 0
    MaxLedger = 2
INVARIANTS
    RewardReserveInBalance
