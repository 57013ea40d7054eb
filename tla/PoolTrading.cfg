SPECIFICATION Spec
CONSTANTS
    Users = {u1}
    RewardPrecision = 6
    Pool = Pool
    Outside = Outside
    RewardToken = "R"
    FeeMultiplier = 4
    FeeFraction = 2
    ProtocolFractions = {2}
    Callers = {"PauseAdmin", "OperationsAdmin", "SystemFeeAdmin"}
    InitialBalance = 4
    RewardFunds = 0
    DepositAmounts = {1, 2, 3}
    SwapAmounts = {1, 2, 3}
    ShareAmounts = {1, 2, 3}
    GiftAmounts = {1}
    MinAmounts = {0}
    TpsValues = {}
    Expirations = {}
    Diffs = {}
    LockAmounts = {}
    RewardSwitches = {}
    MaxAccumulated = 0
    MaxLedger = 2
INVARIANTS
    Solvent
    SharesBacked
    QuotesAgree
    ExitOpen
    PlaneNeverOverstates
PROPERTIES
    ShareValueNeverFalls
