SPECIFICATION Spec
CONSTANTS
    Users = {u1}
    RewardPrecision = 6
    Pool = Pool
    Outside = Outside
    TickSpacing = 2
    MinTick <- LowTick
    MaxTick = 9
    TicksPerChunk = 2
    WordBits = 2
    GrowthModulus = 10000
    Q = 64
    SqrtRatio <- Prices
    GrowthScale = 64
    Fee = 1
    FeeDenominator = 10
    InitialProtocolFraction = 5
    ProtocolFractions = {10}
    MaxLiquidityPerTick = 120
    MaxUserPositions = 3
    MaxRounds = 12
    MaxDistance = 5
    BpsDenominator = 10
    RewardToken = 3
    InitialBalance = 16
    RewardFunds = 6
    UsedRanges <- Nested
    DepositAmounts = {0, 6}
    SwapAmounts = {10}
    LiquidityAmounts = {1000}
    GiftAmounts = {6}
    Callers = {"Admin"}
    UsedSwitches = {"swap"}
    TpsValues = {1}
    Expirations = {2}
    Diffs = {0}
    RewardSwitches = {TRUE}
    LockAmounts = {2}
    MaxLedger = 2
    RoundedOff = 3
    MinExactSteps = 2
    MaxExactSteps = 4
    TargetDistance = 12
    MaxGrowth = 6
CONSTRAINT FewTrades
INVARIANTS
    StepsUseCorrectLiquidity
