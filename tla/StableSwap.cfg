SPECIFICATION Spec
CONSTANTS
    Users = {u1}
    RewardPrecision = 6
    Pool = Pool
    Outside = Outside
    NCoins = 2
    Decimals <- MixedDecimals
    RewardToken = 3
    FeeDenominator = 10
    InitialFee = 1
    Fees = {3}
    InitialAmp = 2
    Amps = {4}
    MaxAmp = 10
    MaxAmpChange = 2
    MinRampTime = 0
    AdminDelay = 1
    MaxIterations = 20
    ProtocolFractions = {5}
    Callers = {"Admin"}
    UsedSwitches = {"swap"}
    InitialBalance = 4
    RewardFunds = 0
    DepositAmounts = {0, 1, 3}
    SwapAmounts = {2}
    ShareAmounts = {5}
    GiftAmounts = {2}
    TpsValues = {0}
    Expirations = {2}
    Diffs = {0}
    RewardSwitches = {TRUE}
    LockAmounts = {0}
    RampEnds = {3}
    MaxLedger = 2
CONSTRAINT FewDepartures
INVARIANTS
    Solvent
    QuotesAgree
    PlaneFollows
PROPERTIES
    FeeDelayed
    ShareValueNeverFalls
