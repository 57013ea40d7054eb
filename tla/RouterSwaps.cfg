SPECIFICATION ProviderSpec
CONSTANTS
    Users = {u1}
    Router = Router
    Others = {Collector, Destination}
    Pools <- PoolNames
    TokensOf <- TwoAndOne
    FeeMultiplier = 10
    FeeFraction = 1
    Levels = {20}
    InAmounts = {8}
    OutAmounts = {1}
    GiftAmounts = {1}
    InitialBalance = 8
    Collector = Collector
    Destination = Destination
    MaxSwapFeeFraction = 2
    ProviderDenominator = 8
    FeeFractions = {2, 3}
    MaxHops = 3
    MaxCalls = 2
    MayRevisit = FALSE
INVARIANTS
    QuoteSuffices
    CollectorHoldsFees
PROPERTIES
    RouterKeepsNothing
