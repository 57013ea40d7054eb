SPECIFICATION SwapsSpec
CONSTANTS
    Users = {u1}
    Router = Router
    Others = {}
    Pools <- PoolNames
    TokensOf <- TwoAndOne
    FeeMultiplier = 10
    FeeFraction = 1
    Levels = {6}
    InAmounts = {5}
    OutAmounts = {1}
    GiftAmounts = {}
    InitialBalance = 6
    MaxHops = 2
    MaxCalls = 3
    MayRevisit = TRUE
PROPERTIES
    RouterKeepsNothing
