SPECIFICATION Spec
CONSTANTS
    Missing = Missing
    TokenSets <- PairAndTriple
    StandardFees = {30}
    ConcentratedFees = {10}
    StableswapMaxPools = 1
    ConcentratedMaxPools = 1
    MaxPoolsForPair = 3
    VoteScale = 10
    TpsValues = {7}
    Expirations = {2}
    Votes <- SomeVotes
    LiquidityLevels = {3}
    MaxCounter = 3
    MaxLedger = 2
INVARIANTS
    EveryPoolListed
    RoomForEveryTier
    SnapshotAddsUp
    WithinShare
