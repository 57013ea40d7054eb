\* Amounts that divide without a rest: 60 tokens a second over working
\* balances that sum up to 1 to 6, from two configurations that may overlap.
SPECIFICATION Spec
CONSTANTS
    Users = {u1, u2}
    RewardPrecision = 60
    MaxRewardConfigs = 2
    ShareAmounts = {1}
    MaxShares = 2
    LockAmounts = {1}
    RewardSwitches = {TRUE, FALSE}
    KillSwitches = {TRUE}
    StartDelays = {0, 1}
    Durations = {1, 2}
    TpsValues = {60}
    MaxScheduled = 2
    MayDetach = TRUE
    MaxLedger = 3
SYMMETRY Symmetry
CONSTRAINT Focus
INVARIANTS
    PaysTheStream
    GaugeFunded
    NeverBlocksPool
    CapNeverBites
CHECK_DEADLOCK FALSE
