SPECIFICATION FairSpec
CONSTANTS
    Addresses = {a1, a2}
    Nobody = Nobody
    h0 = h0
    h1 = h1
    Packages <- SomePackages
    InstantRoles = {"PauseAdmin"}
    AdminActionsDelay = 2
    UpgradeDelay = 1
    MaxClock = 4
PROPERTIES
    CommitmentsMature
    AdminDelayed
    EmergencyAdminDelayed
    UpgradeDelayed
