SPECIFICATION BootFairSpec
CONSTANTS
    Nobody = Nobody
    Proc = {p1, p2}
    Modes = {"server", "nomigrate", "up", "force"}
    N = 6
    Makers = {1, 2, 3}
    Referring = {2}
    GatewayAt = 4
    RoleUsers = {5}
    SplitAt = 5
    ReassignAt = 6
    MaxFaults = 2
INVARIANTS BootTypeOK CleanIsApplied ReadyMeansMigrated FilesRunAgain
PROPERTY ServerGetsReady
