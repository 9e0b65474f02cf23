SPECIFICATION MCSpec
CONSTANTS
    None = None
    Releases = {1, 2, 3}
    MigrationsOf <- ThreeReleases
    Updates = {u1, u2}
    Chunks = {1, 2}
    InitialDatabases <- Databases
    ForceEnv = FALSE
    MaxStarts = 3
    MaxDeployFaults = 1
    MaxChanges = 1
PROPERTY UpgradeKeepsNeighbors
CHECK_DEADLOCK FALSE
