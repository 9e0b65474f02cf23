SPECIFICATION ServicesSpec
CONSTANTS
    None = None
    Requests = {r1, r2}
    MaxNodes = 3
    MaxOps = 3
    MaxFaults = 1
    MaxDeployFaults = 1
    MaxRestarts = 1
    Releases = {1, 2, 3}
    MigrationsOf <- ThreeReleases
    Updates = {u1, u2}
    Chunks = {1, 2}
    InitialDatabases <- Databases
    ForceEnv = FALSE
    MaxStarts = 3
    MaxChanges = 1
    Addresses = {a1, a2}
    InBlocks = {a1}
    InMmdb = {a1, a2}
    Lookups = {p1}
    Administrators = {d1, d2}
    Intervals = {2, 3}
    MaxEntries = 1
    MaxTime = 7
    MaxPublications = 2
    MaxGeoFaults = 1
    MaxGeoRestarts = 1
    MaxRequests = 2
    RouteNodes = {"router", "peer", "agent", "server"}
    AgentNodes = {"peer", "agent"}
    OwnerOf <- RouteOwners
    DefaultAS <- DefaultASes
    LocalAS = 1
    TargetAS = 9
    Advertised <- SentPaths
    AgentAS = 3
    AgentTables <- AgentPaths
    Printed <- PrintedRoutes
    InitialTables <- Tables
    MaxMapPaths = 2
    MaxRouteChanges = 1
    Editors = {e1, e2}
    Texts = {"a"}
    Items = {1, 2}
    MaxEdits = 3
    MaxSiteFaults = 1
INVARIANTS
    SomeDefault
    OneDefaultAlone
    ServesItsSchema
    RestartCompletes
    PrintedWasStored
    AloneUpdateIsWhole
    IdleUsesNewest
    CredentialsTogether
    FilesStayFresh
    OneSelectedRoute
    SelectedIsPreferred
    ConfirmedWins
    MapAgrees
    ShownIsStored
    LogoIsThere
    CheckIsWhole
PROPERTIES
    RefreshCatchesUp
    MigrationsRunOnce
CHECK_DEADLOCK FALSE
VIEW ServicesView
