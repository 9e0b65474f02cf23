SPECIFICATION MCRouteSpec
CONSTANTS
    None = None
    RouteNodes = {"router", "peer", "agent", "server"}
    AgentNodes = {"peer", "agent"}
    OwnerOf <- RouteOwners
    DefaultAS <- DefaultASes
    LocalAS = 1
    TargetAS = 9
    Advertised <- SentPaths
    AgentAS = 3
    AgentTables <- AgentPaths
    Printed <- PrintedRoutes
    InitialTables <- Tables
    MaxMapPaths = 2
    MaxRouteChanges = 1
INVARIANTS
    MapMatchesResult
CHECK_DEADLOCK FALSE
