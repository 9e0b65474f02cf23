SPECIFICATION MCSpec
CONSTANTS
    Requests = {r1, r2}
    Nodes = {n1, n2}
    Params = {p1, p2}
    MaxOps = 4
    MaxFaults = 1
    MaxEvents = 1
    MaxRestarts = 1
    None = None
SYMMETRY SessionSymmetry
INVARIANTS
    RemovedHasNoState
    
    AloneManagerFollowsDatabase
PROPERTY AloneSavingKeepsTheSession
CHECK_DEADLOCK FALSE
