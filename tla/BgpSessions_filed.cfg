SPECIFICATION MCSpec
CONSTANTS
    Requests = {r1, r2}
    Nodes = {n1, n2}
    Params = {p1, p2}
    MaxOps = 4
    MaxFaults = 0
    MaxEvents = 1
    MaxRestarts = 0
    None = None
INVARIANT RemovedIsNotFiled
CHECK_DEADLOCK FALSE
