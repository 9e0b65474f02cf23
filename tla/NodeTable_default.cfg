SPECIFICATION Spec
CONSTANTS
    Requests = {r1, r2}
    MaxNodes = 2
    MaxOps = 4
    MaxFaults = 0
    MaxRestarts = 0
    None = None
INVARIANT OneDefault
CHECK_DEADLOCK FALSE
