SPECIFICATION Spec
CONSTANTS
    Queries = {q1, q2}
    Commands <- WatchedAndPlain
    MaxConcurrent = 1
    MaxTimeouts = 1
INVARIANTS
    SlotsAreHeld
    
PROPERTIES
    EarlyStopIsNoError
    ReturnsPromptly
    QueriesReturn
CHECK_DEADLOCK FALSE
