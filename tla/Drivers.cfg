SPECIFICATION DriversSpec
CONSTANTS
    Text <- Words
    Program <- PrintsOnBoth
    Blank = ""
    MaxCuts = 1
    Callers = {c1, c2, c3, c4}
    Threshold = 2
    MaxCalls <- CallsForTwoProbes
INVARIANTS
    WholeOutput
    ShownIsKept
    OneRun
    SingleProbe
PROPERTIES
    AbandonedIsKilled
    AnswerArrives
    ProbeDecides
    HalfOpenResolves
CHECK_DEADLOCK FALSE
