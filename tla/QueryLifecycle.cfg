SPECIFICATION MCSpec
CONSTANTS
    Streams = {s1, s2}
    Commands <- AllCommands
    MaxLines = 2
    NoEntry = NoEntry
    Lone = s1
INVARIANTS
    OutputInOrder
    ReadyPathIsKept
PROPERTIES
    ImplementsContract
    StoreDrains
    VerdictReachesStreams
CHECK_DEADLOCK FALSE
