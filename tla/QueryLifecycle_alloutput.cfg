SPECIFICATION MCSpec
CONSTANTS
    Streams = {s1}
    Commands = {"traceroute"}
    MaxLines = 2
    NoEntry = NoEntry
    Lone = s1
INVARIANT ResultFollowsAllOutput
CHECK_DEADLOCK FALSE
