\* A child killed before it leads its own process group.
SPECIFICATION Spec
CONSTANTS
    p1 = p1
    p2 = p2
    p3 = p3
    NoPid = NoPid
    Pid = {p1, p2, p3}
    MAXJOBS = 2
    MAXJID = 2
    Commands = {"run", "run&", "fg"}
    Keys = {}
    EarlySignals = TRUE
INVARIANT AtMostOneForeground
CHECK_DEADLOCK FALSE
