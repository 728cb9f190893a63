\* The smallest job list with which nextjid wraps onto an id in use.
SPECIFICATION Spec
CONSTANTS
    p1 = p1
    p2 = p2
    p3 = p3
    p4 = p4
    NoPid = NoPid
    Pid = {p1, p2, p3, p4}
    MAXJOBS = 4
    MAXJID = 4
    Commands = {"run&", "fg"}
    Keys = {}
    EarlySignals = FALSE
SYMMETRY Symmetry
INVARIANT JidsAreUnique
CHECK_DEADLOCK FALSE
