\* Both keys, whose handlers interrupt each other, and blank lines.
SPECIFICATION Spec
CONSTANTS
    p1 = p1
    p2 = p2
    NoPid = NoPid
    Pid = {p1, p2}
    MAXJOBS = 2
    MAXJID = 3
    Commands = {"run", "run&", "fg", "bg", "blank"}
    Keys = {"INT", "TSTP"}
    EarlySignals = FALSE
SYMMETRY Symmetry
INVARIANTS
    ForegroundIsAwaited
    StoppedJobsAreStopped
    KillsReachTheirJob
PROPERTY BackgroundNotSignalled
CHECK_DEADLOCK FALSE
