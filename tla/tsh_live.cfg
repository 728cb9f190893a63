\* All the commands, with a job list smaller than the children.
SPECIFICATION FairSpec
CONSTANTS
    p1 = p1
    p2 = p2
    NoPid = NoPid
    Pid = {p1, p2}
    MAXJOBS = 1
    MAXJID = 1
    Commands = {"run", "run&", "fg", "bg", "quit"}
    Keys = {"INT"}
    EarlySignals = TRUE
INVARIANT KillsReachTheirJob
PROPERTIES
    EvalWaitReturns
    CtrlCEndsForeground
CHECK_DEADLOCK FALSE
