\* The command fg for a job that has ended.
SPECIFICATION FairSpec
CONSTANTS
    p1 = p1
    NoPid = NoPid
    Pid = {p1}
    MAXJOBS = 1
    MAXJID = 1
    Commands = {"run", "run&", "fg", "bg"}
    Keys = {}
    EarlySignals = FALSE
PROPERTY FgWaitReturns
CHECK_DEADLOCK FALSE
