\* Three children for a job list of two: the third runs untracked.
SPECIFICATION Spec
CONSTANTS
    p1 = p1
    p2 = p2
    p3 = p3
    NoPid = NoPid
    Pid = {p1, p2, p3}
    MAXJOBS = 2
    MAXJID = 2
    Commands = {"run", "run&", "fg", "bg"}
    Keys = {"INT"}
    EarlySignals = FALSE
SYMMETRY Symmetry
INVARIANTS
    TypeOK
    JobsMatchChildren
    HandlerFindsJob
PROPERTY ImplementsJobControl
CHECK_DEADLOCK FALSE
