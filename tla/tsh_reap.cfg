\* The comment of sigchld_handler, against its waitpid.
SPECIFICATION Spec
CONSTANTS
    p1 = p1
    p2 = p2
    NoPid = NoPid
    Pid = {p1, p2}
    MAXJOBS = 2
    MAXJID = 2
    Commands = {"run", "run&"}
    Keys = {}
    EarlySignals = FALSE
PROPERTY HandlerReapsAll
CHECK_DEADLOCK FALSE
