SPECIFICATION Spec
CONSTANTS
    MAX_HEAP = 60
    mem_start_brk = 1000
    Index = {1, 2, 3}
    Sizes = {8, 16, 40}
    num_tracefiles = 1
    MaxOps = 5
INVARIANTS
    FootersAreKept
CHECK_DEADLOCK FALSE
