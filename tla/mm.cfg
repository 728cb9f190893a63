SPECIFICATION Spec
CONSTANTS
    MAX_HEAP = 130
    mem_start_brk = 2000
    Index = {1, 2, 200}
    Sizes = {0, 8, 300}
    num_tracefiles = 2
    MaxOps = 6
INVARIANTS
    TypeOK HeapIsTiled FreeBlocksAreListed PayloadsAreIntact OnlyTheseAreRejected
    CrashesOnlyWhenFull UtilizationIsAShare
PROPERTIES
    ReplaysAgree ImplementsAllocator
CHECK_DEADLOCK FALSE
