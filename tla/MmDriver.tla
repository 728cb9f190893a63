------------------------------ MODULE MmDriver -------------------------------
(***************************************************************************)
(* The driver of src/mps/05/mdriver.c with the allocator of Mm: every      *)
(* trace is replayed by eval_mm_valid, then, if that found no error, by    *)
(* eval_mm_util and eval_mm_speed.                                         *)
(*                                                                         *)
(* A trace is chosen while eval_mm_valid replays it; the other two replay  *)
(* what was chosen.  Payloads are compared, filled and placed by words.    *)
(***************************************************************************)
EXTENDS Mm, FiniteSetsExt

CONSTANTS
    Index,          \* the indices a trace gives its blocks
    Sizes,          \* the sizes a trace asks for
    num_tracefiles,
    MaxOps          \* bound: requests of all traces together

ASSUME MmDriverAssumption ==
    /\ Index \subseteq Nat
    /\ Sizes \subseteq Nat
    /\ num_tracefiles \in Nat
    /\ MaxOps \in Nat
    /\ MAX_HEAP >= 16

VARIABLES
    pc,             \* the evaluation main is in
    traces,         \* the traces main has begun
    left,           \* what is left of MaxOps
    ops,            \* trace->ops
    op,             \* the index i of the next request, in a replay
    live,           \* the blocks the replay has allocated and not freed
    blocks,         \* trace->blocks
    block_sizes,    \* trace->block_sizes
    ranges,         \* the range list
    verdict,        \* what malloc_error reported of the trace
    returned,       \* what the calls of eval_mm_valid returned
    total_size, max_total_size

driver == <<traces, left, ops, live, blocks, block_sizes, ranges, verdict, returned>>
vars == <<mem, pc, op, total_size, max_total_size, driver>>

Op == [type : {"ALLOC", "REALLOC"}, index : Index, size : Sizes]
          \cup [type : {"FREE"}, index : Index, size : {0}]

Verdict == {"none", "mm_malloc failed", "mm_realloc failed", "outside", "overlaps",
            "not preserved"}

TypeOK ==
    /\ mem \in [brk : mem_start_brk .. mem_max_addr, word : [Address -> Nat]]
    /\ pc \in {"main", "valid", "util", "speed", "crashed", "exit"}
    /\ traces \in 0 .. num_tracefiles
    /\ left \in 0 .. MaxOps
    /\ ops \in Seq(Op)
    /\ op \in 1 .. Len(ops) + 1
    /\ live \subseteq Index
    /\ blocks \in [Index -> Address \cup {NULL}]
    /\ block_sizes \in [Index -> Sizes \cup {0}]
    /\ ranges \subseteq Address \X Address
    /\ verdict \in Verdict
    /\ returned \in Seq(Address \cup {NULL}) /\ Len(returned) =< Len(ops)
    /\ {total_size, max_total_size} \subseteq Int

\* main up to the first trace, with mem_init.
Init ==
    /\ mem = mem_init
    /\ pc = "main"
    /\ traces = 0
    /\ left = MaxOps
    /\ ops = <<>>
    /\ op = 1
    /\ live = {}
    /\ blocks = [i \in Index |-> NULL]
    /\ block_sizes = [i \in Index |-> 0]
    /\ ranges = {}
    /\ verdict = "none"
    /\ returned = <<>>
    /\ total_size = 0
    /\ max_total_size = 0

-----------------------------------------------------------------------------
(* The range list.                                                         *)

\* The words of a payload.
Ceil(size) == ALIGN(size) \div 8

Extent(lo, size) == <<lo, lo + Ceil(size) - 1>>

\* add_range's test of a new extent e against one of the list: do its ends
\* lie in that one?
Overlaps(e, p) == (e[1] >= p[1] /\ e[1] =< p[2]) \/ (e[2] >= p[1] /\ e[2] =< p[2])

InHeap(m, a) == a >= mem_heap_lo /\ a =< mem_heap_hi(m)

\* What add_range reports.  An address of words is always aligned.
RangeError(m, list, e) ==
    IF ~InHeap(m, e[1]) \/ ~InHeap(m, e[2]) THEN "outside"
    ELSE IF \E p \in list : Overlaps(e, p) THEN "overlaps"
    ELSE "none"

\* Mutant of remove_range: nothing is removed.
remove_rangeNot(list, lo) == list

\* No two extents of the list begin at the same address.
remove_range(list, lo) == {p \in list : p[1] # lo}

-----------------------------------------------------------------------------
(* Replays.                                                                *)

Restart == mem' = mm_init(mem_reset_brk(mem))

Request(o) ==
    CASE o.type = "ALLOC" -> mm_malloc(mem, o.size)
      [] o.type = "REALLOC" -> mm_realloc(mem, blocks[o.index], o.size)
      [] o.type = "FREE" -> Returns(mm_free(mem, blocks[o.index]), NULL)

\* The next trace: eval_mm_valid up to its loop.
StartTrace ==
    /\ pc = "main"
    /\ traces < num_tracefiles
    /\ pc' = "valid"
    /\ traces' = traces + 1
    /\ Restart
    /\ ops' = <<>>
    /\ live' = {}
    /\ blocks' = [i \in Index |-> NULL]
    /\ block_sizes' = [i \in Index |-> 0]
    /\ ranges' = {}
    /\ verdict' = "none"
    /\ returned' = <<>>
    /\ op' = 1
    /\ UNCHANGED <<left, total_size, max_total_size>>

\* The traces considered, which read_trace does not check: only allocated blocks
\* are freed and resized, and a new block gets the least index that is free.
IsRequest(o) ==
    IF o.type = "ALLOC"
    THEN o.index \notin live /\ \A i \in Index \ live : o.index =< i
    ELSE o.index \in live

Ask(o) ==
    /\ pc = "valid"
    /\ left > 0
    /\ IsRequest(o)
    /\ ops' = Append(ops, o)
    /\ left' = left - 1
    /\ UNCHANGED <<op, traces, total_size, max_total_size>>

\* malloc_error, and return 0.
Reject(m, what) ==
    /\ mem' = m
    /\ verdict' = what
    /\ pc' = "main"
    /\ UNCHANGED <<live, blocks, block_sizes, returned>>

Crash(m) ==
    /\ mem' = m
    /\ pc' = "crashed"
    /\ UNCHANGED <<live, blocks, block_sizes, ranges, verdict, returned>>

\* The block of o is at p, filled with the low byte of its index.
Remember(o, m, p) ==
    /\ mem' = FillWords(m, p, Ceil(o.size), o.index % 256)
    /\ live' = live \cup {o.index}
    /\ blocks' = [blocks EXCEPT ![o.index] = p]
    /\ block_sizes' = [block_sizes EXCEPT ![o.index] = o.size]
    /\ returned' = Append(returned, p)
    /\ UNCHANGED <<pc, verdict>>

\* newp[j] is a char, which has a sign, and is compared with an int.
Char(v) == IF v \in 128 .. 255 THEN v - 256 ELSE v

Preserved(o, m, p) ==
    LET oldsize == IF o.size < block_sizes[o.index] THEN o.size ELSE block_sizes[o.index]
    IN  \A j \in 0 .. Ceil(oldsize) - 1 : Char(Read(m, p + j)) = o.index % 256

\* What malloc_error reports of a call; list: the ranges of the other blocks.
Report(o, call, list) ==
    LET error == RangeError(call.mem, list, Extent(call.p, o.size))
    IN  IF call.p = NULL
        THEN IF o.type = "ALLOC" THEN "mm_malloc failed" ELSE "mm_realloc failed"
        ELSE IF error = "none" /\ o.type = "REALLOC" /\ ~Preserved(o, call.mem, call.p)
        THEN "not preserved"
        ELSE error

\* A block that is not preserved has a range all the same.
RangesAfter(o, call, list, report) ==
    IF call.p = NULL THEN ranges
    ELSE IF report \in {"none", "not preserved"} THEN list \cup {Extent(call.p, o.size)}
    ELSE list

Judge(o, call, list, report) ==
    /\ ranges' = RangesAfter(o, call, list, report)
    /\ IF report = "none"
       THEN Remember(o, call.mem, call.p)
       ELSE Reject(call.mem, report)

Answer(o, call, list) ==
    \/ "returns" \in call.ends /\ Judge(o, call, list, Report(o, call, list))
    \/ "crashes" \in call.ends /\ Crash(call.mem)

ValidAlloc(o) ==
    /\ o.type = "ALLOC"
    /\ Ask(o)
    /\ Answer(o, Request(o), ranges)

ValidRealloc(o) ==
    /\ o.type = "REALLOC"
    /\ Ask(o)
    /\ Answer(o, Request(o), remove_range(ranges, blocks[o.index]))

ValidFree(o) ==
    /\ o.type = "FREE"
    /\ Ask(o)
    /\ ranges' = remove_range(ranges, blocks[o.index])
    /\ mem' = Request(o).mem
    /\ live' = live \ {o.index}
    /\ returned' = Append(returned, NULL)
    /\ UNCHANGED <<pc, blocks, block_sizes, verdict>>

\* The next replay of the trace begins: evaluation is "util" or "speed".
Replay(evaluation) ==
    /\ pc' = evaluation
    /\ op' = 1
    /\ live' = {}
    /\ Restart
    /\ UNCHANGED <<traces, left, ops, blocks, block_sizes, ranges, verdict, returned>>

\* eval_mm_valid returns 1, eval_mm_util begins.
StartUtil ==
    /\ pc = "valid"
    /\ ops # <<>>
    /\ Replay("util")
    /\ total_size' = 0
    /\ max_total_size' = 0

\* A request of a replay; app_error leaves the program.
Repeat(o, call) ==
    /\ op =< Len(ops)
    /\ o = ops[op]
    /\ op' = op + 1
    /\ mem' = call.mem
    /\ pc' = IF "crashes" \in call.ends THEN "crashed"
             ELSE IF call.p = NULL /\ o.type # "FREE" THEN "exit"
             ELSE pc
    /\ live' = IF o.type = "FREE" THEN live \ {o.index} ELSE live \cup {o.index}
    /\ blocks' = IF o.type = "FREE" THEN blocks ELSE [blocks EXCEPT ![o.index] = call.p]
    /\ UNCHANGED <<traces, left, ops, ranges, verdict, returned>>

\* Mutant of Change: a freed block is still counted.
ChangeNotFreed(o) ==
    CASE o.type = "ALLOC" -> o.size
      [] o.type = "REALLOC" -> o.size - block_sizes[o.index]
      [] o.type = "FREE" -> 0

\* By how much a request changes total_size.
Change(o) ==
    CASE o.type = "ALLOC" -> o.size
      [] o.type = "REALLOC" -> o.size - block_sizes[o.index]
      [] o.type = "FREE" -> 0 - block_sizes[o.index]

UtilStep ==
    /\ pc = "util"
    /\ op =< Len(ops)
    /\ LET o == ops[op]
           total == total_size + Change(o)
       IN  /\ Repeat(o, Request(o))
           /\ total_size' = total
           /\ max_total_size' = IF total > max_total_size THEN total ELSE max_total_size
           /\ block_sizes' = IF o.type = "FREE" THEN block_sizes
                             ELSE [block_sizes EXCEPT ![o.index] = o.size]

StartSpeed ==
    /\ pc = "util"
    /\ op > Len(ops)
    /\ Replay("speed")
    /\ UNCHANGED <<total_size, max_total_size>>

SpeedStep ==
    /\ pc = "speed"
    /\ op =< Len(ops)
    /\ Repeat(ops[op], Request(ops[op]))
    /\ UNCHANGED <<block_sizes, total_size, max_total_size>>

\* fsecs calls eval_mm_speed several times.
SpeedAgain ==
    /\ pc = "speed"
    /\ op > Len(ops)
    /\ Replay("speed")
    /\ UNCHANGED <<total_size, max_total_size>>

EndTrace ==
    /\ pc = "speed"
    /\ op > Len(ops)
    /\ pc' = "main"
    /\ UNCHANGED <<mem, op, total_size, max_total_size, driver>>

Next ==
    \/ StartTrace
    \/ \E o \in Op : ValidAlloc(o) \/ ValidRealloc(o) \/ ValidFree(o)
    \/ StartUtil \/ UtilStep
    \/ StartSpeed \/ SpeedStep \/ SpeedAgain
    \/ EndTrace

Spec == Init /\ [][Next]_vars

-----------------------------------------------------------------------------
(* Properties.                                                             *)

Replaying == pc \in {"valid", "util", "speed"}

\* Whatever the program has called, its heap is blocks without gaps, and the
\* footer of each, which coalease trusts, says what its header says.
HeapIsTiled == Replaying => Tiled(mem) /\ HeadersMatchFooters(mem)

\* What mm_check looks for: no header differs from its footer.
FootersAreKept == Replaying => HeadersMatchFooters(mem)

\* coalease leaves no two free blocks side by side, and the four lists hold
\* exactly the free blocks, each on the list of its size.
FreeBlocksAreListed == Replaying => NoFreeNeighbours(mem) /\ ListsHoldFreeBlocks(mem)

\* Every word of a payload holds what eval_mm_valid wrote there, whatever was
\* allocated, resized and freed since.
PayloadsAreIntact ==
    pc = "valid" => \A i \in live : \A j \in 0 .. Ceil(block_sizes[i]) - 1 :
        Read(mem, blocks[i] + j) = i % 256

\* malloc_error is called for a size of 0, for a heap that is full, and,
\* through the sign of char, for the data of a block whose index has a low
\* byte of 128 or more, but never for two payloads that overlap.
OnlyTheseAreRejected ==
    verdict # "none" =>
        LET o == ops[Len(ops)]
        IN  \/ verdict \in {"mm_malloc failed", "mm_realloc failed"} /\ o.size = 0
            \/ verdict = "outside" /\ ~CanGrow(mem, Ceil(o.size))
            \/ verdict = "not preserved" /\ o.type = "REALLOC" /\ o.index % 256 > 127

\* mm_malloc runs out of heap only if no free block would have done.
CrashesOnlyWhenFull ==
    pc = "crashed" /\ ops[Len(ops)].type = "ALLOC" =>
        \A b \in FreeHeads(mem) : Size(mem, b) < ALIGN(ops[Len(ops)].size + BLK_HDR_FTR_SIZE)

\* The replays begin with the memory the ones before have left, and still
\* get from the allocator the pointers that eval_mm_valid got.
ReplaysAgree ==
    [][UtilStep \/ SpeedStep =>
        ops[op].type = "FREE" \/ blocks'[ops[op].index] = returned[op]]_vars

\* total_size is what is allocated, and utilization is never above 1.
UtilizationIsAShare ==
    pc = "util" => total_size = MapThenSumSet(LAMBDA i : block_sizes[i], live) /\ max_total_size =< mem_heapsize(mem)

\* The payloads of eval_mm_valid and eval_mm_util, which know their sizes, are
\* those of a malloc package.
A == INSTANCE Allocator
        WITH lowest <- mem_heap_lo, highest <- mem_max_addr - 1,
             payload <- [i \in IF pc \in {"valid", "util"} THEN live ELSE {} |->
                            Extent(blocks[i], block_sizes[i])]

ImplementsAllocator == A!Spec
=============================================================================
