# A verification of the CS 351 programs

TLA+ models of the programs in this repository, the TLC runs that check them on
small instances, and proofs about the shell, the hashtable, the cache
simulator and the allocator for every instance. The repository
holds five assignments under `src/mps`: a greeting, a hashtable, a small
shell, a cache simulator with matrix transposes, and a memory allocator with its
test driver. The shell is the core: it is the one program with concurrency, and
the one whose errors a test seldom reaches.

- `PROJECT.json` lists components, runs, mutants, hazards, findings and theorems,
  and maps each definition to the lines it models.
- A run is `tlc -config <run>.cfg <module>`; a proof is `tlapm <module>.tla`.

## 1. Inventory

### Tiny shell (`03/tsh.c`)

*State.* The table `jobs` of MAXJOBS entries (pid, jid, state FG/BG/ST) and the
counter `nextjid`; locals of `eval`, `do_bgfg` and `waitfg` that outlive an
interruption; the signal mask; the pending signals; the kernel's children.
*Operations.* `eval` (block SIGCHLD, fork, `addjob`, unblock, wait), `do_bgfg`,
`waitfg`, the built-in commands, three signal handlers, and the list helpers.
*Interaction.* Main and the handlers share the job list without any lock. The
handlers of SIGCHLD, SIGINT and SIGTSTP run on top of main and, installed with an
empty `sa_mask`, on top of each other. Children run in parallel and report back by
SIGCHLD; the keys reach the shell, which forwards them by `kill`.
*Hard.* A signal between any two steps; pointers and process ids read before an
interruption and used after it; a SIGCHLD handled before somebody waits for it;
`waitfg` polls.
*Correct when* the list holds the unreaped children and nothing else, at most one
job is in the foreground and main waits for it, that wait ends when the job does,
keys reach no background job, and states move along the diagram at the head of
the file. The driver `sdriver.pl` and the traces only type commands.

### Hashtable (`02/hashtable.c`, `main.c`)

*State.* An array of chains of cells that own their key and value strings, and
the heap. *Operations.* put, get, del, rehash, free, iterate, driven by a trace.
*Hard.* Who owns a string after put, during rehash and after an overwrite; which
chain a key is in after rehash; empty chains and size 0.
*Correct when* it behaves as a map, and each block is freed exactly once.

### Cache simulator (`04/csim.c`) and transposes (`04/trans.c`)

*State.* Per set, lines with a valid bit, tag and access count; hits, misses,
evictions. *Operations.* loads, stores, modifies (two accesses). *Hard.* Cutting
the address; the choice of the line; counters that must agree with the contents.
*Correct when* the counts are those of an LRU cache of that geometry.
The transposes are loops over blocks that hold back the diagonal element; correct
when the result is the transpose for every M and N.

### Allocator (`05/mm.c`, `memlib.c`) and driver (`05/mdriver.c`)

*State.* A heap of blocks with header and footer, four circular free lists by
size, an epilogue; `mem_brk`; the driver's list of live ranges and block payloads.
*Operations.* init, malloc (first fit, split), free (coalesce), realloc (in place,
at the end of the heap, or by copy), sbrk; `eval_mm_valid` with `add_range` and
`remove_range`, `eval_mm_util`, `eval_mm_speed`.
*Interaction.* The driver calls the allocator, which calls `mem_sbrk`; the driver
also writes the payloads and resets `mem_brk` between replays.
*Hard.* Boundary tags must agree with the lists after any sequence of calls; a
full heap; realloc's arithmetic; what the driver's tests miss, or reject wrongly;
memory that one replay leaves to the next.
*Correct when* live blocks never overlap and keep their contents, free
neighbours are joined, each free block is on the list of its size, and the driver
rejects an allocator only for an error.
`ftimer.c` calls a function several times between two readings of a timer;
`fcyc.c` and `clock.c` are compiled but, as `config.h` selects the timer, not
called. `mm-explicit.c` is an alternative that is not built.

### Other

`01` prints a greeting. `04` and `05` also hold drivers that mark the programs.

## 2. Modules

| Module | Models | State | Actions |
|---|---|---|---|
| `JobList` | list helpers of `tsh.c` | `jobs`, `nextjid` | operators `addjob`, `deletejob`, `fgpid`, `getjobpid`, ... |
| `Tsh` (extends `JobList`) | main, handlers, children | locals, `mask`, `sigs`, `handler`, `proc` | see below |
| `JobControl` | the job states documented in `tsh.c` | `state` | abstract; `Tsh` implements it |
| `Hashtable` | `hashtable.c` and the trace loop | `heap`, `ht`, `newht`, `pc`, `last` | `Start Put Get Del Info RehashStart RehashMove RehashEnd End` |
| `Dictionary` | a map | `dict`, `last` | abstract; `Hashtable` implements it |
| `Csim` | `csim.c` | `sets`, `par`, `address`, `twice` | `LoadOrStore Modify ModifyAgain` |
| `SetCache` | a set-associative cache with any policy | `held`, counters | abstract; `Csim` implements it |
| `CsimLru` (extends `Csim`) | order of use, as a history variable | `used` | |
| `MemLib` | `memlib.c` | `mem` (the words and `mem_brk`) | operators `mem_sbrk`, `mem_reset_brk`, ... |
| `Mm` (extends `MemLib`) | `mm.c` | the same | operators `mm_malloc`, `mm_free`, `mm_realloc` and what they call |
| `MmDriver` (extends `Mm`) | the replays of `mdriver.c` | trace, blocks, ranges, sizes | `StartTrace ValidAlloc ValidRealloc ValidFree StartUtil UtilStep StartSpeed SpeedStep SpeedAgain EndTrace` |
| `Allocator` | what a malloc package promises | `payload` | abstract; `MmDriver` implements it |
| `MCTsh`, `MCHashtable` | instances for TLC | | |
| `JobListProofs`, `TshProofs`, `TshSafetyProofs` | proofs about the shell | | |
| `HashtableProofs` | proofs about the hashtable | | |
| `CsimProofs` | proofs about the cache simulator | | |
| `MmProofs`, `MmDriverProofs`, `AllocatorProofs` | proofs about the allocator, its driver, and the abstract allocator | | |

### How Tsh corresponds to the code

One step is one call of a list helper or one system call, which is where another
activity can be noticed, or one read through a pointer into the list. The code
executed between two of these reads and writes only locals.

- *eval*: `ReadRun` (parse, block SIGCHLD), `Fork` or `ForkFails`, `Add`, `Unblock`,
  then `EnterWaitfg` (the `getjobpid` test) and the loop `LeaveWaitfg`.
- *do_bgfg*: `FindByPid`, or `FindByJid` and then `ReadPid` (`pid = job->pid`), `Cont`
  (the `kill`), `SetState`, and for fg `RereadPid` (the argument of the call
  `waitfg(job->pid)` is read after the kill). If the handler of SIGCHLD has cleared the
  entry before `ReadPid`, `Cont` is `kill(0, SIGCONT)`, which resumes the stopped
  children that are still in the group of the shell.
- *sigchld_handler*: `Wait` is one `waitpid`, whose argument `fgpid` is read in the
  same step because C reads it just before; `MarkStopped` and `DeleteDead` are the
  branches.
- *sigint_handler, sigtstp_handler*: `ReadForeground`, then `Forward`.
- *Signals*: `sigs` is the pending set; `Deliver` starts a handler whenever its
  signal is pending, neither blocked by `eval` nor already being handled, and
  notes which handlers it interrupts. `HandlerRuns` lets only the top one move.
- *Children*: `Setpgid`, `Exec` and `TakeSignal`; from setpgid on also `Exit` and
  `Stop`, for which a signal from another program is enough. Between fork and setpgid
  others can kill or stop a child only where `EarlySignals` is TRUE. A stopped child
  that is continued goes on where it was (`Continued`). A key that arrives before exec
  is taken by the inherited handlers (`Swallow`).
- `BlankLine` is the NULL that `builtin_cmd` passes to `strcmp`; `MarkStopped` has
  the NULL branch of the handler. Both end in `pc = "crashed"`.

Abstractions. Command lines and output are left out. A job is its first process.
A signal may be delivered any time after it becomes pending, which includes all
the times the kernel would choose. A process id can be reused by fork once its child
is reaped; other programs, which could be given it too, are not in the model. Children take default actions and nobody else sends SIGCONT. Parse errors
of bg and fg only print and are left out.

### How Hashtable corresponds to the code

A chain is a sequence of cells. Put, get, del and free are one step, since the
program has one thread; `ht_rehash` is one step per cell, so that every property,
the refinement included, also holds in the middle of it. Blocks are named by
content and copy number; the allocator may reuse a freed block at once. A value is
a pointer, as in the code, so copies of one string are distinct values, and
`NoVal`, the NULL of `ht_get`, is no block. The three
ways to crash (size 0, del in an empty chain, rehash to size 0) are disjuncts.

### How Csim corresponds to the code

Addresses have `Width` bits, and `setIndex` shifts as the code does, modulo
2^Width. `SetCache` defines set and block by division, so the refinement checks
the shifts. An M is `Modify` followed by `ModifyAgain` at the same address.

### How Mm and MmDriver correspond to the code

*Memory* is a function from addresses, counted in words of 8 bytes, to words. A
function of `mm.c` becomes an operator that takes the memory it finds and returns
the one it leaves; local variables keep their names, sizes stay in bytes. A word
is a natural number: the size with its lowest bit, an address, or the byte a
payload was filled with. The lists live in that memory, linked by `next_p`
and `prior_p` of the blocks, as in the code.

- `coalease`, `split_block`, `find_fit`: the searches over pointers are functions over
  addresses (`FreeList`, `Heads`), the three cases of coalease are one expression.
- `mm_realloc` has all its cases. `next_block_free` tests the size bits and not
  the bit that says free, so it holds for no block, and the two cases that merge
  with the next block are never taken. The definition says so and keeps them.
- *Full heap*: `mem_sbrk` returns `(void *)-1`, which is not `<= 0` as a
  pointer. `mm_malloc` then writes through it (`Crashes`). `mm_realloc` at the end of
  the heap does not look at the address: it writes the footer, which is outside the
  heap or not (`ExtendLast`), so both outcomes are allowed.
- *Driver*: a trace is not read first, it is chosen request by request while
  `eval_mm_valid` replays it (`ValidAlloc`, ...); `eval_mm_util` and `eval_mm_speed`
  replay what was chosen. A new block takes the least free index, as in the trace
  files, but any index set can be given. `SpeedAgain` is the repetition by `ftimer`.
- *Errors*: `malloc_error` and `return 0` are `Reject`; `app_error` in a replay is
  `pc = "exit"`; a signal that ends the program is `pc = "crashed"`.

`mm_check` is called by nobody: it is a property (`FootersAreKept`), not an action.

## 3. Runs

| Run | Question | Instance | Result |
|---|---|---|---|
| `tsh_safety` | types, list against children, NULL in the handler, job diagram | 3 children, 2 entries, run, run&, fg, bg, ctrl-c | holds, 1.1 M states |
| `tsh_keys` | foreground is awaited, ST jobs are stopped, a `kill` is aimed right, keys spare the background | 2 children, 2 entries, both keys, blank | holds, 4.5 M states |
| `tsh_live` | waits end, and a `kill` is aimed right with early signals too | 2 children, 1 entry, ctrl-c, quit, early signals | holds, 0.3 M states |
| `tsh_reap` | "reaps all available zombie children" | 2 children | violated |
| `tsh_fg_hang` | fg returns when its job has ended | 1 child | violated |
| `tsh_two_fg` | "At most 1 job can be in the FG state" | 3 children, early signals | violated |
| `tsh_jids` | a job id names one job | 4 entries | violated |
| `hashtable` | types, keys unique, ownership, leaks, refines the map | 3 keys, sizes 0-2 | holds, 0.3 M states |
| `csim` | types, counters, M hits, the shifts cut as they should, refines the set cache | 2 sets, 3 lines, 4 bits | holds, 0.8 M states |
| `csim_lru` | "Replacement policy is LRU" | 2 sets, 2 lines | violated |
| `mm` | heap, lists, payloads, the driver's verdicts, replays agree, refines the allocator | 2 traces, 6 requests, sizes 0, 8, 300, 130 words | holds, 0.4 M states |
| `mm_realloc` | headers and footers "have the same size" | sizes 8, 16, 40 | violated |

Why the bounds are enough.

- *tsh*. In `tsh_safety` two entries and three children make the list full, with an untracked
  child beside the tracked ones; two jobs give a foreground and a background one,
  and two candidates for every search. MAXJID above MAXJOBS in `tsh_keys` lets
  `deletejob` push `nextjid` past MAXJOBS. Job ids have no bound in the program (its
  `MAXJID` is not used): `ReadRun` stops when `nextjid` is above MAXJID. Three
  interrupting handlers reach their full nesting depth. `tsh_jids` needs four
  entries: with fewer, the list is full whenever `nextjid` wraps with job 1 alive.
- *hashtable*. Three keys in one chain have a head, a middle and an end. Hashes
  0, 2, 3 collide all, two or none at sizes 1, 2. Four copies (`Copies`) are one
  more than can be held, as put and rehash need, so no call is cut short.
- *csim*. Set, offset and two tag bits give four blocks to a set of three lines;
  seven accesses (`MaxAccess`) fill a set and evict repeatedly.
- *mm*. A heap of 130 words (`MAX_HEAP`) holds two blocks of 300 bytes but not
  three, so it becomes full, for malloc and for realloc, while small blocks still
  fit. 8 and 300 bytes lead to different lists, are split from each other and
  joined with each other. Six requests (`MaxOps`, for both traces together) free a
  block with a free neighbour on both sides, and leave words behind
  for the second trace to find. Index 200 has a low byte above 127. The sizes are
  too far apart for the overrun of finding 6, so that the other properties, among
  them `PayloadsAreIntact`, say nothing of it and can be checked beyond it; `mm_realloc` has sizes that are close.

Deadlock is not checked: the shell waits for input, exits and crashes, and the
other programs end. Where a configuration of `MCTsh` asks for symmetry it is over
process ids, which the program only compares for equality; `tsh_live` and
`tsh_fg_hang`, whose properties are temporal, use none.

### Fairness (`FairSpec`)

The scheduler and the kernel justify: main's steps and each handler's steps are
strongly fair, because keys can interrupt them again and again; delivery of
a pending signal, and a child's setpgid, exec and taking of a signal are weakly
fair. Nothing is assumed of typing, of jobs exiting, of SIGQUIT. `EvalWaitReturns` holds for
jobs started by eval, whose SIGCHLD is handled while they are in the
foreground; `tsh_fg_hang` shows that it cannot be extended to fg.

## 4. Findings

1. *Zombies* (`tsh_reap`). The handler calls `waitpid(fgpid(jobs), ...)`. Without
   a foreground job this is `waitpid(0, ...)`, which matches only the process
   group of the shell, and jobs have their own. A background job that ends is
   neither reaped nor removed. The comment says all zombies are reaped.
2. *fg hangs* (`tsh_fg_hang`). Such a zombie can be brought to the foreground;
   its SIGCHLD has been consumed, and `waitfg` spins for ever.
3. *Two foreground jobs* (`tsh_two_fg`). A child that dies before `setpgid` can be
   reaped between the kill and `job->state = FG`; the cleared entry is then
   marked FG and stays so.
4. *Job ids* (`tsh_jids`). `nextjid` wraps to 1 although job 1 exists.
5. *Not LRU* (`csim_lru`). A hit increments the access count rather than making it
   the largest of its set, so the line used last can be evicted.
6. *realloc overruns* (`mm_realloc`). `mm_realloc` copies as many bytes as the old
   block has *with* header and footer. If the new block is less than 32
   bytes larger than the old one, its footer is overwritten, and, if it is 8 or 16
   bytes larger, so is the size of the next block.

Some are modelled without a finding, since the source promises nothing there.

- A blank line crashes the shell, and so does deleting from an empty chain of the
  hashtable. A key typed before a child has called exec is lost, and no property
  says otherwise: `CtrlCEndsForeground` is about a program that runs.
- A child that finds no free entry (line 512) and is stopped by another program
  before its setpgid is reported by `waitpid(0, ...)`, and line 406 follows the NULL
  that `getjobpid` returns. This is why `HandlerFindsJob` is checked and proved with
  `EarlySignals` FALSE.
- The handler of a key can call `kill` with a process id that is free: SIGCHLD can be
  handled, and the job reaped, between lines 430 and 434. `KillsReachTheirJob` says
  that no child has that id by then; that no process of another program has it is
  not said, and is not true.
- The allocator does not notice a full heap (see above); `CrashesOnlyWhenFull`
  says that a `mm_malloc` called by the driver crashes only when no free block would
  do. It does not speak of the `mm_malloc` inside `mm_realloc`.
- `eval_mm_valid` compares a `char` with `index & 0xFF`: a correct realloc of a block
  whose index has a low byte above 127 is rejected where `char` has a sign.
  `OnlyTheseAreRejected` lists this as one of three reasons to reject.
- `add_range` looks at the ends of the new block only and misses one that contains
  an old one. `Mm` never makes use of it, which `ImplementsAllocator` shows.

## 5. Proofs

TLAPS proves, for every value of the constants that satisfies the named
assumptions of the modules (`JobListAssumption`, `TshAssumption`,
`HashtableAssumption`, `CsimAssumption`, and those of `MemLib` and `MmDriver`; TLC
evaluates each of them in a run):

| Theorem | Says | Further hypothesis |
|---|---|---|
| `TshProofs!TypeCorrect` | `Spec => []TypeOK` | |
| `ListMatchesChildren` | `Spec => []JobsMatchChildren` | |
| `KeysSpareBackground` | `Spec => BackgroundNotSignalled` | |
| `KillsAreAimed` | `Spec => []KillsReachTheirJob` | |
| `StoppedJobsStayStopped` | `Spec => []StoppedJobsAreStopped` | `EarlySignals = FALSE` |
| `ForegroundAwaited` | `Spec => []ForegroundIsAwaited` | `EarlySignals = FALSE` |
| `HandlerHasJob` | `Spec => []HandlerFindsJob` | `EarlySignals = FALSE` |
| `OneForeground` | `Spec => []AtMostOneForeground` | `EarlySignals = FALSE` |
| `JobControlImplemented` | `Spec => ImplementsJobControl` | `EarlySignals = FALSE` |
| `HashtableProofs!TypeCorrect` | `Spec => []TypeOK` | |
| `EachKeyOnce` | `Spec => []KeysAreUnique` | |
| `HeapOwned` | `Spec => []HeapIsOwned` | |
| `NoLeaks` | `Spec => []NothingLeaks` | |
| `TableIsDictionary` | `Spec => ImplementsDictionary` | |
| `CacheTyped` | `Spec => []TypeOK` | |
| `CutsAreRight` | `Spec => []AddressIsCut` | |
| `CountersAgree` | `Spec => []MissesFillOrEvict` | |
| `SecondAccessHits` | `Spec => ModifyHits` | |
| `CacheImplemented` | `Spec => ImplementsSetCache` | |
| `TypesAreKept` | `Spec => []TypeOK` | `SizesFarApart` |
| `HeapStaysTiled` | `Spec => []HeapIsTiled` | `SizesFarApart` |
| `FreeBlocksStayListed` | `Spec => []FreeBlocksAreListed` | `SizesFarApart` |
| `PayloadsStayIntact` | `Spec => []PayloadsAreIntact` | `SizesFarApart` |
| `RejectionsAreKnown` | `Spec => []OnlyTheseAreRejected` | `SizesFarApart` |
| `CrashesMeanFull` | `Spec => []CrashesOnlyWhenFull` | `SizesFarApart` |
| `ReplaysReturnTheSame` | `Spec => ReplaysAgree` | `SizesFarApart` |
| `DriverIsAllocator` | `Spec => ImplementsAllocator` | `SizesFarApart` |
| `UtilizationAtMostOne` | `Spec => []UtilizationIsAShare` | `SizesFarApart` |
| `PayloadsShareNothing` | `Allocator!Spec => []NothingShared` | |

### The shell

`EarlySignals = FALSE` says that no child ends or stops between fork and setpgid, a
window in which only another program can kill or stop it. `tsh_two_fg` shows that
the assumption is needed for one foreground job; without it the NULL of line 406
is reached (section 4), and `kill(0, SIGCONT)` can resume a child whose entry says ST. The argument is layered, each layer using the ones below.

- `TypeInv` adds `EvalInv` to the types: SIGCHLD is blocked and its handler idle
  from the reading of a command to the entry of the job, and `do_bgfg`'s pointer is
  not NULL where it is used. Without the first `nextjid` could grow between the
  test and its use, without the second `jobs[job]` has no type.
- `ChildInv` adds to `JobsMatchChildren` that a child about to be entered is alive
  and not listed; otherwise `addjob` could list a pid twice.
- `ForegroundInv` says what main holds at each place of eval and do_bgfg, and that
  the SIGCHLD handler only has foreground jobs in hand: a `waitpid(0, ...)` finds
  nothing because a child without its own group has not changed state. This is
  where early signals break it.
- `StoppedInv` adds to `StoppedJobsAreStopped` that only used entries are ST and that
  the process whose stop the handler is about to record is stopped or
  dead. Without the last the handler could mark a running process ST. That
  `kill(-pid, SIGCONT)` resumes the job of do_bgfg's pointer only is in `ForegroundInv`.
- `KillInv` adds to `KillsReachTheirJob` that a child whose death the handler has in
  hand is reaped, so that `deletejob` takes no living child off the list. It needs no
  assumption on early signals: whoever holds a process id keeps main from the next
  fork. `KeysSpareBackground` follows from it and `ChildInv`.
- The refinement shows that each step changes the state of at most one process
  (`OneStateChanges`), from what `getjobpid` finds (`StateOfReads`), and maps each
  action to one of `JobControl` or to a stutter.

`JobListProofs` has the lemmas about the helpers: what a scan, `getjobpid`, `fgpid`
and `maxjid` return, and that `addjob`, `deletejob` and `SetJobState` keep the types.

### The hashtable

`TablesInv` is inductive: each table is sound (every cell is in the chain of its
hash), has each key once, the two tables of a rehash have no key in common, and
the heap is exactly the headers, cells and strings they reach, each once. None of
these holds alone: that put finds an old cell needs the chain to be right, that
it may free a string needs that nobody else reaches it. For the
refinement a table is read as the set of its cells, and that set *represents* a
map when each key has one value; every operation is shown to change this set as
the map changes, and a step of rehash to leave the union of both tables alone.

### The cache simulator

`CacheInv`: lines are counted at most as often as there were accesses, two valid
lines of a set have different tags, misses equal valid lines plus evictions, and
while an M is half done its block is in the cache. The refinement maps a set to
the set of its blocks.

The shifts of `setIndex` and `input_tag` are proved to cut every address as
division by the sizes does (`ShiftsCut`, which all other lemmas use), for any
`Width`, `s` and `b` with s + b < Width (at equality `csim.c:180` shifts by all 64
bits, which C leaves undefined). The provers know no laws of 2^x; the
law needed, 2^(m+n) = 2^m * 2^n (`PowersMultiply`), follows from the library's theorem
that a set of n elements has 2^n subsets: those of the union of two sets that share
nothing are the pairs of their subsets. `Cut` is then arithmetic of division,
for any numbers of tags, sets and bytes.

### The allocator and its driver

A heap is first described without its words (`MmProofs`). A description H says
where the blocks are and how many words each has, which are free, and which
follow each other on each of the four lists. `Shape(H)`: the blocks cover the
heap without a gap. `Chained(H)`: each list goes from its head through blocks, none
twice, back to its head. `Tidy(H)`: no two free blocks are neighbours, and a list
holds exactly the free blocks of its sizes. `Holds(m, H)`: the headers, footers,
links and epilogue in memory m say what H says.

For each function of `mm.c` one lemma then says that it takes a memory
that holds H to a memory that holds the description it leads to. `Tidy` is lost and
regained on the way: `split_block` leaves a block on the list of its old size,
`coalease` takes neighbours off their lists before it joins them. What the walks
of `find_fit` and of `Tiled` find is shown from the lists and blocks of H, by
induction in the only form the provers accept: a set of numbers without a least
element is empty (`WFMin` of the library, applied to sets that are written out).

What a function leads to depends on H alone, never on other words. So the state
that a request leads to can be named (`Served`), and the inductive invariant `Inv`
says that there is a `History`: for the requests of the trace a sequence of states,
each the one that the request before it leads to, and for each request the
pointer it returns. `eval_mm_valid` extends it; `eval_mm_util` and
`eval_mm_speed` are at place `op` of the same one, whatever the memory held when
they began. That is why `ReplaysAgree` holds, and why a replay after an accepted trace neither
crashes nor exits. `Inv` also says that the range list is the payloads in
use and that they hold what the driver wrote.

The sum in `UtilizationIsAShare` is a fold, which takes the blocks in some order.
`SumWithout` shows that the order does not matter, by a smallest set for which it
would, so a request changes the sum by what `Change` says. `Packed` shows, taking
the leftmost block away, that blocks apart from each other are no longer than
the room they lie in; and no request makes the heap smaller (`HeapGrows`).

`SizesFarApart` says that two different sizes of a trace, rounded up to 8,
differ by more than 104 bytes. `mm_realloc` is correct only then (finding 6, and
`mm_realloc` of section 3 shows the heap broken without it): it copies the old block
with its 32 bytes of header and footer, the old block can have up to 72 bytes more
than were asked for, because `split_block` leaves such a remainder alone, and
the new block has to have room for all of them. A program that asks for closer
sizes and resizes between them has no such guarantee. For a trace that only
allocates and frees the assumption is stronger than needed, since only realloc
overruns; it is not split by kind of request. Nothing is assumed of
the number of sizes, requests, indices or traces, nor of the size of the heap.

### Only model-checked

- Liveness (`tsh_live`): out of TLAPS's reach.

## 6. Not modelled

- *Transposes* (`04/trans.c`): loops over two matrices with no other state, no
  order of events and no failure, whose result the test compares with a transpose
  for each of the sizes the assignment has. Line 54 assumes a square matrix.
- `mm-explicit.c` and `hashtable-demo.c` are handed-out starting points that are
  not part of the programs.
- `fcyc.c` and `clock.c` read the hardware and are not called; of the timers only
  that they repeat the call.
- `mdriver.c`: the replays of libc's malloc under `-l`, options, and tables.
- The marking drivers, `tracegen.c` and `test-trans.c` run the other programs. `01`
  has no state.
- Of the modelled files, output, option parsing and command-line parsing are left
  out; `hash` is a constant function; `ht_iter` has no caller; `listjobs` and
  `pid2jid` only print; `mem_deinit` and `mem_pagesize` have no caller.

## 7. What could follow

1. The transposes against the definition of a transpose, for sizes that end in the
   middle of a block.
