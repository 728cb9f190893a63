--------------------------------- MODULE Mm ----------------------------------
(***************************************************************************)
(* The allocator of src/mps/05/mm.c: blocks with a header and a footer,    *)
(* and four circular lists of free blocks, by size, in the heap itself.    *)
(*                                                                         *)
(* A function of the code takes the memory it finds and returns the memory *)
(* it leaves; sizes are in bytes, as in the code, addresses count words.   *)
(***************************************************************************)
EXTENDS MemLib, SequencesExt

NULL == 0

\* sizeof header and footer: size, next_p and prior_p; size.
BLK_HDR_SIZE == 24
BLK_FTR_SIZE == 8
BLK_HDR_FTR_SIZE == BLK_HDR_SIZE + BLK_FTR_SIZE

ALIGN(size) == 8 * ((size + 7) \div 8)

\* The words of a block of that size; the lowest bit falls away.
Words(size) == size \div 8

IsFree(size) == (size % 2) = 0

Bytes(size) == size - (size % 2)

Size(m, head) == Read(m, head)
NextP(m, head) == Read(m, head + 1)
PriorP(m, head) == Read(m, head + 2)

SetSize(m, head, size) == Write(m, head, size)
SetNextP(m, head, to) == Write(m, head + 1, to)
SetPriorP(m, head, to) == Write(m, head + 2, to)

\* The size in the header, and in the footer that the size leads to.
SetBlock(m, head, size) ==
    SetSize(SetSize(m, head, size), head + Words(size) - 1, size)

\* Header and footer of a block, each marked on its own.
Foot(m, head) == head + Words(Size(m, head)) - 1

MarkWord(m, a) == Write(m, a, Bytes(Read(m, a)) + 1)
UnmarkWord(m, a) == Write(m, a, Bytes(Read(m, a)))

Mark(m, head) == MarkWord(MarkWord(m, head), Foot(m, head))
Unmark(m, head) == UnmarkWord(UnmarkWord(m, head), Foot(m, head))

GET_EPILOGUE(m) == mem_heap_hi(m) - 2

SetEpilogue(m) ==
    LET epilogue == GET_EPILOGUE(m)
    IN  SetSize(SetNextP(SetPriorP(m, epilogue, epilogue), epilogue, epilogue),
                epilogue, BLK_HDR_SIZE + 1)

-----------------------------------------------------------------------------
(* The heads of the lists, a footer that looks allocated, the epilogue.    *)

NUM_OF_FREE_LISTS == 4

ListHead(i) == mem_heap_lo + 3 * (i - 1)

FirstBlock == mem_heap_lo + 3 * NUM_OF_FREE_LISTS + 1

\* Mutant of mm_init: list heads that are there already are kept.
mm_initOnce(m) ==
    LET Emptied(i, x) == SetSize(SetPriorP(SetNextP(x, ListHead(i), ListHead(i)),
                                           ListHead(i), ListHead(i)), ListHead(i), 1)
        lists == IF Size(m, ListHead(1)) = 1 THEN mem_sbrk(m, 13)
                 ELSE Emptied(4, Emptied(3, Emptied(2, Emptied(1, mem_sbrk(m, 13)))))
    IN  SetSize(mem_sbrk(SetSize(lists, FirstBlock - 1, 1), 3), FirstBlock, BLK_HDR_SIZE + 1)

mm_init(m) ==
    LET Emptied(i, x) == SetSize(SetPriorP(SetNextP(x, ListHead(i), ListHead(i)),
                                           ListHead(i), ListHead(i)), ListHead(i), 1)
        lists == Emptied(4, Emptied(3, Emptied(2, Emptied(1, mem_sbrk(m, 13)))))
    IN  SetSize(mem_sbrk(SetSize(lists, FirstBlock - 1, 1), 3), FirstBlock, BLK_HDR_SIZE + 1)

\* The number of the list for blocks of that size.
map_to_list(size) ==
    CASE size < 290 -> 1
      [] size >= 290 /\ size < 540 -> 2
      [] size >= 540 /\ size < 2080 -> 3
      [] OTHER -> 4

\* The blocks that next_p leads to from the head of list i: no more than the
\* heap has words.
FreeList(m, i) ==
    LET at[n \in 0 .. MAX_HEAP + 1] == IF n = 0 THEN ListHead(i) ELSE NextP(m, at[n - 1])
        length == CHOOSE n \in 0 .. MAX_HEAP : /\ at[n + 1] = ListHead(i)
                                               /\ \A k \in 1 .. n : at[k] # ListHead(i)
    IN  [n \in 1 .. length |-> at[n]]

FirstFit(m, list, size) ==
    LET fits == {n \in DOMAIN list : Size(m, list[n]) >= size /\ IsFree(Size(m, list[n]))}
    IN  IF fits = {} THEN NULL ELSE list[Min(fits)]

\* Mutant of find_fit: the lists of larger blocks are not searched.
find_fitInOneList(m, size) == FirstFit(m, FreeList(m, map_to_list(size)), size)

\* The first block that is large enough, of the first list that has one.
find_fit(m, size) ==
    LET fits == [i \in 1 .. NUM_OF_FREE_LISTS |-> FirstFit(m, FreeList(m, i), size)]
        lists == {i \in map_to_list(size) .. NUM_OF_FREE_LISTS : fits[i] # NULL}
    IN  IF lists = {} THEN NULL ELSE fits[Min(lists)]

remove_from_free_lists(m, head) ==
    SetPriorP(SetNextP(m, PriorP(m, head), NextP(m, head)), NextP(m, head), PriorP(m, head))

\* head becomes the first of the list.
Link(m, list, head) ==
    LET linked == SetNextP(SetPriorP(m, head, list), head, NextP(m, list))
    IN  SetNextP(SetPriorP(linked, NextP(m, list), head), list, head)

add_to_free_lists(m, head) == Link(m, ListHead(map_to_list(Size(m, head))), head)

\* Mutant of coalease: the block before is not looked at.
coaleaseForward(m, head) ==
    LET size == Size(m, head)
        next_head == head + Words(size)
        unlinked == remove_from_free_lists(m, next_head)
    IN  IF IsFree(size) /\ IsFree(Size(m, next_head))
        THEN [mem |-> SetBlock(unlinked, head, size + Size(m, next_head)), head |-> head]
        ELSE [mem |-> m, head |-> head]

\* The memory after, and the head of the joined block.
coalease(m, head) ==
    LET size == Size(m, head)
        prev_foot == head - 1
        next_head == head + Words(size)
        prevFree == IsFree(Size(m, prev_foot))
        nextFree == IsFree(Size(m, next_head))
        prev_head == head - Words(Size(m, prev_foot))
        after == IF nextFree THEN remove_from_free_lists(m, next_head) ELSE m
        before == IF prevFree THEN remove_from_free_lists(after, prev_head) ELSE after
        joined == IF prevFree THEN prev_head ELSE head
        new_size == size + (IF prevFree THEN Size(m, prev_foot) ELSE 0)
                         + (IF nextFree THEN Size(m, next_head) ELSE 0)
    IN  IF IsFree(size) /\ (prevFree \/ nextFree)
        THEN [mem |-> SetBlock(before, joined, new_size), head |-> joined]
        ELSE [mem |-> m, head |-> head]

\* Mutant of split_block: the footer of the first part is not written.
split_blockNoFooter(m, old_size, new_size, head) ==
    LET extra == head + Words(new_size)
        parts == SetBlock(SetSize(m, head, new_size), extra, old_size - new_size)
    IN  IF old_size - new_size > BLK_HDR_FTR_SIZE + 40
        THEN add_to_free_lists(parts, extra)
        ELSE m

\* What coalease returns is not used.
split_block(m, old_size, new_size, head) ==
    LET extra == head + Words(new_size)
        parts == SetBlock(SetBlock(m, head, new_size), extra, old_size - new_size)
        joined == IF IsFree(Size(parts, extra + Words(old_size - new_size)))
                  THEN coalease(parts, extra).mem
                  ELSE parts
    IN  IF old_size - new_size > BLK_HDR_FTR_SIZE + 40
        THEN add_to_free_lists(joined, extra)
        ELSE m

-----------------------------------------------------------------------------
(* The interface.  A call that returns a pointer gives the memory it       *)
(* leaves, the pointer, and how it may end: a write outside the heap       *)
(* crashes, or is not noticed.                                             *)

Returns(m, p) == [mem |-> m, p |-> p, ends |-> {"returns"}]

\* mem_sbrk has failed: (void *)-1 is not <= 0, and is written through.
Crashes(m) == [mem |-> m, p |-> NULL, ends |-> {"crashes"}]

\* A new block, which begins at the old epilogue and is larger by its size.
GrowHeap(m, new_size) ==
    LET epilogue == GET_EPILOGUE(m)
        freed == SetSize(m, epilogue, BLK_HDR_SIZE)
        block == SetBlock(mem_sbrk(freed, Words(new_size + BLK_HDR_SIZE)), epilogue,
                          BLK_HDR_SIZE + new_size + 1)
    IN  IF CanGrow(m, Words(new_size + BLK_HDR_SIZE))
        THEN Returns(SetEpilogue(block), epilogue + 3)
        ELSE Crashes(freed)

\* A free block, cut to size.
UseBlock(m, free_block, new_size) ==
    LET Take(cut) == remove_from_free_lists(Mark(cut, free_block), free_block)
    IN  Returns(Take(split_block(m, Size(m, free_block), new_size, free_block)), free_block + 3)

Allocate(m, new_size, free_block) ==
    IF free_block = NULL THEN GrowHeap(m, new_size) ELSE UseBlock(m, free_block, new_size)

mm_malloc(m, size) ==
    LET new_size == ALIGN(size + BLK_HDR_FTR_SIZE)
    IN  IF size = 0 THEN Returns(m, NULL) ELSE Allocate(m, new_size, find_fit(m, new_size))

mm_free(m, ptr) ==
    LET head == ptr - 3
        Add(joined) == add_to_free_lists(joined.mem, joined.head)
    IN  IF ptr = NULL THEN m ELSE Add(coalease(Unmark(m, head), head))

is_last_block(m, head) == head + Words(Size(m, head)) >= GET_EPILOGUE(m)

\* bp gets new_size bytes, add_size of them from mem_sbrk, whose failure is
\* again not noticed: then the footer may be written outside the heap.
ExtendLast(m, bp, new_size, add_size) ==
    LET freed == SetSize(m, GET_EPILOGUE(m), BLK_HDR_SIZE)
        grown == IF CanGrow(m, Words(add_size)) THEN mem_sbrk(freed, Words(add_size)) ELSE freed
        resized == SetEpilogue(SetBlock(grown, bp, new_size + 1))
    IN  [mem |-> resized, p |-> bp + 3,
         ends |-> IF bp + Words(new_size) - 1 \in Address
                  THEN {"returns"} ELSE {"returns", "crashes"}]

\* memcpy takes as many bytes as the old block has with header and footer.
MoveBlock(m, ptr, size, curr_block_size) ==
    LET Copied(new_blk) == CopyWords(new_blk.mem, new_blk.p, ptr, Words(curr_block_size))
        Moved(new_blk) ==
            IF new_blk.ends = {"crashes"}
            THEN new_blk
            ELSE Returns(mm_free(Copied(new_blk), ptr), new_blk.p)
    IN  Moved(mm_malloc(m, size))

\* Mutant of mm_realloc: case 4 is taken for every block.
mm_reallocExtending(m, ptr, size) ==
    LET new_size == ALIGN(size + BLK_HDR_FTR_SIZE)
        curr_block_size == Bytes(Size(m, ptr - 3))
    IN  IF new_size =< curr_block_size
        THEN Returns(m, ptr)
        ELSE ExtendLast(m, ptr - 3, new_size, new_size - curr_block_size)

\* next_block_free tests all bits of the size but the one that says so: it
\* holds for no block, since none has a size of 0.
mm_realloc(m, ptr, size) ==
    LET bp == ptr - 3
        new_size == ALIGN(size + BLK_HDR_FTR_SIZE)
        curr_block_size == Bytes(Size(m, bp))
        next_block == bp + Words(curr_block_size)
        next_block_size == Bytes(Size(m, next_block))
        next_block_free == next_block_size = 0
        both == next_block_size + curr_block_size
        unlinked == remove_from_free_lists(m, next_block)
    IN  IF size = 0 THEN Returns(mm_free(m, ptr), NULL)
        ELSE IF ptr = NULL THEN mm_malloc(m, size)
        ELSE IF new_size =< curr_block_size THEN Returns(m, ptr)
        ELSE IF next_block_free /\ both >= new_size
        THEN Returns(SetBlock(unlinked, bp, both + 1), ptr)
        ELSE IF next_block_free /\ is_last_block(m, next_block)
        THEN ExtendLast(unlinked, bp, new_size, new_size - both)
        ELSE IF is_last_block(m, bp)
        THEN ExtendLast(m, bp, new_size, new_size - curr_block_size)
        ELSE MoveBlock(m, ptr, size, curr_block_size)

-----------------------------------------------------------------------------
(* What the allocator keeps true of the heap.                              *)

\* The headers met from the first block to the epilogue.
Heads(m) ==
    LET from[b \in Nat] == IF b >= GET_EPILOGUE(m) \/ Words(Size(m, b)) = 0
                           THEN {}
                           ELSE {b} \cup from[b + Words(Size(m, b))]
    IN  from[FirstBlock]

FreeHeads(m) == {b \in Heads(m) : IsFree(Size(m, b))}

HeadersMatchFooters(m) == \A b \in Heads(m) : Size(m, b) = Read(m, Foot(m, b))

\* Each block begins where the one before ends, the first after the list
\* heads, and the last ends at the epilogue; both ends look allocated.
Tiled(m) ==
    LET ends == {FirstBlock} \cup {b + Words(Size(m, b)) : b \in Heads(m)}
    IN  /\ GET_EPILOGUE(m) \in ends
        /\ Size(m, GET_EPILOGUE(m)) = BLK_HDR_SIZE + 1
        /\ Read(m, FirstBlock - 1) = 1

NoFreeNeighbours(m) ==
    \A b \in FreeHeads(m) : b + Words(Size(m, b)) \notin FreeHeads(m)

\* A list holds the free blocks of its sizes, each once, linked both ways.
ListsHoldFreeBlocks(m) ==
    \A i \in 1 .. NUM_OF_FREE_LISTS :
        LET list == FreeList(m, i)
        IN  /\ ToSet(list) = {b \in FreeHeads(m) : map_to_list(Size(m, b)) = i}
            /\ IsInjective(list)
            /\ \A b \in ToSet(list) \cup {ListHead(i)} : PriorP(m, NextP(m, b)) = b
=============================================================================
