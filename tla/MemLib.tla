------------------------------- MODULE MemLib --------------------------------
(***************************************************************************)
(* The simulated heap of src/mps/05/memlib.c.                              *)
(*                                                                         *)
(* Memory is addressed in words of 8 bytes, the unit of every address and  *)
(* size of the allocator.  A word holds a pointer, a size in bytes whose   *)
(* lowest bit says "allocated", or a word of some payload.                 *)
(***************************************************************************)
EXTENDS Integers

CONSTANTS
    MAX_HEAP,       \* bound: words of the heap, where config.h has 20 MB
    mem_start_brk   \* the address of the first word

\* No size is taken for a pointer, nor a pointer for a size.
ASSUME MemLibAssumption ==
    /\ MAX_HEAP \in Nat
    /\ mem_start_brk \in Nat
    /\ mem_start_brk > 8 * MAX_HEAP + 1

\* mem_brk and the words of the heap.
VARIABLE mem

mem_max_addr == mem_start_brk + MAX_HEAP

Address == mem_start_brk .. mem_max_addr - 1

mem_init == [brk |-> mem_start_brk, word |-> [a \in Address |-> 0]]

\* The words keep what they held.
mem_reset_brk(m) == [m EXCEPT !.brk = mem_start_brk]

\* Mutant of CanGrow: mem_max_addr is not looked at.
CanAlwaysGrow(m, words) == TRUE

\* Can mem_sbrk(8 * words) succeed?
CanGrow(m, words) == m.brk + words =< mem_max_addr

\* mem_sbrk when it succeeds.
mem_sbrk(m, words) == [m EXCEPT !.brk = m.brk + words]

mem_heap_lo == mem_start_brk

\* The last word, where the code has the last byte.
mem_heap_hi(m) == m.brk - 1

mem_heapsize(m) == 8 * (m.brk - mem_start_brk)

-----------------------------------------------------------------------------
(* Reading and writing through pointers.                                   *)

\* What a read outside the heap gives is not defined by the code; no run
\* that passes depends on it.
Read(m, a) == IF a \in Address THEN m.word[a] ELSE 0

Write(m, a, v) == [m EXCEPT !.word = [m.word EXCEPT ![a] = v]]

\* memset and memcpy, on whole words.
FillWords(m, a, n, v) ==
    [m EXCEPT !.word = [x \in Address |-> IF x \in a .. a + n - 1 THEN v ELSE m.word[x]]]

CopyWords(m, to, from, n) ==
    [m EXCEPT !.word = [x \in Address |->
        IF x \in to .. to + n - 1 THEN Read(m, from + (x - to)) ELSE m.word[x]]]
=============================================================================
