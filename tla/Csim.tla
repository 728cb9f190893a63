-------------------------------- MODULE Csim ---------------------------------
(***************************************************************************)
(* The cache simulator of src/mps/04/csim.c, replaying any trace.          *)
(*                                                                         *)
(* An address has Width bits where the program has 64, and is shifted as   *)
(* the program shifts it.  Instruction fetches, which main skips, and the  *)
(* data blocks, which are never allocated, are left out.                   *)
(***************************************************************************)
EXTENDS Integers, FiniteSets

CONSTANTS
    Width,      \* bits of an address
    s, b, E,    \* par.s, par.b and par.E, from the command line
    MaxAccess   \* bound: accesses of a trace

ASSUME CsimAssumption ==
    /\ Width \in Nat
    /\ s \in Nat \ {0}
    /\ b \in Nat \ {0}
    /\ E \in Nat \ {0}
    /\ s + b < Width    \* a C shift by all the bits of an address is undefined
    /\ MaxAccess \in Nat

VARIABLES
    sets,       \* sets[i]: the lines of set i
    par,        \* the counters of par
    address,    \* main's address
    twice       \* is main between the two accesses of an M?

vars == <<sets, par, address, twice>>

Address == 0 .. 2^Width - 1

num_sets == 2^s

\* access_count is at most one more than the number of accesses before it.
Line == [valid : BOOLEAN, tag : 0 .. 2^(Width - (s + b)) - 1, count : 0 .. MaxAccess]

TypeOK ==
    /\ sets \in [0 .. num_sets - 1 -> [1 .. E -> Line]]
    /\ par \in [hits : 0 .. MaxAccess, misses : 0 .. MaxAccess, evictions : 0 .. MaxAccess]
    /\ address \in Address
    /\ twice \in BOOLEAN

build_cache ==
    [i \in 0 .. num_sets - 1 |-> [l \in 1 .. E |->
        [valid |-> FALSE, tag |-> 0, count |-> 0]]]

Init ==
    /\ sets = build_cache
    /\ par = [hits |-> 0, misses |-> 0, evictions |-> 0]
    /\ address = 0
    /\ twice = FALSE

-----------------------------------------------------------------------------

tag_size == Width - (s + b)

\* Mutant of setIndex: the tag is not shifted out.
setIndexUnshifted(a) == a \div 2^(tag_size + b)

\* (address << tag_size) >> (tag_size + par.b)
setIndex(a) == ((a * 2^tag_size) % 2^Width) \div 2^(tag_size + b)

\* Mutant of input_tag: the index is not shifted out.
input_tagWithIndex(a) == a \div 2^b

input_tag(a) == a \div 2^(s + b)

LowestLine(S) == CHOOSE l \in S : \A k \in S : l =< k

get_empty_line(lines) == LowestLine({l \in 1 .. E : ~lines[l].valid})

\* The first of the lines that have the smallest count.
get_LRU(lines) ==
    LowestLine({l \in 1 .. E : \A k \in 1 .. E : lines[l].count =< lines[k].count})

max_used(lines) ==
    LET top == CHOOSE l \in 1 .. E : \A k \in 1 .. E : lines[k].count =< lines[l].count
    IN  lines[top].count

\* Mutant of Hits: line.valid is not tested.
HitsOfAnyLine(a) == {l \in 1 .. E : sets[setIndex(a)][l].tag = input_tag(a)}

Hits(a) == {l \in 1 .. E : LET line == sets[setIndex(a)][l]
                           IN  line.valid /\ line.tag = input_tag(a)}

Full(a) == \A l \in 1 .. E : sets[setIndex(a)][l].valid

\* The loop counts every line that holds the tag.
Hit(a) ==
    /\ Hits(a) # {}
    /\ sets' = [sets EXCEPT ![setIndex(a)] = [l \in 1 .. E |->
            LET line == sets[setIndex(a)][l]
            IN  IF l \in Hits(a) THEN [line EXCEPT !.count = @ + 1] ELSE line]]
    /\ par' = [par EXCEPT !.hits = @ + Cardinality(Hits(a))]

\* Mutant of Load: valid is not set.
LoadInvalid(a, l) ==
    LET lines == sets[setIndex(a)]
    IN  sets' = [sets EXCEPT ![setIndex(a)][l] =
            [@ EXCEPT !.tag = input_tag(a), !.count = max_used(lines) + 1]]

Load(a, l) ==
    LET lines == sets[setIndex(a)]
    IN  sets' = [sets EXCEPT ![setIndex(a)][l] =
            [valid |-> TRUE, tag |-> input_tag(a), count |-> max_used(lines) + 1]]

\* Mutant of Miss: cache_full is never cleared.
MissEvicting(a) ==
    /\ Hits(a) = {}
    /\ Load(a, get_LRU(sets[setIndex(a)]))
    /\ par' = [par EXCEPT !.misses = @ + 1, !.evictions = @ + 1]

Miss(a) ==
    /\ Hits(a) = {}
    /\ \/ /\ Full(a)
          /\ Load(a, get_LRU(sets[setIndex(a)]))
          /\ par' = [par EXCEPT !.misses = @ + 1, !.evictions = @ + 1]
       \/ /\ ~Full(a)
          /\ Load(a, get_empty_line(sets[setIndex(a)]))
          /\ par' = [par EXCEPT !.misses = @ + 1]

simulate_cache(a) ==
    /\ par.hits + par.misses < MaxAccess
    /\ Hit(a) \/ Miss(a)

-----------------------------------------------------------------------------
(* The commands of a trace.                                                *)

LoadOrStore ==
    /\ ~twice
    /\ address' \in Address
    /\ simulate_cache(address')
    /\ UNCHANGED twice

Modify ==
    /\ ~twice
    /\ address' \in Address
    /\ simulate_cache(address')
    /\ twice' = TRUE

ModifyAgain ==
    /\ twice
    /\ simulate_cache(address)
    /\ twice' = FALSE
    /\ UNCHANGED address

Next == LoadOrStore \/ Modify \/ ModifyAgain

Spec == Init /\ [][Next]_vars

-----------------------------------------------------------------------------
(* Properties.                                                             *)

Valid == {at \in (0 .. num_sets - 1) \X (1 .. E) : sets[at[1]][at[2]].valid}

\* A miss that evicts nothing fills an empty line for good: the numbers of
\* printSummary agree with the contents of the cache.
MissesFillOrEvict == par.misses = par.evictions + Cardinality(Valid)

\* The second access of an M hits, although the first may have evicted.
ModifyHits == [][ModifyAgain => par'.hits = par.hits + 1]_vars

\* The blocks of memory that the valid lines of set i stand for.
BlocksHeld(i) ==
    {sets[i][l].tag * num_sets + i : l \in {k \in 1 .. E : sets[i][k].valid}}

Cache == INSTANCE SetCache
            WITH held <- [i \in 0 .. num_sets - 1 |-> BlocksHeld(i)],
                 hits <- par.hits, misses <- par.misses, evictions <- par.evictions

IsCutRight(a) ==
    /\ input_tag(a) \in 0 .. 2^tag_size - 1
    /\ setIndex(a) \in 0 .. num_sets - 1
    /\ setIndex(a) = Cache!SetOf(a)
    /\ Cache!BlockOf(a) = input_tag(a) * num_sets + setIndex(a)

\* The shifts of simulate_cache, which lose the bits that leave the word, cut an
\* address as division does: the tag fits, the index is that of a set, and no
\* other block has both.
AddressIsCut == IsCutRight(address)

\* Hits, misses and evictions are those of a cache with that geometry and
\* some replacement policy.
ImplementsSetCache == Cache!Spec
=============================================================================
