------------------------------ MODULE Hashtable ------------------------------
(***************************************************************************)
(* The chained hashtable of src/mps/02/hashtable.c, driven by the trace    *)
(* interpreter of main.c, with the heap it allocates from and frees to.    *)
(*                                                                         *)
(* A chain of bucket_t is a sequence of cells.  A block of the heap is     *)
(* named by what was stored in it and a number that tells copies apart, so *)
(* that strcmp compares the texts of two blocks.  ht_rehash is the loop of *)
(* the code, one step per cell it moves; the other operations are one step.*)
(***************************************************************************)
EXTENDS Integers, FiniteSets, SequencesExt

CONSTANTS
    Key, Val,   \* the strings of the trace; two copies of a value are told
                \* apart, so that one string makes many values
    Hash,       \* Hash[k]: hash(k), before it is reduced modulo the size
    Sizes,      \* the sizes the trace asks for
    Copies,     \* bound: blocks with the same content that exist at a time
    NoVal       \* the NULL of ht_get

\* What the table allocates besides strings: its header, the array of chains,
\* and the cells.
Structure == {"table", "array", "cell"}

ASSUME HashtableAssumption ==
    /\ Hash \in [Key -> Nat]
    /\ Sizes \subseteq Nat
    /\ Copies \in Nat \ {0}
    /\ Key \cap Val = {}
    /\ (Key \cup Val) \cap Structure = {}
    /\ NoVal \notin [text : Key \cup Val \cup Structure, copy : 1 .. Copies]

VARIABLES
    heap,       \* the blocks that are allocated
    ht,         \* the table
    newht,      \* ht_rehash's new table
    pc,         \* where main is
    last        \* the last command main carried out, with its result

vars == <<heap, ht, newht, pc, last>>

Block == [text : Key \cup Val \cup Structure, copy : 1 .. Copies]

BlocksOf(texts) == {b \in Block : b.text \in texts}

Cell == [node : BlocksOf({"cell"}), key : BlocksOf(Key), val : BlocksOf(Val)]

NoTable == [header |-> NoVal, array |-> NoVal, size |-> 0, chain |-> <<>>]

Command ==
    {<<"start">>, <<"rehash">>}
        \cup ({"put"} \X Key \X BlocksOf(Val))
        \cup ({"get"} \X Key \X (BlocksOf(Val) \cup {NoVal}))
        \cup ({"del"} \X Key)
        \cup ({"info"} \X Nat)

\* chain[i]: the chain of bucket i.
IsTable(t) ==
    /\ t.header \in BlocksOf({"table"})
    /\ t.array \in BlocksOf({"array"})
    /\ t.size \in Sizes
    /\ t.chain \in [0 .. t.size - 1 -> Seq(Cell)]

TypeOK ==
    /\ heap \subseteq Block
    /\ pc \in {"start", "trace", "rehash", "done", "crashed"}
    /\ IF pc = "start" THEN ht = NoTable ELSE IsTable(ht)
    /\ newht = NoTable \/ (pc \in {"rehash", "crashed"} /\ IsTable(newht))
    /\ last \in Command

Init ==
    /\ heap = {}
    /\ ht = NoTable
    /\ newht = NoTable
    /\ pc = "start"
    /\ last = <<"start">>

-----------------------------------------------------------------------------
(* The heap.                                                               *)

Free(mem, text) == BlocksOf({text}) \ mem

\* The bound Copies lets blocks of these contents be allocated.
CanAllocate(texts) == \A text \in texts : Free(heap, text) # {}

Malloc(mem, text) == CHOOSE b \in Free(mem, text) : TRUE

CellBlocks(c) == {c.node, c.key, c.val}

-----------------------------------------------------------------------------
(* Tables.  An operation takes and returns the heap with the table.        *)

make_hashtable(mem, size) ==
    LET header == Malloc(mem, "table")
        array == Malloc(mem, "array")
    IN  [mem |-> mem \cup {header, array},
         table |-> [header |-> header, array |-> array, size |-> size,
                    chain |-> [i \in 0 .. size - 1 |-> <<>>]]]

Index(t, k) == Hash[k] % t.size

\* The positions of key k in its chain.
Places(t, k) ==
    {j \in DOMAIN t.chain[Index(t, k)] : t.chain[Index(t, k)][j].key.text = k}

\* The position strcmp finds first.
Place(t, k) == CHOOSE j \in Places(t, k) : \A l \in Places(t, k) : j =< l

\* Mutant of ht_put: the key that is not stored is not freed.
ht_putKeepingKey(mem, t, key, val) ==
    LET i == Index(t, key.text)
        j == Place(t, key.text)
        node == Malloc(mem, "cell")
        cell == [node |-> node, key |-> key, val |-> val]
    IN  IF Places(t, key.text) # {}
        THEN [mem |-> mem \ {t.chain[i][j].val},
              table |-> [t EXCEPT !.chain[i][j].val = val]]
        ELSE [mem |-> mem \cup {node},
              table |-> [t EXCEPT !.chain[i] = <<cell>> \o @]]

\* Mutant of ht_put: no search for the key.
ht_putBlindly(mem, t, key, val) ==
    LET node == Malloc(mem, "cell")
        cell == [node |-> node, key |-> key, val |-> val]
    IN  [mem |-> mem \cup {node},
         table |-> [t EXCEPT !.chain[Index(t, key.text)] = <<cell>> \o @]]

\* key and val are blocks the table takes over.
ht_put(mem, t, key, val) ==
    LET i == Index(t, key.text)
        j == Place(t, key.text)
        node == Malloc(mem, "cell")
        cell == [node |-> node, key |-> key, val |-> val]
    IN  IF Places(t, key.text) # {}
        THEN [mem |-> mem \ {t.chain[i][j].val, key},
              table |-> [t EXCEPT !.chain[i][j].val = val]]
        ELSE [mem |-> mem \cup {node},
              table |-> [t EXCEPT !.chain[i] = <<cell>> \o @]]

ht_get(t, k) ==
    IF t.size = 0 \/ Places(t, k) = {}
    THEN NoVal
    ELSE t.chain[Index(t, k)][Place(t, k)].val

Positions(t) ==
    UNION {{<<i, j>> : j \in DOMAIN t.chain[i]} : i \in 0 .. t.size - 1}

CellAt(t, at) == t.chain[at[1]][at[2]]

TableBlocks(t) ==
    {t.header, t.array} \cup UNION {CellBlocks(CellAt(t, at)) : at \in Positions(t)}

-----------------------------------------------------------------------------
(* The trace.                                                              *)

Start ==
    /\ pc = "start"
    /\ pc' = "trace"
    /\ \E size \in Sizes :
        LET made == make_hashtable(heap, size)
        IN  heap' = made.mem /\ ht' = made.table
    /\ UNCHANGED <<newht, last>>

\* A division by zero, or a NULL pointer that is followed.
Crash == pc' = "crashed" /\ UNCHANGED <<heap, ht, newht, last>>

Put(k, v) ==
    /\ pc = "trace"
    /\ CanAllocate({k, v, "cell"})
    /\ \/ ht.size = 0 /\ Crash
       \/ /\ ht.size # 0
          /\ LET key == Malloc(heap, k)
                 val == Malloc(heap, v)
                 put == ht_put(heap \cup {key, val}, ht, key, val)
             IN  /\ heap' = put.mem
                 /\ ht' = put.table
                 /\ last' = <<"put", k, val>>
          /\ UNCHANGED <<newht, pc>>

Get(k) ==
    /\ pc = "trace"
    /\ \/ ht.size = 0 /\ Crash
       \/ /\ ht.size # 0
          /\ last' = <<"get", k, ht_get(ht, k)>>
          /\ UNCHANGED <<heap, ht, newht, pc>>

\* ht_del reads the key of the first cell before it tests for an empty chain.
Del(k) ==
    /\ pc = "trace"
    /\ \/ /\ IF ht.size = 0 THEN TRUE ELSE ht.chain[Index(ht, k)] = <<>>
          /\ Crash
       \/ /\ ht.size # 0
          /\ LET i == Index(ht, k)
                 j == Place(ht, k)
             IN  /\ ht.chain[i] # <<>>
                 /\ IF Places(ht, k) = {}
                    THEN UNCHANGED <<heap, ht>>
                    ELSE /\ ht' = [ht EXCEPT !.chain[i] = RemoveAt(@, j)]
                         /\ heap' = heap \ CellBlocks(ht.chain[i][j])
          /\ last' = <<"del", k>>
          /\ UNCHANGED <<newht, pc>>

\* The number of cells, which print_ht_stats counts.
Info ==
    /\ pc = "trace"
    /\ last' = <<"info", Cardinality(Positions(ht))>>
    /\ UNCHANGED <<heap, ht, newht, pc>>

-----------------------------------------------------------------------------
(* ht_rehash.                                                              *)

RehashStart ==
    /\ pc = "trace"
    /\ CanAllocate({"table", "array"})
    /\ pc' = "rehash"
    /\ \E size \in Sizes :
        LET made == make_hashtable(heap, size)
        IN  heap' = made.mem /\ newht' = made.table
    /\ last' = <<"rehash">>
    /\ UNCHANGED ht

ToMove == {i \in 0 .. ht.size - 1 : ht.chain[i] # <<>>}

\* Mutant of RehashMove: the last cell of a chain is not moved.
RehashMoveButLast ==
    /\ pc = "rehash"
    /\ ToMove # {}
    /\ LET i == CHOOSE n \in ToMove : \A m \in ToMove : n =< m
           cell == Head(ht.chain[i])
           put == ht_put(heap, newht, cell.key, cell.val)
       IN  IF newht.size = 0
           THEN Crash
           ELSE /\ ht' = [ht EXCEPT !.chain[i] = Tail(@)]
                /\ IF Len(ht.chain[i]) = 1
                   THEN UNCHANGED <<newht, heap>>
                   ELSE /\ newht' = put.table
                        /\ heap' = put.mem \ {cell.node}
                /\ UNCHANGED <<pc, last>>

\* The first cell that is left goes to the new table.
RehashMove ==
    /\ pc = "rehash"
    /\ ToMove # {}
    /\ CanAllocate({"cell"})
    /\ LET i == CHOOSE n \in ToMove : \A m \in ToMove : n =< m
           cell == Head(ht.chain[i])
           put == ht_put(heap, newht, cell.key, cell.val)
       IN  IF newht.size = 0
           THEN Crash
           ELSE /\ ht' = [ht EXCEPT !.chain[i] = Tail(@)]
                /\ newht' = put.table
                /\ heap' = put.mem \ {cell.node}
                /\ UNCHANGED <<pc, last>>

\* Mutant of RehashEnd: ht->buckets = newht->buckets.
RehashEndKeepingSize ==
    /\ pc = "rehash"
    /\ ToMove = {}
    /\ pc' = "trace"
    /\ heap' = heap \ {ht.array, newht.header}
    /\ ht' = [newht EXCEPT !.header = ht.header, !.size = ht.size]
    /\ newht' = NoTable
    /\ UNCHANGED last

\* *ht = *newht: the header of the old table stays.
RehashEnd ==
    /\ pc = "rehash"
    /\ ToMove = {}
    /\ pc' = "trace"
    /\ heap' = heap \ {ht.array, newht.header}
    /\ ht' = [newht EXCEPT !.header = ht.header]
    /\ newht' = NoTable
    /\ UNCHANGED last

-----------------------------------------------------------------------------

\* Mutant of End: free_hashtable frees no substructure.
EndKeepingCells ==
    /\ pc = "trace"
    /\ pc' = "done"
    /\ heap' = heap \ {ht.header, ht.array}
    /\ UNCHANGED <<ht, newht, last>>

\* The end of the trace: free_hashtable.
End ==
    /\ pc = "trace"
    /\ pc' = "done"
    /\ heap' = heap \ TableBlocks(ht)
    /\ UNCHANGED <<ht, newht, last>>

Next ==
    \/ Start
    \/ \E k \in Key : (\E v \in Val : Put(k, v)) \/ Get(k) \/ Del(k)
    \/ Info
    \/ RehashStart \/ RehashMove \/ RehashEnd
    \/ End

Spec == Init /\ [][Next]_vars

-----------------------------------------------------------------------------
(* Properties.                                                             *)

Tables == {t \in {ht, newht} : t # NoTable}

\* A key is held by one cell of one table, also while ht_rehash moves the
\* cells, and that cell is in the chain ht_get searches.
KeysAreUnique ==
    \A t, u \in Tables : \A at \in Positions(t), to \in Positions(u) :
        LET k == CellAt(t, at).key.text
        IN  /\ at[1] = Index(t, k)
            /\ k = CellAt(u, to).key.text => t = u /\ at = to

\* What the tables reach is allocated, no block is reached in two ways, so
\* that none is freed twice, and nothing else is allocated: between any two
\* commands, and between two cells of ht_rehash, nothing has leaked.
HeapIsOwned ==
    pc \in {"trace", "rehash"} =>
        /\ heap = UNION {TableBlocks(t) : t \in Tables}
        /\ \A t, u \in Tables : \A at \in Positions(t), to \in Positions(u) :
            <<t, at>> # <<u, to>> =>
                CellBlocks(CellAt(t, at)) \cap CellBlocks(CellAt(u, to)) = {}

\* A trace that runs to its end leaves no block behind: what the target
\* leakcheck of the Makefile looks for on one trace.
NothingLeaks == pc = "done" => heap = {}

\* The value, a pointer, stored with k in any chain, wherever ht_rehash has got to.
ValueOf(k) ==
    LET Found == {c \in UNION {{CellAt(t, at) : at \in Positions(t)} : t \in Tables} :
                    c.key.text = k}
    IN  IF Found = {} THEN NoVal ELSE (CHOOSE c \in Found : TRUE).val

D == INSTANCE Dictionary
        WITH Val <- BlocksOf(Val), dict <- [k \in Key |-> ValueOf(k)]

\* Every command has the effect and the result it has on a map; no step of
\* ht_rehash shows.  A command that crashes has none.
ImplementsDictionary == D!Spec
=============================================================================
