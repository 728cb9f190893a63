------------------------------ MODULE MmProofs -------------------------------
(***************************************************************************)
(* What the allocator of mm.c does to the heap, for a heap of any size.    *)
(*                                                                         *)
(* A heap is described apart from its words: where the blocks are, which   *)
(* are free, and which follow each other on the lists.  Each function of   *)
(* the code is shown to take a memory that holds one description to a      *)
(* memory that holds another, which depends on nothing else in the memory. *)
(***************************************************************************)
EXTENDS Mm, TLAPS, FiniteSetTheorems, WellFoundedInduction

Lists == 1 .. NUM_OF_FREE_LISTS

\* H.words[b]: the words of the block at b; H.free: the free blocks;
\* H.node[i]: list i, between two times its head.
End(H) == H.brk - 3

Blocks(H) == DOMAIN H.words

After(H, b) == b + H.words[b]

ListOf(w) == map_to_list(8 * w)

InList(H, i, b) == \E j \in 1 .. H.len[i] : H.node[i][j] = b

OnList(H, b) == \E i \in Lists : InList(H, i, b)

-----------------------------------------------------------------------------
(* What the functions of the code do to a heap.                            *)

Marked(H, b) ==
    [brk |-> H.brk, words |-> H.words, free |-> H.free \ {b}, len |-> H.len, node |-> H.node]

Unmarked(H, b) ==
    [brk |-> H.brk, words |-> H.words, free |-> H.free \cup {b}, len |-> H.len, node |-> H.node]

Home(H, b) == CHOOSE i \in Lists : InList(H, i, b)

Place(H, b) == CHOOSE j \in 1 .. H.len[Home(H, b)] : H.node[Home(H, b)][j] = b

Without(H, i, j) ==
    [brk |-> H.brk, words |-> H.words, free |-> H.free,
     len |-> [H.len EXCEPT ![i] = H.len[i] - 1],
     node |-> [H.node EXCEPT ![i] =
                  [k \in 0 .. H.len[i] |-> IF k < j THEN H.node[i][k] ELSE H.node[i][k + 1]]]]

Dropped(H, b) == Without(H, Home(H, b), Place(H, b))

With(H, i, b) ==
    [brk |-> H.brk, words |-> H.words, free |-> H.free,
     len |-> [H.len EXCEPT ![i] = H.len[i] + 1],
     node |-> [H.node EXCEPT ![i] =
                  [k \in 0 .. H.len[i] + 2 |-> IF k = 0 THEN ListHead(i)
                                               ELSE IF k = 1 THEN b
                                               ELSE H.node[i][k - 1]]]]

Pushed(H, b) == With(H, ListOf(H.words[b]), b)

\* The free block b is cut behind its first w words.
Split(H, b, w) ==
    [brk |-> H.brk,
     words |-> [x \in Blocks(H) \cup {b + w} |->
                  IF x = b THEN w ELSE IF x = b + w THEN H.words[b] - w ELSE H.words[x]],
     free |-> H.free \cup {b + w}, len |-> H.len, node |-> H.node]

\* The block b takes the blocks that follow, up to w words.
Merged(H, b, w) ==
    [brk |-> H.brk,
     words |-> [x \in {y \in Blocks(H) : ~(b < y /\ y < b + w)} |->
                  IF x = b THEN w ELSE H.words[x]],
     free |-> {y \in H.free : ~(b < y /\ y < b + w)}, len |-> H.len, node |-> H.node]

\* The heap gets w words more, which the block b at its end takes.
Extended(H, b, w) ==
    [brk |-> H.brk + w,
     words |-> [x \in Blocks(H) \cup {b} |->
                  IF x # b THEN H.words[x] ELSE IF b = End(H) THEN w ELSE H.words[b] + w],
     free |-> H.free, len |-> H.len, node |-> H.node]

Fits(H, i, w) == {j \in 1 .. H.len[i] : H.words[H.node[i][j]] >= w}

\* The free block for w words, if there is one.
Fit(H, w) ==
    LET lists == {i \in ListOf(w) .. NUM_OF_FREE_LISTS : Fits(H, i, w) # {}}
    IN  IF lists = {} THEN NULL ELSE H.node[Min(lists)][Min(Fits(H, Min(lists), w))]

Used(H, b, w) ==
    IF H.words[b] - w > 9
    THEN Dropped(Marked(Pushed(Split(H, b, w), b + w), b), b)
    ELSE Dropped(Marked(H, b), b)

AfterMalloc(H, w) ==
    IF Fit(H, w) = NULL THEN Extended(H, End(H), w + 3) ELSE Used(H, Fit(H, w), w)

MallocGives(H, w) == IF Fit(H, w) = NULL THEN End(H) ELSE Fit(H, w)

Before(H, b) == {c \in H.free : After(H, c) = b}

DroppedIf(H, S) == IF S = {} THEN H ELSE Dropped(H, CHOOSE c \in S : TRUE)

Joined(H, b) == IF Before(H, b) = {} THEN b ELSE CHOOSE c \in Before(H, b) : TRUE

JoinedEnd(H, b) == IF After(H, b) \in H.free THEN After(H, After(H, b)) ELSE After(H, b)

\* The block b is free, and its free neighbours are on no list.
Unlisted(H, b) ==
    DroppedIf(DroppedIf(Unmarked(H, b), H.free \cap {After(H, b)}), Before(H, b))

AfterFree(H, b) ==
    Pushed(Merged(Unlisted(H, b), Joined(H, b), JoinedEnd(H, b) - Joined(H, b)), Joined(H, b))

\* The words of a block for size bytes.
Need(size) == Words(ALIGN(size + BLK_HDR_FTR_SIZE))

Moves(H, b, w) == w > H.words[b] /\ After(H, b) # End(H)

AfterRealloc(H, b, w) ==
    IF w =< H.words[b] THEN H
    ELSE IF After(H, b) = End(H) THEN Extended(H, b, w - H.words[b])
    ELSE AfterFree(AfterMalloc(H, w), b)

ReallocGives(H, b, w) == IF Moves(H, b, w) THEN MallocGives(H, w) ELSE b

\* Would the heap have to grow by more than it can?
MallocFails(H, w) == Fit(H, w) = NULL /\ H.brk + w + 3 > mem_max_addr

ReallocFails(H, b, w) ==
    IF Moves(H, b, w) THEN MallocFails(H, w)
    ELSE w > H.words[b] /\ H.brk + w - H.words[b] > mem_max_addr

EmptyHeap ==
    [brk |-> FirstBlock + 3, words |-> [b \in {} |-> 0], free |-> {},
     len |-> [i \in Lists |-> 0], node |-> [i \in Lists |-> [k \in 0 .. 1 |-> ListHead(i)]]]

-----------------------------------------------------------------------------
(* When a memory holds a heap.                                             *)

\* The blocks lie side by side between the list heads and the epilogue.
Shape(H) ==
    /\ H.brk \in Nat /\ FirstBlock + 3 =< H.brk /\ H.brk =< mem_max_addr
    /\ Blocks(H) \subseteq Nat
    /\ H.free \subseteq Blocks(H)
    /\ H.words \in [Blocks(H) -> Nat]
    /\ \A b \in Blocks(H) : /\ FirstBlock =< b /\ b < End(H)
                            /\ 4 =< H.words[b]
                            /\ After(H, b) \in Blocks(H) \cup {End(H)}
    /\ \A b, c \in Blocks(H) : b < c => After(H, b) =< c
    /\ \A c \in Blocks(H) \cup {End(H)} : c = FirstBlock \/ \E b \in Blocks(H) : After(H, b) = c
    /\ FirstBlock \in Blocks(H) \cup {End(H)}

\* The lists begin and end at their heads and have no block twice.
Chained(H) ==
    /\ H.len \in [Lists -> Nat]
    /\ DOMAIN H.node = Lists
    /\ \A i \in Lists : /\ H.node[i][0] = ListHead(i) /\ H.node[i][H.len[i] + 1] = ListHead(i)
                        /\ \A j \in 1 .. H.len[i] : H.node[i][j] \in Blocks(H)
    /\ \A i, k \in Lists : \A j \in 1 .. H.len[i], l \in 1 .. H.len[k] :
          H.node[i][j] = H.node[k][l] => i = k /\ j = l

SizeWord(H, b) == 8 * H.words[b] + (IF b \in H.free THEN 0 ELSE 1)

Tagged(m, H) ==
    /\ \A b \in Blocks(H) : m.word[b] = SizeWord(H, b) /\ m.word[After(H, b) - 1] = SizeWord(H, b)
    /\ m.word[End(H)] = BLK_HDR_SIZE + 1
    /\ m.word[FirstBlock - 1] = 1

Linked(m, H) ==
    \A i \in Lists : \A j \in 0 .. H.len[i] :
        /\ m.word[H.node[i][j] + 1] = H.node[i][j + 1]
        /\ m.word[H.node[i][j + 1] + 2] = H.node[i][j]

IsMemory(m) == m = [brk |-> m.brk, word |-> m.word] /\ m.word \in [Address -> Nat]

Holds(m, H) ==
    /\ Shape(H) /\ Chained(H)
    /\ IsMemory(m) /\ m.brk = H.brk
    /\ Tagged(m, H) /\ Linked(m, H)

\* Between two calls: no two free blocks are neighbours, and a list holds the
\* free blocks of its sizes.
Tidy(H) ==
    /\ \A b \in H.free : After(H, b) \notin H.free
    /\ \A b \in Blocks(H) : \A i \in Lists :
          InList(H, i, b) <=> b \in H.free /\ ListOf(H.words[b]) = i

\* No payload of H, but that of a block of S, has changed.
SamePayloads(m, x, H, S) ==
    \A c \in Blocks(H) \ S : \A a \in c + 3 .. After(H, c) - 2 : x.word[a] = m.word[a]

-----------------------------------------------------------------------------
(* Sizes and addresses.                                                    *)

LEMMA SizeWords ==
    ASSUME NEW w \in Nat
    PROVE  /\ Words(8 * w) = w /\ Words(8 * w + 1) = w
           /\ Bytes(8 * w) = 8 * w /\ Bytes(8 * w + 1) = 8 * w
           /\ IsFree(8 * w) /\ ~IsFree(8 * w + 1)
<1>1. (8 * w) \div 8 = w /\ (8 * w + 1) \div 8 = w
  OBVIOUS
<1>2. (8 * w) % 2 = 0 /\ (8 * w + 1) % 2 = 1
  OBVIOUS
<1>. QED BY <1>1, <1>2 DEF Words, Bytes, IsFree

LEMMA NeedIs ==
    ASSUME NEW size \in Nat, size # 0
    PROVE  /\ Need(size) \in Nat /\ 5 =< Need(size) /\ ALIGN(size + BLK_HDR_FTR_SIZE) = 8 * Need(size)
           /\ ALIGN(size) \div 8 = Need(size) - 4 /\ ALIGN(size) = 8 * Need(size) - 32
<1>. DEFINE q == (size + 7) \div 8
<1>1. q \in Nat /\ 1 =< q /\ ALIGN(size) = 8 * q /\ (8 * q) \div 8 = q
  BY DEF ALIGN
<1>2. (size + 32 + 7) \div 8 = q + 4
  OBVIOUS
<1>3. ALIGN(size + BLK_HDR_FTR_SIZE) = 8 * (q + 4)
  BY <1>2 DEF ALIGN, BLK_HDR_FTR_SIZE, BLK_HDR_SIZE, BLK_FTR_SIZE
<1>. HIDE DEF q
<1>4. Need(size) = q + 4
  BY <1>1, <1>3, SizeWords DEF Need
<1>. QED BY <1>1, <1>3, <1>4

LEMMA Addresses ==
    /\ mem_start_brk \in Nat /\ mem_max_addr \in Nat
    /\ FirstBlock = mem_start_brk + 13
    /\ \A a : a \in Address <=> a \in Int /\ mem_start_brk =< a /\ a < mem_max_addr
    /\ \A i \in Lists : /\ ListHead(i) \in Nat /\ mem_start_brk =< ListHead(i)
                        /\ ListHead(i) + 3 < FirstBlock
    /\ \A i, k \in Lists : i # k => ListHead(i) + 3 =< ListHead(k) \/ ListHead(k) + 3 =< ListHead(i)
BY MemLibAssumption DEF mem_max_addr, Address, FirstBlock, mem_heap_lo, NUM_OF_FREE_LISTS, Lists, ListHead

LEMMA WriteIs ==
    ASSUME NEW m, IsMemory(m), NEW a, NEW v \in Nat
    PROVE  /\ IsMemory(Write(m, a, v)) /\ Write(m, a, v).brk = m.brk
           /\ \A x \in Address : Write(m, a, v).word[x] = IF x = a THEN v ELSE m.word[x]
<1>. DEFINE word == [m.word EXCEPT ![a] = v]
<1>1. Write(m, a, v) = [brk |-> m.brk, word |-> word]
  BY DEF Write, IsMemory
<1>2. word \in [Address -> Nat] /\ \A x \in Address : word[x] = IF x = a THEN v ELSE m.word[x]
  BY DEF IsMemory
<1>. HIDE DEF word
<1>3. Write(m, a, v).brk = m.brk /\ Write(m, a, v).word = word
  BY <1>1
<1>4. IsMemory(Write(m, a, v))
  BY <1>1, <1>2, <1>3 DEF IsMemory
<1>. QED BY <1>2, <1>3, <1>4

LEMMA ReadIs ==
    ASSUME NEW m, IsMemory(m), NEW a
    PROVE  /\ a \in Address => Read(m, a) = m.word[a]
           /\ Read(m, a) \in Nat
BY DEF Read, IsMemory

\* Where a block lies.
LEMMA BlockLies ==
    ASSUME NEW H, Shape(H), NEW b \in Blocks(H)
    PROVE  /\ b \in Nat /\ H.words[b] \in Nat /\ 4 =< H.words[b]
           /\ After(H, b) \in Nat /\ After(H, b) = b + H.words[b]
           /\ FirstBlock =< b /\ b + 4 =< After(H, b) /\ After(H, b) =< End(H)
           /\ H.brk \in Nat /\ End(H) = H.brk - 3 /\ H.brk =< mem_max_addr
           /\ b .. After(H, b) + 2 \subseteq Address
<1>1. /\ b \in Nat /\ H.words[b] \in Nat /\ 4 =< H.words[b] /\ FirstBlock =< b
      /\ After(H, b) \in Blocks(H) \cup {End(H)}
      /\ H.brk \in Nat /\ H.brk =< mem_max_addr
  BY DEF Shape
<1>2. After(H, b) =< End(H)
  BY <1>1, Addresses DEF Shape, End, After
<1>. QED BY <1>1, <1>2, Addresses DEF After, End

LEMMA BlocksApart ==
    ASSUME NEW H, Shape(H), NEW b \in Blocks(H), NEW c \in Blocks(H), b # c
    PROVE  After(H, b) =< c \/ After(H, c) =< b
BY BlockLies DEF Shape

LEMMA TagsOf ==
    ASSUME NEW m, NEW H, Holds(m, H), NEW b \in Blocks(H)
    PROVE  /\ Size(m, b) = SizeWord(H, b) /\ Words(Size(m, b)) = H.words[b]
           /\ Bytes(Size(m, b)) = 8 * H.words[b]
           /\ IsFree(Size(m, b)) <=> b \in H.free
           /\ Foot(m, b) = After(H, b) - 1
           /\ Read(m, After(H, b) - 1) = SizeWord(H, b)
<1>1. b \in Address /\ After(H, b) - 1 \in Address /\ H.words[b] \in Nat
  BY BlockLies, Addresses DEF Holds
<1>2. /\ Size(m, b) = SizeWord(H, b) /\ Read(m, After(H, b) - 1) = SizeWord(H, b)
  BY <1>1, ReadIs DEF Holds, Tagged, Size
<1>3. /\ Words(SizeWord(H, b)) = H.words[b] /\ Bytes(SizeWord(H, b)) = 8 * H.words[b]
      /\ IsFree(SizeWord(H, b)) <=> b \in H.free
  BY <1>1, SizeWords DEF SizeWord
<1>4. Foot(m, b) = After(H, b) - 1
  <2>1. b \in Nat /\ Words(Size(m, b)) = H.words[b] /\ H.words[b] \in Nat
    BY <1>1, <1>2, <1>3, BlockLies DEF Holds
  <2>. QED BY <2>1 DEF Foot, After
<1>5. IsFree(Size(m, b)) <=> b \in H.free
  BY <1>2, <1>3
<1>6. Words(Size(m, b)) = H.words[b] /\ Bytes(Size(m, b)) = 8 * H.words[b]
  BY <1>2, <1>3
<1>. QED BY <1>2, <1>4, <1>5, <1>6

-----------------------------------------------------------------------------
(* The lists.                                                              *)

LEMMA NodeIs ==
    ASSUME NEW H, Shape(H), Chained(H), NEW i \in Lists, NEW j \in 0 .. H.len[i] + 1
    PROVE  /\ H.len[i] \in Nat /\ H.node[i][j] \in Nat
           /\ IF j \in 1 .. H.len[i] THEN H.node[i][j] \in Blocks(H) ELSE H.node[i][j] = ListHead(i)
           /\ H.node[i][j] \in Blocks(H) => FirstBlock =< H.node[i][j] /\ H.node[i][j] + 4 =< End(H)
           /\ H.node[i][j] + 1 \in Address /\ H.node[i][j] + 2 \in Address
           /\ H.brk \in Nat /\ End(H) = H.brk - 3 /\ FirstBlock =< End(H) /\ H.brk =< mem_max_addr
<1>1. /\ H.len[i] \in Nat
      /\ H.node[i][0] = ListHead(i) /\ H.node[i][H.len[i] + 1] = ListHead(i)
      /\ \A l \in 1 .. H.len[i] : H.node[i][l] \in Blocks(H)
  BY DEF Chained
<1>2. j \in 1 .. H.len[i] \/ j = 0 \/ j = H.len[i] + 1
  BY <1>1
<1>3. H.brk \in Nat /\ FirstBlock =< End(H) /\ End(H) = H.brk - 3 /\ H.brk =< mem_max_addr
  BY Addresses DEF Shape, End
<1>4. CASE j \in 1 .. H.len[i]
  <2>1. H.node[i][j] \in Blocks(H)
    BY <1>1, <1>4
  <2>. QED BY <1>1, <1>3, <1>4, <2>1, BlockLies, Addresses
<1>5. CASE j \notin 1 .. H.len[i]
  <2>1. H.node[i][j] = ListHead(i)
    BY <1>1, <1>2, <1>5
  <2>2. ListHead(i) \notin Blocks(H)
    BY Addresses DEF Shape
  <2>. QED BY <1>1, <1>3, <1>5, <2>1, <2>2, Addresses
<1>. QED BY <1>4, <1>5

LEMMA NodesApart ==
    ASSUME NEW H, Shape(H), Chained(H),
           NEW i \in Lists, NEW j \in 0 .. H.len[i], NEW k \in Lists, NEW l \in 0 .. H.len[k]
    PROVE  \/ i = k /\ j = l
           \/ H.node[i][j] + 3 =< H.node[k][l]
           \/ H.node[k][l] + 3 =< H.node[i][j]
<1>1. /\ H.len[i] \in Nat /\ H.len[k] \in Nat
      /\ j \in 0 .. H.len[i] + 1 /\ l \in 0 .. H.len[k] + 1
  BY DEF Chained
<1>2. CASE j # 0 /\ l # 0
  <2>1. j \in 1 .. H.len[i] /\ l \in 1 .. H.len[k]
    BY <1>1, <1>2
  <2>2. H.node[i][j] \in Blocks(H) /\ H.node[k][l] \in Blocks(H)
    BY <2>1 DEF Chained
  <2>3. H.node[i][j] # H.node[k][l] \/ (i = k /\ j = l)
    BY <2>1 DEF Chained
  <2>. QED BY <2>2, <2>3, BlocksApart, BlockLies
<1>3. CASE j = 0 /\ l = 0
  <2>1. H.node[i][j] = ListHead(i) /\ H.node[k][l] = ListHead(k)
    BY <1>3 DEF Chained
  <2>. QED BY <1>3, <2>1, Addresses
<1>4. CASE j = 0 /\ l # 0
  <2>1. l \in 1 .. H.len[k]
    BY <1>1, <1>4
  <2>2. H.node[i][j] = ListHead(i) /\ H.node[k][l] \in Blocks(H)
    BY <1>4, <2>1 DEF Chained
  <2>. QED BY <2>2, BlockLies, Addresses
<1>5. CASE j # 0 /\ l = 0
  <2>1. j \in 1 .. H.len[i]
    BY <1>1, <1>5
  <2>2. H.node[k][l] = ListHead(k) /\ H.node[i][j] \in Blocks(H)
    BY <1>5, <2>1 DEF Chained
  <2>. QED BY <2>2, BlockLies, Addresses
<1>. QED BY <1>2, <1>3, <1>4, <1>5

\* Words between the header's size and the payload are no tags and no payload.
LEMMA LinkWords ==
    ASSUME NEW H, Shape(H), NEW x \in Nat, NEW a \in {x + 1, x + 2},
           x \in Blocks(H) \/ \E i \in Lists : x = ListHead(i)
    PROVE  /\ a \in Address /\ a # End(H) /\ a # FirstBlock - 1
           /\ \A b \in Blocks(H) : a # b /\ a # After(H, b) - 1 /\ a \notin b + 3 .. After(H, b) - 2
<1>1. CASE x \in Blocks(H)
  <2>1. a \in Address /\ a # End(H) /\ a # FirstBlock - 1
    BY <1>1, BlockLies, Addresses
  <2>2. ASSUME NEW b \in Blocks(H)
        PROVE  a # b /\ a # After(H, b) - 1 /\ a \notin b + 3 .. After(H, b) - 2
    <3>1. /\ b \in Nat /\ After(H, b) \in Nat /\ b + 4 =< After(H, b)
          /\ After(H, x) \in Nat /\ x + 4 =< After(H, x)
      BY <1>1, BlockLies
    <3>2. x = b \/ After(H, x) =< b \/ After(H, b) =< x
      BY <1>1, BlocksApart
    <3>. QED BY <3>1, <3>2
  <2>. QED BY <2>1, <2>2
<1>2. CASE \E i \in Lists : x = ListHead(i)
  <2>1. mem_start_brk =< x /\ x + 3 < FirstBlock /\ FirstBlock \in Nat
    BY <1>2, Addresses
  <2>2. End(H) \in Nat /\ FirstBlock =< End(H) /\ End(H) < mem_max_addr
    BY Addresses DEF Shape, End
  <2>3. ASSUME NEW b \in Blocks(H)
        PROVE  a # b /\ a # After(H, b) - 1 /\ a \notin b + 3 .. After(H, b) - 2
    BY <2>1, BlockLies
  <2>. QED BY <2>1, <2>2, <2>3, Addresses
<1>. QED BY <1>1, <1>2

\* Writing elsewhere leaves the lists alone.
LEMMA LinkedKept ==
    ASSUME NEW H, Shape(H), Chained(H), NEW m, NEW x, Linked(m, H),
           \A i \in Lists : \A j \in 0 .. H.len[i] :
               LET n == H.node[i][j]
               IN  x.word[n + 1] = m.word[n + 1] /\ x.word[n + 2] = m.word[n + 2]
    PROVE  Linked(x, H)
<1>. SUFFICES ASSUME NEW i \in Lists, NEW j \in 0 .. H.len[i]
              PROVE  /\ x.word[H.node[i][j] + 1] = H.node[i][j + 1]
                     /\ x.word[H.node[i][j + 1] + 2] = H.node[i][j]
  BY DEF Linked
<1>1. H.len[i] \in Nat /\ H.node[i][0] = ListHead(i) /\ H.node[i][H.len[i] + 1] = ListHead(i)
  BY DEF Chained
<1>2. x.word[H.node[i][j] + 1] = m.word[H.node[i][j] + 1]
  OBVIOUS
<1>3. x.word[H.node[i][j + 1] + 2] = m.word[H.node[i][j + 1] + 2]
  <2>1. CASE j = H.len[i]
    <3>1. H.node[i][j + 1] = H.node[i][0] /\ 0 \in 0 .. H.len[i]
      BY <1>1, <2>1
    <3>. QED BY <3>1
  <2>2. CASE j # H.len[i]
    <3>1. j + 1 \in 0 .. H.len[i]
      BY <1>1, <2>2
    <3>. QED BY <3>1
  <2>. QED BY <2>1, <2>2
<1>. QED BY <1>2, <1>3 DEF Linked

LEMMA ShapeKept ==
    ASSUME NEW H, Shape(H), NEW X, X.brk = H.brk, X.words = H.words,
           X.free \subseteq DOMAIN H.words
    PROVE  Shape(X) /\ Blocks(X) = Blocks(H) /\ End(X) = End(H) /\ \A b : After(X, b) = After(H, b)
<1>1. Blocks(X) = Blocks(H) /\ End(X) = End(H) /\ \A b : After(X, b) = After(H, b)
  BY DEF Blocks, End, After
<1>2. X.free \subseteq Blocks(H)
  BY DEF Blocks
<1>. QED BY <1>1, <1>2 DEF Shape

\* A block is in one place of one list.
LEMMA PlaceOf ==
    ASSUME NEW H, Chained(H), NEW i \in Lists, NEW j \in 1 .. H.len[i]
    PROVE  /\ Home(H, H.node[i][j]) = i /\ Place(H, H.node[i][j]) = j
           /\ OnList(H, H.node[i][j])
<1>. DEFINE b == H.node[i][j]
<1>1. \A k \in Lists : \A l \in 1 .. H.len[k] : H.node[k][l] = b => k = i /\ l = j
  BY DEF Chained
<1>2. InList(H, i, b)
  BY DEF InList
<1>3. Home(H, b) \in Lists /\ InList(H, Home(H, b), b)
  BY <1>2 DEF Home
<1>4. Home(H, b) = i
  BY <1>1, <1>3 DEF InList
<1>5. Place(H, b) \in 1 .. H.len[i] /\ H.node[i][Place(H, b)] = b
  BY <1>4 DEF Place
<1>. QED BY <1>1, <1>2, <1>4, <1>5 DEF OnList

LEMMA WithoutIs ==
    ASSUME NEW H, Chained(H), NEW i \in Lists, NEW j \in 1 .. H.len[i]
    PROVE  LET X == Without(H, i, j)
           IN  /\ X.brk = H.brk /\ X.words = H.words /\ X.free = H.free
               /\ X.len \in [Lists -> Nat] /\ X.len[i] = H.len[i] - 1
               /\ \A k \in Lists \ {i} : X.len[k] = H.len[k] /\ X.node[k] = H.node[k]
               /\ DOMAIN X.node = Lists
               /\ \A k \in 0 .. H.len[i] :
                      X.node[i][k] = IF k < j THEN H.node[i][k] ELSE H.node[i][k + 1]
<1>. DEFINE nodes == [k \in 0 .. H.len[i] |-> IF k < j THEN H.node[i][k] ELSE H.node[i][k + 1]]
            X == Without(H, i, j)
<1>1. H.len \in [Lists -> Nat] /\ H.len[i] - 1 \in Nat /\ DOMAIN H.node = Lists
  BY DEF Chained
<1>2. /\ X.brk = H.brk /\ X.words = H.words /\ X.free = H.free
      /\ X.len = [H.len EXCEPT ![i] = H.len[i] - 1]
      /\ X.node = [H.node EXCEPT ![i] = nodes]
  BY DEF Without
<1>3. \A k \in 0 .. H.len[i] : nodes[k] = IF k < j THEN H.node[i][k] ELSE H.node[i][k + 1]
  OBVIOUS
<1>. HIDE DEF nodes, X
<1>4. /\ X.len \in [Lists -> Nat] /\ X.len[i] = H.len[i] - 1
      /\ \A k \in Lists \ {i} : X.len[k] = H.len[k] /\ X.node[k] = H.node[k]
      /\ X.node[i] = nodes /\ DOMAIN X.node = Lists
  BY <1>1, <1>2
<1>. QED BY <1>2, <1>3, <1>4 DEF X

\* What is known of the lists of H, for the next proofs.
LEMMA ListsOf ==
    ASSUME NEW H, Chained(H)
    PROVE  /\ \A k \in Lists : /\ H.len[k] \in Nat
                               /\ H.node[k][0] = ListHead(k) /\ H.node[k][H.len[k] + 1] = ListHead(k)
                               /\ \A l \in 1 .. H.len[k] : H.node[k][l] \in Blocks(H)
           /\ \A i, k \in Lists : \A j \in 1 .. H.len[i], l \in 1 .. H.len[k] :
                 H.node[i][j] = H.node[k][l] => i = k /\ j = l
BY DEF Chained

LEMMA WithoutChained ==
    ASSUME NEW H, Chained(H), NEW i \in Lists, NEW j \in 1 .. H.len[i]
    PROVE  /\ Chained(Without(H, i, j))
           /\ \A k \in Lists : \A c : InList(Without(H, i, j), k, c) <=>
                                        InList(H, k, c) /\ c # H.node[i][j]
<1>. DEFINE X == Without(H, i, j)
<1>0. H.len[i] \in Nat /\ j \in Nat /\ 1 =< j /\ j =< H.len[i]
  BY ListsOf
<1>1. /\ X.brk = H.brk /\ X.words = H.words /\ X.free = H.free
      /\ X.len \in [Lists -> Nat] /\ X.len[i] = H.len[i] - 1
      /\ \A k \in Lists \ {i} : X.len[k] = H.len[k] /\ X.node[k] = H.node[k]
      /\ DOMAIN X.node = Lists
  BY WithoutIs
<1>2. \A k \in 0 .. H.len[i] :
             X.node[i][k] = IF k < j THEN H.node[i][k] ELSE H.node[i][k + 1]
  BY WithoutIs
<1>3. Blocks(X) = Blocks(H)
  BY <1>1 DEF Blocks
<1>. HIDE DEF X
\* Where a node of X was.
<1>4. ASSUME NEW k \in Lists, NEW l \in 1 .. X.len[k]
      PROVE  \E o \in 1 .. H.len[k] : /\ X.node[k][l] = H.node[k][o]
                                      /\ o = (IF k = i /\ l >= j THEN l + 1 ELSE l)
                                      /\ ~(k = i /\ o = j)
  <2>1. CASE k # i
    BY <1>1, <2>1
  <2>2. CASE k = i
    <3>1. l \in Nat /\ 1 =< l /\ l =< H.len[i] - 1
      BY <1>0, <1>1, <2>2
    <3>2. X.node[i][l] = IF l < j THEN H.node[i][l] ELSE H.node[i][l + 1]
      BY <1>0, <1>2, <3>1
    <3>3. CASE l < j
      <4>1. l \in 1 .. H.len[i] /\ ~(l >= j) /\ l # j
        BY <1>0, <3>1, <3>3
      <4>. QED BY <2>2, <3>2, <3>3, <4>1
    <3>4. CASE ~(l < j)
      <4>1. l + 1 \in 1 .. H.len[i] /\ l + 1 # j /\ l >= j
        BY <1>0, <3>1, <3>4
      <4>. QED BY <2>2, <3>2, <3>4, <4>1
    <3>. QED BY <3>3, <3>4
  <2>. QED BY <2>1, <2>2
<1>5. ASSUME NEW k \in Lists
      PROVE  /\ X.node[k][0] = ListHead(k) /\ X.node[k][X.len[k] + 1] = ListHead(k)
             /\ \A l \in 1 .. X.len[k] : X.node[k][l] \in Blocks(X)
  <2>1. ASSUME NEW l \in 1 .. X.len[k] PROVE X.node[k][l] \in Blocks(X)
    <3>1. PICK o \in 1 .. H.len[k] : X.node[k][l] = H.node[k][o]
      BY <1>4
    <3>. QED BY <1>3, <3>1, ListsOf
  <2>2. CASE k # i
    BY <1>1, <2>1, <2>2, ListsOf
  <2>3. CASE k = i
    <3>1. /\ 0 \in 0 .. H.len[i] /\ H.len[i] \in 0 .. H.len[i] /\ X.len[i] + 1 = H.len[i]
          /\ 0 < j /\ ~(H.len[i] < j)
      BY <1>0, <1>1
    <3>2. X.node[i][0] = H.node[i][0] /\ X.node[i][H.len[i]] = H.node[i][H.len[i] + 1]
      BY <1>2, <3>1
    <3>. QED BY <2>1, <2>3, <3>1, <3>2, ListsOf
  <2>. QED BY <2>2, <2>3
<1>6. ASSUME NEW i1 \in Lists, NEW k \in Lists, NEW j1 \in 1 .. X.len[i1], NEW l \in 1 .. X.len[k],
             X.node[i1][j1] = X.node[k][l]
      PROVE  i1 = k /\ j1 = l
  <2>1. PICK o1 \in 1 .. H.len[i1] : /\ X.node[i1][j1] = H.node[i1][o1]
                                     /\ o1 = (IF i1 = i /\ j1 >= j THEN j1 + 1 ELSE j1)
    BY <1>4
  <2>2. PICK o2 \in 1 .. H.len[k] : /\ X.node[k][l] = H.node[k][o2]
                                    /\ o2 = (IF k = i /\ l >= j THEN l + 1 ELSE l)
    BY <1>4
  <2>3. i1 = k /\ o1 = o2
    <3>1. H.node[i1][o1] = H.node[k][o2]
      BY <1>6, <2>1, <2>2
    <3>. QED BY <3>1, ListsOf
  <2>4. j1 \in Int /\ l \in Int /\ j \in Int
    BY <1>0, <1>1
  <2>. QED BY <2>1, <2>2, <2>3, <2>4
<1>7. Chained(X)
  BY <1>1, <1>5, <1>6 DEF Chained
<1>8. ASSUME NEW k \in Lists, NEW l \in 1 .. X.len[k]
      PROVE  InList(H, k, X.node[k][l]) /\ X.node[k][l] # H.node[i][j]
  <2>1. PICK o \in 1 .. H.len[k] : X.node[k][l] = H.node[k][o] /\ ~(k = i /\ o = j)
    BY <1>4
  <2>2. H.node[k][o] # H.node[i][j]
    BY <2>1, ListsOf
  <2>. QED BY <2>1, <2>2 DEF InList
<1>9. ASSUME NEW k \in Lists, NEW o \in 1 .. H.len[k], H.node[k][o] # H.node[i][j]
      PROVE  \E l \in 1 .. X.len[k] : X.node[k][l] = H.node[k][o]
  <2>1. CASE k # i
    BY <1>1, <2>1
  <2>2. CASE k = i
    <3>1. o \in Nat /\ 1 =< o /\ o =< H.len[i] /\ o # j
      BY <1>0, <1>9, <2>2
    <3>2. CASE o < j
      <4>1. o \in 1 .. X.len[i] /\ o \in 0 .. H.len[i]
        BY <1>0, <1>1, <3>1, <3>2
      <4>. QED BY <1>2, <2>2, <3>2, <4>1
    <3>3. CASE ~(o < j)
      <4>1. /\ o - 1 \in 1 .. X.len[i] /\ o - 1 \in 0 .. H.len[i]
            /\ ~(o - 1 < j) /\ (o - 1) + 1 = o
        BY <1>0, <1>1, <3>1, <3>3
      <4>2. X.node[i][o - 1] = H.node[i][(o - 1) + 1]
        BY <1>2, <4>1
      <4>. QED BY <2>2, <4>1, <4>2
    <3>. QED BY <3>2, <3>3
  <2>. QED BY <2>1, <2>2
<1>10. \A k \in Lists : \A c : InList(X, k, c) <=> InList(H, k, c) /\ c # H.node[i][j]
  <2>. TAKE k \in Lists
  <2>. TAKE c
  <2>1. InList(X, k, c) => InList(H, k, c) /\ c # H.node[i][j]
    BY <1>8 DEF InList
  <2>2. InList(H, k, c) /\ c # H.node[i][j] => InList(X, k, c)
    BY <1>9 DEF InList
  <2>. QED BY <2>1, <2>2
<1>. QED BY <1>7, <1>10 DEF X

\* Writing only between tags and payloads leaves both alone.
LEMMA TagsKept ==
    ASSUME NEW H, Shape(H), NEW m, NEW x, Tagged(m, H),
           \A a \in Address : \/ x.word[a] = m.word[a]
                              \/ \E y \in Nat : /\ a \in {y + 1, y + 2}
                                                /\ y \in Blocks(H) \/ \E i \in Lists : y = ListHead(i)
    PROVE  Tagged(x, H) /\ SamePayloads(m, x, H, {})
<1>1. ASSUME NEW b \in Blocks(H)
      PROVE  /\ x.word[b] = m.word[b] /\ x.word[After(H, b) - 1] = m.word[After(H, b) - 1]
             /\ \A a \in b + 3 .. After(H, b) - 2 : x.word[a] = m.word[a]
  <2>1. /\ b \in Address /\ After(H, b) - 1 \in Address
        /\ \A a \in b + 3 .. After(H, b) - 2 : a \in Address
    BY BlockLies, Addresses
  <2>. QED BY <2>1, LinkWords
<1>2. x.word[End(H)] = m.word[End(H)] /\ x.word[FirstBlock - 1] = m.word[FirstBlock - 1]
  <2>1. End(H) \in Address /\ FirstBlock - 1 \in Address
    BY Addresses DEF Shape, End
  <2>. QED BY <2>1, LinkWords
<1>. QED BY <1>1, <1>2 DEF Tagged, SamePayloads

\* A block is taken off its list.
LEMMA Unlink ==
    ASSUME NEW m, NEW H, Holds(m, H), NEW i \in Lists, NEW j \in 1 .. H.len[i]
    PROVE  LET x == remove_from_free_lists(m, H.node[i][j])
           IN  Holds(x, Without(H, i, j)) /\ SamePayloads(m, x, H, {})
<1>. DEFINE b == H.node[i][j]
            p == H.node[i][j - 1]
            n == H.node[i][j + 1]
            x == remove_from_free_lists(m, b)
            X == Without(H, i, j)
<1>0. Shape(H) /\ Chained(H) /\ IsMemory(m) /\ m.brk = H.brk /\ Tagged(m, H) /\ Linked(m, H)
  BY DEF Holds
<1>1. /\ H.len[i] \in Nat /\ j \in Nat /\ 1 =< j /\ j =< H.len[i]
      /\ j - 1 \in 0 .. H.len[i] /\ j \in 0 .. H.len[i] /\ j - 1 + 1 = j
      /\ j + 1 \in 0 .. H.len[i] + 1 /\ j - 1 \in 0 .. H.len[i] + 1 /\ j \in 0 .. H.len[i] + 1
  BY <1>0, ListsOf
<1>2. /\ p \in Nat /\ n \in Nat /\ b \in Nat
      /\ p + 1 \in Address /\ n + 2 \in Address /\ b + 1 \in Address /\ b + 2 \in Address
      /\ p \in Blocks(H) \/ p = ListHead(i)
      /\ n \in Blocks(H) \/ n = ListHead(i)
  BY <1>0, <1>1, NodeIs
<1>3. NextP(m, b) = n /\ PriorP(m, b) = p
  <2>1. m.word[b + 1] = n /\ m.word[b + 2] = p
    BY <1>0, <1>1 DEF Linked
  <2>. QED BY <1>0, <1>2, <2>1, ReadIs DEF NextP, PriorP
<1>4. /\ IsMemory(x) /\ x.brk = m.brk
      /\ \A a \in Address : x.word[a] = IF a = n + 2 THEN p ELSE IF a = p + 1 THEN n ELSE m.word[a]
  <2>1. x = Write(Write(m, p + 1, n), n + 2, p)
    BY <1>3 DEF remove_from_free_lists, SetPriorP, SetNextP
  <2>2. /\ IsMemory(Write(m, p + 1, n)) /\ Write(m, p + 1, n).brk = m.brk
        /\ \A a \in Address : Write(m, p + 1, n).word[a] = IF a = p + 1 THEN n ELSE m.word[a]
    BY <1>0, <1>2, WriteIs
  <2>. HIDE DEF x, p, n
  <2>. QED BY <1>2, <2>1, <2>2, WriteIs
<1>5. Tagged(x, H) /\ SamePayloads(m, x, H, {})
  <2>1. \A a \in Address : x.word[a] # m.word[a] => a = n + 2 \/ a = p + 1
    BY <1>4
  <2>. HIDE DEF x, p, n
  <2>2. \A a \in Address : \/ x.word[a] = m.word[a]
                           \/ \E y \in Nat : /\ a \in {y + 1, y + 2}
                                             /\ y \in Blocks(H) \/ \E k \in Lists : y = ListHead(k)
    BY <1>2, <2>1
  <2>. QED BY <1>0, <2>2, TagsKept
<1>6. /\ X.brk = H.brk /\ X.words = H.words /\ X.free = H.free
      /\ X.len \in [Lists -> Nat] /\ X.len[i] = H.len[i] - 1
      /\ \A k \in Lists \ {i} : X.len[k] = H.len[k] /\ X.node[k] = H.node[k]
  BY <1>0, WithoutIs
<1>7. \A k \in 0 .. H.len[i] : X.node[i][k] = IF k < j THEN H.node[i][k] ELSE H.node[i][k + 1]
  BY <1>0, WithoutIs
<1>8. Shape(X) /\ Chained(X) /\ Tagged(x, X) /\ x.brk = X.brk
  <2>1. Shape(X) /\ Blocks(X) = Blocks(H) /\ End(X) = End(H) /\ \A c : After(X, c) = After(H, c)
    <3>1. X.free \subseteq DOMAIN H.words
      BY <1>0, <1>6 DEF Shape, Blocks
    <3>. QED BY <1>0, <1>6, <3>1, ShapeKept
  <2>2. Tagged(x, X)
    BY <1>5, <1>6, <2>1 DEF Tagged, SizeWord
  <2>. QED BY <1>0, <1>4, <1>6, <2>1, <2>2, WithoutChained
\* Which nodes the two writes reach.
<1>9. ASSUME NEW k \in Lists, NEW l \in 0 .. H.len[k]
      PROVE  x.word[H.node[k][l] + 1] = IF k = i /\ l = j - 1 THEN n ELSE H.node[k][l + 1]
  <2>1. l \in 0 .. H.len[k] + 1 /\ H.len[k] \in Nat
    BY <1>0, ListsOf
  <2>2. H.node[k][l] + 1 \in Address /\ H.node[k][l] \in Nat
    BY <1>0, <2>1, NodeIs
  <2>3. m.word[H.node[k][l] + 1] = H.node[k][l + 1]
    BY <1>0 DEF Linked
  <2>4. H.node[k][l] + 1 # n + 2
    <3>1. CASE j + 1 =< H.len[i]
      <4>1. j + 1 \in 0 .. H.len[i]
        BY <1>1, <3>1
      <4>. QED BY <1>0, <1>2, <2>2, <4>1, NodesApart
    <3>2. CASE ~(j + 1 =< H.len[i])
      <4>1. j + 1 = H.len[i] + 1 /\ 0 \in 0 .. H.len[i]
        BY <1>1, <3>2
      <4>2. n = H.node[i][0]
        BY <1>0, <4>1, ListsOf
      <4>. QED BY <1>0, <1>2, <2>2, <4>1, <4>2, NodesApart
    <3>. QED BY <3>1, <3>2
  <2>5. H.node[k][l] + 1 = p + 1 <=> k = i /\ l = j - 1
    BY <1>0, <1>1, <1>2, <2>2, NodesApart
  <2>. QED BY <1>4, <2>2, <2>3, <2>4, <2>5
<1>10. ASSUME NEW k \in Lists, NEW l \in 0 .. H.len[k]
       PROVE  x.word[H.node[k][l + 1] + 2] = IF k = i /\ l = j THEN p ELSE H.node[k][l]
  <2>1. l + 1 \in 0 .. H.len[k] + 1 /\ H.len[k] \in Nat /\ l \in Nat
    BY <1>0, ListsOf
  <2>2. H.node[k][l + 1] + 2 \in Address /\ H.node[k][l + 1] \in Nat
    BY <1>0, <2>1, NodeIs
  <2>3. m.word[H.node[k][l + 1] + 2] = H.node[k][l]
    BY <1>0 DEF Linked
  <2>4. H.node[k][l + 1] + 2 # p + 1
    <3>1. CASE l + 1 =< H.len[k]
      <4>1. l + 1 \in 0 .. H.len[k]
        BY <2>1, <3>1
      <4>. QED BY <1>0, <1>1, <1>2, <2>2, <4>1, NodesApart
    <3>2. CASE ~(l + 1 =< H.len[k])
      <4>1. l + 1 = H.len[k] + 1 /\ 0 \in 0 .. H.len[k]
        BY <2>1, <3>2
      <4>2. H.node[k][l + 1] = H.node[k][0]
        BY <1>0, <4>1, ListsOf
      <4>. QED BY <1>0, <1>1, <1>2, <2>2, <4>1, <4>2, NodesApart
    <3>. QED BY <3>1, <3>2
  <2>5. H.node[k][l + 1] + 2 = n + 2 <=> k = i /\ l = j
    <3>. DEFINE s == IF l + 1 =< H.len[k] THEN l + 1 ELSE 0
                t == IF j + 1 =< H.len[i] THEN j + 1 ELSE 0
    <3>1. s \in 0 .. H.len[k] /\ t \in 0 .. H.len[i]
      BY <1>1, <2>1
    <3>2. H.node[k][l + 1] = H.node[k][s] /\ n = H.node[i][t]
      <4>1. l + 1 =< H.len[k] \/ l + 1 = H.len[k] + 1
        BY <2>1
      <4>2. j + 1 =< H.len[i] \/ j + 1 = H.len[i] + 1
        BY <1>1
      <4>. QED BY <1>0, <4>1, <4>2, ListsOf
    <3>3. k = i => (s = t <=> l = j)
      BY <1>1, <2>1
    <3>. HIDE DEF s, t
    <3>4. H.node[k][s] = H.node[i][t] <=> k = i /\ s = t
      BY <1>0, <1>2, <2>2, <3>1, <3>2, NodesApart
    <3>. QED BY <1>2, <2>2, <3>2, <3>3, <3>4
  <2>. QED BY <1>4, <2>2, <2>3, <2>4, <2>5
<1>11. Linked(x, X)
  <2>. HIDE DEF x, X, p, n, b
  <2>. SUFFICES ASSUME NEW k \in Lists, NEW l \in 0 .. X.len[k]
                PROVE  /\ x.word[X.node[k][l] + 1] = X.node[k][l + 1]
                       /\ x.word[X.node[k][l + 1] + 2] = X.node[k][l]
    BY DEF Linked
  <2>1. CASE k # i
    BY <1>6, <1>9, <1>10, <2>1
  <2>2. CASE k = i
    <3>1. l \in Nat /\ l =< H.len[i] - 1 /\ l \in 0 .. H.len[i] /\ l + 1 \in 0 .. H.len[i]
      BY <1>1, <1>6, <2>2
    <3>2. /\ X.node[i][l] = IF l < j THEN H.node[i][l] ELSE H.node[i][l + 1]
          /\ X.node[i][l + 1] = IF l + 1 < j THEN H.node[i][l + 1] ELSE H.node[i][l + 1 + 1]
      BY <1>7, <3>1
    <3>3. CASE l + 1 < j
      <4>1. l < j /\ l # j - 1 /\ l # j
        BY <1>1, <3>1, <3>3
      <4>. QED BY <1>9, <1>10, <2>2, <3>1, <3>2, <3>3, <4>1
    <3>4. CASE l + 1 = j
      <4>1. l < j /\ ~(l + 1 < j) /\ l = j - 1 /\ l + 1 + 1 = j + 1 /\ j \in 0 .. H.len[i]
        BY <1>1, <3>1, <3>4
      <4>2. X.node[i][l] = p /\ X.node[i][l + 1] = n
        BY <3>2, <4>1 DEF p, n
      <4>3. x.word[p + 1] = n
        BY <1>9, <3>1, <4>1 DEF p
      <4>4. x.word[n + 2] = p
        BY <1>10, <4>1 DEF n
      <4>. QED BY <2>2, <4>2, <4>3, <4>4
    <3>5. CASE l + 1 > j
      <4>1. ~(l < j) /\ ~(l + 1 < j) /\ l + 1 # j - 1 /\ l + 1 # j
        BY <1>1, <3>1, <3>5
      <4>. QED BY <1>9, <1>10, <2>2, <3>1, <3>2, <4>1
    <3>6. j \in Nat /\ l + 1 \in Nat
      BY <1>1, <3>1
    <3>. QED BY <3>3, <3>4, <3>5, <3>6
  <2>. QED BY <2>1, <2>2
<1>. QED BY <1>4, <1>5, <1>8, <1>11 DEF Holds

LEMMA Drop ==
    ASSUME NEW m, NEW H, Holds(m, H), NEW b, OnList(H, b)
    PROVE  /\ Holds(remove_from_free_lists(m, b), Dropped(H, b))
           /\ SamePayloads(m, remove_from_free_lists(m, b), H, {})
           /\ Dropped(H, b).brk = H.brk /\ Dropped(H, b).words = H.words
           /\ Dropped(H, b).free = H.free
           /\ \A k \in Lists : \A c : InList(Dropped(H, b), k, c) <=> InList(H, k, c) /\ c # b
<1>0. Chained(H)
  BY DEF Holds
<1>1. PICK i \in Lists : InList(H, i, b)
  BY DEF OnList
<1>2. PICK j \in 1 .. H.len[i] : H.node[i][j] = b
  BY <1>1 DEF InList
<1>3. Home(H, b) = i /\ Place(H, b) = j
  BY <1>0, <1>2, PlaceOf
<1>4. Dropped(H, b) = Without(H, i, j)
  BY <1>3 DEF Dropped
<1>5. Holds(remove_from_free_lists(m, b), Without(H, i, j)) /\ SamePayloads(m, remove_from_free_lists(m, b), H, {})
  BY <1>2, Unlink
<1>6. /\ Without(H, i, j).brk = H.brk /\ Without(H, i, j).words = H.words
      /\ Without(H, i, j).free = H.free
  BY DEF Without
<1>7. \A k \in Lists : \A c : InList(Without(H, i, j), k, c) <=> InList(H, k, c) /\ c # b
  BY <1>0, <1>2, WithoutChained
<1>. QED BY <1>4, <1>5, <1>6, <1>7

LEMMA WithIs ==
    ASSUME NEW H, Chained(H), NEW i \in Lists, NEW b
    PROVE  LET X == With(H, i, b)
           IN  /\ X.brk = H.brk /\ X.words = H.words /\ X.free = H.free
               /\ X.len \in [Lists -> Nat] /\ X.len[i] = H.len[i] + 1
               /\ \A k \in Lists \ {i} : X.len[k] = H.len[k] /\ X.node[k] = H.node[k]
               /\ DOMAIN X.node = Lists
               /\ X.node[i][0] = ListHead(i) /\ X.node[i][1] = b
               /\ \A k \in 1 .. H.len[i] + 1 : X.node[i][k + 1] = H.node[i][k]
<1>. DEFINE nodes == [k \in 0 .. H.len[i] + 2 |-> IF k = 0 THEN ListHead(i)
                                                  ELSE IF k = 1 THEN b
                                                  ELSE H.node[i][k - 1]]
            X == With(H, i, b)
<1>1. H.len \in [Lists -> Nat] /\ H.len[i] \in Nat /\ DOMAIN H.node = Lists
  BY DEF Chained
<1>2. /\ X.brk = H.brk /\ X.words = H.words /\ X.free = H.free
      /\ X.len = [H.len EXCEPT ![i] = H.len[i] + 1]
      /\ X.node = [H.node EXCEPT ![i] = nodes]
  BY DEF With
<1>3. /\ nodes[0] = ListHead(i) /\ nodes[1] = b
      /\ \A k \in 1 .. H.len[i] + 1 : nodes[k + 1] = H.node[i][k]
  <2>1. nodes[0] = ListHead(i) /\ nodes[1] = b
    BY <1>1
  <2>2. ASSUME NEW k \in 1 .. H.len[i] + 1 PROVE nodes[k + 1] = H.node[i][k]
    <3>1. k + 1 \in 0 .. H.len[i] + 2 /\ k + 1 # 0 /\ k + 1 # 1 /\ (k + 1) - 1 = k
      BY <1>1
    <3>. QED BY <3>1
  <2>. QED BY <2>1, <2>2
<1>. HIDE DEF nodes, X
<1>4. /\ X.len \in [Lists -> Nat] /\ X.len[i] = H.len[i] + 1
      /\ \A k \in Lists \ {i} : X.len[k] = H.len[k] /\ X.node[k] = H.node[k]
      /\ X.node[i] = nodes /\ DOMAIN X.node = Lists
  BY <1>1, <1>2
<1>. QED BY <1>2, <1>3, <1>4 DEF X

LEMMA WithChained ==
    ASSUME NEW H, Chained(H), NEW i \in Lists, NEW b \in Blocks(H), ~OnList(H, b)
    PROVE  /\ Chained(With(H, i, b))
           /\ \A k \in Lists : \A c : InList(With(H, i, b), k, c) <=>
                                        InList(H, k, c) \/ (k = i /\ c = b)
<1>. DEFINE X == With(H, i, b)
<1>0. H.len[i] \in Nat
  BY ListsOf
<1>1. /\ X.brk = H.brk /\ X.words = H.words /\ X.free = H.free
      /\ X.len \in [Lists -> Nat] /\ X.len[i] = H.len[i] + 1
      /\ \A k \in Lists \ {i} : X.len[k] = H.len[k] /\ X.node[k] = H.node[k]
      /\ DOMAIN X.node = Lists
  BY WithIs
<1>2. /\ X.node[i][0] = ListHead(i) /\ X.node[i][1] = b
      /\ \A k \in 1 .. H.len[i] + 1 : X.node[i][k + 1] = H.node[i][k]
  BY WithIs
<1>3. Blocks(X) = Blocks(H)
  BY <1>1 DEF Blocks
<1>4. ASSUME NEW k \in Lists, NEW l \in 1 .. H.len[k]
      PROVE  H.node[k][l] # b
  BY DEF OnList, InList
<1>. HIDE DEF X
\* Where a node of X was.
<1>5. ASSUME NEW k \in Lists, NEW l \in 1 .. X.len[k]
      PROVE  \/ k = i /\ l = 1 /\ X.node[k][l] = b
             \/ \E o \in 1 .. H.len[k] : /\ X.node[k][l] = H.node[k][o]
                                         /\ l = (IF k = i THEN o + 1 ELSE o)
  <2>1. CASE k # i
    BY <1>1, <2>1
  <2>2. CASE k = i /\ l = 1
    BY <1>2, <2>2
  <2>3. CASE k = i /\ l # 1
    <3>1. l - 1 \in 1 .. H.len[i] /\ l - 1 \in 1 .. H.len[i] + 1 /\ (l - 1) + 1 = l
      BY <1>0, <1>1, <2>3
    <3>2. X.node[i][(l - 1) + 1] = H.node[i][l - 1]
      BY <1>2, <3>1
    <3>. QED BY <2>3, <3>1, <3>2
  <2>. QED BY <2>1, <2>2, <2>3
<1>6. ASSUME NEW k \in Lists
      PROVE  /\ X.node[k][0] = ListHead(k) /\ X.node[k][X.len[k] + 1] = ListHead(k)
             /\ \A l \in 1 .. X.len[k] : X.node[k][l] \in Blocks(X)
  <2>1. ASSUME NEW l \in 1 .. X.len[k] PROVE X.node[k][l] \in Blocks(X)
    BY <1>3, <1>5, ListsOf
  <2>2. CASE k # i
    BY <1>1, <2>1, <2>2, ListsOf
  <2>3. CASE k = i
    <3>1. H.len[i] + 1 \in 1 .. H.len[i] + 1
      BY <1>0
    <3>2. X.node[i][H.len[i] + 1 + 1] = H.node[i][H.len[i] + 1]
      BY <1>2, <3>1
    <3>. QED BY <1>1, <1>2, <2>1, <2>3, <3>2, ListsOf
  <2>. QED BY <2>2, <2>3
<1>7. ASSUME NEW i1 \in Lists, NEW k \in Lists, NEW j1 \in 1 .. X.len[i1], NEW l \in 1 .. X.len[k],
             X.node[i1][j1] = X.node[k][l]
      PROVE  i1 = k /\ j1 = l
  <2>1. CASE i1 = i /\ j1 = 1 /\ X.node[i1][j1] = b
    BY <1>4, <1>5, <1>7, <2>1
  <2>2. CASE k = i /\ l = 1 /\ X.node[k][l] = b
    BY <1>4, <1>5, <1>7, <2>2
  <2>3. CASE /\ \E o \in 1 .. H.len[i1] : /\ X.node[i1][j1] = H.node[i1][o]
                                          /\ j1 = (IF i1 = i THEN o + 1 ELSE o)
             /\ \E o \in 1 .. H.len[k] : /\ X.node[k][l] = H.node[k][o]
                                         /\ l = (IF k = i THEN o + 1 ELSE o)
    <3>1. PICK o1 \in 1 .. H.len[i1] : /\ X.node[i1][j1] = H.node[i1][o1]
                                       /\ j1 = (IF i1 = i THEN o1 + 1 ELSE o1)
      BY <2>3
    <3>2. PICK o2 \in 1 .. H.len[k] : /\ X.node[k][l] = H.node[k][o2]
                                      /\ l = (IF k = i THEN o2 + 1 ELSE o2)
      BY <2>3
    <3>3. H.node[i1][o1] = H.node[k][o2]
      BY <1>7, <3>1, <3>2
    <3>4. i1 = k /\ o1 = o2
      BY <3>3, ListsOf
    <3>. QED BY <3>1, <3>2, <3>4
  <2>. QED BY <1>5, <2>1, <2>2, <2>3
<1>8. Chained(X)
  BY <1>1, <1>6, <1>7 DEF Chained
<1>9. ASSUME NEW k \in Lists, NEW l \in 1 .. X.len[k]
      PROVE  InList(H, k, X.node[k][l]) \/ (k = i /\ X.node[k][l] = b)
  BY <1>5 DEF InList
<1>10. ASSUME NEW k \in Lists, NEW o \in 1 .. H.len[k]
      PROVE  \E l \in 1 .. X.len[k] : X.node[k][l] = H.node[k][o]
  <2>1. CASE k # i
    BY <1>1, <2>1
  <2>2. CASE k = i
    <3>1. o + 1 \in 1 .. X.len[i] /\ o \in 1 .. H.len[i] + 1
      BY <1>0, <1>1, <2>2
    <3>. QED BY <1>2, <2>2, <3>1
  <2>. QED BY <2>1, <2>2
<1>11. \E l \in 1 .. X.len[i] : X.node[i][l] = b
  <2>1. 1 \in 1 .. X.len[i]
    BY <1>0, <1>1
  <2>. QED BY <1>2, <2>1
<1>12. \A k \in Lists : \A c : InList(X, k, c) <=> InList(H, k, c) \/ (k = i /\ c = b)
  <2>. TAKE k \in Lists
  <2>. TAKE c
  <2>1. InList(X, k, c) => InList(H, k, c) \/ (k = i /\ c = b)
    BY <1>9 DEF InList
  <2>2. InList(H, k, c) => InList(X, k, c)
    BY <1>10 DEF InList
  <2>3. k = i /\ c = b => InList(X, k, c)
    BY <1>11 DEF InList
  <2>. QED BY <2>1, <2>2, <2>3
<1>. QED BY <1>8, <1>12 DEF X

\* A block is put on a list.
LEMMA LinkHolds ==
    ASSUME NEW m, NEW H, Holds(m, H), NEW i \in Lists, NEW b \in Blocks(H), ~OnList(H, b)
    PROVE  LET x == Link(m, ListHead(i), b)
           IN  Holds(x, With(H, i, b)) /\ SamePayloads(m, x, H, {})
<1>. DEFINE h == ListHead(i)
            n == H.node[i][1]
            x == Link(m, h, b)
            X == With(H, i, b)
<1>0. Shape(H) /\ Chained(H) /\ IsMemory(m) /\ m.brk = H.brk /\ Tagged(m, H) /\ Linked(m, H)
  BY DEF Holds
<1>1. /\ H.len[i] \in Nat /\ 1 \in 0 .. H.len[i] + 1 /\ 0 \in 0 .. H.len[i] + 1
      /\ 0 \in 0 .. H.len[i] /\ 0 + 1 = 1
  BY <1>0, ListsOf
<1>2. /\ h \in Nat /\ n \in Nat /\ b \in Nat /\ h = H.node[i][0]
      /\ h + 1 \in Address /\ n + 2 \in Address /\ b + 1 \in Address /\ b + 2 \in Address
      /\ n \in Blocks(H) \/ n = h
      /\ FirstBlock =< b /\ h + 3 =< FirstBlock /\ FirstBlock \in Nat
  <2>1. h \in Nat /\ h = H.node[i][0] /\ h + 3 =< FirstBlock /\ FirstBlock \in Nat
    BY <1>0, ListsOf, Addresses
  <2>2. h + 1 \in Address /\ n + 2 \in Address /\ n \in Nat /\ (n \in Blocks(H) \/ n = h)
    BY <1>0, <1>1, <2>1, NodeIs
  <2>3. b \in Nat /\ b + 1 \in Address /\ b + 2 \in Address /\ FirstBlock =< b
    BY <1>0, BlockLies, Addresses
  <2>. QED BY <2>1, <2>2, <2>3
<1>3. NextP(m, h) = n
  <2>1. m.word[h + 1] = n
    BY <1>0, <1>1, <1>2 DEF Linked
  <2>. QED BY <1>0, <1>2, <2>1, ReadIs DEF NextP
<1>4. /\ IsMemory(x) /\ x.brk = m.brk
      /\ \A a \in Address : x.word[a] = IF a = h + 1 THEN b ELSE IF a = n + 2 THEN b
                                        ELSE IF a = b + 1 THEN n ELSE IF a = b + 2 THEN h
                                        ELSE m.word[a]
  <2>. DEFINE x1 == Write(m, b + 2, h)
              x2 == Write(x1, b + 1, n)
              x3 == Write(x2, n + 2, b)
  <2>1. x = Write(x3, h + 1, b)
    BY <1>3 DEF Link, SetPriorP, SetNextP
  <2>2. /\ IsMemory(x1) /\ x1.brk = m.brk
        /\ \A a \in Address : x1.word[a] = IF a = b + 2 THEN h ELSE m.word[a]
    BY <1>0, <1>2, WriteIs
  <2>. HIDE DEF x1, x, n, h
  <2>3. /\ IsMemory(x2) /\ x2.brk = m.brk
        /\ \A a \in Address : x2.word[a] = IF a = b + 1 THEN n ELSE x1.word[a]
    BY <1>2, <2>2, WriteIs
  <2>. HIDE DEF x2
  <2>4. /\ IsMemory(x3) /\ x3.brk = m.brk
        /\ \A a \in Address : x3.word[a] = IF a = n + 2 THEN b ELSE x2.word[a]
    BY <1>2, <2>3, WriteIs
  <2>. HIDE DEF x3
  <2>5. /\ IsMemory(x) /\ x.brk = m.brk
        /\ \A a \in Address : x.word[a] = IF a = h + 1 THEN b ELSE x3.word[a]
    BY <1>2, <2>1, <2>4, WriteIs
  <2>. QED BY <2>2, <2>3, <2>4, <2>5
<1>5. Tagged(x, H) /\ SamePayloads(m, x, H, {})
  <2>1. \A a \in Address : x.word[a] # m.word[a] =>
            a = n + 2 \/ a = h + 1 \/ a = b + 1 \/ a = b + 2
    BY <1>4
  <2>2. \E k \in Lists : h = ListHead(k)
    OBVIOUS
  <2>. HIDE DEF x, h, n
  <2>3. \A a \in Address : \/ x.word[a] = m.word[a]
                           \/ \E y \in Nat : /\ a \in {y + 1, y + 2}
                                             /\ y \in Blocks(H) \/ \E k \in Lists : y = ListHead(k)
    BY <1>2, <2>1, <2>2
  <2>. QED BY <1>0, <2>3, TagsKept
<1>6. /\ X.brk = H.brk /\ X.words = H.words /\ X.free = H.free
      /\ X.len \in [Lists -> Nat] /\ X.len[i] = H.len[i] + 1
      /\ \A k \in Lists \ {i} : X.len[k] = H.len[k] /\ X.node[k] = H.node[k]
  BY <1>0, WithIs
<1>7. /\ X.node[i][0] = h /\ X.node[i][1] = b
      /\ \A k \in 1 .. H.len[i] + 1 : X.node[i][k + 1] = H.node[i][k]
  BY <1>0, WithIs
<1>8. Shape(X) /\ Chained(X) /\ Tagged(x, X) /\ x.brk = X.brk
  <2>1. Shape(X) /\ Blocks(X) = Blocks(H) /\ End(X) = End(H) /\ \A c : After(X, c) = After(H, c)
    <3>1. X.free \subseteq DOMAIN H.words
      BY <1>0, <1>6 DEF Shape, Blocks
    <3>. QED BY <1>0, <1>6, <3>1, ShapeKept
  <2>2. Tagged(x, X)
    BY <1>5, <1>6, <2>1 DEF Tagged, SizeWord
  <2>. QED BY <1>0, <1>4, <1>6, <2>1, <2>2, WithChained
\* The block lies apart from all nodes.
<1>9. ASSUME NEW k \in Lists, NEW l \in 0 .. H.len[k] + 1
      PROVE  /\ H.node[k][l] \in Nat
             /\ H.node[k][l] + 3 =< b \/ b + 3 =< H.node[k][l]
             /\ H.node[k][l] + 1 \in Address /\ H.node[k][l] + 2 \in Address
  <2>1. /\ H.node[k][l] \in Nat /\ H.len[k] \in Nat
        /\ IF l \in 1 .. H.len[k] THEN H.node[k][l] \in Blocks(H) ELSE H.node[k][l] = ListHead(k)
        /\ H.node[k][l] + 1 \in Address /\ H.node[k][l] + 2 \in Address
    BY <1>0, NodeIs
  <2>2. CASE l \in 1 .. H.len[k]
    <3>1. H.node[k][l] \in Blocks(H) /\ H.node[k][l] # b
      BY <2>1, <2>2 DEF OnList, InList
    <3>. QED BY <1>0, <1>2, <2>1, <3>1, BlocksApart, BlockLies
  <2>3. CASE l \notin 1 .. H.len[k]
    BY <1>2, <2>1, <2>3, Addresses
  <2>. QED BY <2>1, <2>2, <2>3
<1>10. ASSUME NEW k \in Lists, NEW l \in 0 .. H.len[k]
       PROVE  x.word[H.node[k][l] + 1] = IF k = i /\ l = 0 THEN b ELSE H.node[k][l + 1]
  <2>1. l \in 0 .. H.len[k] + 1 /\ H.len[k] \in Nat
    BY <1>0, ListsOf
  <2>2. m.word[H.node[k][l] + 1] = H.node[k][l + 1]
    BY <1>0 DEF Linked
  <2>3. H.node[k][l] + 1 # n + 2
    <3>1. CASE 1 =< H.len[i]
      <4>1. 1 \in 0 .. H.len[i]
        BY <1>1, <3>1
      <4>. QED BY <1>0, <1>2, <1>9, <2>1, <4>1, NodesApart
    <3>2. CASE ~(1 =< H.len[i])
      <4>1. H.len[i] = 0
        BY <1>1, <3>2
      <4>2. n = H.node[i][0]
        BY <1>0, <4>1, ListsOf
      <4>. QED BY <1>0, <1>1, <1>2, <1>9, <2>1, <4>2, NodesApart, SMTT(20)
    <3>. QED BY <3>1, <3>2
  <2>4. H.node[k][l] + 1 = h + 1 <=> k = i /\ l = 0
    BY <1>0, <1>1, <1>2, <1>9, <2>1, NodesApart, SMTT(20)
  <2>5. H.node[k][l] + 1 # b + 1 /\ H.node[k][l] + 1 # b + 2 /\ H.node[k][l] + 1 \in Address
    BY <1>2, <1>9, <2>1
  <2>. QED BY <1>4, <2>2, <2>3, <2>4, <2>5
<1>11. ASSUME NEW k \in Lists, NEW l \in 0 .. H.len[k]
       PROVE  x.word[H.node[k][l + 1] + 2] = IF k = i /\ l = 0 THEN b ELSE H.node[k][l]
  <2>1. l + 1 \in 0 .. H.len[k] + 1 /\ H.len[k] \in Nat /\ l \in Nat
    BY <1>0, ListsOf
  <2>2. m.word[H.node[k][l + 1] + 2] = H.node[k][l]
    BY <1>0 DEF Linked
  <2>. DEFINE s == IF l + 1 =< H.len[k] THEN l + 1 ELSE 0
              t == IF 1 =< H.len[i] THEN 1 ELSE 0
  <2>3. s \in 0 .. H.len[k] /\ t \in 0 .. H.len[i]
    BY <1>1, <2>1
  <2>4. H.node[k][l + 1] = H.node[k][s] /\ n = H.node[i][t]
    <3>1. l + 1 =< H.len[k] \/ l + 1 = H.len[k] + 1
      BY <2>1
    <3>2. 1 =< H.len[i] \/ H.len[i] = 0
      BY <1>1
    <3>. QED BY <1>0, <3>1, <3>2, ListsOf
  <2>5. k = i => (s = t <=> l = 0)
    BY <1>1, <2>1
  <2>6. H.node[k][l + 1] \in Nat
    BY <1>9, <2>1
  <2>. HIDE DEF s, t
  <2>7. H.node[k][s] = H.node[i][t] <=> k = i /\ s = t
    BY <1>0, <1>2, <2>3, <2>4, <2>6, NodesApart
  <2>8. H.node[k][l + 1] + 2 = n + 2 <=> k = i /\ l = 0
    BY <1>2, <2>4, <2>5, <2>6, <2>7
  <2>9. H.node[k][l + 1] + 2 # h + 1
    BY <1>0, <1>1, <1>2, <2>3, <2>4, <2>6, NodesApart
  <2>10. /\ H.node[k][l + 1] + 2 # b + 1 /\ H.node[k][l + 1] + 2 # b + 2
         /\ H.node[k][l + 1] + 2 \in Address
    BY <1>2, <1>9, <2>1
  <2>. QED BY <1>4, <2>2, <2>8, <2>9, <2>10
<1>12. x.word[b + 1] = n /\ x.word[b + 2] = h
  <2>1. n + 3 =< b \/ b + 3 =< n
    BY <1>1, <1>9
  <2>2. b + 1 # h + 1 /\ b + 2 # h + 1 /\ b + 1 # n + 2 /\ b + 2 # n + 2 /\ b + 1 # b + 2
    BY <1>2, <2>1
  <2>. HIDE DEF x, n, h
  <2>. QED BY <1>2, <1>4, <2>2
<1>13. Linked(x, X)
  <2>. HIDE DEF x, X, n, h
  <2>. SUFFICES ASSUME NEW k \in Lists, NEW l \in 0 .. X.len[k]
                PROVE  /\ x.word[X.node[k][l] + 1] = X.node[k][l + 1]
                       /\ x.word[X.node[k][l + 1] + 2] = X.node[k][l]
    BY DEF Linked
  <2>1. CASE k # i
    BY <1>6, <1>10, <1>11, <2>1
  <2>2. CASE k = i /\ l = 0
    <3>1. x.word[h + 1] = b
      BY <1>1, <1>2, <1>10
    <3>. QED BY <1>1, <1>7, <1>12, <2>2, <3>1
  <2>3. CASE k = i /\ l = 1
    <3>1. 1 \in 1 .. H.len[i] + 1
      BY <1>1
    <3>2. X.node[i][1] = b /\ X.node[i][1 + 1] = n
      BY <1>7, <3>1 DEF n
    <3>3. x.word[n + 2] = b
      BY <1>1, <1>11 DEF n
    <3>. QED BY <1>12, <2>3, <3>2, <3>3
  <2>4. CASE k = i /\ l # 0 /\ l # 1
    <3>. DEFINE o == l - 1
    <3>1. /\ o \in 1 .. H.len[i] + 1 /\ o + 1 \in 1 .. H.len[i] + 1 /\ l = o + 1
          /\ o \in 0 .. H.len[i] /\ o # 0
      BY <1>1, <1>6, <2>4
    <3>. HIDE DEF o
    <3>2. X.node[i][o + 1] = H.node[i][o] /\ X.node[i][o + 1 + 1] = H.node[i][o + 1]
      BY <1>7, <3>1
    <3>3. x.word[H.node[i][o] + 1] = H.node[i][o + 1] /\ x.word[H.node[i][o + 1] + 2] = H.node[i][o]
      BY <1>10, <1>11, <3>1
    <3>. QED BY <2>4, <3>1, <3>2, <3>3
  <2>. QED BY <2>1, <2>2, <2>3, <2>4
<1>. QED BY <1>4, <1>5, <1>8, <1>13 DEF Holds

LEMMA ListOfIs ==
    ASSUME NEW w \in Nat
    PROVE  /\ ListOf(w) \in Lists
           /\ \A v \in Nat : w =< v => ListOf(w) =< ListOf(v)
BY DEF ListOf, map_to_list, Lists, NUM_OF_FREE_LISTS

LEMMA Push ==
    ASSUME NEW m, NEW H, Holds(m, H), NEW b \in H.free, ~OnList(H, b)
    PROVE  /\ Holds(add_to_free_lists(m, b), Pushed(H, b))
           /\ SamePayloads(m, add_to_free_lists(m, b), H, {})
           /\ Pushed(H, b).brk = H.brk /\ Pushed(H, b).words = H.words
           /\ Pushed(H, b).free = H.free
           /\ \A k \in Lists : \A c : InList(Pushed(H, b), k, c) <=>
                                        InList(H, k, c) \/ (k = ListOf(H.words[b]) /\ c = b)
<1>0. Shape(H) /\ Chained(H)
  BY DEF Holds
<1>1. b \in Blocks(H) /\ H.words[b] \in Nat
  BY <1>0, BlockLies DEF Shape
<1>. DEFINE i == ListOf(H.words[b])
<1>2. i \in Lists
  BY <1>1, ListOfIs
<1>3. Size(m, b) = 8 * H.words[b]
  BY <1>1, TagsOf DEF SizeWord
<1>4. add_to_free_lists(m, b) = Link(m, ListHead(i), b)
  BY <1>3 DEF add_to_free_lists, ListOf
<1>5. Pushed(H, b) = With(H, i, b)
  BY DEF Pushed
<1>. HIDE DEF i
<1>6. Holds(Link(m, ListHead(i), b), With(H, i, b)) /\ SamePayloads(m, Link(m, ListHead(i), b), H, {})
  BY <1>1, <1>2, LinkHolds
<1>7. With(H, i, b).brk = H.brk /\ With(H, i, b).words = H.words /\ With(H, i, b).free = H.free
  BY DEF With
<1>8. \A k \in Lists : \A c : InList(With(H, i, b), k, c) <=> InList(H, k, c) \/ (k = i /\ c = b)
  BY <1>0, <1>1, <1>2, WithChained
<1>. QED BY <1>4, <1>5, <1>6, <1>7, <1>8 DEF i

-----------------------------------------------------------------------------
(* The headers and footers.                                                *)

\* The same lists in a heap of other blocks.
LEMMA ChainedKept ==
    ASSUME NEW H, Chained(H), NEW X, X.len = H.len, X.node = H.node,
           \A i \in Lists : \A j \in 1 .. H.len[i] : H.node[i][j] \in Blocks(X)
    PROVE  /\ Chained(X)
           /\ \A k, c : InList(X, k, c) <=> InList(H, k, c)
           /\ \A c : OnList(X, c) <=> OnList(H, c)
BY DEF Chained, InList, OnList

\* Writing tags of blocks leaves the lists alone.
LEMMA Retagged ==
    ASSUME NEW m, NEW H, Holds(m, H), NEW X, Shape(X),
           X.len = H.len, X.node = H.node,
           \A i \in Lists : \A j \in 1 .. H.len[i] : H.node[i][j] \in Blocks(X),
           NEW x, IsMemory(x), x.brk = X.brk, Tagged(x, X),
           \A a \in Address : \/ x.word[a] = m.word[a]
                              \/ a >= End(H)
                              \/ \E b \in Blocks(X) : a = b \/ a = After(X, b) - 1
    PROVE  Holds(x, X)
<1>1. Shape(H) /\ Chained(H) /\ Linked(m, H)
  BY DEF Holds
<1>2. Chained(X)
  BY <1>1, ChainedKept
<1>3. ASSUME NEW i \in Lists, NEW j \in 0 .. H.len[i], NEW a \in {H.node[i][j] + 1, H.node[i][j] + 2}
      PROVE  x.word[a] = m.word[a]
  <2>1. j \in 0 .. X.len[i] + 1 /\ H.len[i] \in Nat
    BY <1>1, ListsOf
  <2>2. H.node[i][j] \in Nat /\ (H.node[i][j] \in Blocks(X) \/ \E k \in Lists : H.node[i][j] = ListHead(k))
    BY <1>2, <2>1, NodeIs
  <2>3. a \in Address /\ \A b \in Blocks(X) : a # b /\ a # After(X, b) - 1
    BY <2>2, LinkWords
  <2>4. ~(a >= End(H))
    <3>1. /\ H.node[i][j] \in Blocks(H) => H.node[i][j] + 4 =< End(H)
          /\ H.node[i][j] \in Blocks(H) \/ H.node[i][j] = ListHead(i)
          /\ FirstBlock =< End(H) /\ End(H) \in Nat /\ FirstBlock \in Nat
      BY <1>1, <2>1, NodeIs, Addresses DEF End
    <3>. QED BY <2>2, <3>1, Addresses
  <2>. QED BY <2>3, <2>4
<1>4. Linked(x, H)
  BY <1>1, <1>3, LinkedKept
<1>5. Linked(x, X)
  BY <1>4 DEF Linked
<1>. QED BY <1>2, <1>5 DEF Holds

\* One block becomes free or allocated.
LEMMA Flagged ==
    ASSUME NEW m, NEW H, Holds(m, H), NEW b \in Blocks(H), NEW F \in SUBSET Blocks(H),
           F \ {b} = H.free \ {b}
    PROVE  LET X == [brk |-> H.brk, words |-> H.words, free |-> F, len |-> H.len, node |-> H.node]
               x == Write(Write(m, b, SizeWord(X, b)), After(H, b) - 1, SizeWord(X, b))
           IN  Holds(x, X) /\ SamePayloads(m, x, H, {})
<1>. DEFINE X == [brk |-> H.brk, words |-> H.words, free |-> F, len |-> H.len, node |-> H.node]
            v == SizeWord(X, b)
            y == Write(m, b, v)
            x == Write(y, After(H, b) - 1, v)
<1>0. Shape(H) /\ Chained(H) /\ IsMemory(m) /\ m.brk = H.brk /\ Tagged(m, H)
  BY DEF Holds
<1>1. X.brk = H.brk /\ X.words = H.words /\ X.free = F /\ X.len = H.len /\ X.node = H.node
  OBVIOUS
<1>. HIDE DEF X
<1>2. Shape(X) /\ Blocks(X) = Blocks(H) /\ End(X) = End(H) /\ \A c : After(X, c) = After(H, c)
  BY <1>0, <1>1, ShapeKept DEF Blocks
<1>3. \A c \in Blocks(H) : /\ c \in Nat /\ H.words[c] \in Nat /\ After(H, c) \in Nat
                           /\ c + 4 =< After(H, c) /\ FirstBlock =< c /\ After(H, c) =< End(H)
                           /\ c \in Address /\ After(H, c) - 1 \in Address
  BY <1>0, BlockLies, Addresses
<1>4. v \in Nat
  BY <1>1, <1>3 DEF SizeWord
<1>5. IsMemory(y) /\ y.brk = m.brk /\ \A a \in Address : y.word[a] = IF a = b THEN v ELSE m.word[a]
  BY <1>0, <1>4, WriteIs
<1>. HIDE DEF y, v
<1>6. /\ IsMemory(x) /\ x.brk = m.brk
      /\ \A a \in Address : x.word[a] = IF a = After(H, b) - 1 \/ a = b THEN v ELSE m.word[a]
  <2>1. /\ IsMemory(x) /\ x.brk = y.brk
        /\ \A a \in Address : x.word[a] = IF a = After(H, b) - 1 THEN v ELSE y.word[a]
    BY <1>4, <1>5, WriteIs
  <2>. QED BY <1>5, <2>1
<1>. HIDE DEF x
<1>7. ASSUME NEW c \in Blocks(H)
      PROVE  x.word[c] = SizeWord(X, c) /\ x.word[After(H, c) - 1] = SizeWord(X, c)
  <2>1. CASE c = b
    BY <1>3, <1>6, <2>1 DEF v
  <2>2. CASE c # b
    <3>1. After(H, c) =< b \/ After(H, b) =< c
      BY <1>0, <2>2, BlocksApart
    <3>2. c # b /\ c # After(H, b) - 1 /\ After(H, c) - 1 # b /\ After(H, c) - 1 # After(H, b) - 1
      BY <1>3, <2>2, <3>1
    <3>3. c \in X.free <=> c \in H.free
      BY <1>1, <2>2
    <3>4. SizeWord(X, c) = SizeWord(H, c)
      BY <1>1, <3>3 DEF SizeWord
    <3>. QED BY <1>0, <1>3, <1>6, <3>2, <3>4 DEF Tagged
  <2>. QED BY <2>1, <2>2
<1>8. x.word[End(H)] = BLK_HDR_SIZE + 1 /\ x.word[FirstBlock - 1] = 1
  <2>1. End(H) \in Address /\ FirstBlock - 1 \in Address /\ End(H) \in Nat /\ FirstBlock \in Nat
    BY <1>0, Addresses DEF Shape, End
  <2>2. /\ End(H) # b /\ End(H) # After(H, b) - 1
        /\ FirstBlock - 1 # b /\ FirstBlock - 1 # After(H, b) - 1
    BY <1>3, <2>1
  <2>. QED BY <1>0, <1>6, <2>1, <2>2 DEF Tagged
<1>9. Tagged(x, X)
  BY <1>2, <1>7, <1>8 DEF Tagged
<1>10. Holds(x, X)
  <2>1. \A i \in Lists : \A j \in 1 .. H.len[i] : H.node[i][j] \in Blocks(X)
    BY <1>0, <1>2, ListsOf
  <2>2. \A a \in Address : \/ x.word[a] = m.word[a]
                           \/ \E c \in Blocks(X) : a = c \/ a = After(X, c) - 1
    BY <1>2, <1>6
  <2>3. x.brk = X.brk
    BY <1>0, <1>1, <1>6
  <2>. QED BY <1>1, <1>2, <1>6, <1>9, <2>1, <2>2, <2>3, Retagged
<1>11. SamePayloads(m, x, H, {})
  <2>. SUFFICES ASSUME NEW c \in Blocks(H), NEW a \in c + 3 .. After(H, c) - 2
                PROVE  x.word[a] = m.word[a]
    BY DEF SamePayloads
  <2>1. a \in Address
    BY <1>0, <1>3, BlockLies
  <2>2. c = b \/ After(H, c) =< b \/ After(H, b) =< c
    BY <1>0, BlocksApart
  <2>3. a # b /\ a # After(H, b) - 1
    BY <1>3, <2>2
  <2>. QED BY <1>6, <2>1, <2>3
<1>. QED BY <1>10, <1>11 DEF X, x, y, v

LEMMA MarkHolds ==
    ASSUME NEW m, NEW H, Holds(m, H), NEW b \in Blocks(H)
    PROVE  Holds(Mark(m, b), Marked(H, b)) /\ SamePayloads(m, Mark(m, b), H, {})
<1>. DEFINE F == H.free \ {b}
            v == 8 * H.words[b] + 1
<1>0. /\ H.free \subseteq Blocks(H) /\ IsMemory(m) /\ Shape(H) /\ m.word[After(H, b) - 1] = SizeWord(H, b)
      /\ m.word[b] = SizeWord(H, b)
  BY DEF Holds, Shape, Tagged
<1>1. Foot(m, b) = After(H, b) - 1 /\ Bytes(Size(m, b)) = 8 * H.words[b] /\ Size(m, b) = SizeWord(H, b)
  BY TagsOf
<1>2. /\ b \in Address /\ After(H, b) - 1 \in Address /\ b # After(H, b) - 1
      /\ H.words[b] \in Nat /\ v \in Nat
  BY <1>0, BlockLies, Addresses
<1>3. MarkWord(m, b) = Write(m, b, v)
  BY <1>1 DEF MarkWord, Size
<1>4. Read(Write(m, b, v), After(H, b) - 1) = SizeWord(H, b)
  <2>. HIDE DEF v
  <2>1. IsMemory(Write(m, b, v)) /\ Write(m, b, v).word[After(H, b) - 1] = SizeWord(H, b)
    BY <1>0, <1>2, WriteIs
  <2>. QED BY <1>2, <2>1, ReadIs
<1>5. Bytes(SizeWord(H, b)) = 8 * H.words[b]
  BY <1>1
<1>6. Mark(m, b) = Write(Write(m, b, v), After(H, b) - 1, v)
  BY <1>1, <1>3, <1>4, <1>5 DEF Mark, MarkWord
<1>7. v = SizeWord(Marked(H, b), b)
  BY DEF SizeWord, Marked
<1>. QED BY <1>0, <1>6, <1>7, Flagged DEF Marked

LEMMA UnmarkHolds ==
    ASSUME NEW m, NEW H, Holds(m, H), NEW b \in Blocks(H)
    PROVE  Holds(Unmark(m, b), Unmarked(H, b)) /\ SamePayloads(m, Unmark(m, b), H, {})
<1>. DEFINE F == H.free \cup {b}
            v == 8 * H.words[b]
<1>0. /\ H.free \subseteq Blocks(H) /\ IsMemory(m) /\ Shape(H) /\ m.word[After(H, b) - 1] = SizeWord(H, b)
      /\ m.word[b] = SizeWord(H, b)
  BY DEF Holds, Shape, Tagged
<1>1. Foot(m, b) = After(H, b) - 1 /\ Bytes(Size(m, b)) = 8 * H.words[b] /\ Size(m, b) = SizeWord(H, b)
  BY TagsOf
<1>2. /\ b \in Address /\ After(H, b) - 1 \in Address /\ b # After(H, b) - 1
      /\ H.words[b] \in Nat /\ v \in Nat
  BY <1>0, BlockLies, Addresses
<1>3. UnmarkWord(m, b) = Write(m, b, v)
  BY <1>1 DEF UnmarkWord, Size
<1>4. Read(Write(m, b, v), After(H, b) - 1) = SizeWord(H, b)
  <2>. HIDE DEF v
  <2>1. IsMemory(Write(m, b, v)) /\ Write(m, b, v).word[After(H, b) - 1] = SizeWord(H, b)
    BY <1>0, <1>2, WriteIs
  <2>. QED BY <1>2, <2>1, ReadIs
<1>5. Bytes(SizeWord(H, b)) = 8 * H.words[b]
  BY <1>1
<1>6. Unmark(m, b) = Write(Write(m, b, v), After(H, b) - 1, v)
  BY <1>1, <1>3, <1>4, <1>5 DEF Unmark, UnmarkWord
<1>7. v = SizeWord(Unmarked(H, b), b)
  BY <1>2 DEF SizeWord, Unmarked
<1>. QED BY <1>0, <1>6, <1>7, Flagged DEF Unmarked

LEMMA SetBlockIs ==
    ASSUME NEW m, IsMemory(m), NEW h \in Nat, NEW w \in Nat, NEW s \in {8 * w, 8 * w + 1}
    PROVE  LET x == SetBlock(m, h, s)
           IN  /\ IsMemory(x) /\ x.brk = m.brk
               /\ \A a \in Address : x.word[a] = IF a = h \/ a = h + w - 1 THEN s ELSE m.word[a]
<1>1. Words(s) = w /\ s \in Nat
  <2>1. CASE s = 8 * w
    BY <2>1, SizeWords
  <2>2. CASE s = 8 * w + 1
    BY <2>2, SizeWords
  <2>. QED BY <2>1, <2>2
<1>. DEFINE y == Write(m, h, s)
            x == Write(y, h + w - 1, s)
<1>2. SetBlock(m, h, s) = x
  BY <1>1 DEF SetBlock, SetSize
<1>3. IsMemory(y) /\ y.brk = m.brk /\ \A a \in Address : y.word[a] = IF a = h THEN s ELSE m.word[a]
  BY <1>1, WriteIs
<1>. HIDE DEF y
<1>4. /\ IsMemory(x) /\ x.brk = y.brk
      /\ \A a \in Address : x.word[a] = IF a = h + w - 1 THEN s ELSE y.word[a]
  BY <1>1, <1>3, WriteIs
<1>. QED BY <1>2, <1>3, <1>4

LEMMA SetTakenIs ==
    ASSUME NEW m, IsMemory(m), NEW h \in Nat, NEW w \in Nat, NEW s, s = 8 * w + 1
    PROVE  LET x == SetBlock(m, h, s)
           IN  /\ IsMemory(x) /\ x.brk = m.brk
               /\ \A a \in Address : x.word[a] = IF a = h \/ a = h + w - 1 THEN s ELSE m.word[a]
BY SetBlockIs

LEMMA SetFreeIs ==
    ASSUME NEW m, IsMemory(m), NEW h \in Nat, NEW w \in Nat
    PROVE  /\ IsMemory(SetBlock(m, h, 8 * w)) /\ SetBlock(m, h, 8 * w).brk = m.brk
           /\ \A a \in Address : SetBlock(m, h, 8 * w).word[a] =
                  IF a = h \/ a = h + w - 1 THEN 8 * w ELSE m.word[a]
<1>. DEFINE s == 8 * w
            y == Write(m, h, s)
            x == Write(y, h + w - 1, s)
<1>1. Words(s) = w /\ s \in Nat
  BY SizeWords
<1>. HIDE DEF s
<1>2. SetBlock(m, h, s) = x
  BY <1>1 DEF SetBlock, SetSize
<1>3. IsMemory(y) /\ y.brk = m.brk /\ \A a \in Address : y.word[a] = IF a = h THEN s ELSE m.word[a]
  BY <1>1, WriteIs
<1>. HIDE DEF y
<1>4. /\ IsMemory(x) /\ x.brk = y.brk
      /\ \A a \in Address : x.word[a] = IF a = h + w - 1 THEN s ELSE y.word[a]
  BY <1>1, <1>3, WriteIs
<1>5. /\ IsMemory(SetBlock(m, h, s)) /\ SetBlock(m, h, s).brk = m.brk
      /\ \A a \in Address : SetBlock(m, h, s).word[a] = IF a = h \/ a = h + w - 1 THEN s ELSE m.word[a]
  BY <1>2, <1>3, <1>4
<1>. QED BY <1>5 DEF s

LEMMA SplitShape ==
    ASSUME NEW H, Shape(H), NEW b \in H.free, NEW w \in Nat, 4 =< w, w + 4 =< H.words[b]
    PROVE  LET X == Split(H, b, w)
           IN  /\ Shape(X) /\ End(X) = End(H) /\ X.brk = H.brk
               /\ b \in Blocks(H) /\ Blocks(X) = Blocks(H) \cup {b + w} /\ b + w \notin Blocks(H)
               /\ X.words[b] = w /\ X.words[b + w] = H.words[b] - w
               /\ \A c \in Blocks(H) \ {b} : X.words[c] = H.words[c] /\ After(X, c) = After(H, c)
               /\ After(X, b) = b + w /\ After(X, b + w) = After(H, b)
               /\ X.free = H.free \cup {b + w} /\ X.len = H.len /\ X.node = H.node
<1>. DEFINE X == Split(H, b, w)
            e == b + w
<1>1. /\ b \in Blocks(H) /\ b \in Nat /\ e \in Nat /\ H.words[b] \in Nat /\ After(H, b) = b + H.words[b]
      /\ After(H, b) \in Nat /\ FirstBlock \in Nat /\ FirstBlock =< b /\ End(H) \in Nat /\ b < e
      /\ After(H, b) =< End(H) /\ e + 4 =< After(H, b) /\ H.words[b] - w \in Nat
      /\ 4 =< H.words[b] - w
  <2>1. b \in Blocks(H)
    BY DEF Shape
  <2>. QED BY <2>1, BlockLies, Addresses
<1>2. /\ X.brk = H.brk /\ X.free = H.free \cup {e} /\ X.len = H.len /\ X.node = H.node
      /\ X.words = [x \in Blocks(H) \cup {e} |->
                       IF x = b THEN w ELSE IF x = e THEN H.words[b] - w ELSE H.words[x]]
  BY DEF Split
<1>3. Blocks(X) = Blocks(H) \cup {e}
  BY <1>2 DEF Blocks
<1>4. \A c \in Blocks(H) : c # b => After(H, c) =< b \/ After(H, b) =< c
  BY <1>1, BlocksApart
<1>5. e \notin Blocks(H)
  <2>1. ASSUME e \in Blocks(H) PROVE FALSE
    <3>1. e # b /\ e < After(H, b) /\ b < e /\ After(H, e) > e
      BY <1>1, <2>1, BlockLies
    <3>. QED BY <1>1, <1>4, <2>1, <3>1, BlockLies
  <2>. QED BY <2>1
<1>. HIDE DEF X, e
<1>6. /\ X.words[b] = w /\ X.words[e] = H.words[b] - w
      /\ \A c \in Blocks(H) \ {b} : X.words[c] = H.words[c]
  BY <1>1, <1>2, <1>5
<1>7. After(X, b) = e /\ After(X, e) = After(H, b)
  BY <1>1, <1>6 DEF After, e
<1>8. \A c \in Blocks(H) \ {b} : After(X, c) = After(H, c)
  BY <1>6 DEF After
<1>9. End(X) = End(H)
  BY <1>2 DEF End
<1>10. \A c \in Blocks(H) : /\ c \in Nat /\ H.words[c] \in Nat /\ 4 =< H.words[c]
                            /\ FirstBlock =< c /\ c < End(H) /\ After(H, c) \in Nat
                            /\ c < After(H, c)
                            /\ After(H, c) \in Blocks(H) \cup {End(H)}
  <2>1. \A c \in Blocks(H) : After(H, c) \in Blocks(H) \cup {End(H)} /\ c < End(H)
    BY DEF Shape
  <2>. QED BY <2>1, BlockLies, Addresses
<1>11. \A c \in Blocks(X) : /\ FirstBlock =< c /\ c < End(X) /\ 4 =< X.words[c] /\ X.words[c] \in Nat
                            /\ c \in Nat
                            /\ After(X, c) \in Blocks(X) \cup {End(X)}
  <2>. TAKE c \in Blocks(X)
  <2>1. CASE c = e
    <3>1. After(H, b) \in Blocks(H) \cup {End(H)}
      BY <1>1, <1>10
    <3>. QED BY <1>1, <1>3, <1>6, <1>7, <1>9, <2>1, <3>1
  <2>2. CASE c = b
    BY <1>1, <1>3, <1>6, <1>7, <1>9, <1>10, <2>2
  <2>3. CASE c \in Blocks(H) \ {b}
    BY <1>3, <1>6, <1>8, <1>9, <1>10, <2>3
  <2>. QED BY <1>3, <2>1, <2>2, <2>3
<1>12. \A c, d \in Blocks(X) : c < d => After(X, c) =< d
  <2>. SUFFICES ASSUME NEW c \in Blocks(X), NEW d \in Blocks(X), c < d
                PROVE  After(X, c) =< d
    OBVIOUS
  <2>1. c \in Nat /\ d \in Nat
    BY <1>11
  <2>2. CASE c = e
    <3>1. d \in Blocks(H) /\ b < d
      BY <1>1, <1>3, <2>1, <2>2
    <3>. QED BY <1>1, <1>4, <1>7, <1>10, <2>1, <2>2, <3>1
  <2>3. CASE c = b /\ d # e
    <3>1. d \in Blocks(H)
      BY <1>3, <2>3
    <3>. QED BY <1>1, <1>4, <1>7, <1>10, <2>1, <2>3, <3>1
  <2>4. CASE c = b /\ d = e
    BY <1>1, <1>7, <2>4
  <2>5. CASE c \in Blocks(H) \ {b} /\ d = e
    <3>1. c # b /\ c < After(H, b)
      BY <1>1, <2>1, <2>5
    <3>2. After(H, c) =< b
      <4>1. After(H, c) =< b \/ After(H, b) =< c
        BY <1>4, <2>5
      <4>. QED BY <1>1, <2>1, <2>5, <4>1
    <3>. QED BY <1>1, <1>8, <1>10, <2>1, <2>5, <3>2
  <2>6. CASE c \in Blocks(H) \ {b} /\ d \in Blocks(H)
    BY <1>8, <2>6 DEF Shape
  <2>. QED BY <1>3, <2>2, <2>3, <2>4, <2>5, <2>6
<1>13. \A c \in Blocks(X) \cup {End(X)} : c = FirstBlock \/ \E d \in Blocks(X) : After(X, d) = c
  <2>. TAKE c \in Blocks(X) \cup {End(X)}
  <2>1. CASE c = e
    BY <1>1, <1>3, <1>7, <2>1
  <2>2. CASE c # e
    <3>1. c \in Blocks(H) \cup {End(H)}
      BY <1>3, <1>9, <2>2
    <3>2. c = FirstBlock \/ \E d \in Blocks(H) : After(H, d) = c
      BY <3>1 DEF Shape
    <3>. QED BY <1>3, <1>7, <1>8, <3>2
  <2>. QED BY <2>1, <2>2
<1>14. Shape(X)
  <2>1. H.brk \in Nat /\ FirstBlock + 3 =< H.brk /\ H.brk =< mem_max_addr
        /\ FirstBlock \in Blocks(H) \cup {End(H)}
        /\ H.free \subseteq Blocks(H)
    BY DEF Shape
  <2>2. X.words \in [Blocks(X) -> Nat]
    <3>1. X.words = [c \in Blocks(X) |-> X.words[c]]
      BY <1>2, <1>3
    <3>. QED BY <1>11, <3>1
  <2>3. X.free \subseteq Blocks(X) /\ Blocks(X) \subseteq Nat
    BY <1>2, <1>3, <1>11, <2>1
  <2>4. FirstBlock \in Blocks(X) \cup {End(X)}
    BY <1>3, <1>9, <2>1
  <2>. QED BY <1>2, <1>11, <1>12, <1>13, <2>1, <2>2, <2>3, <2>4 DEF Shape
<1>. QED BY <1>1, <1>2, <1>3, <1>5, <1>6, <1>7, <1>8, <1>9, <1>14 DEF X, e

LEMMA SplitHolds ==
    ASSUME NEW m, NEW H, Holds(m, H), NEW b \in H.free,
           NEW w \in Nat, 4 =< w, w + 4 =< H.words[b]
    PROVE  LET x == SetBlock(SetBlock(m, b, 8 * w), b + w, 8 * H.words[b] - 8 * w)
           IN  Holds(x, Split(H, b, w)) /\ SamePayloads(m, x, H, {b})
<1>. DEFINE X == Split(H, b, w)
            e == b + w
            r == H.words[b] - w
            y == SetBlock(m, b, 8 * w)
            x == SetBlock(y, e, 8 * r)
<1>0. Shape(H) /\ Chained(H) /\ IsMemory(m) /\ m.brk = H.brk /\ Tagged(m, H)
  BY DEF Holds
<1>1. /\ Shape(X) /\ End(X) = End(H) /\ X.brk = H.brk
      /\ b \in Blocks(H) /\ Blocks(X) = Blocks(H) \cup {e} /\ e \notin Blocks(H)
      /\ X.words[b] = w /\ X.words[e] = r
      /\ \A c \in Blocks(H) \ {b} : X.words[c] = H.words[c] /\ After(X, c) = After(H, c)
      /\ After(X, b) = e /\ After(X, e) = After(H, b)
      /\ X.free = H.free \cup {e} /\ X.len = H.len /\ X.node = H.node
  BY <1>0, SplitShape
<1>. HIDE DEF X
<1>2. /\ b \in Nat /\ H.words[b] \in Nat /\ After(H, b) = b + H.words[b] /\ e \in Nat
      /\ After(H, b) \in Nat /\ r \in Nat /\ e + r = After(H, b) /\ 4 =< r /\ b + 4 =< e
      /\ 8 * H.words[b] - 8 * w = 8 * r
  BY <1>0, <1>1, BlockLies
<1>3. \A c \in Blocks(H) : /\ c \in Nat /\ After(H, c) \in Nat
                           /\ c + 4 =< After(H, c) /\ FirstBlock =< c /\ After(H, c) =< End(H)
                           /\ c \in Address /\ After(H, c) - 1 \in Address
                           /\ \A a \in c + 3 .. After(H, c) - 2 : a \in Address
  BY <1>0, BlockLies, Addresses
<1>4. /\ IsMemory(y) /\ y.brk = m.brk
      /\ \A a \in Address : y.word[a] = IF a = b \/ a = b + w - 1 THEN 8 * w ELSE m.word[a]
  BY <1>0, <1>2, SetBlockIs
<1>. HIDE DEF y, e, r
<1>5. /\ IsMemory(x) /\ x.brk = y.brk
      /\ \A a \in Address : x.word[a] = IF a = e \/ a = e + r - 1 THEN 8 * r ELSE y.word[a]
  BY <1>2, <1>4, SetBlockIs
<1>. HIDE DEF x
<1>6. \A a \in Address : x.word[a] = IF a = e \/ a = After(H, b) - 1 THEN 8 * r
                                     ELSE IF a = b \/ a = e - 1 THEN 8 * w ELSE m.word[a]
  BY <1>2, <1>4, <1>5 DEF e
<1>7. ASSUME NEW c \in Blocks(H), c # b
      PROVE  /\ x.word[c] = SizeWord(X, c) /\ x.word[After(H, c) - 1] = SizeWord(X, c)
             /\ \A a \in c + 3 .. After(H, c) - 2 : x.word[a] = m.word[a]
  <2>1. After(H, c) =< b \/ After(H, b) =< c
    BY <1>0, <1>1, <1>7, BlocksApart
  <2>2. \A a \in Int : c =< a /\ a < After(H, c) => a # e /\ a # After(H, b) - 1 /\ a # b /\ a # e - 1
    BY <1>2, <1>3, <2>1
  <2>3. SizeWord(X, c) = SizeWord(H, c)
    BY <1>1, <1>7 DEF SizeWord
  <2>4. x.word[c] = m.word[c] /\ x.word[After(H, c) - 1] = m.word[After(H, c) - 1]
    <3>1. c =< After(H, c) - 1 /\ After(H, c) - 1 < After(H, c) /\ c < After(H, c)
          /\ c \in Int /\ After(H, c) - 1 \in Int
      BY <1>3
    <3>. QED BY <1>3, <1>6, <2>2, <3>1
  <2>5. \A a \in c + 3 .. After(H, c) - 2 : x.word[a] = m.word[a]
    <3>1. \A a \in c + 3 .. After(H, c) - 2 : a \in Int /\ c =< a /\ a < After(H, c) /\ a \in Address
      BY <1>3
    <3>. QED BY <1>6, <2>2, <3>1
  <2>. QED BY <1>0, <2>3, <2>4, <2>5 DEF Tagged
<1>8. /\ x.word[b] = SizeWord(X, b) /\ x.word[e - 1] = SizeWord(X, b)
      /\ x.word[e] = SizeWord(X, e) /\ x.word[After(H, b) - 1] = SizeWord(X, e)
  <2>1. SizeWord(X, b) = 8 * w /\ SizeWord(X, e) = 8 * r
    BY <1>1, <1>2 DEF SizeWord
  <2>2. b \in Address /\ e - 1 \in Address /\ e \in Address /\ After(H, b) - 1 \in Address
    BY <1>0, <1>1, <1>2, BlockLies, Addresses
  <2>. QED BY <1>2, <1>6, <2>1, <2>2
<1>9. x.word[End(H)] = BLK_HDR_SIZE + 1 /\ x.word[FirstBlock - 1] = 1
  <2>1. End(H) \in Address /\ FirstBlock - 1 \in Address /\ End(H) \in Nat /\ FirstBlock \in Nat
    BY <1>0, Addresses DEF Shape, End
  <2>2. FirstBlock =< b /\ After(H, b) =< End(H)
    BY <1>1, <1>3
  <2>. QED BY <1>0, <1>2, <1>6, <2>1, <2>2 DEF Tagged
<1>10. Tagged(x, X)
  BY <1>1, <1>7, <1>8, <1>9 DEF Tagged
<1>11. Holds(x, X)
  <2>1. \A i \in Lists : \A j \in 1 .. H.len[i] : H.node[i][j] \in Blocks(X)
    BY <1>0, <1>1, ListsOf
  <2>2. \A a \in Address : \/ x.word[a] = m.word[a]
                           \/ \E c \in Blocks(X) : a = c \/ a = After(X, c) - 1
    BY <1>1, <1>6
  <2>3. x.brk = X.brk
    BY <1>0, <1>1, <1>4, <1>5
  <2>. QED BY <1>1, <1>5, <1>10, <2>1, <2>2, <2>3, Retagged
<1>12. SamePayloads(m, x, H, {b})
  BY <1>7 DEF SamePayloads
<1>. QED BY <1>2, <1>11, <1>12 DEF X, x, y, e, r

LEMMA MergedShape ==
    ASSUME NEW H, Shape(H), NEW b \in Blocks(H), NEW w \in Nat, H.words[b] =< w,
           b + w \in Blocks(H) \cup {End(H)}
    PROVE  LET X == Merged(H, b, w)
           IN  /\ Shape(X) /\ End(X) = End(H) /\ X.brk = H.brk
               /\ Blocks(X) = {c \in Blocks(H) : ~(b < c /\ c < b + w)} /\ b \in Blocks(X)
               /\ X.words[b] = w /\ After(X, b) = b + w
               /\ \A c \in Blocks(X) \ {b} : X.words[c] = H.words[c] /\ After(X, c) = After(H, c)
               /\ X.free = {c \in H.free : ~(b < c /\ c < b + w)} /\ X.len = H.len /\ X.node = H.node
<1>. DEFINE X == Merged(H, b, w)
            e == b + w
<1>1. \A c \in Blocks(H) : /\ c \in Nat /\ H.words[c] \in Nat /\ 4 =< H.words[c]
                           /\ FirstBlock =< c /\ c < End(H) /\ After(H, c) \in Nat
                           /\ c < After(H, c) /\ After(H, c) = c + H.words[c]
                           /\ After(H, c) \in Blocks(H) \cup {End(H)}
  <2>1. \A c \in Blocks(H) : After(H, c) \in Blocks(H) \cup {End(H)} /\ c < End(H)
    BY DEF Shape
  <2>. QED BY <2>1, BlockLies, Addresses
<1>2. /\ b \in Nat /\ e \in Nat /\ End(H) \in Nat /\ FirstBlock \in Nat /\ b < e
      /\ After(H, b) =< e /\ e =< End(H)
  <2>1. b \in Nat /\ End(H) \in Nat /\ FirstBlock \in Nat /\ b < e /\ After(H, b) =< e /\ e \in Nat
    BY <1>1, Addresses DEF Shape, End
  <2>2. e =< End(H)
    BY <1>1, <2>1
  <2>. QED BY <2>1, <2>2
<1>3. /\ X.brk = H.brk /\ X.free = {c \in H.free : ~(b < c /\ c < e)}
      /\ X.len = H.len /\ X.node = H.node
      /\ X.words = [x \in {c \in Blocks(H) : ~(b < c /\ c < e)} |->
                       IF x = b THEN w ELSE H.words[x]]
  BY DEF Merged
<1>4. Blocks(X) = {c \in Blocks(H) : ~(b < c /\ c < e)}
  BY <1>3 DEF Blocks
<1>5. \A c, d \in Blocks(H) : c # d => After(H, c) =< d \/ After(H, d) =< c
  BY BlocksApart
<1>6. \A c \in Blocks(H) : c < e => After(H, c) =< e
  <2>1. CASE e \in Blocks(H)
    BY <2>1 DEF Shape
  <2>2. CASE e = End(H)
    BY <2>2, BlockLies
  <2>. QED BY <2>1, <2>2
<1>7. End(X) = End(H) /\ b \in Blocks(X)
  BY <1>2, <1>3, <1>4 DEF End
<1>. HIDE DEF X, e
<1>8. X.words[b] = w /\ \A c \in Blocks(X) \ {b} : X.words[c] = H.words[c]
  BY <1>3, <1>4, <1>7
<1>9. After(X, b) = e /\ \A c \in Blocks(X) \ {b} : After(X, c) = After(H, c)
  BY <1>8 DEF After, e
<1>10. \A c \in Blocks(X) \ {b} : /\ c \in Blocks(H) /\ c < b => After(H, c) =< b
                                  /\ c >= b => e =< c
  BY <1>1, <1>2, <1>4, <1>5
<1>11. e \in Blocks(X) \cup {End(X)}
  BY <1>2, <1>4, <1>7 DEF e
<1>12. ASSUME NEW c \in Blocks(X)
       PROVE  /\ FirstBlock =< c /\ c < End(X) /\ 4 =< X.words[c] /\ X.words[c] \in Nat
              /\ c \in Nat
              /\ After(X, c) \in Blocks(X) \cup {End(X)}
  <2>0. c \in Blocks(H)
    BY <1>4
  <2>1. CASE c = b
    BY <1>1, <1>7, <1>8, <1>9, <1>11, <2>1
  <2>2. CASE c # b /\ c < b
    <3>1. After(H, c) \in Blocks(H) \cup {End(H)} /\ After(H, c) =< b /\ After(H, c) \in Nat
      BY <1>1, <1>10, <2>0, <2>2
    <3>2. After(H, c) \in Blocks(X) \cup {End(X)}
      BY <1>2, <1>4, <1>7, <3>1
    <3>. QED BY <1>1, <1>7, <1>8, <1>9, <2>0, <2>2, <3>2
  <2>3. CASE c # b /\ ~(c < b)
    <3>1. c \in Nat /\ e =< c /\ After(H, c) \in Blocks(H) \cup {End(H)} /\ c < After(H, c)
          /\ After(H, c) \in Nat
      BY <1>1, <1>2, <1>10, <2>0, <2>3
    <3>2. After(H, c) \in Blocks(X) \cup {End(X)}
      BY <1>2, <1>4, <1>7, <3>1
    <3>. QED BY <1>1, <1>7, <1>8, <1>9, <2>0, <2>3, <3>2
  <2>. QED BY <2>1, <2>2, <2>3
<1>13. ASSUME NEW c \in Blocks(X), NEW d \in Blocks(X), c < d
       PROVE  After(X, c) =< d
  <2>1. c \in Nat /\ d \in Nat /\ c \in Blocks(H) /\ d \in Blocks(H)
    BY <1>4, <1>12
  <2>2. CASE c = b
    <3>1. d # b /\ d >= b
      BY <1>13, <2>1, <2>2
    <3>. QED BY <1>9, <1>10, <2>2, <3>1
  <2>3. CASE c # b
    <3>1. After(H, c) =< d
      BY <1>13, <2>1 DEF Shape
    <3>. QED BY <1>9, <2>3, <3>1
  <2>. QED BY <2>2, <2>3
<1>14. ASSUME NEW c \in Blocks(X) \cup {End(X)}
       PROVE  c = FirstBlock \/ \E d \in Blocks(X) : After(X, d) = c
  <2>1. c \in Blocks(H) \cup {End(H)} /\ c \in Nat /\ ~(b < c /\ c < e)
    BY <1>2, <1>4, <1>7, <1>12
  <2>2. c = FirstBlock \/ \E d \in Blocks(H) : After(H, d) = c
    BY <2>1 DEF Shape
  <2>3. CASE \E d \in Blocks(H) : After(H, d) = c
    <3>1. PICK d \in Blocks(H) : After(H, d) = c
      BY <2>3
    <3>2. CASE d \in Blocks(X) \ {b}
      BY <1>9, <3>1, <3>2
    <3>3. CASE ~(d \in Blocks(X) \ {b})
      <4>1. d \in Nat /\ b =< d /\ d < e /\ d < c
        BY <1>1, <1>2, <1>4, <3>1, <3>3
      <4>2. c =< e
        BY <1>6, <3>1, <4>1
      <4>3. c = e
        BY <1>2, <2>1, <4>1, <4>2
      <4>. QED BY <1>7, <1>9, <4>3
    <3>. QED BY <3>2, <3>3
  <2>. QED BY <2>2, <2>3
<1>15. Shape(X)
  <2>1. H.brk \in Nat /\ FirstBlock + 3 =< H.brk /\ H.brk =< mem_max_addr
        /\ FirstBlock \in Blocks(H) \cup {End(H)}
        /\ H.free \subseteq Blocks(H)
    BY DEF Shape
  <2>2. X.words \in [Blocks(X) -> Nat]
    <3>1. X.words = [c \in Blocks(X) |-> X.words[c]]
      BY <1>3, <1>4
    <3>. QED BY <1>12, <3>1
  <2>3. X.free \subseteq Blocks(X) /\ Blocks(X) \subseteq Nat
    BY <1>3, <1>4, <1>12, <2>1
  <2>4. FirstBlock \in Blocks(X) \cup {End(X)}
    <3>1. FirstBlock =< b
      BY <1>1
    <3>. QED BY <1>2, <1>4, <1>7, <2>1, <3>1
  <2>. QED BY <1>3, <1>12, <1>13, <1>14, <2>1, <2>2, <2>3, <2>4 DEF Shape
<1>. QED BY <1>3, <1>4, <1>7, <1>8, <1>9, <1>15 DEF X, e

LEMMA MergedHolds ==
    ASSUME NEW m, NEW H, Holds(m, H), NEW b \in H.free,
           NEW w \in Nat, H.words[b] =< w, b + w \in Blocks(H) \cup {End(H)},
           \A c \in Blocks(H) : OnList(H, c) => ~(b < c /\ c < b + w)
    PROVE  LET x == SetBlock(m, b, 8 * w)
           IN  /\ Holds(x, Merged(H, b, w))
               /\ SamePayloads(m, x, H, {c \in Blocks(H) : b =< c /\ c < b + w})
<1>. DEFINE X == Merged(H, b, w)
            e == b + w
            x == SetBlock(m, b, 8 * w)
<1>0. Shape(H) /\ Chained(H) /\ IsMemory(m) /\ m.brk = H.brk /\ Tagged(m, H) /\ b \in Blocks(H)
  BY DEF Holds, Shape
<1>1. /\ Shape(X) /\ End(X) = End(H) /\ X.brk = H.brk
      /\ Blocks(X) = {c \in Blocks(H) : ~(b < c /\ c < e)} /\ b \in Blocks(X)
      /\ X.words[b] = w /\ After(X, b) = e
      /\ \A c \in Blocks(X) \ {b} : X.words[c] = H.words[c] /\ After(X, c) = After(H, c)
      /\ X.free = {c \in H.free : ~(b < c /\ c < e)} /\ X.len = H.len /\ X.node = H.node
  BY <1>0, MergedShape
<1>. HIDE DEF X
<1>2. /\ b \in Nat /\ e \in Nat /\ b + 4 =< e /\ e =< End(H) /\ End(H) \in Nat /\ FirstBlock \in Nat
      /\ FirstBlock =< b /\ End(H) \in Address /\ FirstBlock - 1 \in Address
      /\ b \in Address /\ e - 1 \in Address
  <2>1. /\ b \in Nat /\ After(H, b) \in Nat /\ b + 4 =< After(H, b) /\ FirstBlock =< b
        /\ After(H, b) =< End(H) /\ H.brk \in Nat /\ End(H) = H.brk - 3 /\ H.brk =< mem_max_addr
    BY <1>0, BlockLies DEF Shape
  <2>2. e \in Nat /\ b + 4 =< e /\ e =< End(H)
    <3>1. After(H, b) = b + H.words[b] /\ H.words[b] \in Nat
      BY <1>0 DEF After, Shape
    <3>2. e \in Nat /\ b + 4 =< e
      BY <2>1, <3>1
    <3>3. CASE e \in Blocks(H)
      BY <1>0, <2>1, <3>3 DEF Shape
    <3>. QED BY <2>1, <3>2, <3>3
  <2>. HIDE DEF e
  <2>. QED BY <2>1, <2>2, Addresses
<1>3. \A c \in Blocks(H) : /\ c \in Nat /\ After(H, c) \in Nat
                           /\ c + 4 =< After(H, c) /\ FirstBlock =< c /\ After(H, c) =< End(H)
                           /\ c \in Address /\ After(H, c) - 1 \in Address
                           /\ \A a \in c + 3 .. After(H, c) - 2 : a \in Address
  BY <1>0, BlockLies, Addresses
<1>4. /\ IsMemory(x) /\ x.brk = m.brk
      /\ \A a \in Address : x.word[a] = IF a = b \/ a = e - 1 THEN 8 * w ELSE m.word[a]
  <2>1. /\ IsMemory(SetBlock(m, b, 8 * w)) /\ SetBlock(m, b, 8 * w).brk = m.brk
        /\ \A a \in Address : SetBlock(m, b, 8 * w).word[a] =
               IF a = b \/ a = b + w - 1 THEN 8 * w ELSE m.word[a]
    <3>1. IsMemory(m) /\ b \in Nat /\ w \in Nat
      BY <1>0, <1>2
    <3>. QED BY ONLY <3>1, SetFreeIs
  <2>2. b + w - 1 = e - 1
    BY <1>2
  <2>. HIDE DEF e
  <2>. QED BY ONLY <2>1, <2>2
<1>. HIDE DEF x, e
<1>5. ASSUME NEW c \in Blocks(X), c # b
      PROVE  /\ x.word[c] = SizeWord(X, c) /\ x.word[After(H, c) - 1] = SizeWord(X, c)
             /\ \A a \in c + 3 .. After(H, c) - 2 : x.word[a] = m.word[a]
  <2>0. c \in Blocks(H) /\ After(X, c) = After(H, c)
    BY <1>1, <1>5
  <2>1. After(H, c) =< b \/ e =< c
    BY <1>1, <1>3, <1>5, <2>0, BlocksApart
  <2>2. \A a \in Int : c =< a /\ a < After(H, c) => a # b /\ a # e - 1
    BY <1>2, <1>3, <2>0, <2>1
  <2>3. SizeWord(X, c) = SizeWord(H, c)
    BY <1>1, <1>5 DEF SizeWord
  <2>4. x.word[c] = m.word[c] /\ x.word[After(H, c) - 1] = m.word[After(H, c) - 1]
    <3>1. c =< After(H, c) - 1 /\ After(H, c) - 1 < After(H, c) /\ c < After(H, c)
          /\ c \in Int /\ After(H, c) - 1 \in Int
      BY <1>3, <2>0
    <3>. QED BY <1>3, <1>4, <2>0, <2>2, <3>1
  <2>5. \A a \in c + 3 .. After(H, c) - 2 : x.word[a] = m.word[a]
    <3>1. \A a \in c + 3 .. After(H, c) - 2 : a \in Int /\ c =< a /\ a < After(H, c) /\ a \in Address
      BY <1>3, <2>0
    <3>. QED BY <1>4, <2>2, <3>1
  <2>. QED BY <1>0, <2>0, <2>3, <2>4, <2>5 DEF Tagged
<1>6. x.word[b] = SizeWord(X, b) /\ x.word[e - 1] = SizeWord(X, b)
  <2>1. SizeWord(X, b) = 8 * w
    BY <1>1, <1>2 DEF SizeWord
  <2>. QED BY <1>2, <1>4, <2>1
<1>7. x.word[End(H)] = BLK_HDR_SIZE + 1 /\ x.word[FirstBlock - 1] = 1
  BY <1>0, <1>2, <1>4 DEF Tagged
<1>8. Tagged(x, X)
  BY <1>1, <1>5, <1>6, <1>7 DEF Tagged
<1>9. Holds(x, X)
  <2>1. \A i \in Lists : \A j \in 1 .. H.len[i] : H.node[i][j] \in Blocks(X)
    <3>. SUFFICES ASSUME NEW i \in Lists, NEW j \in 1 .. H.len[i] PROVE H.node[i][j] \in Blocks(X)
      OBVIOUS
    <3>1. H.node[i][j] \in Blocks(H)
      BY <1>0, ListsOf
    <3>2. OnList(H, H.node[i][j])
      BY <1>0, PlaceOf
    <3>. QED BY <1>1, <3>1, <3>2 DEF e
  <2>2. \A a \in Address : \/ x.word[a] = m.word[a]
                           \/ \E c \in Blocks(X) : a = c \/ a = After(X, c) - 1
    BY <1>1, <1>4
  <2>3. x.brk = X.brk
    BY <1>0, <1>1, <1>4
  <2>. QED BY <1>1, <1>4, <1>8, <2>1, <2>2, <2>3, Retagged
<1>10. SamePayloads(m, x, H, {c \in Blocks(H) : b =< c /\ c < e})
  <2>. SUFFICES ASSUME NEW c \in Blocks(H), ~(b =< c /\ c < e), NEW a \in c + 3 .. After(H, c) - 2
                PROVE  x.word[a] = m.word[a]
    BY DEF SamePayloads
  <2>1. c \in Blocks(X) /\ c # b
    BY <1>1, <1>2
  <2>. QED BY <1>5, <2>1
<1>. QED BY <1>9, <1>10 DEF X, x, e

\* Where a heap can grow: behind its last block, or in it.
IsLast(H, b) == b = End(H) \/ (b \in Blocks(H) /\ After(H, b) = End(H))

LEMMA ExtendedShape ==
    ASSUME NEW H, Shape(H), NEW b, IsLast(H, b), NEW w \in Nat, b = End(H) => 4 =< w,
           H.brk + w =< mem_max_addr
    PROVE  LET X == Extended(H, b, w)
           IN  /\ Shape(X) /\ X.brk = H.brk + w /\ End(X) = End(H) + w
               /\ Blocks(X) = Blocks(H) \cup {b}
               /\ X.words[b] = (IF b = End(H) THEN w ELSE H.words[b] + w)
               /\ After(X, b) = End(X) /\ b \in Nat /\ b + 4 =< End(X)
               /\ \A c \in Blocks(H) \ {b} : /\ X.words[c] = H.words[c] /\ After(X, c) = After(H, c)
                                             /\ After(H, c) =< b
               /\ X.free = H.free /\ X.len = H.len /\ X.node = H.node
<1>. DEFINE X == Extended(H, b, w)
<1>1. \A c \in Blocks(H) : /\ c \in Nat /\ H.words[c] \in Nat /\ 4 =< H.words[c]
                           /\ FirstBlock =< c /\ c < End(H) /\ After(H, c) \in Nat
                           /\ c < After(H, c) /\ After(H, c) = c + H.words[c]
                           /\ After(H, c) \in Blocks(H) \cup {End(H)}
                           /\ After(H, c) =< End(H)
  <2>1. \A c \in Blocks(H) : After(H, c) \in Blocks(H) \cup {End(H)} /\ c < End(H)
    BY DEF Shape
  <2>. QED BY <2>1, BlockLies, Addresses
<1>2. End(H) \in Nat /\ FirstBlock \in Nat /\ FirstBlock =< End(H) /\ H.brk \in Nat /\ H.brk = End(H) + 3
  BY Addresses DEF Shape, End
<1>3. b \in Nat /\ FirstBlock =< b
  BY <1>1, <1>2 DEF IsLast
<1>4. /\ X.brk = H.brk + w /\ X.free = H.free /\ X.len = H.len /\ X.node = H.node
      /\ X.words = [x \in Blocks(H) \cup {b} |->
                       IF x # b THEN H.words[x] ELSE IF b = End(H) THEN w ELSE H.words[b] + w]
  BY DEF Extended
<1>. HIDE DEF X
<1>5. Blocks(X) = Blocks(H) \cup {b} /\ End(X) = End(H) + w
  BY <1>2, <1>4 DEF Blocks, End
<1>6. /\ X.words[b] = (IF b = End(H) THEN w ELSE H.words[b] + w)
      /\ \A c \in Blocks(H) \ {b} : X.words[c] = H.words[c]
  BY <1>4
<1>7. /\ After(X, b) = End(X) /\ X.words[b] \in Nat /\ 4 =< X.words[b]
      /\ \A c \in Blocks(H) \ {b} : After(X, c) = After(H, c)
  <2>1. \A c \in Blocks(H) \ {b} : After(X, c) = After(H, c)
    BY <1>6 DEF After
  <2>2. CASE b = End(H)
    BY <1>2, <1>5, <1>6, <2>1, <2>2 DEF After
  <2>3. CASE b # End(H)
    <3>1. b \in Blocks(H) /\ After(H, b) = End(H)
      BY <2>3 DEF IsLast
    <3>2. X.words[b] = H.words[b] + w /\ H.words[b] \in Nat /\ 4 =< H.words[b] /\ b + H.words[b] = End(H)
      BY <1>1, <1>6, <2>3, <3>1
    <3>. QED BY <1>2, <1>3, <1>5, <2>1, <3>2 DEF After
  <2>. QED BY <2>2, <2>3
<1>8. b < End(X)
  BY <1>3, <1>7 DEF After
<1>9. \A c \in Blocks(H) \ {b} : After(H, c) =< b
  <2>1. CASE b = End(H)
    BY <1>1, <2>1
  <2>2. CASE b # End(H)
    <3>1. b \in Blocks(H) /\ After(H, b) = End(H)
      BY <2>2 DEF IsLast
    <3>. QED BY <1>1, <1>2, <3>1, BlocksApart
  <2>. QED BY <2>1, <2>2
<1>10. \A c \in Blocks(X) : /\ FirstBlock =< c /\ c < End(X) /\ 4 =< X.words[c] /\ X.words[c] \in Nat
                            /\ c \in Nat
                            /\ After(X, c) \in Blocks(X) \cup {End(X)}
  <2>. TAKE c \in Blocks(X)
  <2>1. CASE c = b
    BY <1>3, <1>7, <1>8, <2>1
  <2>2. CASE c # b
    <3>1. c \in Blocks(H) /\ After(X, c) = After(H, c) /\ X.words[c] = H.words[c] /\ After(H, c) =< b
      BY <1>5, <1>6, <1>7, <1>9, <2>2
    <3>2. After(H, c) \in Blocks(H) \cup {b}
      <4>1. After(H, c) \in Blocks(H) \/ After(H, c) = End(H)
        BY <1>1, <3>1
      <4>2. CASE After(H, c) = End(H)
        <5>1. b = End(H)
          BY <1>1, <1>2, <1>3, <3>1, <4>2 DEF IsLast
        <5>. QED BY <4>2, <5>1
      <4>. QED BY <4>1, <4>2
    <3>. QED BY <1>1, <1>2, <1>5, <3>1, <3>2
  <2>. QED BY <2>1, <2>2
<1>11. ASSUME NEW c \in Blocks(X), NEW d \in Blocks(X), c < d
       PROVE  After(X, c) =< d
  <2>1. c \in Nat /\ d \in Nat
    BY <1>10
  <2>2. CASE c = b
    <3>1. d \in Blocks(H) \ {b}
      BY <1>5, <1>11, <2>1, <2>2
    <3>2. After(H, d) =< b /\ d < After(H, d) /\ After(H, d) \in Nat
      BY <1>1, <1>9, <3>1
    <3>. QED BY <1>3, <1>11, <2>1, <2>2, <3>2
  <2>3. CASE c # b /\ d = b
    BY <1>5, <1>7, <1>9, <2>3
  <2>4. CASE c # b /\ d # b
    <3>1. c \in Blocks(H) /\ d \in Blocks(H) /\ After(X, c) = After(H, c)
      BY <1>5, <1>7, <2>4
    <3>. QED BY <1>11, <3>1 DEF Shape
  <2>. QED BY <2>2, <2>3, <2>4
<1>12. ASSUME NEW c \in Blocks(X) \cup {End(X)}
       PROVE  c = FirstBlock \/ \E d \in Blocks(X) : After(X, d) = c
  <2>1. CASE c = End(X)
    BY <1>5, <1>7, <2>1
  <2>2. CASE c # End(X)
    <3>1. c \in Blocks(H) \cup {End(H)}
      BY <1>5, <2>2 DEF IsLast
    <3>2. c = FirstBlock \/ \E d \in Blocks(H) : After(H, d) = c
      BY <3>1 DEF Shape
    <3>3. ASSUME NEW d \in Blocks(H), After(H, d) = c PROVE \E y \in Blocks(X) : After(X, y) = c
      <4>1. CASE d # b
        BY <1>5, <1>7, <3>3, <4>1
      <4>2. CASE d = b
        <5>1. b # End(H) /\ c = End(H)
          BY <1>1, <1>2, <3>3, <4>2 DEF IsLast
        <5>2. c = b
          BY <1>1, <1>2, <1>5, <2>2, <5>1
        <5>. QED BY <5>1, <5>2
      <4>. QED BY <4>1, <4>2
    <3>. QED BY <3>2, <3>3
  <2>. QED BY <2>1, <2>2
<1>13. Shape(X)
  <2>1. FirstBlock \in Blocks(H) \cup {End(H)} /\ H.free \subseteq Blocks(H)
    BY DEF Shape
  <2>2. X.words \in [Blocks(X) -> Nat]
    <3>1. X.words = [c \in Blocks(X) |-> X.words[c]]
      BY <1>4, <1>5
    <3>. QED BY <1>10, <3>1
  <2>3. X.free \subseteq Blocks(X) /\ Blocks(X) \subseteq Nat
    BY <1>4, <1>5, <1>10, <2>1
  <2>4. FirstBlock \in Blocks(X) \cup {End(X)}
    <3>1. CASE FirstBlock \in Blocks(H)
      BY <1>5, <3>1
    <3>2. CASE FirstBlock = End(H)
      <4>1. b = End(H)
        BY <1>1, <1>2, <3>2 DEF IsLast
      <4>. QED BY <1>5, <3>2, <4>1
    <3>. QED BY <2>1, <3>1, <3>2
  <2>5. X.brk \in Nat /\ FirstBlock + 3 =< X.brk /\ X.brk =< mem_max_addr
    BY <1>2, <1>4
  <2>. QED BY <1>10, <1>11, <1>12, <2>2, <2>3, <2>4, <2>5 DEF Shape
<1>14. b + 4 =< End(X)
  BY <1>3, <1>7, <1>8 DEF After
<1>. QED BY <1>3, <1>4, <1>5, <1>6, <1>7, <1>9, <1>13, <1>14 DEF X

LEMMA ExtendedHolds ==
    ASSUME NEW m, NEW H, Holds(m, H), NEW b, IsLast(H, b), b \notin H.free,
           NEW w \in Nat, b = End(H) => 4 =< w, H.brk + w =< mem_max_addr,
           NEW X, X = Extended(H, b, w),
           NEW x, IsMemory(x), x.brk = X.brk,
           x.word[b] = SizeWord(X, b), x.word[End(X) - 1] = SizeWord(X, b),
           x.word[End(X)] = BLK_HDR_SIZE + 1,
           \A a \in Address : x.word[a] = m.word[a] \/ a = b \/ a >= End(H)
    PROVE  Holds(x, X) /\ SamePayloads(m, x, H, {})
<1>0. Shape(H) /\ Chained(H) /\ IsMemory(m) /\ m.brk = H.brk /\ Tagged(m, H)
  BY DEF Holds
<1>1. /\ Shape(X) /\ X.brk = H.brk + w /\ End(X) = End(H) + w
      /\ Blocks(X) = Blocks(H) \cup {b}
      /\ After(X, b) = End(X) /\ b \in Nat
      /\ \A c \in Blocks(H) \ {b} : /\ X.words[c] = H.words[c] /\ After(X, c) = After(H, c)
                                    /\ After(H, c) =< b
      /\ X.free = H.free /\ X.len = H.len /\ X.node = H.node
  BY <1>0, ExtendedShape
<1>2. End(H) \in Nat /\ FirstBlock \in Nat /\ FirstBlock =< End(H) /\ FirstBlock =< b /\ b =< End(H)
  BY <1>0, Addresses, BlockLies DEF Shape, End, IsLast
<1>3. \A c \in Blocks(H) : /\ c \in Nat /\ After(H, c) \in Nat
                           /\ c + 4 =< After(H, c) /\ FirstBlock =< c /\ After(H, c) =< End(H)
                           /\ c \in Address /\ After(H, c) - 1 \in Address
                           /\ \A a \in c + 3 .. After(H, c) - 2 : a \in Address
  BY <1>0, BlockLies, Addresses
<1>4. ASSUME NEW c \in Blocks(H), c # b
      PROVE  x.word[c] = SizeWord(X, c) /\ x.word[After(H, c) - 1] = SizeWord(X, c)
  <2>1. SizeWord(X, c) = SizeWord(H, c)
    BY <1>1, <1>4 DEF SizeWord
  <2>2. After(H, c) =< b
    BY <1>1, <1>4
  <2>3. x.word[c] = m.word[c] /\ x.word[After(H, c) - 1] = m.word[After(H, c) - 1]
    BY <1>1, <1>2, <1>3, <2>2
  <2>. QED BY <1>0, <2>1, <2>3 DEF Tagged
<1>5. x.word[FirstBlock - 1] = 1
  <2>1. FirstBlock - 1 \in Address
    BY <1>0, Addresses DEF Shape, End
  <2>. QED BY <1>0, <1>2, <2>1 DEF Tagged
<1>6. Tagged(x, X)
  BY <1>1, <1>4, <1>5 DEF Tagged
<1>7. Holds(x, X)
  <2>1. \A i \in Lists : \A j \in 1 .. H.len[i] : H.node[i][j] \in Blocks(X)
    BY <1>0, <1>1, ListsOf
  <2>2. \A a \in Address : \/ x.word[a] = m.word[a] \/ a >= End(H)
                           \/ \E c \in Blocks(X) : a = c \/ a = After(X, c) - 1
    BY <1>1
  <2>. QED BY <1>1, <1>6, <2>1, <2>2, Retagged
<1>8. SamePayloads(m, x, H, {})
  <2>. SUFFICES ASSUME NEW c \in Blocks(H), NEW a \in c + 3 .. After(H, c) - 2
                PROVE  x.word[a] = m.word[a]
    BY DEF SamePayloads
  <2>1. a \in Address /\ ~(a >= End(H))
    BY <1>2, <1>3
  <2>2. a # b
    <3>1. CASE c = b
      BY <1>3, <3>1
    <3>2. CASE c # b
      <4>1. After(H, c) =< b
        BY <1>1, <3>2
      <4>. QED BY <1>1, <1>3, <4>1
    <3>. QED BY <3>1, <3>2
  <2>. QED BY <2>1, <2>2
<1>. QED BY <1>7, <1>8

\* The epilogue is written before the three words from it on.
LEMMA SetEpilogueIs ==
    ASSUME NEW m, IsMemory(m), m.brk \in Nat, m.brk - 3 \in Address
    PROVE  LET x == SetEpilogue(m)
           IN  /\ IsMemory(x) /\ x.brk = m.brk
               /\ x.word[m.brk - 3] = BLK_HDR_SIZE + 1
               /\ \A a \in Address : a < m.brk - 3 => x.word[a] = m.word[a]
<1>. DEFINE e == m.brk - 3
            x1 == Write(m, e + 2, e)
            x2 == Write(x1, e + 1, e)
            x == Write(x2, e, BLK_HDR_SIZE + 1)
<1>1. GET_EPILOGUE(m) = e
  BY DEF GET_EPILOGUE, mem_heap_hi
<1>2. SetEpilogue(m) = x
  BY <1>1 DEF SetEpilogue, SetSize, SetNextP, SetPriorP
<1>3. e \in Nat /\ e \in Address /\ BLK_HDR_SIZE + 1 \in Nat
  BY Addresses DEF BLK_HDR_SIZE
<1>. HIDE DEF e
<1>4. IsMemory(x1) /\ x1.brk = m.brk /\ \A a \in Address : x1.word[a] = IF a = e + 2 THEN e ELSE m.word[a]
  <2>. DEFINE f == e + 2
  <2>1. /\ IsMemory(Write(m, f, e)) /\ Write(m, f, e).brk = m.brk
        /\ \A a \in Address : Write(m, f, e).word[a] = IF a = f THEN e ELSE m.word[a]
    <3>. HIDE DEF f
    <3>. QED BY <1>3, WriteIs
  <2>. QED BY <2>1
<1>. HIDE DEF x1
<1>5. IsMemory(x2) /\ x2.brk = m.brk /\ \A a \in Address : x2.word[a] = IF a = e + 1 THEN e ELSE x1.word[a]
  <2>. DEFINE f == e + 1
  <2>1. /\ IsMemory(Write(x1, f, e)) /\ Write(x1, f, e).brk = x1.brk
        /\ \A a \in Address : Write(x1, f, e).word[a] = IF a = f THEN e ELSE x1.word[a]
    <3>. HIDE DEF f
    <3>. QED BY <1>3, <1>4, WriteIs
  <2>. QED BY <1>4, <2>1
<1>. HIDE DEF x2
<1>6. /\ IsMemory(x) /\ x.brk = m.brk
      /\ \A a \in Address : x.word[a] = IF a = e THEN BLK_HDR_SIZE + 1 ELSE x2.word[a]
  BY <1>3, <1>5, WriteIs
<1>. HIDE DEF x
<1>7. \A a \in Address : a < e => x.word[a] = m.word[a]
  <2>. TAKE a \in Address
  <2>1. a \in Int
    BY Addresses
  <2>. QED BY <1>3, <1>4, <1>5, <1>6, <2>1
<1>8. x.word[e] = BLK_HDR_SIZE + 1
  BY <1>3, <1>6
<1>. QED BY <1>2, <1>6, <1>7, <1>8 DEF e

LEMMA GrowHeapHolds ==
    ASSUME NEW m, NEW H, Holds(m, H), NEW w \in Nat, 4 =< w, H.brk + w + 3 =< mem_max_addr
    PROVE  \E x : /\ GrowHeap(m, 8 * w) = Returns(x, End(H) + 3)
                  /\ Holds(x, Extended(H, End(H), w + 3))
                  /\ SamePayloads(m, x, H, {})
<1>. DEFINE e == End(H)
            s == 8 * (w + 3)
            X == Extended(H, e, w + 3)
            freed == SetSize(m, e, BLK_HDR_SIZE)
            grown == mem_sbrk(freed, w + 3)
            block == SetBlock(grown, e, s + 1)
            x == SetEpilogue(block)
<1>0. Shape(H) /\ IsMemory(m) /\ m.brk = H.brk
  BY DEF Holds
<1>1. IsLast(H, e) /\ e \notin H.free /\ w + 3 \in Nat /\ e \notin Blocks(H)
  <2>1. e \notin Blocks(H)
    BY <1>0, BlockLies
  <2>. QED BY <1>0, <2>1 DEF IsLast, Shape
<1>2. /\ Shape(X) /\ X.brk = H.brk + (w + 3) /\ End(X) = e + (w + 3)
      /\ X.words[e] = w + 3 /\ X.free = H.free
  <2>. DEFINE v == w + 3
  <2>1. v \in Nat /\ 4 =< v /\ H.brk + v =< mem_max_addr
    BY <1>0, Addresses DEF Shape
  <2>. HIDE DEF v
  <2>2. /\ Shape(Extended(H, e, v)) /\ Extended(H, e, v).brk = H.brk + v
        /\ End(Extended(H, e, v)) = End(H) + v
        /\ Extended(H, e, v).words[e] = (IF e = End(H) THEN v ELSE H.words[e] + v)
        /\ Extended(H, e, v).free = H.free
    BY <1>0, <1>1, <2>1, ExtendedShape
  <2>. QED BY <2>2 DEF v
<1>. HIDE DEF X
<1>3. /\ e \in Nat /\ H.brk = e + 3 /\ H.brk \in Nat /\ e \in Address /\ End(X) \in Address
      /\ e + (w + 3) \in Address /\ e + (w + 3) - 1 \in Address
  BY <1>0, <1>2, Addresses DEF Shape, End
<1>4. /\ IsMemory(freed) /\ freed.brk = m.brk
      /\ \A a \in Address : freed.word[a] = IF a = e THEN BLK_HDR_SIZE ELSE m.word[a]
  <2>1. BLK_HDR_SIZE \in Nat
    BY DEF BLK_HDR_SIZE
  <2>. QED BY <1>0, <2>1, WriteIs DEF SetSize
<1>5. IsMemory(grown) /\ grown.brk = m.brk + (w + 3) /\ grown.word = freed.word
  BY <1>4 DEF mem_sbrk, IsMemory
<1>. HIDE DEF grown, freed, e
<1>6. /\ IsMemory(block) /\ block.brk = grown.brk
      /\ \A a \in Address : block.word[a] = IF a = e \/ a = e + (w + 3) - 1 THEN s + 1 ELSE grown.word[a]
  <2>. DEFINE v == w + 3
              t == 8 * v + 1
  <2>1. v \in Nat /\ t \in {8 * v, 8 * v + 1} /\ t = s + 1
    OBVIOUS
  <2>. HIDE DEF t, v
  <2>2. LET y == SetBlock(grown, e, t)
        IN  /\ IsMemory(y) /\ y.brk = grown.brk
            /\ \A a \in Address : y.word[a] = IF a = e \/ a = e + v - 1 THEN t ELSE grown.word[a]
    <3>1. IsMemory(grown) /\ e \in Nat
      BY <1>3, <1>5
    <3>. HIDE DEF s
    <3>. QED BY <2>1, <3>1, SetBlockIs
  <2>. QED BY <2>1, <2>2 DEF v
<1>. HIDE DEF block, s
<1>7. /\ block.brk \in Nat /\ block.brk - 3 \in Address /\ block.brk - 3 = e + (w + 3)
  BY <1>0, <1>3, <1>5, <1>6
<1>8. /\ IsMemory(x) /\ x.brk = block.brk
      /\ x.word[e + (w + 3)] = BLK_HDR_SIZE + 1
      /\ \A a \in Address : a < e + (w + 3) => x.word[a] = block.word[a]
  BY <1>6, <1>7, SetEpilogueIs
<1>. HIDE DEF x
<1>9. SizeWord(X, e) = s + 1
  <2>1. e \notin X.free
    BY <1>1, <1>2
  <2>. QED BY <1>2, <2>1 DEF SizeWord, s
<1>10. x.word[e] = SizeWord(X, e) /\ x.word[End(X) - 1] = SizeWord(X, e)
  BY <1>2, <1>3, <1>6, <1>8, <1>9
<1>11. \A a \in Address : x.word[a] = m.word[a] \/ a = e \/ a >= e
  <2>. TAKE a \in Address
  <2>1. a \in Int
    BY Addresses
  <2>. QED BY <1>3, <1>4, <1>5, <1>6, <1>8, <2>1
<1>12. Holds(x, X) /\ SamePayloads(m, x, H, {})
  <2>1. H.brk + (w + 3) =< mem_max_addr
    BY <1>3, Addresses
  <2>2. x.brk = X.brk
    BY <1>0, <1>2, <1>5, <1>6, <1>8
  <2>3. X = Extended(H, e, w + 3)
    BY DEF X
  <2>4. x.word[End(X)] = BLK_HDR_SIZE + 1
    BY <1>2, <1>8
  <2>5. 4 =< w + 3
    OBVIOUS
  <2>6. \A a \in Address : x.word[a] = m.word[a] \/ a = e \/ a >= End(H)
    BY <1>11 DEF e
  <2>. QED BY <1>1, <1>8, <1>10, <2>1, <2>2, <2>3, <2>4, <2>5, <2>6, ExtendedHolds
<1>13. GrowHeap(m, 8 * w) = Returns(x, e + 3)
  <2>1. GET_EPILOGUE(m) = e
    BY <1>0, <1>3 DEF GET_EPILOGUE, mem_heap_hi
  <2>2. Words(8 * w + BLK_HDR_SIZE) = w + 3 /\ BLK_HDR_SIZE + 8 * w + 1 = s + 1
    BY SizeWords DEF BLK_HDR_SIZE, Words, s
  <2>3. CanGrow(m, w + 3)
    BY <1>0, <1>3, Addresses DEF CanGrow
  <2>. QED BY <2>1, <2>2, <2>3 DEF GrowHeap, x, block, grown, freed
<1>. QED BY <1>12, <1>13 DEF e, X

\* realloc of the last block when the heap can grow by what is missing.
LEMMA ExtendLastHolds ==
    ASSUME NEW m, NEW H, Holds(m, H), NEW b \in Blocks(H), After(H, b) = End(H), b \notin H.free,
           NEW w \in Nat, H.words[b] < w, H.brk + w - H.words[b] =< mem_max_addr
    PROVE  \E x : /\ ExtendLast(m, b, 8 * w, 8 * w - 8 * H.words[b]) = Returns(x, b + 3)
                  /\ Holds(x, Extended(H, b, w - H.words[b]))
                  /\ SamePayloads(m, x, H, {})
<1>. DEFINE e == End(H)
            d == w - H.words[b]
            s == 8 * w
            X == Extended(H, b, d)
            freed == SetSize(m, e, BLK_HDR_SIZE)
            grown == mem_sbrk(freed, d)
            block == SetBlock(grown, b, s + 1)
            x == SetEpilogue(block)
<1>0. Shape(H) /\ IsMemory(m) /\ m.brk = H.brk
  BY DEF Holds
<1>1. /\ b \in Nat /\ H.words[b] \in Nat /\ b + H.words[b] = e /\ d \in Nat /\ b + 4 =< e
      /\ IsLast(H, b) /\ b # End(H) /\ e \in Nat
      /\ b + w = e + d /\ H.brk \in Nat /\ H.brk + d =< mem_max_addr /\ H.brk = e + 3
  BY <1>0, BlockLies DEF IsLast
<1>2. /\ Shape(X) /\ X.brk = H.brk + d /\ End(X) = e + d
      /\ X.words[b] = w /\ X.free = H.free
  <2>1. /\ Shape(X) /\ X.brk = H.brk + d /\ End(X) = e + d
        /\ X.words[b] = (IF b = End(H) THEN d ELSE H.words[b] + d) /\ X.free = H.free
    <3>. HIDE DEF d
    <3>. QED BY <1>0, <1>1, ExtendedShape
  <2>. QED BY <1>1, <2>1
<1>. HIDE DEF X
<1>3. /\ e \in Address /\ e + d \in Address /\ e + d - 1 \in Address /\ b \in Address
  BY <1>0, <1>1, Addresses, BlockLies
<1>4. /\ IsMemory(freed) /\ freed.brk = m.brk
      /\ \A a \in Address : freed.word[a] = IF a = e THEN BLK_HDR_SIZE ELSE m.word[a]
  <2>1. BLK_HDR_SIZE \in Nat
    BY DEF BLK_HDR_SIZE
  <2>. QED BY <1>0, <2>1, WriteIs DEF SetSize
<1>5. IsMemory(grown) /\ grown.brk = m.brk + d /\ grown.word = freed.word
  BY <1>4 DEF mem_sbrk, IsMemory
<1>. HIDE DEF grown, freed, e, d
<1>6. /\ IsMemory(block) /\ block.brk = grown.brk
      /\ \A a \in Address : block.word[a] = IF a = b \/ a = b + w - 1 THEN s + 1 ELSE grown.word[a]
  <2>. DEFINE t == s + 1
  <2>1. t = 8 * w + 1
    OBVIOUS
  <2>. HIDE DEF s, t
  <2>2. LET y == SetBlock(grown, b, t)
        IN  /\ IsMemory(y) /\ y.brk = grown.brk
            /\ \A a \in Address : y.word[a] = IF a = b \/ a = b + w - 1 THEN t ELSE grown.word[a]
    <3>1. IsMemory(grown) /\ b \in Nat
      BY <1>1, <1>5
    <3>. QED BY <2>1, <3>1, SetTakenIs
  <2>. QED BY <2>2 DEF t
<1>. HIDE DEF block, s
<1>7. /\ block.brk \in Nat /\ block.brk - 3 \in Address /\ block.brk - 3 = e + d
  BY <1>0, <1>1, <1>3, <1>5, <1>6
<1>8. /\ IsMemory(x) /\ x.brk = block.brk
      /\ x.word[e + d] = BLK_HDR_SIZE + 1
      /\ \A a \in Address : a < e + d => x.word[a] = block.word[a]
  BY <1>6, <1>7, SetEpilogueIs
<1>. HIDE DEF x
<1>9. SizeWord(X, b) = s + 1
  <2>1. b \notin X.free
    BY <1>1, <1>2
  <2>. QED BY <1>2, <2>1 DEF SizeWord, s
<1>10. x.word[b] = SizeWord(X, b) /\ x.word[End(X) - 1] = SizeWord(X, b)
  BY <1>1, <1>2, <1>3, <1>6, <1>8, <1>9
<1>11. \A a \in Address : x.word[a] = m.word[a] \/ a = b \/ a >= e
  <2>. TAKE a \in Address
  <2>1. a \in Int
    BY Addresses
  <2>. QED BY <1>1, <1>3, <1>4, <1>5, <1>6, <1>8, <2>1
<1>12. Holds(x, X) /\ SamePayloads(m, x, H, {})
  <2>2. x.brk = X.brk
    BY <1>0, <1>2, <1>5, <1>6, <1>8
  <2>3. X = Extended(H, b, d)
    BY DEF X
  <2>4. x.word[End(X)] = BLK_HDR_SIZE + 1
    BY <1>2, <1>8
  <2>6. \A a \in Address : x.word[a] = m.word[a] \/ a = b \/ a >= End(H)
    BY <1>11 DEF e
  <2>. QED BY <1>1, <1>8, <1>10, <2>2, <2>3, <2>4, <2>6, ExtendedHolds
<1>13. ExtendLast(m, b, 8 * w, 8 * w - 8 * H.words[b]) = Returns(x, b + 3)
  <2>1. GET_EPILOGUE(m) = e
    BY <1>0, <1>1 DEF GET_EPILOGUE, mem_heap_hi
  <2>2. Words(8 * w - 8 * H.words[b]) = d /\ Words(8 * w) = w
    <3>1. 8 * w - 8 * H.words[b] = 8 * d
      BY <1>1 DEF d
    <3>. QED BY <1>1, <3>1, SizeWords
  <2>3. CanGrow(m, d)
    BY <1>0, <1>1 DEF CanGrow
  <2>4. b + w - 1 \in Address
    BY <1>1, <1>3
  <2>5. SetEpilogue(SetBlock(mem_sbrk(SetSize(m, e, BLK_HDR_SIZE), d), b, 8 * w + 1)) = x
    BY DEF x, block, grown, freed, s
  <2>. QED BY <2>1, <2>2, <2>3, <2>4, <2>5 DEF ExtendLast, Returns
<1>. QED BY <1>12, <1>13 DEF d, X

-----------------------------------------------------------------------------
(* A new heap.                                                             *)

LEMMA EmptyHeapIs ==
    ASSUME MAX_HEAP >= 16
    PROVE  /\ Shape(EmptyHeap) /\ Chained(EmptyHeap) /\ Tidy(EmptyHeap)
           /\ Blocks(EmptyHeap) = {} /\ EmptyHeap.free = {}
           /\ EmptyHeap.brk = FirstBlock + 3 /\ End(EmptyHeap) = FirstBlock
           /\ \A i \in Lists : /\ EmptyHeap.len[i] = 0
                               /\ EmptyHeap.node[i][0] = ListHead(i) /\ EmptyHeap.node[i][1] = ListHead(i)
<1>. DEFINE E == EmptyHeap
<1>1. /\ E.brk = FirstBlock + 3 /\ E.words = [b \in {} |-> 0] /\ E.free = {}
      /\ E.len = [i \in Lists |-> 0]
      /\ E.node = [i \in Lists |-> [k \in 0 .. 1 |-> ListHead(i)]]
  BY DEF EmptyHeap
<1>2. Blocks(E) = {}
  BY <1>1 DEF Blocks
<1>3. FirstBlock \in Nat /\ End(E) = FirstBlock /\ FirstBlock + 3 =< mem_max_addr
  BY <1>1, Addresses, MemLibAssumption DEF End, mem_max_addr
<1>4. Shape(E)
  <2>1. E.words \in [Blocks(E) -> Nat]
    BY <1>1, <1>2
  <2>. QED BY <1>1, <1>2, <1>3, <2>1 DEF Shape
<1>5. \A i \in Lists : E.len[i] = 0 /\ E.node[i][0] = ListHead(i) /\ E.node[i][1] = ListHead(i)
  BY <1>1
<1>6. Chained(E)
  <2>1. E.len \in [Lists -> Nat] /\ DOMAIN E.node = Lists
    BY <1>1
  <2>2. \A i \in Lists : E.len[i] + 1 = 1 /\ 1 .. E.len[i] = {}
    BY <1>5
  <2>. QED BY <1>5, <2>1, <2>2 DEF Chained
<1>7. Tidy(E)
  BY <1>1, <1>2 DEF Tidy
<1>. QED BY <1>1, <1>2, <1>3, <1>4, <1>5, <1>6, <1>7

\* The list i without blocks.
Emptied(i, x) ==
    SetSize(SetPriorP(SetNextP(x, ListHead(i), ListHead(i)), ListHead(i), ListHead(i)),
            ListHead(i), 1)

LEMMA EmptiedIs ==
    ASSUME NEW m, IsMemory(m), NEW i \in Lists
    PROVE  /\ IsMemory(Emptied(i, m)) /\ Emptied(i, m).brk = m.brk
           /\ ListHead(i) + 1 \in Address => Emptied(i, m).word[ListHead(i) + 1] = ListHead(i)
           /\ ListHead(i) + 2 \in Address => Emptied(i, m).word[ListHead(i) + 2] = ListHead(i)
           /\ \A a \in Address : a \notin ListHead(i) .. ListHead(i) + 2 =>
                  Emptied(i, m).word[a] = m.word[a]
<1>. DEFINE h == ListHead(i)
            x1 == Write(m, h + 1, h)
            x2 == Write(x1, h + 2, h)
            x == Write(x2, h, 1)
<1>1. Emptied(i, m) = x
  BY DEF Emptied, SetSize, SetPriorP, SetNextP
<1>2. h \in Nat
  BY Addresses
<1>. HIDE DEF h
<1>3. IsMemory(x1) /\ x1.brk = m.brk /\ \A a \in Address : x1.word[a] = IF a = h + 1 THEN h ELSE m.word[a]
  BY <1>2, WriteIs
<1>. HIDE DEF x1
<1>4. IsMemory(x2) /\ x2.brk = m.brk /\ \A a \in Address : x2.word[a] = IF a = h + 2 THEN h ELSE x1.word[a]
  BY <1>2, <1>3, WriteIs
<1>. HIDE DEF x2
<1>5. IsMemory(x) /\ x.brk = m.brk /\ \A a \in Address : x.word[a] = IF a = h THEN 1 ELSE x2.word[a]
  BY <1>2, <1>4, WriteIs
<1>. HIDE DEF x
<1>6. \A a \in Address : a \notin h .. h + 2 => x.word[a] = m.word[a]
  <2>. TAKE a \in Address
  <2>1. a \in Int
    BY Addresses
  <2>. QED BY <1>2, <1>3, <1>4, <1>5, <2>1
<1>7. /\ h + 1 \in Address => x.word[h + 1] = h
      /\ h + 2 \in Address => x.word[h + 2] = h
  BY <1>2, <1>3, <1>4, <1>5
<1>. QED BY <1>1, <1>5, <1>6, <1>7 DEF h

LEMMA InitHolds ==
    ASSUME NEW m, IsMemory(m), m.brk = mem_start_brk, MAX_HEAP >= 16
    PROVE  Holds(mm_init(m), EmptyHeap)
<1>. DEFINE m0 == mem_sbrk(m, 13)
            m1 == Emptied(1, m0)
            m2 == Emptied(2, m1)
            m3 == Emptied(3, m2)
            m4 == Emptied(4, m3)
            m5 == SetSize(m4, FirstBlock - 1, 1)
            m6 == mem_sbrk(m5, 3)
            x == SetSize(m6, FirstBlock, BLK_HDR_SIZE + 1)
<1>1. mm_init(m) = x
  BY DEF mm_init, Emptied
<1>2. IsMemory(m0) /\ m0.brk = mem_start_brk + 13
  BY DEF mem_sbrk, IsMemory
<1>3. /\ 1 \in Lists /\ 2 \in Lists /\ 3 \in Lists /\ 4 \in Lists
      /\ \A i \in Lists : i = 1 \/ i = 2 \/ i = 3 \/ i = 4
  BY DEF Lists, NUM_OF_FREE_LISTS
<1>4. /\ mem_start_brk \in Nat /\ FirstBlock = mem_start_brk + 13
      /\ ListHead(1) = mem_start_brk /\ ListHead(2) = mem_start_brk + 3
      /\ ListHead(3) = mem_start_brk + 6 /\ ListHead(4) = mem_start_brk + 9
      /\ \A a : mem_start_brk =< a /\ a =< FirstBlock /\ a \in Int => a \in Address
      /\ \A i \in Lists : ListHead(i) + 1 \in Address /\ ListHead(i) + 2 \in Address
  <2>1. mem_max_addr = mem_start_brk + MAX_HEAP /\ MAX_HEAP \in Nat
    BY MemLibAssumption DEF mem_max_addr
  <2>2. /\ ListHead(1) = mem_start_brk /\ ListHead(2) = mem_start_brk + 3
        /\ ListHead(3) = mem_start_brk + 6 /\ ListHead(4) = mem_start_brk + 9
    BY Addresses DEF ListHead, mem_heap_lo
  <2>. QED BY <2>1, <2>2, Addresses
<1>. HIDE DEF m0
<1>. DEFINE HasEmptied(y, z, i) ==
                /\ IsMemory(y) /\ y.brk = z.brk
                /\ y.word[ListHead(i) + 1] = ListHead(i) /\ y.word[ListHead(i) + 2] = ListHead(i)
                /\ \A a \in Address : a \notin ListHead(i) .. ListHead(i) + 2 => y.word[a] = z.word[a]
<1>5. ASSUME NEW z, IsMemory(z), NEW i \in Lists PROVE HasEmptied(Emptied(i, z), z, i)
  <2>1. ListHead(i) + 1 \in Address /\ ListHead(i) + 2 \in Address
    BY <1>4
  <2>. QED BY <1>5, <2>1, EmptiedIs
<1>6. HasEmptied(m1, m0, 1)
  BY <1>2, <1>3, <1>5
<1>. HIDE DEF HasEmptied
<1>7. /\ IsMemory(m1) /\ m1.brk = m0.brk
      /\ m1.word[ListHead(1) + 1] = ListHead(1) /\ m1.word[ListHead(1) + 2] = ListHead(1)
  BY <1>6 DEF HasEmptied
<1>. HIDE DEF m1
<1>8. /\ IsMemory(m2) /\ m2.brk = m0.brk
      /\ m2.word[ListHead(2) + 1] = ListHead(2) /\ m2.word[ListHead(2) + 2] = ListHead(2)
      /\ \A a \in Address : a \notin ListHead(2) .. ListHead(2) + 2 => m2.word[a] = m1.word[a]
  <2>1. HasEmptied(m2, m1, 2)
    BY <1>3, <1>7, <1>5
  <2>. QED BY <1>7, <2>1 DEF HasEmptied
<1>. HIDE DEF m2
<1>9. /\ IsMemory(m3) /\ m3.brk = m0.brk
      /\ m3.word[ListHead(3) + 1] = ListHead(3) /\ m3.word[ListHead(3) + 2] = ListHead(3)
      /\ \A a \in Address : a \notin ListHead(3) .. ListHead(3) + 2 => m3.word[a] = m2.word[a]
  <2>1. HasEmptied(m3, m2, 3)
    BY <1>3, <1>8, <1>5
  <2>. QED BY <1>8, <2>1 DEF HasEmptied
<1>. HIDE DEF m3
<1>10. /\ IsMemory(m4) /\ m4.brk = m0.brk
      /\ m4.word[ListHead(4) + 1] = ListHead(4) /\ m4.word[ListHead(4) + 2] = ListHead(4)
      /\ \A a \in Address : a \notin ListHead(4) .. ListHead(4) + 2 => m4.word[a] = m3.word[a]
  <2>1. HasEmptied(m4, m3, 4)
    BY <1>3, <1>9, <1>5
  <2>. QED BY <1>9, <2>1 DEF HasEmptied
<1>. HIDE DEF m4
<1>11. /\ IsMemory(m5) /\ m5.brk = m0.brk
      /\ \A a \in Address : m5.word[a] = IF a = FirstBlock - 1 THEN 1 ELSE m4.word[a]
  BY <1>10, WriteIs DEF SetSize
<1>. HIDE DEF m5
<1>12. IsMemory(m6) /\ m6.brk = m0.brk + 3 /\ m6.word = m5.word
  BY <1>11 DEF mem_sbrk, IsMemory
<1>. HIDE DEF m6
<1>13. /\ IsMemory(x) /\ x.brk = m6.brk
       /\ \A a \in Address : x.word[a] = IF a = FirstBlock THEN BLK_HDR_SIZE + 1 ELSE m6.word[a]
  <2>1. BLK_HDR_SIZE + 1 \in Nat
    BY DEF BLK_HDR_SIZE
  <2>. QED BY <1>12, <2>1, WriteIs DEF SetSize
<1>. HIDE DEF x
<1>14. \A a : a \in Int /\ mem_start_brk =< a /\ a < FirstBlock - 1 =>
           a \in Address /\ x.word[a] = m4.word[a]
  BY <1>4, <1>11, <1>12, <1>13
<1>15. /\ x.word[mem_start_brk + 1] = mem_start_brk /\ x.word[mem_start_brk + 2] = mem_start_brk
       /\ x.word[mem_start_brk + 4] = mem_start_brk + 3 /\ x.word[mem_start_brk + 5] = mem_start_brk + 3
       /\ x.word[mem_start_brk + 7] = mem_start_brk + 6 /\ x.word[mem_start_brk + 8] = mem_start_brk + 6
       /\ x.word[mem_start_brk + 10] = mem_start_brk + 9 /\ x.word[mem_start_brk + 11] = mem_start_brk + 9
  BY <1>4, <1>7, <1>8, <1>9, <1>10, <1>14
<1>16. \A i \in Lists : x.word[ListHead(i) + 1] = ListHead(i) /\ x.word[ListHead(i) + 2] = ListHead(i)
  BY <1>3, <1>4, <1>15
<1>17. x.word[FirstBlock] = BLK_HDR_SIZE + 1 /\ x.word[FirstBlock - 1] = 1
  <2>1. FirstBlock \in Address /\ FirstBlock - 1 \in Address /\ FirstBlock - 1 # FirstBlock
    BY <1>4
  <2>. QED BY <1>11, <1>12, <1>13, <2>1
<1>18. x.brk = EmptyHeap.brk
  BY <1>2, <1>4, <1>11, <1>12, <1>13, <1>10, EmptyHeapIs
<1>19. Tagged(x, EmptyHeap)
  BY <1>17, EmptyHeapIs DEF Tagged
<1>20. Linked(x, EmptyHeap)
  <2>1. \A i \in Lists : 0 .. EmptyHeap.len[i] = {0} /\ 0 + 1 = 1
    BY EmptyHeapIs
  <2>. QED BY <1>16, <2>1, EmptyHeapIs DEF Linked
<1>. QED BY <1>1, <1>13, <1>18, <1>19, <1>20, EmptyHeapIs DEF Holds

-----------------------------------------------------------------------------
(* Walks through the heap.                                                 *)

LEMMA LeastOf ==
    ASSUME NEW S \in SUBSET Nat, S # {}
    PROVE  /\ \E x \in S : \A y \in S : x =< y
           /\ Min(S) \in S /\ \A y \in S : Min(S) =< y
<1>. DEFINE Less == OpToRel(<, Nat)
<1>1. IsWellFoundedOn(Less, Nat)
  BY NatLessThanWellFounded
<1>2. \A x, y \in Nat : y < x => <<y, x>> \in Less
  <2>. SUFFICES ASSUME NEW x \in Nat, NEW y \in Nat, y < x
                PROVE  <<y, x>> \in {ss \in Nat \X Nat : ss[1] < ss[2]}
    BY DEF OpToRel
  <2>1. <<y, x>> \in Nat \X Nat /\ <<y, x>>[1] < <<y, x>>[2]
    OBVIOUS
  <2>. QED BY <2>1
<1>. HIDE DEF Less
<1>3. PICK x \in S : \A y \in S : ~ (<<y, x>> \in Less)
  BY <1>1, WFMin
<1>4. ASSUME NEW y \in S PROVE x =< y
  <2>1. x \in Nat /\ y \in Nat
    OBVIOUS
  <2>2. ~ (y < x)
    BY <1>2, <1>3, <2>1
  <2>. QED BY <2>1, <2>2
<1>. QED BY <1>4 DEF Min

\* f follows next_p from s, k times.
IsWalk(m, s, f, k) == f = [n \in 0 .. k |-> IF n = 0 THEN s ELSE NextP(m, f[n - 1])]

LEMMA WalkExists ==
    ASSUME NEW m, NEW s, NEW K \in Nat
    PROVE  \E f : IsWalk(m, s, f, K)
<1>. DEFINE Walks(f, k) == f = [n \in 0 .. k |-> IF n = 0 THEN s ELSE NextP(m, f[n - 1])]
            S == {k \in 0 .. K : ~ \E f : Walks(f, k)}
<1>0. \A f, k : IsWalk(m, s, f, k) <=> Walks(f, k)
  BY DEF IsWalk
<1>1. SUFFICES ASSUME S # {} PROVE FALSE
  <2>1. S = {} => K \notin S
    OBVIOUS
  <2>2. K \in 0 .. K
    OBVIOUS
  <2>3. K \notin S => \E f : Walks(f, K)
    BY <2>2
  <2>. HIDE DEF S, Walks
  <2>. QED BY <1>0, <2>1, <2>3
<1>2. PICK k \in S : \A l \in S : k =< l
  <2>1. S \in SUBSET Nat
    OBVIOUS
  <2>. HIDE DEF S
  <2>. QED BY <1>1, <2>1, LeastOf
<1>3. CASE k = 0
  <2>. DEFINE f == [n \in 0 .. 0 |-> s]
  <2>1. Walks(f, 0)
    OBVIOUS
  <2>. QED BY <1>2, <1>3, <2>1
<1>4. CASE k # 0
  <2>1. k \in Nat /\ k - 1 \in 0 .. K /\ ~(k =< k - 1)
    BY <1>4
  <2>2. PICK f : Walks(f, k - 1)
    BY <1>2, <2>1
  <2>. DEFINE g == [n \in 0 .. k |-> IF n = k THEN NextP(m, f[k - 1]) ELSE f[n]]
              h == [n \in 0 .. k |-> IF n = 0 THEN s ELSE NextP(m, g[n - 1])]
  <2>3. \A n \in 0 .. k : g[n] = h[n]
    <3>. TAKE n \in 0 .. k
    <3>1. CASE n = k
      <4>1. k - 1 \in 0 .. k /\ k - 1 # k
        BY <2>1
      <4>2. g[k - 1] = f[k - 1]
        BY <4>1
      <4>. QED BY <1>4, <3>1, <4>2
    <3>2. CASE n # k /\ n = 0
      <4>1. 0 \in 0 .. k - 1
        BY <2>1
      <4>2. f[0] = s
        BY <2>2, <4>1
      <4>. QED BY <3>2, <4>2
    <3>3. CASE n # k /\ n # 0
      <4>1. n \in 0 .. k - 1 /\ n - 1 \in 0 .. k /\ n - 1 # k
        BY <2>1, <3>3
      <4>2. f[n] = NextP(m, f[n - 1])
        BY <2>2, <3>3, <4>1
      <4>3. g[n - 1] = f[n - 1]
        BY <4>1
      <4>. QED BY <3>3, <4>2, <4>3
    <3>. QED BY <3>1, <3>2, <3>3
  <2>4. g = h
    BY <2>3
  <2>5. Walks(g, k)
    BY <2>4
  <2>. QED BY <1>2, <2>5
<1>. QED BY <1>3, <1>4

\* No list is longer than the heap.
LEMMA ListsAreShort ==
    ASSUME NEW H, Shape(H), Chained(H), NEW i \in Lists
    PROVE  H.len[i] \in 0 .. MAX_HEAP
<1>. DEFINE S == 1 .. H.len[i]
            f == [j \in S |-> H.node[i][j]]
<1>1. H.len[i] \in Nat /\ \A j \in S : H.node[i][j] \in Blocks(H)
  BY ListsOf
<1>2. Blocks(H) \subseteq Address
  BY BlockLies
<1>3. \A j, l \in S : f[j] = f[l] => j = l
  BY ListsOf
<1>4. f \in Injection(S, Address)
  BY <1>1, <1>2, <1>3 DEF Injection, IsInjective
<1>5. IsFiniteSet(Address) /\ Cardinality(Address) = MAX_HEAP
  <2>1. mem_max_addr - 1 \in Int /\ mem_start_brk \in Int /\ mem_max_addr = mem_start_brk + MAX_HEAP /\ MAX_HEAP \in Nat
    BY MemLibAssumption DEF mem_max_addr
  <2>. QED BY <2>1, FS_Interval DEF Address
<1>6. Cardinality(S) =< Cardinality(Address)
  BY <1>4, <1>5, FS_Injection
<1>7. Cardinality(S) = H.len[i]
  BY <1>1, FS_Interval
<1>. QED BY <1>1, <1>5, <1>6, <1>7

\* Following next_p from the head of a list gives its nodes.
LEMMA FreeListIs ==
    ASSUME NEW m, NEW H, Holds(m, H), NEW i \in Lists
    PROVE  FreeList(m, i) = [j \in 1 .. H.len[i] |-> H.node[i][j]]
<1>. DEFINE L == H.len[i]
            at[n \in 0 .. MAX_HEAP + 1] == IF n = 0 THEN ListHead(i) ELSE NextP(m, at[n - 1])
            length == CHOOSE n \in 0 .. MAX_HEAP : /\ at[n + 1] = ListHead(i)
                                                   /\ \A k \in 1 .. n : at[k] # ListHead(i)
<1>0. Shape(H) /\ Chained(H) /\ IsMemory(m) /\ Linked(m, H)
  BY DEF Holds
<1>1. FreeList(m, i) = [n \in 1 .. length |-> at[n]]
  BY DEF FreeList
<1>2. at = [n \in 0 .. MAX_HEAP + 1 |-> IF n = 0 THEN ListHead(i) ELSE NextP(m, at[n - 1])]
  <2>1. MAX_HEAP + 1 \in Nat
    BY MemLibAssumption
  <2>2. PICK f : f = [n \in 0 .. MAX_HEAP + 1 |-> IF n = 0 THEN ListHead(i) ELSE NextP(m, f[n - 1])]
    <3>1. \E f : IsWalk(m, ListHead(i), f, MAX_HEAP + 1)
      BY <2>1, WalkExists
    <3>. QED BY <3>1 DEF IsWalk
  <2>. QED BY <2>2
<1>. HIDE DEF at
<1>3. L \in Nat /\ L =< MAX_HEAP /\ MAX_HEAP \in Nat
  BY <1>0, ListsAreShort, MemLibAssumption
<1>4. \A n \in 0 .. L : NextP(m, H.node[i][n]) = H.node[i][n + 1]
  <2>. TAKE n \in 0 .. L
  <2>1. n \in 0 .. H.len[i] + 1
    BY <1>3
  <2>2. H.node[i][n] + 1 \in Address /\ m.word[H.node[i][n] + 1] = H.node[i][n + 1]
    BY <1>0, <2>1, NodeIs DEF Linked
  <2>. QED BY <1>0, <2>2, ReadIs DEF NextP
<1>5. \A n \in 0 .. L + 1 : at[n] = H.node[i][n]
  <2>. DEFINE S == {n \in 0 .. L + 1 : at[n] # H.node[i][n]}
  <2>1. SUFFICES ASSUME S # {} PROVE FALSE
    OBVIOUS
  <2>2. PICK n \in S : \A k \in S : n =< k
    <3>1. S \in SUBSET Nat
      BY <1>3
    <3>. HIDE DEF S
    <3>. QED BY <2>1, <3>1, LeastOf
  <2>3. n \in Nat /\ n =< L + 1
        /\ n \in 0 .. MAX_HEAP + 1
    BY <1>3
  <2>4. CASE n = 0
    BY <1>0, <1>2, <2>2, <2>3, <2>4, ListsOf
  <2>5. CASE n # 0
    <3>1. n - 1 \in 0 .. L /\ n - 1 \in 0 .. L + 1 /\ ~(n =< n - 1) /\ (n - 1) + 1 = n
      BY <1>3, <2>3, <2>5
    <3>2. at[n - 1] = H.node[i][n - 1]
      BY <2>2, <3>1
    <3>3. at[n] = NextP(m, at[n - 1])
      BY <1>2, <2>3, <2>5
    <3>. QED BY <1>4, <2>2, <3>1, <3>2, <3>3
  <2>. QED BY <2>4, <2>5
<1>6. /\ at[L + 1] = ListHead(i)
      /\ \A k \in 1 .. L : at[k] # ListHead(i)
  <2>1. at[L + 1] = ListHead(i)
    BY <1>0, <1>3, <1>5, ListsOf
  <2>2. ASSUME NEW k \in 1 .. L PROVE at[k] # ListHead(i)
    <3>1. at[k] = H.node[i][k] /\ H.node[i][k] \in Blocks(H)
      BY <1>0, <1>3, <1>5, ListsOf
    <3>. QED BY <1>0, <3>1, BlockLies, Addresses
  <2>. QED BY <2>1, <2>2
<1>7. length = L
  <2>1. L \in 0 .. MAX_HEAP
    BY <1>3
  <2>2. ASSUME NEW n \in 0 .. MAX_HEAP, at[n + 1] = ListHead(i), \A k \in 1 .. n : at[k] # ListHead(i)
        PROVE  n = L
    <3>1. ~(n < L)
      <4>1. n < L => n + 1 \in 1 .. L
        BY <1>3
      <4>. QED BY <1>6, <2>2, <4>1
    <3>2. ~(L < n)
      <4>1. L < n => L + 1 \in 1 .. n
        BY <1>3
      <4>. QED BY <1>6, <2>2, <4>1
    <3>. QED BY <1>3, <3>1, <3>2
  <2>. QED BY <1>6, <2>1, <2>2
<1>. HIDE DEF length
<1>8. \A n \in 1 .. L : at[n] = H.node[i][n]
  BY <1>3, <1>5
<1>. QED BY <1>1, <1>7, <1>8

\* Does the walk over the blocks stop at b, and where does it go from there?
Stops(m, b) == b >= GET_EPILOGUE(m) \/ Words(Size(m, b)) = 0

NextBlock(m, b) == b + Words(Size(m, b))

\* f gives the blocks the walk meets from any address on.
IsSurvey(m, f) ==
    f = [b \in Nat |-> IF Stops(m, b) THEN {} ELSE {b} \cup f[NextBlock(m, b)]]

\* The addresses S are never left by the walk.
Closed(m, S) == \A x \in S : ~Stops(m, x) => NextBlock(m, x) \in S

\* The blocks that lie in whatever holds b and is never left.
Met(m, b) ==
    {c \in Nat : ~Stops(m, c) /\ \A S \in SUBSET Nat : b \in S /\ Closed(m, S) => c \in S}

LEMMA SurveyExists ==
    ASSUME NEW m, IsMemory(m)
    PROVE  \E f : IsSurvey(m, f)
<1>1. \A b \in Nat : NextBlock(m, b) \in Nat
  <2>. TAKE b \in Nat
  <2>1. Size(m, b) \in Nat
    BY ReadIs DEF Size
  <2>2. Words(Size(m, b)) \in Nat
    BY <2>1 DEF Words
  <2>. QED BY <2>2 DEF NextBlock
<1>2. ASSUME NEW b \in Nat, Stops(m, b) PROVE Met(m, b) = {}
  <2>1. Closed(m, {b})
    BY <1>2 DEF Closed
  <2>2. ASSUME NEW c \in Met(m, b) PROVE FALSE
    <3>1. {b} \in SUBSET Nat
      OBVIOUS
    <3>2. c \in {b} /\ ~Stops(m, c)
      BY <2>1, <2>2, <3>1 DEF Met
    <3>. QED BY <1>2, <3>2
  <2>. QED BY <2>2
<1>3. ASSUME NEW b \in Nat, ~Stops(m, b) PROVE Met(m, b) = {b} \cup Met(m, NextBlock(m, b))
  <2>1. ASSUME NEW c \in Met(m, b), c # b PROVE c \in Met(m, NextBlock(m, b))
    <3>1. c \in Nat /\ ~Stops(m, c)
      BY DEF Met
    <3>2. ASSUME NEW S \in SUBSET Nat, NextBlock(m, b) \in S, Closed(m, S) PROVE c \in S
      <4>1. S \cup {b} \in SUBSET Nat /\ b \in S \cup {b}
        OBVIOUS
      <4>2. Closed(m, S \cup {b})
        BY <3>2 DEF Closed
      <4>3. c \in S \cup {b}
        BY <4>1, <4>2 DEF Met
      <4>. QED BY <2>1, <4>3
    <3>. QED BY <3>1, <3>2 DEF Met
  <2>2. ASSUME NEW c \in Met(m, NextBlock(m, b)) PROVE c \in Met(m, b)
    <3>1. c \in Nat /\ ~Stops(m, c)
      BY DEF Met
    <3>2. ASSUME NEW S \in SUBSET Nat, b \in S, Closed(m, S) PROVE c \in S
      <4>1. NextBlock(m, b) \in S
        BY <1>3, <3>2 DEF Closed
      <4>. QED BY <2>2, <3>2, <4>1 DEF Met
    <3>. QED BY <3>1, <3>2 DEF Met
  <2>3. b \in Met(m, b)
    BY <1>3 DEF Met
  <2>. QED BY <2>1, <2>2, <2>3
<1>. DEFINE f == [b \in Nat |-> Met(m, b)]
            g == [b \in Nat |-> IF Stops(m, b) THEN {} ELSE {b} \cup f[NextBlock(m, b)]]
<1>4. \A b \in Nat : f[b] = g[b]
  <2>. TAKE b \in Nat
  <2>1. f[NextBlock(m, b)] = Met(m, NextBlock(m, b))
    BY <1>1
  <2>2. g[b] = IF Stops(m, b) THEN {} ELSE {b} \cup Met(m, NextBlock(m, b))
    BY <2>1
  <2>3. f[b] = Met(m, b)
    OBVIOUS
  <2>. HIDE DEF f, g
  <2>4. CASE Stops(m, b)
    BY <1>2, <2>2, <2>3, <2>4
  <2>5. CASE ~Stops(m, b)
    BY <1>3, <2>2, <2>3, <2>5
  <2>. QED BY <2>4, <2>5
<1>5. f = g
  BY <1>4
<1>. QED BY <1>5 DEF IsSurvey

\* Following the sizes from the first block gives the blocks.
LEMMA HeadsIs ==
    ASSUME NEW m, IsMemory(m), NEW H, Shape(H), m.brk = H.brk,
           \A b \in Blocks(H) : Size(m, b) = SizeWord(H, b)
    PROVE  Heads(m) = Blocks(H)
<1>. DEFINE from[b \in Nat] == IF b >= GET_EPILOGUE(m) \/ Words(Size(m, b)) = 0
                               THEN {}
                               ELSE {b} \cup from[b + Words(Size(m, b))]
            E == End(H)
<1>1. Heads(m) = from[FirstBlock]
  BY DEF Heads
<1>2. IsSurvey(m, from)
  <2>1. PICK f : IsSurvey(m, f)
    BY SurveyExists
  <2>2. f = [b \in Nat |-> IF b >= GET_EPILOGUE(m) \/ Words(Size(m, b)) = 0
                           THEN {}
                           ELSE {b} \cup f[b + Words(Size(m, b))]]
    BY <2>1 DEF IsSurvey, Stops, NextBlock
  <2>3. from = [b \in Nat |-> IF b >= GET_EPILOGUE(m) \/ Words(Size(m, b)) = 0
                              THEN {}
                              ELSE {b} \cup from[b + Words(Size(m, b))]]
    BY <2>2
  <2>. HIDE DEF from
  <2>. QED BY <2>3 DEF IsSurvey, Stops, NextBlock
<1>. HIDE DEF from
<1>3. \A b \in Nat : from[b] = IF Stops(m, b) THEN {} ELSE {b} \cup from[NextBlock(m, b)]
  BY <1>2 DEF IsSurvey
<1>4. E \in Nat /\ GET_EPILOGUE(m) = E /\ FirstBlock \in Nat
  BY Addresses DEF Shape, End, GET_EPILOGUE, mem_heap_hi
<1>5. ASSUME NEW b \in Blocks(H)
      PROVE  /\ b \in Nat /\ ~Stops(m, b) /\ NextBlock(m, b) = After(H, b) /\ b < E
             /\ After(H, b) \in Nat /\ b < After(H, b) /\ After(H, b) =< E
             /\ After(H, b) \in Blocks(H) \cup {E}
  <2>1. /\ b \in Nat /\ H.words[b] \in Nat /\ 4 =< H.words[b] /\ After(H, b) \in Nat
        /\ After(H, b) = b + H.words[b] /\ After(H, b) =< E
    BY BlockLies
  <2>2. Words(Size(m, b)) = H.words[b]
    BY <2>1, SizeWords DEF SizeWord
  <2>3. After(H, b) \in Blocks(H) \cup {E}
    BY DEF Shape
  <2>4. b < E
    BY <1>4, <2>1
  <2>. HIDE DEF E
  <2>. QED BY <1>4, <2>1, <2>2, <2>3, <2>4 DEF Stops, NextBlock
<1>6. \A b \in Blocks(H) \cup {E} : from[b] = {c \in Blocks(H) : b =< c}
  <2>. DEFINE Right(b) == from[b] = {c \in Blocks(H) : b =< c}
              S == {n \in Nat : \E b \in Blocks(H) \cup {E} : n = E - b /\ ~Right(b)}
  <2>1. SUFFICES S = {}
    <3>1. ASSUME NEW b \in Blocks(H) \cup {E} PROVE E - b \in Nat
      BY <1>4, <1>5
    <3>. HIDE DEF Right
    <3>2. \A b \in Blocks(H) \cup {E} : Right(b)
      BY <2>1, <3>1
    <3>. QED BY <3>2 DEF Right
  <2>2. SUFFICES ASSUME S # {} PROVE FALSE
    OBVIOUS
  <2>3. PICK n \in S : \A k \in S : n =< k
    <3>1. S \in SUBSET Nat
      OBVIOUS
    <3>. HIDE DEF S
    <3>. QED BY <2>2, <3>1, LeastOf
  <2>4. PICK b \in Blocks(H) \cup {E} : n = E - b /\ ~Right(b)
    BY <2>3
  <2>5. CASE b \notin Blocks(H)
    <3>1. b = E /\ Stops(m, b) /\ b \in Nat
      BY <1>4, <2>4, <2>5 DEF Stops
    <3>2. from[b] = {}
      BY <1>3, <3>1
    <3>3. \A c \in Blocks(H) : ~(b =< c)
      BY <1>4, <1>5, <3>1
    <3>. QED BY <2>4, <3>2, <3>3
  <2>6. CASE b \in Blocks(H)
    <3>1. from[b] = {b} \cup from[After(H, b)]
      BY <1>3, <1>5, <2>6
    <3>2. E - After(H, b) \in Nat /\ ~(n =< E - After(H, b)) /\ After(H, b) \in Blocks(H) \cup {E}
      BY <1>4, <1>5, <2>4, <2>6
    <3>3. Right(After(H, b))
      <4>1. E - After(H, b) \notin S
        BY <2>3, <3>2
      <4>. HIDE DEF Right
      <4>. QED BY <3>2, <4>1
    <3>4. \A c \in Blocks(H) : b =< c <=> c = b \/ After(H, b) =< c
      BY <1>5, <2>6, BlocksApart
    <3>5. from[b] = {c \in Blocks(H) : b =< c}
      BY <2>6, <3>1, <3>3, <3>4
    <3>. QED BY <2>4, <3>5
  <2>. QED BY <2>5, <2>6
<1>7. FirstBlock \in Blocks(H) \cup {E} /\ \A c \in Blocks(H) : FirstBlock =< c
  BY DEF Shape
<1>. HIDE DEF E
<1>. QED BY <1>1, <1>6, <1>7

-----------------------------------------------------------------------------
(* The search for a free block.                                            *)

\* The blocks on the lists are the free blocks, each on the list of its size.
LEMMA TidyLists ==
    ASSUME NEW H, Shape(H), Chained(H), Tidy(H)
    PROVE  /\ \A i \in Lists : \A j \in 1 .. H.len[i] :
                  H.node[i][j] \in H.free /\ ListOf(H.words[H.node[i][j]]) = i
           /\ \A b \in Blocks(H) : OnList(H, b) <=> b \in H.free
           /\ \A b \in H.free : InList(H, ListOf(H.words[b]), b)
           /\ \A b \in H.free : b \in Blocks(H) /\ ListOf(H.words[b]) \in Lists
<1>1. \A b \in H.free : b \in Blocks(H) /\ ListOf(H.words[b]) \in Lists
  <2>. TAKE b \in H.free
  <2>1. b \in Blocks(H)
    BY DEF Shape
  <2>2. H.words[b] \in Nat
    BY <2>1, BlockLies
  <2>. QED BY <2>1, <2>2, ListOfIs
<1>2. \A b \in Blocks(H) : \A i \in Lists : InList(H, i, b) <=> b \in H.free /\ ListOf(H.words[b]) = i
  BY DEF Tidy
<1>3. ASSUME NEW i \in Lists, NEW j \in 1 .. H.len[i]
      PROVE  H.node[i][j] \in H.free /\ ListOf(H.words[H.node[i][j]]) = i
  <2>1. H.node[i][j] \in Blocks(H)
    BY ListsOf
  <2>2. InList(H, i, H.node[i][j])
    BY DEF InList
  <2>. QED BY <1>2, <2>1, <2>2
<1>4. \A b \in Blocks(H) : OnList(H, b) <=> b \in H.free
  BY <1>1, <1>2 DEF OnList
<1>. QED BY <1>1, <1>2, <1>3, <1>4

\* Where Fit finds its block.
LEMMA FitFinds ==
    ASSUME NEW H, Shape(H), Chained(H), NEW w \in Nat
    PROVE  LET lists == {i \in ListOf(w) .. NUM_OF_FREE_LISTS : Fits(H, i, w) # {}}
           IN  IF lists = {} THEN Fit(H, w) = NULL
               ELSE /\ Min(lists) \in lists /\ Min(lists) \in Lists
                    /\ Min(Fits(H, Min(lists), w)) \in Fits(H, Min(lists), w)
                    /\ Min(Fits(H, Min(lists), w)) \in 1 .. H.len[Min(lists)]
                    /\ Fit(H, w) = H.node[Min(lists)][Min(Fits(H, Min(lists), w))]
<1>. DEFINE lists == {i \in ListOf(w) .. NUM_OF_FREE_LISTS : Fits(H, i, w) # {}}
            i == Min(lists)
<1>1. Fit(H, w) = IF lists = {} THEN NULL ELSE H.node[i][Min(Fits(H, i, w))]
  BY DEF Fit
<1>2. lists \subseteq Lists /\ lists \in SUBSET Nat
  <2>1. ListOf(w) \in Lists
    BY ListOfIs
  <2>. QED BY <2>1 DEF Lists, NUM_OF_FREE_LISTS
<1>3. ASSUME lists # {}
      PROVE  i \in lists /\ i \in Lists /\ Min(Fits(H, i, w)) \in Fits(H, i, w)
             /\ Min(Fits(H, i, w)) \in 1 .. H.len[i]
  <2>1. i \in lists
    <3>. HIDE DEF lists
    <3>. QED BY <1>2, <1>3, LeastOf
  <2>. HIDE DEF i
  <2>2. Fits(H, i, w) # {}
    BY <2>1
  <2>3. Fits(H, i, w) \in SUBSET Nat /\ Fits(H, i, w) \subseteq 1 .. H.len[i]
    BY DEF Fits
  <2>4. Min(Fits(H, i, w)) \in Fits(H, i, w)
    BY <2>2, <2>3, LeastOf
  <2>. QED BY <1>2, <2>1, <2>3, <2>4
<1>. HIDE DEF i, lists
<1>4. CASE lists = {}
  BY <1>1, <1>4 DEF i, lists
<1>5. CASE lists # {}
  BY <1>1, <1>3, <1>5 DEF i, lists
<1>. QED BY <1>4, <1>5

LEMMA FitIs ==
    ASSUME NEW H, Shape(H), Chained(H), Tidy(H), NEW w \in Nat
    PROVE  /\ Fit(H, w) # NULL => /\ Fit(H, w) \in H.free /\ OnList(H, Fit(H, w))
                                  /\ w =< H.words[Fit(H, w)]
           /\ Fit(H, w) = NULL => \A b \in H.free : H.words[b] < w
<1>. DEFINE lists == {i \in ListOf(w) .. NUM_OF_FREE_LISTS : Fits(H, i, w) # {}}
            i == Min(lists)
            j == Min(Fits(H, i, w))
<1>1. CASE lists = {}
  <2>1. Fit(H, w) = NULL
    BY <1>1, FitFinds
  <2>2. ASSUME NEW b \in H.free PROVE H.words[b] < w
    <3>1. b \in Blocks(H) /\ H.words[b] \in Nat
      BY TidyLists, BlockLies
    <3>2. SUFFICES ASSUME w =< H.words[b] PROVE FALSE
      BY <3>1
    <3>3. ListOf(H.words[b]) \in Lists /\ ListOf(w) =< ListOf(H.words[b]) /\ ListOf(w) \in Lists
      BY <3>1, <3>2, ListOfIs
    <3>4. PICK k \in 1 .. H.len[ListOf(H.words[b])] : H.node[ListOf(H.words[b])][k] = b
      BY TidyLists DEF InList
    <3>5. k \in Fits(H, ListOf(H.words[b]), w)
      BY <3>1, <3>2, <3>4 DEF Fits
    <3>6. ListOf(H.words[b]) \in ListOf(w) .. NUM_OF_FREE_LISTS
      BY <3>3 DEF Lists, NUM_OF_FREE_LISTS
    <3>7. ListOf(H.words[b]) \in lists
      BY <3>5, <3>6
    <3>. QED BY <1>1, <3>7
  <2>. QED BY <2>1, <2>2
<1>2. CASE lists # {}
  <2>1. i \in Lists /\ j \in Fits(H, i, w) /\ j \in 1 .. H.len[i] /\ Fit(H, w) = H.node[i][j]
    BY <1>2, FitFinds
  <2>. HIDE DEF i, j, lists
  <2>2. H.node[i][j] \in H.free /\ H.node[i][j] \in Blocks(H) /\ OnList(H, H.node[i][j])
    BY <2>1, TidyLists, PlaceOf
  <2>3. H.words[H.node[i][j]] >= w /\ H.words[H.node[i][j]] \in Nat
    BY <2>1, <2>2, BlockLies DEF Fits
  <2>4. H.node[i][j] # NULL
    BY <2>2, BlockLies, Addresses DEF NULL
  <2>. QED BY <2>1, <2>2, <2>3, <2>4
<1>. QED BY <1>1, <1>2

LEMMA FindFit ==
    ASSUME NEW m, NEW H, Holds(m, H), Tidy(H), NEW w \in Nat
    PROVE  find_fit(m, 8 * w) = Fit(H, w)
<1>0. Shape(H) /\ Chained(H)
  BY DEF Holds
<1>1. ASSUME NEW i \in Lists
      PROVE  /\ FirstFit(m, FreeList(m, i), 8 * w) =
                    IF Fits(H, i, w) = {} THEN NULL ELSE H.node[i][Min(Fits(H, i, w))]
             /\ Fits(H, i, w) # {} => H.node[i][Min(Fits(H, i, w))] # NULL
  <2>. DEFINE list == [j \in 1 .. H.len[i] |-> H.node[i][j]]
              fits == {n \in DOMAIN list : Size(m, list[n]) >= 8 * w /\ IsFree(Size(m, list[n]))}
  <2>1. FreeList(m, i) = list
    BY FreeListIs
  <2>2. ASSUME NEW j \in 1 .. H.len[i]
        PROVE  Size(m, H.node[i][j]) >= 8 * w /\ IsFree(Size(m, H.node[i][j])) <=> H.words[H.node[i][j]] >= w
    <3>1. H.node[i][j] \in H.free /\ H.node[i][j] \in Blocks(H)
      BY <1>0, TidyLists
    <3>2. /\ Size(m, H.node[i][j]) = SizeWord(H, H.node[i][j])
          /\ IsFree(Size(m, H.node[i][j])) /\ H.words[H.node[i][j]] \in Nat
      BY <1>0, <3>1, TagsOf, BlockLies
    <3>3. Size(m, H.node[i][j]) = 8 * H.words[H.node[i][j]]
      BY <3>1, <3>2 DEF SizeWord
    <3>4. 8 * H.words[H.node[i][j]] >= 8 * w <=> H.words[H.node[i][j]] >= w
      BY <3>2
    <3>. QED BY <3>2, <3>3, <3>4
  <2>3. fits = Fits(H, i, w)
    BY <2>2 DEF Fits
  <2>4. FirstFit(m, list, 8 * w) = IF fits = {} THEN NULL ELSE list[Min(fits)]
    BY DEF FirstFit
  <2>5. ASSUME Fits(H, i, w) # {} PROVE Min(Fits(H, i, w)) \in 1 .. H.len[i]
    <3>1. Fits(H, i, w) \in SUBSET Nat /\ Fits(H, i, w) \subseteq 1 .. H.len[i]
      BY DEF Fits
    <3>. QED BY <2>5, <3>1, LeastOf
  <2>6. \A j \in 1 .. H.len[i] : list[j] = H.node[i][j] /\ H.node[i][j] # NULL
    <3>1. \A j \in 1 .. H.len[i] : H.node[i][j] \in Blocks(H)
      BY <1>0, ListsOf
    <3>. QED BY <1>0, <3>1, BlockLies, Addresses DEF NULL
  <2>. HIDE DEF list, fits
  <2>. QED BY <2>1, <2>3, <2>4, <2>5, <2>6
<1>. DEFINE fits == [i \in 1 .. NUM_OF_FREE_LISTS |-> FirstFit(m, FreeList(m, i), 8 * w)]
            found == {i \in map_to_list(8 * w) .. NUM_OF_FREE_LISTS : fits[i] # NULL}
            lists == {i \in ListOf(w) .. NUM_OF_FREE_LISTS : Fits(H, i, w) # {}}
<1>2. find_fit(m, 8 * w) = IF found = {} THEN NULL ELSE fits[Min(found)]
  BY DEF find_fit
<1>3. \A i \in Lists : fits[i] = IF Fits(H, i, w) = {} THEN NULL ELSE H.node[i][Min(Fits(H, i, w))]
  BY <1>1 DEF Lists
<1>4. found = lists
  <2>1. ListOf(w) .. NUM_OF_FREE_LISTS \subseteq Lists
    BY ListOfIs DEF Lists, NUM_OF_FREE_LISTS
  <2>2. map_to_list(8 * w) = ListOf(w)
    BY DEF ListOf
  <2>. HIDE DEF fits
  <2>. QED BY <1>1, <1>3, <2>1, <2>2
<1>. HIDE DEF found, fits
<1>5. IF lists = {} THEN Fit(H, w) = NULL
      ELSE /\ Min(lists) \in Lists /\ Min(lists) \in lists
           /\ Fit(H, w) = H.node[Min(lists)][Min(Fits(H, Min(lists), w))]
  BY <1>0, FitFinds
<1>6. CASE lists = {}
  BY <1>2, <1>4, <1>5, <1>6
<1>7. CASE lists # {}
  <2>1. /\ Min(lists) \in Lists /\ Min(lists) \in lists
        /\ Fit(H, w) = H.node[Min(lists)][Min(Fits(H, Min(lists), w))]
    BY <1>5, <1>7
  <2>2. Fits(H, Min(lists), w) # {}
    BY <2>1
  <2>. HIDE DEF lists
  <2>. QED BY <1>2, <1>3, <1>4, <1>7, <2>1, <2>2
<1>. QED BY <1>6, <1>7

-----------------------------------------------------------------------------
(* malloc.                                                                 *)

\* The blocks that are not of S are in X what they are in H.
Spares(H, X, S) ==
    \A c \in Blocks(H) \ S : /\ c \in Blocks(X) /\ X.words[c] = H.words[c]
                             /\ c \in X.free <=> c \in H.free

LEMMA SamePayloadsJoin ==
    ASSUME NEW m, NEW x, NEW y, NEW H, NEW X, NEW S, NEW T,
           SamePayloads(m, x, H, S), SamePayloads(x, y, X, T), Spares(H, X, S)
    PROVE  SamePayloads(m, y, H, S \cup T)
<1>. SUFFICES ASSUME NEW c \in Blocks(H) \ (S \cup T), NEW a \in c + 3 .. After(H, c) - 2
              PROVE  y.word[a] = m.word[a]
  BY DEF SamePayloads
<1>1. c \in Blocks(X) /\ After(X, c) = After(H, c)
  BY DEF Spares, After
<1>2. x.word[a] = m.word[a]
  BY DEF SamePayloads
<1>3. y.word[a] = x.word[a]
  BY <1>1 DEF SamePayloads
<1>. QED BY <1>2, <1>3

\* Marking and dropping a free block keeps a heap tidy, whose other free
\* blocks are listed.
LEMMA TakeHolds ==
    ASSUME NEW m, NEW H, Holds(m, H), NEW b \in Blocks(H), OnList(H, b),
           \A c \in H.free \ {b} : After(H, c) \notin H.free \ {b},
           \A c \in Blocks(H) \ {b} : \A i \in Lists :
               InList(H, i, c) <=> c \in H.free /\ ListOf(H.words[c]) = i
    PROVE  LET x == remove_from_free_lists(Mark(m, b), b)
               X == Dropped(Marked(H, b), b)
           IN  /\ Holds(x, X) /\ Tidy(X) /\ SamePayloads(m, x, H, {})
               /\ X.brk = H.brk /\ X.words = H.words /\ X.free = H.free \ {b}
<1>. DEFINE n == Mark(m, b)
            N == Marked(H, b)
            x == remove_from_free_lists(n, b)
            X == Dropped(N, b)
<1>1. Holds(n, N) /\ SamePayloads(m, n, H, {})
  BY MarkHolds
<1>2. N.brk = H.brk /\ N.words = H.words /\ N.free = H.free \ {b} /\ N.len = H.len /\ N.node = H.node
  BY DEF Marked
<1>3. (\A k, c : InList(N, k, c) <=> InList(H, k, c)) /\ OnList(N, b)
  BY <1>2 DEF InList, OnList
<1>. HIDE DEF N, n
<1>4. /\ Holds(x, X) /\ SamePayloads(n, x, N, {})
      /\ X.brk = N.brk /\ X.words = N.words /\ X.free = N.free
      /\ \A k \in Lists : \A c : InList(X, k, c) <=> InList(N, k, c) /\ c # b
  BY <1>1, <1>3, Drop
<1>. HIDE DEF X, x
<1>5. Blocks(X) = Blocks(H) /\ \A c : After(X, c) = After(H, c)
  BY <1>2, <1>4 DEF Blocks, After
<1>6. \A c \in X.free : After(X, c) \notin X.free
  BY <1>2, <1>4, <1>5
<1>7. ASSUME NEW c \in Blocks(X), NEW i \in Lists
      PROVE  InList(X, i, c) <=> c \in X.free /\ ListOf(X.words[c]) = i
  <2>1. InList(X, i, c) <=> InList(H, i, c) /\ c # b
    BY <1>3, <1>4
  <2>2. c \in X.free <=> c \in H.free /\ c # b
    BY <1>2, <1>4
  <2>3. X.words[c] = H.words[c]
    BY <1>2, <1>4
  <2>4. c # b => (InList(H, i, c) <=> c \in H.free /\ ListOf(H.words[c]) = i)
    BY <1>5
  <2>. QED BY <2>1, <2>2, <2>3, <2>4
<1>8. Tidy(X)
  BY <1>6, <1>7 DEF Tidy
<1>9. SamePayloads(m, x, H, {})
  <2>1. Blocks(N) = Blocks(H) /\ \A c : After(N, c) = After(H, c)
    BY <1>2 DEF Blocks, After
  <2>. QED BY <1>1, <1>4, <2>1 DEF SamePayloads
<1>. QED BY <1>2, <1>4, <1>8, <1>9 DEF X, x, N, n

\* What follows the words of H is no free block: what split_block tests.
LEMMA NotFreeAfter ==
    ASSUME NEW m, NEW H, Holds(m, H), NEW b \in Blocks(H), After(H, b) \notin H.free
    PROVE  ~IsFree(Size(m, After(H, b)))
<1>0. Shape(H) /\ IsMemory(m) /\ Tagged(m, H)
  BY DEF Holds
<1>1. CASE After(H, b) \in Blocks(H)
  BY <1>1, TagsOf
<1>2. CASE After(H, b) = End(H)
  <2>1. End(H) \in Address
    BY <1>0, BlockLies, Addresses
  <2>2. Size(m, After(H, b)) = 25
    BY <1>0, <1>2, <2>1, ReadIs DEF Size, Tagged, BLK_HDR_SIZE
  <2>. QED BY <2>2 DEF IsFree
<1>. QED BY <1>0, <1>1, <1>2 DEF Shape

\* A block that is too large is cut, and its rest listed.
LEMMA SplitBlockHolds ==
    ASSUME NEW m, NEW H, Holds(m, H), Tidy(H), NEW b \in H.free,
           NEW w \in Nat, 4 =< w, H.words[b] - w > 9
    PROVE  LET x == split_block(m, Size(m, b), 8 * w, b)
               X == Pushed(Split(H, b, w), b + w)
           IN  /\ Holds(x, X) /\ SamePayloads(m, x, H, {b})
               /\ X.brk = H.brk /\ X.words = Split(H, b, w).words /\ X.free = H.free \cup {b + w}
               /\ \A k \in Lists : \A c : InList(X, k, c) <=>
                      InList(H, k, c) \/ (k = ListOf(H.words[b] - w) /\ c = b + w)
<1>. DEFINE e == b + w
            n == SetBlock(SetBlock(m, b, 8 * w), e, 8 * H.words[b] - 8 * w)
            N == Split(H, b, w)
            x == add_to_free_lists(n, e)
            X == Pushed(N, e)
<1>0. Shape(H) /\ Chained(H) /\ b \in Blocks(H)
  BY DEF Holds, Shape
<1>1. b \in Nat /\ H.words[b] \in Nat /\ w + 4 =< H.words[b] /\ e \in Nat /\ After(H, b) = b + H.words[b]
  BY <1>0, BlockLies
<1>2. Holds(n, N) /\ SamePayloads(m, n, H, {b})
  BY <1>1, SplitHolds
<1>3. /\ Shape(N) /\ N.brk = H.brk
      /\ Blocks(N) = Blocks(H) \cup {e} /\ e \notin Blocks(H)
      /\ N.words[e] = H.words[b] - w
      /\ \A c \in Blocks(H) \ {b} : N.words[c] = H.words[c] /\ After(N, c) = After(H, c)
      /\ After(N, b) = e /\ After(N, e) = After(H, b)
      /\ N.free = H.free \cup {e} /\ N.len = H.len /\ N.node = H.node
  BY <1>0, <1>1, SplitShape
<1>4. (\A k, c : InList(N, k, c) <=> InList(H, k, c)) /\ ~OnList(N, e)
  <2>1. \A k, c : InList(N, k, c) <=> InList(H, k, c)
    BY <1>3 DEF InList
  <2>2. \A i \in Lists : ~InList(H, i, e)
    BY <1>0, <1>3, ListsOf DEF InList
  <2>. QED BY <2>1, <2>2 DEF OnList
<1>. HIDE DEF N
<1>5. /\ Holds(x, X) /\ SamePayloads(n, x, N, {})
      /\ X.brk = N.brk /\ X.words = N.words /\ X.free = N.free
      /\ \A k \in Lists : \A c : InList(X, k, c) <=> InList(N, k, c) \/ (k = ListOf(N.words[e]) /\ c = e)
  <2>. HIDE DEF n, e
  <2>1. e \in N.free
    BY <1>3
  <2>. QED BY <1>2, <1>4, <2>1, Push
<1>6. split_block(m, Size(m, b), 8 * w, b) = x
  <2>1. Size(m, b) = 8 * H.words[b] /\ Words(8 * w) = w /\ Words(8 * H.words[b] - 8 * w) = H.words[b] - w
    <3>1. Size(m, b) = 8 * H.words[b]
      BY <1>0, <1>1, TagsOf DEF SizeWord
    <3>2. 8 * H.words[b] - 8 * w = 8 * (H.words[b] - w) /\ H.words[b] - w \in Nat
      BY <1>1
    <3>. QED BY <3>1, <3>2, SizeWords
  <2>2. ~IsFree(Size(n, e + (H.words[b] - w)))
    <3>1. After(H, b) \notin H.free
      BY DEF Tidy
    <3>2. After(H, b) # e
      BY <1>1
    <3>3. e \in Blocks(N) /\ After(N, e) = e + (H.words[b] - w) /\ After(N, e) \notin N.free
      BY <1>1, <1>3, <3>1, <3>2
    <3>. HIDE DEF n, e
    <3>. QED BY <1>2, <3>3, NotFreeAfter
  <2>3. 8 * H.words[b] - 8 * w > BLK_HDR_FTR_SIZE + 40
    BY <1>1 DEF BLK_HDR_FTR_SIZE, BLK_HDR_SIZE, BLK_FTR_SIZE
  <2>. QED BY <2>1, <2>2, <2>3 DEF split_block
<1>7. SamePayloads(m, x, H, {b})
  <2>1. Spares(H, N, {b})
    BY <1>3 DEF Spares
  <2>2. SamePayloads(m, x, H, {b} \cup {})
    BY <1>2, <1>5, <2>1, SamePayloadsJoin
  <2>3. {b} \cup {} = {b}
    OBVIOUS
  <2>. QED BY <2>2, <2>3
<1>. HIDE DEF x, X, n
<1>. QED BY <1>3, <1>4, <1>5, <1>6, <1>7 DEF X, N

LEMMA UsedHolds ==
    ASSUME NEW m, NEW H, Holds(m, H), Tidy(H), NEW b \in H.free, OnList(H, b),
           NEW w \in Nat, 4 =< w, w =< H.words[b]
    PROVE  LET X == Used(H, b, w)
           IN  /\ \E x : /\ UseBlock(m, b, 8 * w) = Returns(x, b + 3)
                         /\ Holds(x, X) /\ SamePayloads(m, x, H, {b})
               /\ Tidy(X) /\ Spares(H, X, {b}) /\ X.brk = H.brk
               /\ b \in Blocks(X) /\ b \notin X.free /\ w =< X.words[b] /\ X.words[b] =< w + 9
<1>. DEFINE cut == split_block(m, Size(m, b), 8 * w, b)
            x == remove_from_free_lists(Mark(cut, b), b)
            X == Used(H, b, w)
            e == b + w
<1>0. /\ Shape(H) /\ Chained(H) /\ b \in Blocks(H) /\ b \in Nat /\ H.words[b] \in Nat
      /\ \A c \in Blocks(H) : \A i \in Lists : InList(H, i, c) <=> c \in H.free /\ ListOf(H.words[c]) = i
      /\ \A c \in H.free : c \in Blocks(H) /\ After(H, c) \notin H.free
  <2>1. Shape(H) /\ Chained(H) /\ b \in Blocks(H)
    BY DEF Holds, Shape
  <2>. QED BY <2>1, BlockLies DEF Tidy, Shape
<1>1. UseBlock(m, b, 8 * w) = Returns(x, b + 3)
  BY DEF UseBlock
<1>2. CASE H.words[b] - w > 9
  <2>. DEFINE N == Pushed(Split(H, b, w), e)
  <2>1. /\ Holds(cut, N) /\ SamePayloads(m, cut, H, {b})
        /\ N.brk = H.brk /\ N.words = Split(H, b, w).words /\ N.free = H.free \cup {e}
        /\ \A k \in Lists : \A c : InList(N, k, c) <=>
               InList(H, k, c) \/ (k = ListOf(H.words[b] - w) /\ c = e)
    BY <1>2, SplitBlockHolds
  <2>2. LET Y == Split(H, b, w)
        IN  /\ Blocks(Y) = Blocks(H) \cup {e} /\ e \notin Blocks(H)
            /\ Y.words[b] = w /\ Y.words[e] = H.words[b] - w
            /\ \A c \in Blocks(H) \ {b} : Y.words[c] = H.words[c] /\ After(Y, c) = After(H, c)
            /\ After(Y, b) = e /\ After(Y, e) = After(H, b)
    BY <1>0, <1>2, SplitShape
  <2>. HIDE DEF N, cut
  <2>3. /\ Blocks(N) = Blocks(H) \cup {e} /\ e \notin Blocks(H)
        /\ N.words[b] = w /\ N.words[e] = H.words[b] - w
        /\ \A c \in Blocks(H) \ {b} : N.words[c] = H.words[c] /\ After(N, c) = After(H, c)
        /\ After(N, b) = e /\ After(N, e) = After(H, b)
    BY <2>1, <2>2 DEF Blocks, After
  <2>4. b \in Blocks(N) /\ OnList(N, b)
    BY <1>0, <2>1, <2>3 DEF OnList
  <2>5. \A c \in N.free \ {b} : After(N, c) \notin N.free \ {b}
    <3>. SUFFICES ASSUME NEW c \in N.free \ {b}, After(N, c) \in N.free \ {b} PROVE FALSE
      OBVIOUS
    <3>1. CASE c = e
      <4>1. After(N, c) = After(H, b) /\ After(H, b) \notin H.free /\ After(H, b) # e
        <5>1. After(H, b) = b + H.words[b] /\ After(H, b) # e
          BY <1>0, <1>2 DEF After
        <5>. QED BY <1>0, <2>3, <3>1, <5>1
      <4>. QED BY <2>1, <4>1
    <3>2. CASE c # e
      <4>1. c \in H.free /\ c \in Blocks(H) \ {b} /\ After(N, c) = After(H, c)
        BY <1>0, <2>1, <2>3, <3>2
      <4>2. After(H, c) = e
        BY <1>0, <2>1, <4>1
      <4>3. After(H, c) =< b \/ After(H, b) =< c
        BY <1>0, <4>1, BlocksApart
      <4>4. c \in Nat /\ c < After(H, c) /\ After(H, b) = b + H.words[b]
        <5>1. Shape(H) /\ c \in Blocks(H) /\ b \in Blocks(H)
          BY <1>0, <4>1
        <5>2. c \in Nat /\ c + 4 =< After(H, c) /\ After(H, c) \in Nat /\ After(H, b) = b + H.words[b]
          BY <5>1, BlockLies
        <5>. QED BY <5>2
      <4>. QED BY <1>0, <1>2, <4>2, <4>3, <4>4
    <3>. QED BY <3>1, <3>2
  <2>6. ASSUME NEW c \in Blocks(N) \ {b}, NEW i \in Lists
        PROVE  InList(N, i, c) <=> c \in N.free /\ ListOf(N.words[c]) = i
    <3>1. CASE c = e
      <4>1. ~InList(H, i, e)
        BY <1>0, <2>3, ListsOf DEF InList
      <4>. QED BY <2>1, <2>3, <3>1, <4>1
    <3>2. CASE c # e
      <4>1. c \in Blocks(H) /\ N.words[c] = H.words[c] /\ (c \in N.free <=> c \in H.free)
        BY <2>1, <2>3, <3>2
      <4>2. InList(N, i, c) <=> InList(H, i, c)
        BY <2>1, <3>2
      <4>. QED BY <1>0, <4>1, <4>2
    <3>. QED BY <3>1, <3>2
  <2>7. LET Y == Dropped(Marked(N, b), b)
        IN  /\ Holds(x, Y) /\ Tidy(Y) /\ SamePayloads(cut, x, N, {})
            /\ Y.brk = N.brk /\ Y.words = N.words /\ Y.free = N.free \ {b}
    BY <2>1, <2>4, <2>5, <2>6, TakeHolds
  <2>8. X = Dropped(Marked(N, b), b)
    BY <1>2 DEF Used, N
  <2>. HIDE DEF X, x, e
  <2>9. /\ Holds(x, X) /\ Tidy(X) /\ SamePayloads(cut, x, N, {})
        /\ X.brk = N.brk /\ X.words = N.words /\ X.free = N.free \ {b}
    BY <2>7, <2>8
  <2>10. Spares(H, N, {b})
    BY <2>1, <2>3 DEF Spares
  <2>11. SamePayloads(m, x, H, {b})
    <3>1. SamePayloads(m, x, H, {b} \cup {})
      BY <2>1, <2>9, <2>10, SamePayloadsJoin
    <3>2. {b} \cup {} = {b}
      OBVIOUS
    <3>. QED BY <3>1, <3>2
  <2>12. Spares(H, X, {b})
    <3>1. Blocks(X) = Blocks(N)
      BY <2>9 DEF Blocks
    <3>. QED BY <2>9, <2>10, <3>1 DEF Spares
  <2>13. b \in Blocks(X) /\ X.words[b] = w
    BY <2>3, <2>4, <2>9 DEF Blocks
  <2>. QED BY <1>1, <2>1, <2>9, <2>11, <2>12, <2>13 DEF X
<1>3. CASE ~(H.words[b] - w > 9)
  <2>1. cut = m
    <3>1. Size(m, b) = 8 * H.words[b]
      BY <1>0, TagsOf DEF SizeWord
    <3>2. ~(8 * H.words[b] - 8 * w > BLK_HDR_FTR_SIZE + 40)
      BY <1>0, <1>3 DEF BLK_HDR_FTR_SIZE, BLK_HDR_SIZE, BLK_FTR_SIZE
    <3>. QED BY <3>1, <3>2 DEF split_block
  <2>2. X = Dropped(Marked(H, b), b)
    BY <1>3 DEF Used
  <2>. HIDE DEF X, cut
  <2>3. /\ Holds(x, X) /\ Tidy(X) /\ SamePayloads(m, x, H, {})
        /\ X.brk = H.brk /\ X.words = H.words /\ X.free = H.free \ {b}
    <3>. DEFINE y == remove_from_free_lists(Mark(m, b), b)
                Y == Dropped(Marked(H, b), b)
    <3>1. /\ Holds(y, Y) /\ Tidy(Y) /\ SamePayloads(m, y, H, {})
          /\ Y.brk = H.brk /\ Y.words = H.words /\ Y.free = H.free \ {b}
      BY <1>0, TakeHolds
    <3>. HIDE DEF Y
    <3>. QED BY <2>1, <2>2, <3>1 DEF Y
  <2>. HIDE DEF x
  <2>4. Spares(H, X, {b}) /\ SamePayloads(m, x, H, {b})
    BY <2>3 DEF Spares, SamePayloads, Blocks
  <2>5. b \in Blocks(X) /\ X.words[b] = H.words[b] /\ H.words[b] =< w + 9
    BY <1>0, <1>3, <2>3 DEF Blocks
  <2>. QED BY <1>1, <2>3, <2>4, <2>5 DEF X
<1>. QED BY <1>2, <1>3

LEMMA ExtendedTidy ==
    ASSUME NEW H, Shape(H), Chained(H), Tidy(H), NEW b, IsLast(H, b), b \notin H.free,
           NEW w \in Nat, b = End(H) => 4 =< w, H.brk + w =< mem_max_addr
    PROVE  LET X == Extended(H, b, w)
           IN  Tidy(X) /\ Spares(H, X, {b}) /\ b \in Blocks(X) /\ b \notin X.free
<1>. DEFINE X == Extended(H, b, w)
<1>1. /\ Blocks(X) = Blocks(H) \cup {b} /\ b \in Nat
      /\ \A c \in Blocks(H) \ {b} : X.words[c] = H.words[c] /\ After(X, c) = After(H, c)
      /\ X.free = H.free /\ X.len = H.len /\ X.node = H.node
  BY ExtendedShape
<1>. HIDE DEF X
<1>2. \A k, c : InList(X, k, c) <=> InList(H, k, c)
  BY <1>1 DEF InList
<1>3. \A c \in X.free : After(X, c) \notin X.free
  <2>. TAKE c \in X.free
  <2>1. c \in Blocks(H) \ {b}
    BY <1>1 DEF Shape
  <2>. QED BY <1>1, <2>1 DEF Tidy
<1>4. ASSUME NEW c \in Blocks(X), NEW i \in Lists
      PROVE  InList(X, i, c) <=> c \in X.free /\ ListOf(X.words[c]) = i
  <2>1. CASE c \in Blocks(H) \ {b}
    <3>1. InList(H, i, c) <=> c \in H.free /\ ListOf(H.words[c]) = i
      BY <2>1 DEF Tidy
    <3>. QED BY <1>1, <1>2, <2>1, <3>1
  <2>2. CASE c = b
    <3>1. ~InList(H, i, b)
      <4>1. CASE b \in Blocks(H)
        BY <4>1 DEF Tidy
      <4>2. CASE b \notin Blocks(H)
        BY <4>2, ListsOf DEF InList
      <4>. QED BY <4>1, <4>2
    <3>. QED BY <1>1, <1>2, <2>2, <3>1
  <2>. QED BY <1>1, <2>1, <2>2
<1>5. Tidy(X)
  BY <1>3, <1>4 DEF Tidy
<1>6. Spares(H, X, {b})
  BY <1>1 DEF Spares
<1>. QED BY <1>1, <1>5, <1>6 DEF X

LEMMA AllocateHolds ==
    ASSUME NEW m, NEW H, Holds(m, H), Tidy(H), NEW w \in Nat, 4 =< w, ~MallocFails(H, w)
    PROVE  LET X == AfterMalloc(H, w)
               g == MallocGives(H, w)
           IN  /\ \E x : /\ Allocate(m, 8 * w, find_fit(m, 8 * w)) = Returns(x, g + 3)
                         /\ Holds(x, X) /\ SamePayloads(m, x, H, {g})
               /\ Tidy(X) /\ Spares(H, X, {g})
               /\ g \in H.free \/ g \notin Blocks(H)
               /\ g \in Blocks(X) /\ g \notin X.free /\ w =< X.words[g] /\ X.words[g] =< w + 9
<1>. DEFINE X == AfterMalloc(H, w)
            g == MallocGives(H, w)
<1>0. /\ Shape(H) /\ Chained(H) /\ find_fit(m, 8 * w) = Fit(H, w)
  BY FindFit DEF Holds
<1>1. CASE Fit(H, w) = NULL
  <2>1. H.brk + w + 3 =< mem_max_addr /\ H.brk \in Nat /\ w + 3 \in Nat /\ 4 =< w + 3 /\ H.brk + (w + 3) =< mem_max_addr
    BY <1>0, <1>1, Addresses DEF MallocFails, Shape
  <2>2. X = Extended(H, g, w + 3) /\ g = End(H)
    BY <1>1 DEF AfterMalloc, MallocGives
  <2>3. IsLast(H, g) /\ g \notin H.free /\ g \notin Blocks(H)
    <3>1. End(H) \notin Blocks(H)
      BY <1>0, BlockLies
    <3>. QED BY <1>0, <2>2, <3>1 DEF IsLast, Shape
  <2>4. PICK x : /\ GrowHeap(m, 8 * w) = Returns(x, End(H) + 3)
                 /\ Holds(x, Extended(H, End(H), w + 3))
                 /\ SamePayloads(m, x, H, {})
    BY <2>1, GrowHeapHolds
  <2>5. Allocate(m, 8 * w, find_fit(m, 8 * w)) = GrowHeap(m, 8 * w)
    BY <1>0, <1>1 DEF Allocate
  <2>. HIDE DEF X, g
  <2>. DEFINE v == w + 3
  <2>6. v \in Nat /\ 4 =< v /\ H.brk + v =< mem_max_addr /\ X = Extended(H, g, v)
    BY <2>1, <2>2
  <2>. HIDE DEF v
  <2>7. Tidy(X) /\ Spares(H, X, {g}) /\ g \in Blocks(X) /\ g \notin X.free
    BY <1>0, <2>3, <2>6, ExtendedTidy
  <2>8. X.words[g] = v
    BY <1>0, <2>2, <2>3, <2>6, ExtendedShape
  <2>9. SamePayloads(m, x, H, {g})
    BY <2>4 DEF SamePayloads
  <2>10. w =< X.words[g] /\ X.words[g] =< w + 9
    BY <2>8 DEF v
  <2>. QED BY <2>2, <2>3, <2>4, <2>5, <2>7, <2>9, <2>10 DEF X, g
<1>2. CASE Fit(H, w) # NULL
  <2>1. g = Fit(H, w) /\ X = Used(H, g, w)
    BY <1>2 DEF AfterMalloc, MallocGives
  <2>2. g \in H.free /\ OnList(H, g) /\ w =< H.words[g]
    BY <1>0, <1>2, <2>1, FitIs
  <2>3. Allocate(m, 8 * w, find_fit(m, 8 * w)) = UseBlock(m, g, 8 * w)
    BY <1>0, <1>2, <2>1 DEF Allocate
  <2>. HIDE DEF X, g
  <2>. QED BY <2>1, <2>2, <2>3, UsedHolds DEF X, g
<1>. QED BY <1>1, <1>2

\* mem_sbrk fails only when no free block would do, and spoils the epilogue.
LEMMA AllocateCrashes ==
    ASSUME NEW m, NEW H, Holds(m, H), Tidy(H), NEW w \in Nat, 4 =< w, MallocFails(H, w)
    PROVE  \E x : /\ Allocate(m, 8 * w, find_fit(m, 8 * w)) = Crashes(x)
                  /\ IsMemory(x) /\ x.brk = H.brk
                  /\ \A b \in Blocks(H) : Size(x, b) = SizeWord(H, b)
                  /\ \A b \in H.free : H.words[b] < w
<1>. DEFINE x == SetSize(m, End(H), BLK_HDR_SIZE)
<1>0. Shape(H) /\ Chained(H) /\ IsMemory(m) /\ m.brk = H.brk /\ find_fit(m, 8 * w) = Fit(H, w)
  BY FindFit DEF Holds
<1>1. Fit(H, w) = NULL /\ H.brk + w + 3 > mem_max_addr /\ H.brk \in Nat
  BY <1>0 DEF MallocFails, Shape
<1>2. Allocate(m, 8 * w, find_fit(m, 8 * w)) = Crashes(x)
  <2>1. GET_EPILOGUE(m) = End(H)
    BY <1>0, <1>1 DEF GET_EPILOGUE, mem_heap_hi, End
  <2>2. Words(8 * w + BLK_HDR_SIZE) = w + 3
    BY DEF BLK_HDR_SIZE, Words
  <2>3. ~CanGrow(m, w + 3)
    BY <1>0, <1>1, Addresses DEF CanGrow
  <2>. QED BY <1>0, <1>1, <2>1, <2>2, <2>3 DEF Allocate, GrowHeap
<1>3. /\ IsMemory(x) /\ x.brk = H.brk
      /\ \A a \in Address : x.word[a] = IF a = End(H) THEN BLK_HDR_SIZE ELSE m.word[a]
  <2>1. BLK_HDR_SIZE \in Nat
    BY DEF BLK_HDR_SIZE
  <2>. QED BY <1>0, <2>1, WriteIs DEF SetSize
<1>. HIDE DEF x
<1>4. ASSUME NEW b \in Blocks(H) PROVE Size(x, b) = SizeWord(H, b)
  <2>1. b \in Address /\ b # End(H) /\ m.word[b] = SizeWord(H, b)
    BY <1>0, BlockLies, Addresses DEF Holds, Tagged
  <2>. QED BY <1>3, <2>1, ReadIs DEF Size
<1>5. \A b \in H.free : H.words[b] < w
  BY <1>0, <1>1, FitIs
<1>. QED BY <1>2, <1>3, <1>4, <1>5

-----------------------------------------------------------------------------
(* free.                                                                   *)

\* What lies around an allocated block, and what it is joined with.
LEMMA Neighbours ==
    ASSUME NEW H, Shape(H), Tidy(H), NEW b \in Blocks(H), b \notin H.free
    PROVE  LET j == Joined(H, b)
               e == JoinedEnd(H, b)
               n == After(H, b)
           IN  /\ \/ Before(H, b) = {} /\ j = b
                  \/ Before(H, b) = {j} /\ j \in H.free /\ After(H, j) = b
               /\ \/ n \notin H.free /\ e = n
                  \/ n \in H.free /\ e = After(H, n)
               /\ j \in Blocks(H) /\ e \in Blocks(H) \cup {End(H)} /\ e \notin H.free
               /\ j \in Nat /\ b \in Nat /\ n \in Nat /\ e \in Nat /\ j =< b /\ b < n /\ n =< e
               /\ \A c \in Blocks(H) : j < c /\ c < e <=> (c = b /\ j # b) \/ (c = n /\ n \in H.free)
               /\ \A c \in H.free \ {j} : After(H, c) # b /\ After(H, c) # j
<1>. DEFINE j == Joined(H, b)
            e == JoinedEnd(H, b)
            n == After(H, b)
<1>1. H.free \subseteq Blocks(H) /\ \A c \in Blocks(H) : After(H, c) \in Blocks(H) \cup {End(H)}
  BY DEF Shape
<1>2. \A c \in Blocks(H) : /\ c \in Nat /\ After(H, c) \in Nat /\ c < After(H, c) /\ After(H, c) =< End(H)
                           /\ End(H) \in Nat
  BY BlockLies DEF End
<1>3. \A c, d \in Blocks(H) : c # d => After(H, c) =< d \/ After(H, d) =< c
  BY BlocksApart
<1>4. \/ Before(H, b) = {} /\ j = b
      \/ Before(H, b) = {j} /\ j \in H.free /\ After(H, j) = b
  <2>1. CASE Before(H, b) = {}
    BY <2>1 DEF Joined
  <2>2. CASE Before(H, b) # {}
    <3>1. j \in Before(H, b)
      BY <2>2 DEF Joined
    <3>2. j \in H.free /\ After(H, j) = b
      BY <3>1 DEF Before
    <3>3. ASSUME NEW c \in Before(H, b) PROVE c = j
      <4>1. c \in Blocks(H) /\ j \in Blocks(H) /\ After(H, c) = b /\ After(H, j) = b
        BY <1>1, <3>2 DEF Before
      <4>. HIDE DEF j
      <4>. QED BY <1>2, <1>3, <4>1
    <3>. QED BY <3>1, <3>2, <3>3
  <2>. QED BY <2>1, <2>2
<1>5. \/ n \notin H.free /\ e = n
      \/ n \in H.free /\ e = After(H, n)
  BY DEF JoinedEnd
<1>. HIDE DEF j, e
<1>6. j \in Blocks(H) /\ j =< b /\ j \in Nat /\ b \in Nat /\ n \in Nat /\ b < n
  BY <1>1, <1>2, <1>4
<1>7. /\ e \in Blocks(H) \cup {End(H)} /\ e \notin H.free /\ e \in Nat /\ n =< e
  <2>1. CASE n \notin H.free /\ e = n
    BY <1>1, <1>6, <2>1
  <2>2. CASE n \in H.free /\ e = After(H, n)
    BY <1>1, <1>2, <2>2 DEF Tidy
  <2>. QED BY <1>5, <2>1, <2>2
<1>. HIDE DEF n
<1>8. ASSUME NEW c \in Blocks(H)
      PROVE  j < c /\ c < e <=> (c = b /\ j # b) \/ (c = n /\ n \in H.free)
  <2>1. ASSUME j < c, c < e PROVE (c = b /\ j # b) \/ (c = n /\ n \in H.free)
    <3>1. CASE c = b
      BY <1>6, <2>1, <3>1
    <3>2. CASE c # b /\ c < b
      <4>1. j # b
        BY <1>2, <1>6, <2>1, <3>2
      <4>2. After(H, j) = b
        BY <1>4, <4>1
      <4>3. After(H, j) =< c \/ After(H, c) =< j
        BY <1>3, <1>6, <2>1
      <4>. QED BY <1>2, <1>6, <2>1, <3>2, <4>2, <4>3
    <3>3. CASE c # b /\ ~(c < b)
      <4>1. After(H, b) =< c
        <5>1. After(H, b) =< c \/ After(H, c) =< b
          BY <1>3, <3>3
        <5>. QED BY <1>2, <3>3, <5>1
      <4>2. n =< c
        BY <4>1 DEF n
      <4>3. e # n
        BY <1>2, <1>6, <1>7, <2>1, <4>2
      <4>4. n \in H.free /\ e = After(H, n)
        BY <1>5, <4>3
      <4>5. c = n
        BY <1>1, <1>2, <1>3, <2>1, <4>2, <4>4
      <4>. QED BY <4>4, <4>5
    <3>. QED BY <3>1, <3>2, <3>3
  <2>2. ASSUME c = b, j # b PROVE j < c /\ c < e
    BY <1>6, <1>7, <2>2
  <2>3. ASSUME c = n, n \in H.free PROVE j < c /\ c < e
    BY <1>2, <1>5, <1>6, <2>3
  <2>. QED BY <2>1, <2>2, <2>3
<1>9. ASSUME NEW c \in H.free \ {j} PROVE After(H, c) # b /\ After(H, c) # j
  <2>1. After(H, c) # b
    BY <1>4 DEF Before
  <2>2. After(H, c) # j
    BY <1>4, <2>1 DEF Tidy
  <2>. QED BY <2>1, <2>2
<1>. QED BY <1>4, <1>5, <1>6, <1>7, <1>8, <1>9 DEF j, e, n

\* A free neighbour, if there is one, is taken off its list.
LEMMA DropIfHolds ==
    ASSUME NEW m, NEW H, Holds(m, H), NEW S, NEW b, S = {} \/ (S = {b} /\ OnList(H, b))
    PROVE  LET x == IF S = {} THEN m ELSE remove_from_free_lists(m, b)
               X == DroppedIf(H, S)
           IN  /\ Holds(x, X) /\ SamePayloads(m, x, H, {})
               /\ X.brk = H.brk /\ X.words = H.words /\ X.free = H.free
               /\ \A k \in Lists : \A c : InList(X, k, c) <=> InList(H, k, c) /\ c \notin S
<1>1. CASE S = {}
  <2>1. DroppedIf(H, S) = H
    BY <1>1 DEF DroppedIf
  <2>. QED BY <1>1, <2>1 DEF SamePayloads
<1>2. CASE S # {}
  <2>1. S = {b} /\ OnList(H, b)
    BY <1>2
  <2>2. (CHOOSE c \in S : TRUE) = b
    BY <2>1
  <2>3. DroppedIf(H, S) = Dropped(H, b)
    BY <1>2, <2>2 DEF DroppedIf
  <2>4. \A c : c \notin S <=> c # b
    BY <2>1
  <2>. QED BY <1>2, <2>1, <2>3, <2>4, Drop
<1>. QED BY <1>1, <1>2

\* Merging a block with nothing changes nothing.
LEMMA MergedAlone ==
    ASSUME NEW H, Shape(H), NEW b \in Blocks(H),
           H = [brk |-> H.brk, words |-> H.words, free |-> H.free, len |-> H.len, node |-> H.node]
    PROVE  Merged(H, b, H.words[b]) = H
<1>1. \A y \in Blocks(H) : ~(b < y /\ y < b + H.words[b])
  <2>. TAKE y \in Blocks(H)
  <2>1. /\ b \in Nat /\ y \in Nat /\ H.words[b] \in Nat /\ After(H, b) = b + H.words[b]
        /\ y + 4 =< After(H, y) /\ After(H, y) \in Nat
    BY BlockLies
  <2>2. CASE y = b
    BY <2>1, <2>2
  <2>3. CASE y # b
    <3>1. After(H, b) =< y \/ After(H, y) =< b
      BY <2>3, BlocksApart
    <3>. QED BY <2>1, <3>1
  <2>. QED BY <2>2, <2>3
<1>2. H.words = [x \in Blocks(H) |-> H.words[x]] /\ H.free \subseteq Blocks(H)
  BY DEF Shape
<1>3. {y \in Blocks(H) : ~(b < y /\ y < b + H.words[b])} = Blocks(H)
  BY <1>1
<1>4. {y \in H.free : ~(b < y /\ y < b + H.words[b])} = H.free
  BY <1>1, <1>2
<1>5. [x \in Blocks(H) |-> IF x = b THEN H.words[b] ELSE H.words[x]] = H.words
  BY <1>2
<1>. QED BY <1>3, <1>4, <1>5 DEF Merged

\* What coalease reads of its neighbours, when the block is marked free.
LEMMA CoaleaseReads ==
    ASSUME NEW m, NEW H, Holds(m, H), Tidy(H), NEW b \in Blocks(H), b \notin H.free
    PROVE  LET x == Unmark(m, b)
               j == Joined(H, b)
               n == After(H, b)
           IN  /\ Size(x, b) = 8 * H.words[b]
               /\ IsFree(Size(x, b - 1)) <=> Before(H, b) # {}
               /\ Before(H, b) # {} => Size(x, b - 1) = 8 * H.words[j]
               /\ IsFree(Size(x, n)) <=> n \in H.free
               /\ n \in H.free => Size(x, n) = 8 * H.words[n]
<1>. DEFINE x == Unmark(m, b)
            U == Unmarked(H, b)
            j == Joined(H, b)
            n == After(H, b)
<1>1. Holds(x, U)
  BY UnmarkHolds
<1>2. U.brk = H.brk /\ U.words = H.words /\ U.free = H.free \cup {b}
  BY DEF Unmarked
<1>. HIDE DEF x, U
<1>3. Shape(H) /\ (\A c : After(U, c) = After(H, c)) /\ Blocks(U) = Blocks(H)
  BY <1>2 DEF Holds, After, Blocks
<1>4. \A c \in Blocks(H) : /\ IsFree(SizeWord(U, c)) <=> c \in H.free \cup {b}
                           /\ c \in H.free \cup {b} => SizeWord(U, c) = 8 * H.words[c]
                           /\ Size(x, c) = SizeWord(U, c)
                           /\ Size(x, After(H, c) - 1) = SizeWord(U, c)
  <2>. TAKE c \in Blocks(H)
  <2>1. /\ Size(x, c) = SizeWord(U, c) /\ Read(x, After(H, c) - 1) = SizeWord(U, c)
        /\ IsFree(Size(x, c)) <=> c \in U.free
    BY <1>1, <1>3, TagsOf
  <2>2. H.words[c] \in Nat
    BY <1>3, BlockLies
  <2>. QED BY <1>2, <2>1, <2>2 DEF SizeWord, Size
<1>5. Size(x, b) = 8 * H.words[b]
  BY <1>4
<1>6. (\/ Before(H, b) = {} /\ j = b
       \/ Before(H, b) = {j} /\ j \in H.free /\ After(H, j) = b) /\ H.free \subseteq Blocks(H)
  BY <1>3, Neighbours DEF Shape
<1>7. /\ IsFree(Size(x, b - 1)) <=> Before(H, b) # {}
      /\ Before(H, b) # {} => Size(x, b - 1) = 8 * H.words[j]
  <2>1. CASE Before(H, b) # {}
    <3>1. j \in H.free /\ j \in Blocks(H) /\ After(H, j) = b
      BY <1>6, <2>1
    <3>. HIDE DEF j
    <3>. QED BY <1>4, <2>1, <3>1
  <2>2. CASE Before(H, b) = {} /\ b # FirstBlock
    <3>1. PICK c \in Blocks(H) : After(H, c) = b
      BY <1>3, <2>2 DEF Shape
    <3>2. c \notin H.free /\ c # b
      <4>1. c \notin H.free
        BY <2>2, <3>1 DEF Before
      <4>2. c + 4 =< After(H, c) /\ c \in Nat
        BY <1>3, BlockLies
      <4>. QED BY <3>1, <4>1, <4>2
    <3>. QED BY <1>4, <2>2, <3>1, <3>2
  <2>3. CASE Before(H, b) = {} /\ b = FirstBlock
    <3>0. FirstBlock \in Nat /\ FirstBlock + 3 =< mem_max_addr
      BY <1>3, Addresses DEF Shape
    <3>1. FirstBlock - 1 \in Address /\ IsMemory(x) /\ x.word[FirstBlock - 1] = 1
      <4>1. FirstBlock - 1 \in Address
        BY <3>0, Addresses
      <4>. QED BY <1>1, <4>1 DEF Holds, Tagged
    <3>2. Size(x, b - 1) = 1
      BY <2>3, <3>1, ReadIs DEF Size
    <3>. QED BY <2>3, <3>2 DEF IsFree
  <2>. QED BY <2>1, <2>2, <2>3
<1>8. /\ IsFree(Size(x, n)) <=> n \in H.free
      /\ n \in H.free => Size(x, n) = 8 * H.words[n]
  <2>1. CASE n \in H.free
    BY <1>4, <1>6, <2>1
  <2>2. CASE n \notin H.free
    <3>1. After(U, b) \notin U.free /\ b \in Blocks(U)
      <4>1. b + 4 =< n /\ b \in Nat
        BY <1>3, BlockLies
      <4>2. n # b
        BY <4>1
      <4>. QED BY <1>2, <1>3, <2>2, <4>2
    <3>2. ~IsFree(Size(x, After(U, b)))
      BY <1>1, <3>1, NotFreeAfter
    <3>. QED BY <1>3, <2>2, <3>2
  <2>. QED BY <2>1, <2>2
<1>. QED BY <1>5, <1>7, <1>8 DEF x, j, n

\* What coalease leaves of the freed block and of its free neighbours.
LEMMA CoaleaseHolds ==
    ASSUME NEW m, NEW H, Holds(m, H), Tidy(H), NEW b \in Blocks(H), b \notin H.free
    PROVE  /\ \E x : /\ coalease(Unmark(m, b), b) = [mem |-> x, head |-> Joined(H, b)]
                     /\ Holds(x, Merged(Unlisted(H, b), Joined(H, b), JoinedEnd(H, b) - Joined(H, b)))
                     /\ SamePayloads(m, x, H, {c \in Blocks(H) : Joined(H, b) =< c /\ c < JoinedEnd(H, b)})
           /\ Shape(Unlisted(H, b)) /\ Unlisted(H, b).brk = H.brk
           /\ Unlisted(H, b).words = H.words /\ Unlisted(H, b).free = H.free \cup {b}
           /\ \A k \in Lists : \A c :
                 InList(Unlisted(H, b), k, c) <=> InList(H, k, c) /\ c # After(H, b) /\ c # Joined(H, b)
<1>. DEFINE j == Joined(H, b)
            e == JoinedEnd(H, b)
            n == After(H, b)
            S == H.free \cap {n}
            T == Before(H, b)
            x1 == Unmark(m, b)
            U1 == Unmarked(H, b)
            x2 == IF S = {} THEN x1 ELSE remove_from_free_lists(x1, n)
            U2 == DroppedIf(U1, S)
            x3 == IF T = {} THEN x2 ELSE remove_from_free_lists(x2, j)
            U == Unlisted(H, b)
            D == {c \in Blocks(H) : j =< c /\ c < e}
            w == e - j
<1>0. /\ Shape(H) /\ Chained(H) /\ H.free \subseteq Blocks(H) /\ n \in Blocks(H) \cup {End(H)}
  BY DEF Holds, Shape
<1>1. /\ \/ T = {} /\ j = b
         \/ T = {j} /\ j \in H.free /\ After(H, j) = b
      /\ \/ n \notin H.free /\ e = n
         \/ n \in H.free /\ e = After(H, n)
      /\ j \in Blocks(H) /\ e \in Blocks(H) \cup {End(H)}
      /\ j \in Nat /\ b \in Nat /\ n \in Nat /\ e \in Nat /\ j =< b /\ b < n /\ n =< e
      /\ \A c \in Blocks(H) : j < c /\ c < e <=> (c = b /\ j # b) \/ (c = n /\ n \in H.free)
  BY <1>0, Neighbours
<1>2. Holds(x1, U1) /\ SamePayloads(m, x1, H, {})
  BY UnmarkHolds
<1>3. /\ U1.brk = H.brk /\ U1.words = H.words /\ U1.free = H.free \cup {b}
      /\ U1.len = H.len /\ U1.node = H.node
  BY DEF Unmarked
<1>15. U = DroppedIf(U2, T)
  BY DEF Unlisted
<1>. HIDE DEF j, e, n, x1, U1
<1>4. /\ \A k, c : InList(U1, k, c) <=> InList(H, k, c)
      /\ \A c \in H.free : OnList(H, c) /\ OnList(U1, c)
      /\ \A k \in Lists : ~InList(H, k, b)
  <2>1. \A k, c : InList(U1, k, c) <=> InList(H, k, c)
    BY <1>3 DEF InList
  <2>2. \A c \in Blocks(H) : OnList(H, c) <=> c \in H.free
    BY <1>0, TidyLists
  <2>3. ~OnList(H, b)
    BY <2>2
  <2>. QED BY <1>0, <2>1, <2>2, <2>3 DEF OnList
<1>5. /\ Holds(x2, U2) /\ SamePayloads(x1, x2, U1, {})
      /\ U2.brk = U1.brk /\ U2.words = U1.words /\ U2.free = U1.free
      /\ \A k \in Lists : \A c : InList(U2, k, c) <=> InList(U1, k, c) /\ c \notin S
  <2>1. S = {} \/ (S = {n} /\ OnList(U1, n))
    BY <1>4
  <2>. HIDE DEF S
  <2>. QED BY <1>2, <2>1, DropIfHolds
<1>. HIDE DEF x2, U2
<1>6. /\ Holds(x3, U) /\ SamePayloads(x2, x3, U2, {})
      /\ U.brk = U2.brk /\ U.words = U2.words /\ U.free = U2.free
      /\ \A k \in Lists : \A c : InList(U, k, c) <=> InList(U2, k, c) /\ c \notin T
  <2>1. T = {} \/ (T = {j} /\ OnList(U2, j))
    <3>1. CASE T = {}
      BY <3>1
    <3>2. CASE T = {j} /\ j \in H.free /\ After(H, j) = b
      <4>1. PICK i \in Lists : InList(H, i, j)
        BY <1>4, <3>2 DEF OnList
      <4>2. j \notin S
        <5>1. j # n
          BY <1>1
        <5>. QED BY <5>1
      <4>3. InList(U2, i, j)
        BY <1>4, <1>5, <4>1, <4>2
      <4>. QED BY <3>2, <4>3 DEF OnList
    <3>. QED BY <1>1, <3>1, <3>2
  <2>. HIDE DEF T, S, U
  <2>. QED BY <1>5, <1>15, <2>1, DropIfHolds
<1>7. /\ U.brk = H.brk /\ U.words = H.words /\ U.free = H.free \cup {b}
      /\ Blocks(U) = Blocks(H) /\ \A c : After(U, c) = After(H, c)
  BY <1>3, <1>5, <1>6 DEF Blocks, After
<1>8. \A k \in Lists : \A c : InList(U, k, c) <=> InList(H, k, c) /\ c # n /\ c # j
  <2>1. \A k \in Lists : \A c : InList(U, k, c) <=> InList(H, k, c) /\ c \notin S /\ c \notin T
    BY <1>4, <1>5, <1>6
  <2>2. ASSUME NEW k \in Lists, NEW c, InList(H, k, c)
        PROVE  c \notin S /\ c \notin T <=> c # n /\ c # j
    <3>1. c \in H.free /\ c # b
      <4>1. c \in Blocks(H)
        BY <1>0, <2>2, ListsOf DEF InList
      <4>2. OnList(H, c)
        BY <2>2 DEF OnList
      <4>3. c \in H.free
        BY <1>0, <4>1, <4>2, TidyLists
      <4>. QED BY <4>3
    <3>. HIDE DEF T
    <3>. QED BY <1>1, <3>1
  <2>. HIDE DEF S, T, U
  <2>. QED BY <2>1, <2>2
<1>9. SamePayloads(m, x3, H, {})
  <2>1. Blocks(U1) = Blocks(H) /\ \A c : After(U1, c) = After(H, c)
    BY <1>3 DEF Blocks, After
  <2>2. Blocks(U2) = Blocks(H) /\ \A c : After(U2, c) = After(H, c)
    BY <1>3, <1>5 DEF Blocks, After
  <2>. HIDE DEF x3
  <2>. QED BY <1>2, <1>5, <1>6, <2>1, <2>2 DEF SamePayloads
<1>10. Shape(U)
  BY <1>6 DEF Holds
<1>11. /\ Size(x1, b) = 8 * H.words[b] /\ IsFree(Size(x1, b))
       /\ Words(Size(x1, b)) = H.words[b] /\ n = b + H.words[b]
       /\ IsFree(Size(x1, b - 1)) <=> T # {}
       /\ T # {} => Size(x1, b - 1) = 8 * H.words[j] /\ b - Words(Size(x1, b - 1)) = j
       /\ IsFree(Size(x1, n)) <=> n \in H.free
       /\ n \in H.free => Size(x1, n) = 8 * H.words[n]
  <2>1. H.words[b] \in Nat /\ H.words[j] \in Nat /\ n = b + H.words[b]
    BY <1>0, <1>1, BlockLies DEF n
  <2>2. /\ Size(x1, b) = 8 * H.words[b]
        /\ IsFree(Size(x1, b - 1)) <=> T # {}
        /\ T # {} => Size(x1, b - 1) = 8 * H.words[j]
        /\ IsFree(Size(x1, n)) <=> n \in H.free
        /\ n \in H.free => Size(x1, n) = 8 * H.words[n]
    BY CoaleaseReads DEF n, j, x1
  <2>3. T # {} => b = j + H.words[j]
    BY <1>1 DEF After
  <2>4. Words(8 * H.words[b]) = H.words[b] /\ Words(8 * H.words[j]) = H.words[j] /\ IsFree(8 * H.words[b])
    BY <2>1, SizeWords
  <2>5. T # {} => b - H.words[j] = j
    BY <1>1, <2>1, <2>3
  <2>. HIDE DEF T
  <2>. QED BY <2>1, <2>2, <2>4, <2>5
<1>12. w \in Nat /\ j + w = e
  BY <1>1
<1>13. CASE T = {} /\ n \notin H.free
  <2>1. coalease(x1, b) = [mem |-> x1, head |-> b]
    <3>. HIDE DEF T
    <3>. QED BY <1>11, <1>13 DEF coalease
  <2>2. j = b /\ e = n /\ S = {}
    BY <1>1, <1>13
  <2>3. x3 = x1 /\ U = U1
    <3>. HIDE DEF T, S, U
    <3>. QED BY <1>13, <1>15, <2>2 DEF x2, U2, DroppedIf
  <2>4. Merged(U1, b, U1.words[b]) = U1
    <3>1. b \in Blocks(U1) /\ Shape(U1)
      BY <1>2, <1>3 DEF Blocks, Holds
    <3>2. U1 = [brk |-> U1.brk, words |-> U1.words, free |-> U1.free, len |-> U1.len, node |-> U1.node]
      BY DEF U1, Unmarked
    <3>. QED BY <3>1, <3>2, MergedAlone
  <2>5. w = U1.words[b]
    <3>1. H.words[b] \in Nat
      BY <1>0, BlockLies
    <3>. QED BY <1>1, <1>3, <1>11, <2>2, <3>1
  <2>6. Merged(U, j, w) = U1
    BY <2>2, <2>3, <2>4, <2>5
  <2>7. SamePayloads(m, x1, H, D)
    BY <1>2 DEF SamePayloads
  <2>. HIDE DEF U, T, S, w, D
  <2>8. coalease(x1, b) = [mem |-> x1, head |-> j] /\ Holds(x1, Merged(U, j, w))
    BY <1>2, <2>1, <2>2, <2>6
  <2>. QED BY <1>7, <1>8, <1>10, <2>7, <2>8 DEF U, U2, T, S, U1, w, n, j, e, x1, D
<1>14. CASE ~(T = {} /\ n \notin H.free)
  <2>. DEFINE x == SetBlock(x3, j, 8 * w)
  <2>1. coalease(x1, b) = [mem |-> x, head |-> j]
    <3>1. H.words[b] \in Nat /\ H.words[j] \in Nat /\ (n \in H.free => H.words[n] \in Nat /\ e = n + H.words[n])
      <4>1. H.words[b] \in Nat /\ H.words[j] \in Nat
        BY <1>0, <1>1, BlockLies
      <4>2. n \in H.free => H.words[n] \in Nat /\ After(H, n) = n + H.words[n]
        BY <1>0, BlockLies
      <4>. QED BY <1>1, <4>1, <4>2
    <3>2. T # {} => b = j + H.words[j]
      BY <1>1 DEF After
    <3>3. T = {} => j = b
      BY <1>1
    <3>4. n \notin H.free => e = n
      BY <1>1
    <3>5. 8 * w = 8 * H.words[b] + (IF T # {} THEN 8 * H.words[j] ELSE 0)
                     + (IF n \in H.free THEN 8 * H.words[n] ELSE 0)
      <4>. HIDE DEF T
      <4>1. CASE T # {} /\ n \in H.free
        BY <1>1, <1>11, <3>1, <3>2, <4>1
      <4>2. CASE T = {} /\ n \in H.free
        BY <1>1, <1>11, <3>1, <3>3, <4>2
      <4>3. CASE T # {} /\ n \notin H.free
        BY <1>1, <1>11, <3>1, <3>2, <3>4, <4>3
      <4>4. CASE T = {} /\ n \notin H.free
        BY <1>14, <4>4
      <4>. QED BY <4>1, <4>2, <4>3, <4>4
    <3>6. S = {} <=> n \notin H.free
      OBVIOUS
    <3>. DEFINE after == IF IsFree(Size(x1, n)) THEN remove_from_free_lists(x1, n) ELSE x1
                before == IF IsFree(Size(x1, b - 1))
                          THEN remove_from_free_lists(after, b - Words(Size(x1, b - 1))) ELSE after
                joined == IF IsFree(Size(x1, b - 1)) THEN b - Words(Size(x1, b - 1)) ELSE b
                new_size == Size(x1, b) + (IF IsFree(Size(x1, b - 1)) THEN Size(x1, b - 1) ELSE 0)
                                + (IF IsFree(Size(x1, n)) THEN Size(x1, n) ELSE 0)
    <3>7. coalease(x1, b) = [mem |-> SetBlock(before, joined, new_size), head |-> joined]
      <4>. HIDE DEF T
      <4>. QED BY <1>11, <1>14 DEF coalease
    <3>8. after = x2
      <4>. HIDE DEF S
      <4>. QED BY <1>11, <3>6 DEF x2
    <3>9. before = x3 /\ joined = j
      <4>. HIDE DEF after, T
      <4>. QED BY <1>11, <3>3, <3>8
    <3>10. new_size = 8 * w
      <4>. HIDE DEF T, w
      <4>. QED BY <1>11, <3>5
    <3>. HIDE DEF before, joined, new_size, w, x3
    <3>. QED BY <3>7, <3>9, <3>10
  <2>2. Holds(x, Merged(U, j, w)) /\ SamePayloads(x3, x, U, {c \in Blocks(U) : j =< c /\ c < j + w})
    <3>1. j \in U.free /\ U.words[j] =< w /\ j + w \in Blocks(U) \cup {End(U)}
      <4>1. j \in H.free \cup {b}
        BY <1>1
      <4>2. End(U) = End(H)
        BY <1>7 DEF End
      <4>3. After(H, j) = j + H.words[j] /\ H.words[j] \in Nat /\ After(H, j) =< e /\ e \in Nat
        <5>1. After(H, j) = j + H.words[j] /\ H.words[j] \in Nat
          BY <1>0, <1>1, BlockLies
        <5>2. After(H, j) =< e
          <6>1. CASE j = b
            BY <1>1, <6>1 DEF n
          <6>2. CASE After(H, j) = b
            BY <1>1, <6>2
          <6>. QED BY <1>1, <6>1, <6>2
        <5>. QED BY <1>1, <5>1, <5>2
      <4>. HIDE DEF U
      <4>. QED BY <1>1, <1>7, <1>12, <4>1, <4>2, <4>3
    <3>2. \A c \in Blocks(U) : OnList(U, c) => ~(j < c /\ c < j + w)
      <4>. SUFFICES ASSUME NEW c \in Blocks(H), OnList(U, c), j < c, c < e PROVE FALSE
        BY <1>7, <1>12
      <4>1. c = b \/ c = n
        BY <1>1
      <4>2. c # n /\ (\E k \in Lists : InList(H, k, c))
        BY <1>8 DEF OnList
      <4>. QED BY <1>4, <4>1, <4>2
    <3>. HIDE DEF U, x3, w
    <3>. QED BY <1>6, <1>12, <3>1, <3>2, MergedHolds
  <2>3. SamePayloads(m, x, H, D)
    <3>1. {c \in Blocks(U) : j =< c /\ c < j + w} = D
      BY <1>7, <1>12
    <3>2. SamePayloads(x3, x, U, D)
      <4>. HIDE DEF U, x, x3, D, w
      <4>. QED BY <2>2, <3>1
    <3>. HIDE DEF x, x3, U, D, w
    <3>. QED BY <1>7, <1>9, <3>2 DEF SamePayloads
  <2>. HIDE DEF x, U, T, S, w, D
  <2>. QED BY <1>7, <1>8, <1>10, <2>1, <2>2, <2>3 DEF U, U2, T, S, U1, w, n, j, e, x1, D
<1>. QED BY <1>13, <1>14

LEMMA FreeHolds ==
    ASSUME NEW m, NEW H, Holds(m, H), Tidy(H), NEW b \in Blocks(H), b \notin H.free
    PROVE  LET x == mm_free(m, b + 3)
               X == AfterFree(H, b)
               S == H.free \cup {b}
           IN  /\ Holds(x, X) /\ Tidy(X) /\ SamePayloads(m, x, H, S) /\ Spares(H, X, S)
               /\ X.brk = H.brk
<1>. DEFINE j == Joined(H, b)
            e == JoinedEnd(H, b)
            n == After(H, b)
            U == Unlisted(H, b)
            M == Merged(U, j, e - j)
            x == mm_free(m, b + 3)
            X == AfterFree(H, b)
            S == H.free \cup {b}
            D == {c \in Blocks(H) : j =< c /\ c < e}
<1>0. Shape(H) /\ Chained(H) /\ H.free \subseteq Blocks(H)
  BY DEF Holds, Shape
<1>1. /\ j = b \/ (j \in H.free /\ After(H, j) = b)
      /\ n \in H.free => e # n
      /\ j \in Blocks(H) /\ e \in Blocks(H) \cup {End(H)} /\ e \notin H.free
      /\ j \in Nat /\ b \in Nat /\ n \in Nat /\ e \in Nat /\ j =< b /\ b < n /\ n =< e
      /\ \A c \in Blocks(H) : j < c /\ c < e <=> (c = b /\ j # b) \/ (c = n /\ n \in H.free)
      /\ \A c \in H.free \ {j} : After(H, c) # b /\ After(H, c) # j
  BY <1>0, Neighbours
<1>2. PICK y : /\ coalease(Unmark(m, b), b) = [mem |-> y, head |-> j]
               /\ Holds(y, M) /\ SamePayloads(m, y, H, D)
               /\ Shape(U) /\ U.brk = H.brk /\ U.words = H.words /\ U.free = H.free \cup {b}
               /\ \A k \in Lists : \A c : InList(U, k, c) <=> InList(H, k, c) /\ c # n /\ c # j
  BY CoaleaseHolds
<1>3. x = add_to_free_lists(y, j)
  <2>1. b + 3 # NULL /\ (b + 3) - 3 = b
    BY <1>1 DEF NULL
  <2>. HIDE DEF j
  <2>. QED BY <1>2, <2>1 DEF mm_free
<1>4. X = Pushed(M, j)
  BY DEF AfterFree
<1>5. Blocks(U) = Blocks(H) /\ End(U) = End(H) /\ \A c : After(U, c) = After(H, c)
  BY <1>2 DEF Blocks, End, After
<1>. HIDE DEF U, j, e, n, X, x
<1>6. After(H, j) = j + H.words[j] /\ H.words[j] \in Nat /\ After(H, j) =< e
  <2>1. After(H, j) = j + H.words[j] /\ H.words[j] \in Nat
    BY <1>0, <1>1, BlockLies
  <2>2. CASE j = b
    BY <1>1, <2>1, <2>2 DEF n
  <2>3. CASE After(H, j) = b
    BY <1>1, <2>1, <2>3
  <2>. QED BY <1>1, <2>1, <2>2, <2>3
<1>7. /\ M.brk = H.brk
      /\ Blocks(M) = {c \in Blocks(H) : ~(j < c /\ c < e)} /\ j \in Blocks(M)
      /\ After(M, j) = e
      /\ \A c \in Blocks(M) \ {j} : M.words[c] = H.words[c] /\ After(M, c) = After(H, c)
      /\ M.free = {c \in H.free \cup {b} : ~(j < c /\ c < e)}
      /\ M.len = U.len /\ M.node = U.node
  <2>. DEFINE w == e - j
  <2>1. w \in Nat /\ H.words[j] =< w /\ j + w = e
    BY <1>1, <1>6
  <2>2. M = Merged(U, j, w)
    OBVIOUS
  <2>. HIDE DEF w, M
  <2>3. /\ M.brk = U.brk
        /\ Blocks(M) = {c \in Blocks(U) : ~(j < c /\ c < j + w)} /\ j \in Blocks(M)
        /\ After(M, j) = j + w
        /\ \A c \in Blocks(M) \ {j} : M.words[c] = U.words[c] /\ After(M, c) = After(U, c)
        /\ M.free = {c \in U.free : ~(j < c /\ c < j + w)}
        /\ M.len = U.len /\ M.node = U.node
    <3>1. j \in Blocks(U) /\ U.words[j] =< w /\ j + w \in Blocks(U) \cup {End(U)}
      BY <1>1, <1>2, <1>5, <2>1
    <3>. QED BY <1>2, <2>1, <2>2, <3>1, MergedShape
  <2>. QED BY <1>2, <1>5, <2>1, <2>3
<1>. HIDE DEF M
<1>8. /\ \A k, c : InList(M, k, c) <=> InList(U, k, c)
      /\ j \in M.free /\ ~OnList(M, j)
  <2>1. \A k, c : InList(M, k, c) <=> InList(U, k, c)
    BY <1>7 DEF InList
  <2>2. j \in M.free
    BY <1>1, <1>7
  <2>. QED BY <1>2, <2>1, <2>2 DEF OnList
<1>9. /\ Holds(x, X) /\ SamePayloads(y, x, M, {})
      /\ X.brk = M.brk /\ X.words = M.words /\ X.free = M.free
      /\ \A k \in Lists : \A c : InList(X, k, c) <=> InList(M, k, c) \/ (k = ListOf(M.words[j]) /\ c = j)
  BY <1>2, <1>3, <1>4, <1>8, Push
<1>10. /\ Blocks(X) = Blocks(M) /\ After(X, j) = e
       /\ \A c \in Blocks(M) \ {j} : X.words[c] = H.words[c] /\ After(X, c) = After(H, c)
  BY <1>7, <1>9 DEF Blocks, After
<1>11. /\ \A c \in X.free : c = j \/ (c \in H.free /\ c \in Blocks(M) /\ c # j)
       /\ X.free \subseteq H.free \cup {b}
       /\ \A c \in Blocks(X) \ {j} : (c \in X.free <=> c \in H.free) /\ (c = n => c \notin H.free)
  <2>1. ASSUME NEW c \in Blocks(M), c # j
        PROVE  c # b /\ c \in Blocks(H) /\ ~(j < c /\ c < e) /\ (c = n => c \notin H.free)
    BY <1>1, <1>7, <2>1
  <2>2. ASSUME NEW c \in M.free PROVE c \in Blocks(M)
    BY <1>0, <1>7
  <2>. QED BY <1>7, <1>9, <1>10, <2>1, <2>2
<1>12. Tidy(X)
  <2>1. ASSUME NEW c \in X.free PROVE After(X, c) \notin X.free
    <3>1. CASE c = j
      <4>1. e # b
        BY <1>1
      <4>. QED BY <1>1, <1>10, <1>11, <3>1, <4>1
    <3>2. CASE c # j
      <4>1. c \in H.free \ {j} /\ After(X, c) = After(H, c)
        BY <1>10, <1>11, <3>2
      <4>2. After(H, c) \notin H.free
        BY <4>1 DEF Tidy
      <4>3. After(H, c) # b
        BY <1>1, <4>1
      <4>. QED BY <1>11, <4>1, <4>2, <4>3
    <3>. QED BY <3>1, <3>2
  <2>2. ASSUME NEW c \in Blocks(X), NEW i \in Lists
        PROVE  InList(X, i, c) <=> c \in X.free /\ ListOf(X.words[c]) = i
    <3>1. InList(X, i, c) <=> (InList(H, i, c) /\ c # n /\ c # j) \/ (i = ListOf(X.words[j]) /\ c = j)
      BY <1>2, <1>8, <1>9
    <3>2. CASE c = j
      BY <1>8, <1>9, <3>1, <3>2
    <3>3. CASE c # j
      <4>1. c \in Blocks(H) /\ X.words[c] = H.words[c]
        BY <1>7, <1>10, <3>3
      <4>2. InList(H, i, c) <=> c \in H.free /\ ListOf(H.words[c]) = i
        BY <4>1 DEF Tidy
      <4>. QED BY <1>11, <3>1, <3>3, <4>1, <4>2
    <3>. QED BY <3>2, <3>3
  <2>. QED BY <2>1, <2>2 DEF Tidy
<1>13. ASSUME NEW c \in Blocks(H) \ S
       PROVE  c \in Blocks(M) /\ c # j /\ c \notin D /\ After(M, c) = After(H, c)
  <2>1. c # b /\ c \notin H.free /\ c # j /\ ~(j < c /\ c < e) /\ c \in Nat
    BY <1>0, <1>1, BlockLies
  <2>2. c \notin D
    BY <1>1, <2>1
  <2>. QED BY <1>7, <2>1, <2>2
<1>14. Spares(H, X, S)
  BY <1>10, <1>11, <1>13 DEF Spares
<1>15. SamePayloads(m, x, H, S)
  <2>. HIDE DEF S, D
  <2>. QED BY <1>2, <1>9, <1>13 DEF SamePayloads
<1>. QED BY <1>7, <1>9, <1>12, <1>14, <1>15 DEF X, x, S

-----------------------------------------------------------------------------
(* realloc.                                                                *)

\* The words of a payload say nothing about the heap.
LEMMA PayloadWritten ==
    ASSUME NEW m, NEW H, Holds(m, H), NEW b \in Blocks(H),
           NEW x, IsMemory(x), x.brk = m.brk,
           \A a \in Address : x.word[a] = m.word[a] \/ a \in b + 3 .. After(H, b) - 2
    PROVE  Holds(x, H) /\ SamePayloads(m, x, H, {b})
<1>0. Shape(H) /\ Chained(H) /\ IsMemory(m) /\ m.brk = H.brk /\ Tagged(m, H) /\ Linked(m, H)
  BY DEF Holds
<1>1. \A c \in Blocks(H) : /\ c \in Nat /\ After(H, c) \in Nat
                           /\ c + 4 =< After(H, c) /\ FirstBlock =< c /\ After(H, c) =< End(H)
                           /\ c \in Address /\ After(H, c) - 1 \in Address
                           /\ \A a \in c + 3 .. After(H, c) - 2 : a \in Address
                           /\ c + 1 \in Address /\ c + 2 \in Address
  BY <1>0, BlockLies, Addresses
<1>2. \A c \in Blocks(H) \ {b} : After(H, c) =< b \/ After(H, b) =< c
  BY <1>0, BlocksApart
<1>3. /\ End(H) \in Address /\ FirstBlock - 1 \in Address /\ End(H) \in Nat /\ FirstBlock \in Nat
      /\ After(H, b) =< End(H) /\ FirstBlock =< b
  <2>1. End(H) \in Address /\ FirstBlock \in Nat /\ FirstBlock - 1 \in Address /\ End(H) \in Nat
    BY <1>0, Addresses DEF Shape, End
  <2>. QED BY <1>1, <2>1
<1>4. Tagged(x, H)
  <2>1. ASSUME NEW c \in Blocks(H)
        PROVE  c \notin b + 3 .. After(H, b) - 2 /\ After(H, c) - 1 \notin b + 3 .. After(H, b) - 2
    <3>1. CASE c = b
      BY <1>1, <3>1
    <3>2. CASE c # b
      BY <1>1, <1>2, <3>2
    <3>. QED BY <3>1, <3>2
  <2>2. End(H) \notin b + 3 .. After(H, b) - 2 /\ FirstBlock - 1 \notin b + 3 .. After(H, b) - 2
    BY <1>1, <1>3
  <2>. QED BY <1>0, <1>1, <1>3, <2>1, <2>2 DEF Tagged
<1>5. Linked(x, H)
  <2>1. ASSUME NEW i \in Lists, NEW j \in 0 .. H.len[i]
        PROVE  LET n == H.node[i][j]
               IN  x.word[n + 1] = m.word[n + 1] /\ x.word[n + 2] = m.word[n + 2]
    <3>. DEFINE n == H.node[i][j]
    <3>1. H.len[i] \in Nat /\ H.node[i][0] = ListHead(i) /\ (j # 0 => n \in Blocks(H))
      BY <1>0, ListsOf
    <3>. HIDE DEF n
    <3>4. \A a \in {n + 1, n + 2} : a \in Address /\ a \notin b + 3 .. After(H, b) - 2
      <4>1. CASE j # 0 /\ n = b
        BY <1>1, <3>1, <4>1
      <4>2. CASE j # 0 /\ n # b
        <5>1. n \in Blocks(H) /\ (After(H, n) =< b \/ After(H, b) =< n)
          BY <1>2, <3>1, <4>2
        <5>. QED BY <1>1, <5>1
      <4>3. CASE j = 0
        <5>1. n = ListHead(i)
          BY <3>1, <4>3 DEF n
        <5>2. n \in Nat /\ n + 3 < FirstBlock /\ n + 1 \in Address /\ n + 2 \in Address
          <6>1. n \in Nat /\ mem_start_brk =< n /\ n + 3 < FirstBlock /\ mem_start_brk \in Nat
            BY <5>1, Addresses
          <6>2. FirstBlock < mem_max_addr /\ mem_max_addr \in Nat
            <7>1. b \in Address
              BY <1>1
            <7>. QED BY <1>3, <7>1, Addresses
          <6>. QED BY <1>3, <6>1, <6>2, Addresses
        <5>. QED BY <1>1, <1>3, <5>2
      <4>. QED BY <4>1, <4>2, <4>3
    <3>. QED BY <3>4 DEF n
  <2>. QED BY <1>0, <2>1, LinkedKept
<1>6. SamePayloads(m, x, H, {b})
  <2>1. ASSUME NEW c \in Blocks(H) \ {b}, NEW a \in c + 3 .. After(H, c) - 2
        PROVE  x.word[a] = m.word[a]
    BY <1>1, <1>2
  <2>. QED BY <2>1 DEF SamePayloads
<1>. QED BY <1>0, <1>4, <1>5, <1>6 DEF Holds

\* Growing the last block: the heap grows by what the block does.
LEMMA ExtendHolds ==
    ASSUME NEW m, NEW H, Holds(m, H), Tidy(H), NEW b \in Blocks(H), b \notin H.free,
           After(H, b) = End(H), NEW w \in Nat, H.words[b] < w,
           H.brk + w - H.words[b] =< mem_max_addr
    PROVE  LET X == Extended(H, b, w - H.words[b])
           IN  /\ \E x : /\ ExtendLast(m, b, 8 * w, 8 * w - 8 * H.words[b]) = Returns(x, b + 3)
                         /\ Holds(x, X) /\ SamePayloads(m, x, H, {})
               /\ Tidy(X) /\ Spares(H, X, {b}) /\ b \in Blocks(X) /\ b \notin X.free /\ X.words[b] = w
<1>. DEFINE d == w - H.words[b]
            X == Extended(H, b, d)
<1>1. Shape(H) /\ Chained(H)
  BY DEF Holds
<1>2. H.words[b] \in Nat /\ b # End(H) /\ H.brk \in Nat
  BY <1>1, BlockLies DEF Shape
<1>3. d \in Nat /\ IsLast(H, b) /\ H.brk + d =< mem_max_addr /\ H.words[b] + d = w
  <2>1. mem_max_addr \in Nat
    BY Addresses
  <2>. QED BY <1>2, <2>1 DEF IsLast
<1>4. PICK x : /\ ExtendLast(m, b, 8 * w, 8 * w - 8 * H.words[b]) = Returns(x, b + 3)
               /\ Holds(x, X) /\ SamePayloads(m, x, H, {})
  BY ExtendLastHolds
<1>. HIDE DEF d
<1>5. Tidy(X) /\ Spares(H, X, {b}) /\ b \in Blocks(X) /\ b \notin X.free
  BY <1>1, <1>2, <1>3, ExtendedTidy
<1>6. X.words[b] = w
  <2>1. X.words[b] = (IF b = End(H) THEN d ELSE H.words[b] + d)
    BY <1>1, <1>2, <1>3, ExtendedShape
  <2>. QED BY <1>2, <1>3, <2>1
<1>. HIDE DEF X
<1>. QED BY <1>4, <1>5, <1>6 DEF X, d

\* mem_sbrk fails, which mm_realloc does not notice: the block it gives ends
\* beyond the heap.
LEMMA ExtendFails ==
    ASSUME NEW m, NEW H, Holds(m, H), NEW b \in Blocks(H), After(H, b) = End(H),
           NEW w \in Nat, H.words[b] < w, H.brk + w - H.words[b] > mem_max_addr
    PROVE  LET call == ExtendLast(m, b, 8 * w, 8 * w - 8 * H.words[b])
           IN  /\ IsMemory(call.mem) /\ call.mem.brk = H.brk /\ call.p = b + 3
               /\ call.ends \in {{"returns"}, {"returns", "crashes"}}
<1>. DEFINE e == End(H)
            d == w - H.words[b]
            freed == SetSize(m, e, BLK_HDR_SIZE)
            block == SetBlock(freed, b, 8 * w + 1)
            x == SetEpilogue(block)
<1>1. Shape(H) /\ IsMemory(m) /\ m.brk = H.brk
  BY DEF Holds
<1>2. H.words[b] \in Nat /\ H.brk \in Nat /\ b \in Nat /\ d \in Nat
  BY <1>1, BlockLies
<1>3. IsMemory(freed) /\ freed.brk = m.brk
  <2>1. BLK_HDR_SIZE \in Nat
    BY DEF BLK_HDR_SIZE
  <2>. QED BY <1>1, <2>1, WriteIs DEF SetSize
<1>. HIDE DEF freed
<1>4. IsMemory(block) /\ block.brk = m.brk
  <2>1. 8 * w + 1 \in Nat
    OBVIOUS
  <2>2. LET y == SetSize(freed, b, 8 * w + 1) IN IsMemory(y) /\ y.brk = m.brk
    BY <1>3, <2>1, WriteIs DEF SetSize
  <2>. QED BY <2>1, <2>2, WriteIs DEF SetBlock, SetSize
<1>. HIDE DEF block
<1>5. IsMemory(x) /\ x.brk = m.brk
  <2>. DEFINE g == GET_EPILOGUE(block)
  <2>1. g \in Nat /\ BLK_HDR_SIZE + 1 \in Nat
    <3>1. e \in Nat
      BY <1>1, BlockLies DEF End
    <3>2. g = e
      BY <1>1, <1>2, <1>4 DEF GET_EPILOGUE, mem_heap_hi, End
    <3>. QED BY <3>1, <3>2 DEF BLK_HDR_SIZE
  <2>. HIDE DEF g
  <2>2. LET y == SetPriorP(block, g, g) IN IsMemory(y) /\ y.brk = m.brk
    BY <1>4, <2>1, WriteIs DEF SetPriorP
  <2>3. LET y == SetNextP(SetPriorP(block, g, g), g, g) IN IsMemory(y) /\ y.brk = m.brk
    BY <2>1, <2>2, WriteIs DEF SetNextP
  <2>4. LET y == SetSize(SetNextP(SetPriorP(block, g, g), g, g), g, BLK_HDR_SIZE + 1)
        IN  IsMemory(y) /\ y.brk = m.brk
    BY <2>1, <2>3, WriteIs DEF SetSize
  <2>5. x = SetSize(SetNextP(SetPriorP(block, g, g), g, g), g, BLK_HDR_SIZE + 1)
    BY DEF SetEpilogue, g
  <2>. QED BY <2>4, <2>5
<1>. HIDE DEF x
<1>6. ExtendLast(m, b, 8 * w, 8 * w - 8 * H.words[b]) =
        [mem |-> x, p |-> b + 3,
         ends |-> IF b + w - 1 \in Address THEN {"returns"} ELSE {"returns", "crashes"}]
  <2>1. GET_EPILOGUE(m) = e
    BY <1>1, <1>2 DEF GET_EPILOGUE, mem_heap_hi, End
  <2>2. Words(8 * w - 8 * H.words[b]) = d /\ Words(8 * w) = w
    <3>1. 8 * w - 8 * H.words[b] = 8 * d
      BY <1>2
    <3>. HIDE DEF d
    <3>. QED BY <1>2, <3>1, SizeWords
  <2>3. ~CanGrow(m, d)
    <3>1. H.brk + d > mem_max_addr
      BY <1>2, Addresses
    <3>2. H.brk + d \in Nat /\ mem_max_addr \in Nat
      BY <1>2, Addresses
    <3>. QED BY <1>1, <3>1, <3>2 DEF CanGrow
  <2>. QED BY <2>1, <2>2, <2>3 DEF ExtendLast, x, block, freed
<1>. QED BY <1>1, <1>5, <1>6

LEMMA MallocHolds ==
    ASSUME NEW m, NEW H, Holds(m, H), Tidy(H), NEW size \in Nat, size # 0
    PROVE  LET w == Need(size)
               X == AfterMalloc(H, w)
               g == MallocGives(H, w)
           IN  IF MallocFails(H, w)
               THEN \E x : /\ mm_malloc(m, size) = Crashes(x)
                           /\ IsMemory(x) /\ x.brk = H.brk
                           /\ \A b \in Blocks(H) : Size(x, b) = SizeWord(H, b)
                           /\ \A b \in H.free : H.words[b] < w
               ELSE /\ \E x : /\ mm_malloc(m, size) = Returns(x, g + 3)
                              /\ Holds(x, X) /\ SamePayloads(m, x, H, {g})
                    /\ Tidy(X) /\ Spares(H, X, {g})
                    /\ g \in H.free \/ g \notin Blocks(H)
                    /\ g \in Blocks(X) /\ g \notin X.free /\ w =< X.words[g] /\ X.words[g] =< w + 9
<1>. DEFINE w == Need(size)
<1>1. w \in Nat /\ 4 =< w /\ ALIGN(size + BLK_HDR_FTR_SIZE) = 8 * w
  BY NeedIs
<1>. HIDE DEF w
<1>2. mm_malloc(m, size) = Allocate(m, 8 * w, find_fit(m, 8 * w))
  BY <1>1 DEF mm_malloc
<1>3. CASE MallocFails(H, w)
  BY <1>1, <1>2, <1>3, AllocateCrashes DEF w
<1>4. CASE ~MallocFails(H, w)
  BY <1>1, <1>2, <1>4, AllocateHolds DEF w
<1>. QED BY <1>3, <1>4

\* The payload is copied to a new block and the old one is freed.
LEMMA MoveHolds ==
    ASSUME NEW m, NEW H, Holds(m, H), Tidy(H), NEW b \in Blocks(H), b \notin H.free,
           NEW size \in Nat, size # 0, H.words[b] + 4 =< Need(size), ~MallocFails(H, Need(size))
    PROVE  LET w == Need(size)
               X == AfterFree(AfterMalloc(H, w), b)
               g == MallocGives(H, w)
           IN  /\ \E x : /\ MoveBlock(m, b + 3, size, 8 * H.words[b]) = Returns(x, g + 3)
                         /\ Holds(x, X) /\ SamePayloads(m, x, H, H.free \cup {b})
                         /\ \A k \in 0 .. H.words[b] - 5 : x.word[g + 3 + k] = m.word[b + 3 + k]
               /\ Tidy(X) /\ Spares(H, X, H.free \cup {b})
               /\ g \in H.free \/ g \notin Blocks(H)
               /\ g \in Blocks(X) /\ g \notin X.free /\ w =< X.words[g] /\ X.words[g] =< w + 9
<1>. DEFINE w == Need(size)
            Y == AfterMalloc(H, w)
            X == AfterFree(Y, b)
            g == MallocGives(H, w)
            S == H.free \cup {b}
            v == H.words[b]
<1>0. Shape(H) /\ H.free \subseteq Blocks(H)
  BY DEF Holds, Shape
<1>1. PICK y : /\ mm_malloc(m, size) = Returns(y, g + 3)
               /\ Holds(y, Y) /\ SamePayloads(m, y, H, {g})
  BY MallocHolds
<1>2. /\ Tidy(Y) /\ Spares(H, Y, {g})
      /\ g \in H.free \/ g \notin Blocks(H)
      /\ g \in Blocks(Y) /\ g \notin Y.free /\ w =< Y.words[g] /\ Y.words[g] =< w + 9
  BY MallocHolds
<1>3. w \in Nat
  BY NeedIs
<1>. HIDE DEF w, Y, g, X
<1>4. b # g /\ b \in Blocks(Y) /\ b \notin Y.free /\ Y.words[b] = v /\ After(Y, b) = After(H, b)
  <2>1. b # g
    BY <1>2
  <2>. QED BY <1>2, <2>1 DEF Spares, After
<1>5. /\ Shape(Y) /\ IsMemory(y) /\ y.brk = Y.brk
      /\ b \in Nat /\ v \in Nat /\ After(H, b) = b + v
      /\ g \in Nat /\ Y.words[g] \in Nat /\ After(Y, g) = g + Y.words[g]
      /\ b .. After(H, b) + 2 \subseteq Address
      /\ g .. After(Y, g) + 2 \subseteq Address
  <2>1. Shape(Y) /\ IsMemory(y) /\ y.brk = Y.brk
    BY <1>1 DEF Holds
  <2>2. b \in Nat /\ v \in Nat /\ After(H, b) = b + v /\ b .. After(H, b) + 2 \subseteq Address
    BY <1>0, BlockLies
  <2>3. /\ g \in Nat /\ Y.words[g] \in Nat /\ After(Y, g) = g + Y.words[g]
        /\ g .. After(Y, g) + 2 \subseteq Address
    BY <1>2, <2>1, BlockLies
  <2>. QED BY <2>1, <2>2, <2>3
<1>6. v + 4 =< Y.words[g]
  <2>1. v + 4 =< w
    BY DEF w
  <2>. QED BY <1>2, <1>3, <1>5, <2>1
<1>. DEFINE z == CopyWords(y, g + 3, b + 3, v)
            x == mm_free(z, b + 3)
<1>. HIDE DEF v
<1>7. /\ IsMemory(z) /\ z.brk = y.brk
      /\ \A a \in Address : z.word[a] = IF a \in g + 3 .. g + 3 + v - 1
                                        THEN Read(y, b + 3 + (a - (g + 3))) ELSE y.word[a]
  <2>. DEFINE word == [a \in Address |-> IF a \in g + 3 .. g + 3 + v - 1
                                         THEN Read(y, b + 3 + (a - (g + 3))) ELSE y.word[a]]
  <2>1. z = [brk |-> y.brk, word |-> word]
    BY <1>5 DEF CopyWords, IsMemory
  <2>2. \A a \in Address : /\ word[a] \in Nat
                           /\ word[a] = IF a \in g + 3 .. g + 3 + v - 1
                                        THEN Read(y, b + 3 + (a - (g + 3))) ELSE y.word[a]
    <3>1. \A a \in Address : Read(y, b + 3 + (a - (g + 3))) \in Nat /\ y.word[a] \in Nat
      BY <1>5, ReadIs DEF IsMemory
    <3>. QED BY <3>1
  <2>3. word \in [Address -> Nat]
    BY <2>2
  <2>. HIDE DEF word, z
  <2>4. z.brk = y.brk /\ z.word = word
    BY <2>1
  <2>. QED BY <2>1, <2>2, <2>3, <2>4 DEF IsMemory
<1>. HIDE DEF z
<1>8. Holds(z, Y) /\ SamePayloads(y, z, Y, {g})
  <2>1. \A a \in Address : z.word[a] = y.word[a] \/ a \in g + 3 .. After(Y, g) - 2
    <3>1. \A a \in Int : a \in g + 3 .. g + 3 + v - 1 => a \in g + 3 .. After(Y, g) - 2
      BY <1>5, <1>6
    <3>2. \A a \in Address : a \in Int
      BY Addresses
    <3>. QED BY <1>7, <3>1, <3>2
  <2>. QED BY <1>1, <1>2, <1>7, <2>1, PayloadWritten
<1>9. /\ Holds(x, X) /\ Tidy(X) /\ SamePayloads(z, x, Y, Y.free \cup {b}) /\ Spares(Y, X, Y.free \cup {b})
  <2>. HIDE DEF x
  <2>. QED BY <1>2, <1>4, <1>8, FreeHolds DEF X, x
<1>10. MoveBlock(m, b + 3, size, 8 * v) = Returns(x, g + 3)
  <2>1. Words(8 * v) = v
    BY <1>5, SizeWords
  <2>2. {"returns"} # {"crashes"}
    OBVIOUS
  <2>3. LET c == mm_malloc(m, size) IN c.mem = y /\ c.p = g + 3 /\ c.ends # {"crashes"}
    BY <1>1, <2>2 DEF Returns
  <2>4. MoveBlock(m, b + 3, size, 8 * v) =
            Returns(mm_free(CopyWords(mm_malloc(m, size).mem, mm_malloc(m, size).p, b + 3, v), b + 3),
                    mm_malloc(m, size).p)
    BY <2>1, <2>3 DEF MoveBlock
  <2>. QED BY <2>3, <2>4 DEF z, x
<1>. HIDE DEF x
<1>11. g \notin Y.free \cup {b}
  BY <1>2, <1>4
<1>12. g \in Blocks(X) /\ X.words[g] = Y.words[g] /\ g \notin X.free
  BY <1>2, <1>9, <1>11 DEF Spares
<1>13. ASSUME NEW k \in 0 .. v - 5
       PROVE  x.word[g + 3 + k] = m.word[b + 3 + k]
  <2>. DEFINE a == g + 3 + k
              c == b + 3 + k
  <2>1. /\ a \in Nat /\ c \in Nat /\ a \in g + 3 .. g + 3 + v - 1 /\ b + 3 + (a - (g + 3)) = c
        /\ a \in g + 3 .. After(Y, g) - 2 /\ c \in b + 3 .. After(H, b) - 2
        /\ a \in g .. After(Y, g) + 2 /\ c \in b .. After(H, b) + 2
    BY <1>5, <1>6
  <2>. HIDE DEF a, c
  <2>2. a \in Address /\ c \in Address
    BY <1>5, <2>1
  <2>3. z.word[a] = y.word[c]
    BY <1>5, <1>7, <2>1, <2>2, ReadIs
  <2>4. x.word[a] = z.word[a]
    BY <1>2, <1>9, <1>11, <2>1 DEF SamePayloads
  <2>5. y.word[c] = m.word[c]
    BY <1>1, <1>4, <2>1 DEF SamePayloads
  <2>. QED BY <2>3, <2>4, <2>5 DEF a, c
<1>14. ASSUME NEW c \in Blocks(H) \ S
       PROVE  /\ c \in Blocks(Y) \ (Y.free \cup {b}) /\ c # g
              /\ c \in Blocks(X) /\ X.words[c] = H.words[c] /\ c \notin X.free /\ c \notin H.free
              /\ After(Y, c) = After(H, c)
  <2>1. c # g /\ c # b /\ c \notin H.free
    BY <1>2
  <2>2. c \in Blocks(Y) /\ Y.words[c] = H.words[c] /\ c \notin Y.free
    BY <1>2, <2>1 DEF Spares
  <2>. QED BY <1>9, <2>1, <2>2 DEF Spares, After
<1>15. Spares(H, X, S)
  BY <1>14 DEF Spares
<1>16. SamePayloads(m, x, H, S)
  <2>. HIDE DEF S
  <2>. SUFFICES ASSUME NEW c \in Blocks(H) \ S, NEW a \in c + 3 .. After(H, c) - 2
                PROVE  x.word[a] = m.word[a]
    BY DEF SamePayloads
  <2>1. x.word[a] = z.word[a]
    BY <1>9, <1>14 DEF SamePayloads
  <2>2. z.word[a] = y.word[a]
    BY <1>8, <1>14 DEF SamePayloads
  <2>3. y.word[a] = m.word[a]
    BY <1>1, <1>14 DEF SamePayloads
  <2>. QED BY <2>1, <2>2, <2>3
<1>. QED BY <1>2, <1>9, <1>10, <1>12, <1>13, <1>15, <1>16 DEF S, X, Y, w, g, v

\* Neither a block nor the epilogue has a size of 0.
LEMMA NextBlockNotEmpty ==
    ASSUME NEW m, NEW H, Holds(m, H), NEW b \in Blocks(H)
    PROVE  Bytes(Size(m, After(H, b))) # 0
<1>0. Shape(H) /\ IsMemory(m) /\ Tagged(m, H)
  BY DEF Holds
<1>1. CASE After(H, b) \in Blocks(H)
  <2>1. /\ Bytes(Size(m, After(H, b))) = 8 * H.words[After(H, b)]
        /\ H.words[After(H, b)] \in Nat /\ 4 =< H.words[After(H, b)]
    BY <1>0, <1>1, TagsOf, BlockLies
  <2>. QED BY <2>1
<1>2. CASE After(H, b) = End(H)
  <2>1. End(H) \in Address
    BY <1>0, BlockLies, Addresses
  <2>2. Size(m, After(H, b)) = 25
    BY <1>0, <1>2, <2>1, ReadIs DEF Size, Tagged, BLK_HDR_SIZE
  <2>. QED BY <2>2 DEF Bytes
<1>. QED BY <1>0, <1>1, <1>2 DEF Shape

\* Which of its cases mm_realloc takes.
LEMMA ReallocIs ==
    ASSUME NEW m, NEW H, Holds(m, H), NEW b \in Blocks(H), b \notin H.free,
           NEW size \in Nat, size # 0
    PROVE  LET w == Need(size)
               v == H.words[b]
           IN  mm_realloc(m, b + 3, size) =
                   IF w =< v THEN Returns(m, b + 3)
                   ELSE IF After(H, b) = End(H) THEN ExtendLast(m, b, 8 * w, 8 * w - 8 * v)
                   ELSE MoveBlock(m, b + 3, size, 8 * v)
<1>. DEFINE w == Need(size)
            v == H.words[b]
            n == After(H, b)
<1>0. Shape(H) /\ m.brk = H.brk
  BY DEF Holds
<1>1. b \in Nat /\ v \in Nat /\ n = b + v /\ n =< End(H) /\ H.brk \in Nat /\ End(H) = H.brk - 3 /\ n \in Nat
  BY <1>0, BlockLies
<1>2. w \in Nat /\ ALIGN(size + BLK_HDR_FTR_SIZE) = 8 * w
  BY NeedIs
<1>3. Bytes(Size(m, b)) = 8 * v /\ Words(Size(m, b)) = v /\ Words(8 * v) = v
  BY <1>1, TagsOf, SizeWords
<1>4. Bytes(Size(m, n)) # 0
  BY NextBlockNotEmpty
<1>. HIDE DEF w, v, n
<1>5. is_last_block(m, b) <=> n = End(H)
  <2>1. GET_EPILOGUE(m) = End(H)
    BY <1>0, <1>1 DEF GET_EPILOGUE, mem_heap_hi
  <2>. QED BY <1>1, <1>3, <2>1 DEF is_last_block
<1>6. 8 * w =< 8 * v <=> w =< v
  BY <1>1, <1>2
<1>7. b + 3 # NULL /\ (b + 3) - 3 = b
  BY <1>1 DEF NULL
<1>8. mm_realloc(m, b + 3, size) =
          IF 8 * w =< 8 * v THEN Returns(m, b + 3)
          ELSE IF is_last_block(m, b) THEN ExtendLast(m, b, 8 * w, 8 * w - 8 * v)
          ELSE MoveBlock(m, b + 3, size, 8 * v)
  BY <1>1, <1>2, <1>3, <1>4, <1>7 DEF mm_realloc
<1>. QED BY <1>5, <1>6, <1>8 DEF w, v, n

LEMMA ReallocHolds ==
    ASSUME NEW m, NEW H, Holds(m, H), Tidy(H), NEW b \in Blocks(H), b \notin H.free,
           NEW size \in Nat, size # 0, ~ReallocFails(H, b, Need(size)),
           Need(size) =< H.words[b] \/ H.words[b] + 4 =< Need(size)
    PROVE  LET w == Need(size)
               X == AfterRealloc(H, b, w)
               g == ReallocGives(H, b, w)
           IN  /\ \E x : /\ mm_realloc(m, b + 3, size) = Returns(x, g + 3)
                         /\ Holds(x, X) /\ SamePayloads(m, x, H, H.free \cup {b})
                         /\ \A k \in 0 .. H.words[b] - 5 : x.word[g + 3 + k] = m.word[b + 3 + k]
               /\ Tidy(X) /\ Spares(H, X, H.free \cup {b})
               /\ g = b \/ g \in H.free \/ g \notin Blocks(H)
               /\ g \in Blocks(X) /\ g \notin X.free
               /\ w =< X.words[g] /\ (X.words[g] =< w + 9 \/ X.words[g] = H.words[b])
<1>. DEFINE w == Need(size)
            v == H.words[b]
            X == AfterRealloc(H, b, w)
            g == ReallocGives(H, b, w)
            S == H.free \cup {b}
<1>0. Shape(H)
  BY DEF Holds
<1>1. b \in Nat /\ v \in Nat /\ w \in Nat /\ After(H, b) = b + v
  BY <1>0, BlockLies, NeedIs
<1>2. CASE w =< v
  <2>1. X = H /\ g = b
    BY <1>1, <1>2 DEF AfterRealloc, ReallocGives, Moves
  <2>2. mm_realloc(m, b + 3, size) = Returns(m, b + 3)
    BY <1>2, ReallocIs
  <2>3. SamePayloads(m, m, H, S) /\ Spares(H, H, S)
    BY DEF SamePayloads, Spares
  <2>. HIDE DEF X, g, w, S
  <2>. QED BY <1>2, <2>1, <2>2, <2>3 DEF X, g, w, S, v
<1>3. CASE w > v /\ After(H, b) = End(H)
  <2>1. X = Extended(H, b, w - v) /\ g = b
    BY <1>1, <1>3 DEF AfterRealloc, ReallocGives, Moves
  <2>2. mm_realloc(m, b + 3, size) = ExtendLast(m, b, 8 * w, 8 * w - 8 * v)
    <3>1. ~(w =< v)
      BY <1>1, <1>3
    <3>. QED BY <1>3, <3>1, ReallocIs
  <2>3. H.brk + w - v =< mem_max_addr
    <3>1. ~(w > v /\ H.brk + w - v > mem_max_addr)
      BY <1>3 DEF ReallocFails, Moves
    <3>2. H.brk \in Nat /\ mem_max_addr \in Nat
      BY <1>0, Addresses DEF Shape
    <3>. HIDE DEF w, v
    <3>. QED BY <1>1, <1>3, <3>1, <3>2
  <2>. HIDE DEF w, X, g
  <2>4. v < w
    BY <1>1, <1>3
  <2>5. Tidy(X) /\ Spares(H, X, {b}) /\ b \in Blocks(X) /\ b \notin X.free /\ X.words[b] = w
    <3>. DEFINE Y == Extended(H, b, w - v)
    <3>1. Tidy(Y) /\ Spares(H, Y, {b}) /\ b \in Blocks(Y) /\ b \notin Y.free /\ Y.words[b] = w
      <4>1. /\ w \in Nat /\ H.words[b] < w /\ H.brk + w - H.words[b] =< mem_max_addr
            /\ After(H, b) = End(H)
        BY <1>1, <1>3, <2>3, <2>4
      <4>2. Tidy(Y) /\ Spares(H, Y, {b}) /\ b \in Blocks(Y) /\ b \notin Y.free
        BY <4>1, ExtendHolds
      <4>3. ASSUME NEW u \in Nat, H.words[b] < u, H.brk + u - H.words[b] =< mem_max_addr
            PROVE  Extended(H, b, u - H.words[b]).words[b] = u
        <5>. DEFINE d == u - H.words[b]
        <5>1. d \in Nat /\ H.words[b] + d = u
          BY <1>1, <4>3
        <5>2. H.brk \in Nat /\ mem_max_addr \in Nat /\ b # End(H) /\ IsLast(H, b)
          BY <1>0, <1>3, BlockLies, Addresses DEF IsLast, Shape
        <5>3. H.brk + d =< mem_max_addr
          BY <1>1, <4>3, <5>2
        <5>. HIDE DEF d
        <5>4. Extended(H, b, d).words[b] = (IF b = End(H) THEN d ELSE H.words[b] + d)
          BY <1>0, <5>1, <5>2, <5>3, ExtendedShape
        <5>. QED BY <5>1, <5>2, <5>4 DEF d
      <4>. QED BY <4>1, <4>2, <4>3
    <3>. HIDE DEF v, Y
    <3>2. X = Y
      BY <2>1 DEF Y
    <3>. QED BY <3>1, <3>2
  <2>6. PICK x : /\ ExtendLast(m, b, 8 * w, 8 * w - 8 * v) = Returns(x, b + 3)
                 /\ Holds(x, X) /\ SamePayloads(m, x, H, {})
    <3>1. \E x : /\ ExtendLast(m, b, 8 * w, 8 * w - 8 * v) = Returns(x, b + 3)
                 /\ Holds(x, Extended(H, b, w - v)) /\ SamePayloads(m, x, H, {})
      BY <1>1, <1>3, <2>3, <2>4, ExtendHolds
    <3>. HIDE DEF v
    <3>. QED BY <2>1, <3>1
  <2>7. SamePayloads(m, x, H, S) /\ Spares(H, X, S)
    BY <2>5, <2>6 DEF SamePayloads, Spares
  <2>8. \A k \in 0 .. v - 5 : x.word[b + 3 + k] = m.word[b + 3 + k]
    <3>. TAKE k \in 0 .. v - 5
    <3>1. b + 3 + k \in b + 3 .. After(H, b) - 2
      BY <1>1
    <3>. QED BY <2>6, <3>1 DEF SamePayloads
  <2>9. w =< X.words[b] /\ X.words[b] =< w + 9
    BY <1>1, <2>5
  <2>. HIDE DEF S
  <2>. QED BY <2>1, <2>2, <2>5, <2>6, <2>7, <2>8, <2>9 DEF X, g, w, S, v
<1>4. CASE w > v /\ After(H, b) # End(H)
  <2>1. Moves(H, b, w) /\ ~(w =< v)
    BY <1>1, <1>4 DEF Moves
  <2>2. X = AfterFree(AfterMalloc(H, w), b) /\ g = MallocGives(H, w)
    BY <1>4, <2>1 DEF AfterRealloc, ReallocGives
  <2>3. mm_realloc(m, b + 3, size) = MoveBlock(m, b + 3, size, 8 * v)
    BY <1>4, <2>1, ReallocIs
  <2>4. ~MallocFails(H, Need(size)) /\ H.words[b] + 4 =< Need(size)
    <3>1. ~MallocFails(H, Need(size))
      BY <2>1 DEF ReallocFails
    <3>. QED BY <2>1, <3>1
  <2>. DEFINE Y == AfterFree(AfterMalloc(H, w), b)
              f == MallocGives(H, w)
  <2>5. PICK x : /\ MoveBlock(m, b + 3, size, 8 * v) = Returns(x, f + 3)
                 /\ Holds(x, Y) /\ SamePayloads(m, x, H, S)
                 /\ \A k \in 0 .. v - 5 : x.word[f + 3 + k] = m.word[b + 3 + k]
    BY <2>4, MoveHolds
  <2>6. /\ Tidy(Y) /\ Spares(H, Y, S)
        /\ f \in H.free \/ f \notin Blocks(H)
        /\ f \in Blocks(Y) /\ f \notin Y.free /\ w =< Y.words[f] /\ Y.words[f] =< w + 9
    BY <2>4, MoveHolds
  <2>7. X = Y /\ g = f
    BY <2>2
  <2>. HIDE DEF S, X, g, w, v, Y, f
  <2>8. \A k \in 0 .. v - 5 : x.word[g + 3 + k] = m.word[b + 3 + k]
    BY <2>5, <2>7
  <2>9. mm_realloc(m, b + 3, size) = Returns(x, g + 3) /\ Holds(x, X) /\ SamePayloads(m, x, H, S)
    BY <2>3, <2>5, <2>7
  <2>10. /\ Tidy(X) /\ Spares(H, X, S)
         /\ g \in H.free \/ g \notin Blocks(H)
         /\ g \in Blocks(X) /\ g \notin X.free /\ w =< X.words[g] /\ X.words[g] =< w + 9
    BY <2>6, <2>7
  <2>. QED BY <2>8, <2>9, <2>10 DEF X, g, w, v, S
<1>5. \/ w =< v
      \/ w > v /\ After(H, b) = End(H)
      \/ w > v /\ After(H, b) # End(H)
  BY <1>1
<1>. HIDE DEF w, v, X, g, S
<1>. QED BY <1>2, <1>3, <1>4, <1>5 DEF w, v, X, g, S

\* The heap cannot grow: either mm_malloc crashes, or the block that mm_realloc
\* gives ends beyond the heap.
LEMMA ReallocCrashes ==
    ASSUME NEW m, NEW H, Holds(m, H), Tidy(H), NEW b \in Blocks(H), b \notin H.free,
           NEW size \in Nat, size # 0, ReallocFails(H, b, Need(size)),
           Need(size) =< H.words[b] \/ H.words[b] + 5 =< Need(size)
    PROVE  LET call == mm_realloc(m, b + 3, size)
           IN  /\ IsMemory(call.mem) /\ call.mem.brk = H.brk
               /\ \/ call.ends = {"crashes"}
                  \/ /\ call.p = b + 3
                     /\ H.brk =< b + Need(size) - 2 /\ H.brk + Need(size) - 4 > mem_max_addr
<1>. DEFINE w == Need(size)
            v == H.words[b]
<1>0. Shape(H)
  BY DEF Holds
<1>1. /\ b \in Nat /\ v \in Nat /\ w \in Nat /\ After(H, b) = b + v /\ 4 =< v
      /\ H.brk \in Nat /\ mem_max_addr \in Nat /\ End(H) = H.brk - 3
  BY <1>0, BlockLies, NeedIs, Addresses
<1>2. w > v
  <2>1. Moves(H, b, w) => w > v
    BY DEF Moves
  <2>. QED BY <2>1 DEF ReallocFails
<1>3. v + 5 =< w /\ ~(w =< v)
  <2>1. w =< v \/ v + 5 =< w
    OBVIOUS
  <2>. HIDE DEF w, v
  <2>. QED BY <1>1, <1>2, <2>1
<1>4. CASE After(H, b) = End(H)
  <2>1. mm_realloc(m, b + 3, size) = ExtendLast(m, b, 8 * w, 8 * w - 8 * v)
    BY <1>3, <1>4, ReallocIs
  <2>2. H.brk + w - v > mem_max_addr
    BY <1>4 DEF ReallocFails, Moves
  <2>. HIDE DEF w
  <2>3. LET call == ExtendLast(m, b, 8 * w, 8 * w - 8 * v)
        IN  IsMemory(call.mem) /\ call.mem.brk = H.brk /\ call.p = b + 3
    BY <1>1, <1>2, <1>4, <2>2, ExtendFails
  <2>. HIDE DEF v
  <2>4. H.brk =< b + w - 2 /\ H.brk + w - 4 > mem_max_addr
    BY <1>1, <1>3, <1>4, <2>2
  <2>. QED BY <2>1, <2>3, <2>4 DEF w
<1>5. CASE After(H, b) # End(H)
  <2>1. mm_realloc(m, b + 3, size) = MoveBlock(m, b + 3, size, 8 * v)
    BY <1>3, <1>5, ReallocIs
  <2>2. MallocFails(H, w)
    <3>1. Moves(H, b, w)
      BY <1>2, <1>5 DEF Moves
    <3>. QED BY <3>1 DEF ReallocFails
  <2>3. PICK x : mm_malloc(m, size) = Crashes(x) /\ IsMemory(x) /\ x.brk = H.brk
    <3>1. \E x : /\ mm_malloc(m, size) = Crashes(x)
                 /\ IsMemory(x) /\ x.brk = H.brk
                 /\ \A c \in Blocks(H) : Size(x, c) = SizeWord(H, c)
                 /\ \A c \in H.free : H.words[c] < Need(size)
      BY <2>2, MallocHolds
    <3>. HIDE DEF w, v
    <3>. QED BY <3>1
  <2>4. MoveBlock(m, b + 3, size, 8 * v) = Crashes(x)
    <3>1. mm_malloc(m, size).ends = {"crashes"}
      BY <2>3 DEF Crashes
    <3>. QED BY <2>3, <3>1 DEF MoveBlock
  <2>. HIDE DEF w, v
  <2>. QED BY <2>1, <2>3, <2>4 DEF Crashes
<1>. QED BY <1>4, <1>5

-----------------------------------------------------------------------------
(* What Mm says of a heap.                                                 *)

\* A memory between two calls is as Mm says it should be.
LEMMA HeapIsSound ==
    ASSUME NEW m, NEW H, Holds(m, H), Tidy(H)
    PROVE  /\ Tiled(m) /\ HeadersMatchFooters(m)
           /\ NoFreeNeighbours(m) /\ ListsHoldFreeBlocks(m)
           /\ Heads(m) = Blocks(H) /\ FreeHeads(m) = H.free
<1>0. /\ Shape(H) /\ Chained(H) /\ IsMemory(m) /\ m.brk = H.brk /\ Linked(m, H)
      /\ m.word[End(H)] = BLK_HDR_SIZE + 1 /\ m.word[FirstBlock - 1] = 1
  BY DEF Holds, Tagged
<1>1. \A b \in Blocks(H) : /\ Size(m, b) = SizeWord(H, b) /\ Words(Size(m, b)) = H.words[b]
                           /\ IsFree(Size(m, b)) <=> b \in H.free
                           /\ Read(m, Foot(m, b)) = SizeWord(H, b)
                           /\ b + Words(Size(m, b)) = After(H, b)
  <2>. TAKE b \in Blocks(H)
  <2>1. /\ Size(m, b) = SizeWord(H, b) /\ Words(Size(m, b)) = H.words[b]
        /\ IsFree(Size(m, b)) <=> b \in H.free
        /\ Foot(m, b) = After(H, b) - 1 /\ Read(m, After(H, b) - 1) = SizeWord(H, b)
    BY TagsOf
  <2>. QED BY <2>1 DEF After
<1>2. Heads(m) = Blocks(H)
  BY <1>0, <1>1, HeadsIs
<1>3. FreeHeads(m) = H.free
  BY <1>0, <1>1, <1>2 DEF FreeHeads, Shape
<1>4. HeadersMatchFooters(m)
  BY <1>1, <1>2 DEF HeadersMatchFooters
<1>5. Tiled(m)
  <2>1. GET_EPILOGUE(m) = End(H) /\ End(H) \in Address /\ FirstBlock - 1 \in Address
    <3>1. H.brk \in Nat /\ FirstBlock + 3 =< H.brk /\ H.brk =< mem_max_addr /\ FirstBlock \in Nat
      BY <1>0, Addresses DEF Shape
    <3>. QED BY <1>0, <3>1, Addresses DEF GET_EPILOGUE, mem_heap_hi, End
  <2>2. Size(m, End(H)) = BLK_HDR_SIZE + 1 /\ Read(m, FirstBlock - 1) = 1
    BY <1>0, <2>1, ReadIs DEF Size
  <2>3. End(H) = FirstBlock \/ \E b \in Blocks(H) : After(H, b) = End(H)
    BY <1>0 DEF Shape
  <2>. QED BY <1>1, <1>2, <2>1, <2>2, <2>3 DEF Tiled
<1>6. NoFreeNeighbours(m)
  <2>1. \A b \in H.free : After(H, b) \notin H.free
    BY DEF Tidy
  <2>. QED BY <1>0, <1>1, <1>3, <2>1 DEF NoFreeNeighbours, Shape
<1>7. ASSUME NEW i \in Lists
      PROVE  LET list == FreeList(m, i)
             IN  /\ ToSet(list) = {b \in FreeHeads(m) : map_to_list(Size(m, b)) = i}
                 /\ IsInjective(list)
                 /\ \A b \in ToSet(list) \cup {ListHead(i)} : PriorP(m, NextP(m, b)) = b
  <2>. DEFINE list == FreeList(m, i)
              L == H.len[i]
  <2>1. list = [j \in 1 .. L |-> H.node[i][j]]
    BY FreeListIs
  <2>2. /\ L \in Nat /\ H.node[i][0] = ListHead(i)
        /\ \A j, k \in 1 .. L : H.node[i][j] = H.node[i][k] => j = k
    BY <1>0, ListsOf
  <2>3. DOMAIN list = 1 .. L /\ \A j \in 1 .. L : list[j] = H.node[i][j]
    BY <2>1
  <2>. HIDE DEF list, L
  <2>4. ToSet(list) = {H.node[i][j] : j \in 1 .. L}
    BY <2>3 DEF ToSet
  <2>5. \A b \in H.free : map_to_list(Size(m, b)) = ListOf(H.words[b])
    <3>. TAKE b \in H.free
    <3>1. b \in Blocks(H)
      BY <1>0 DEF Shape
    <3>2. H.words[b] \in Nat
      BY <1>0, <3>1, BlockLies
    <3>3. Size(m, b) = 8 * H.words[b]
      BY <1>1, <3>1, <3>2 DEF SizeWord
    <3>. QED BY <3>3 DEF ListOf
  <2>6. ToSet(list) = {b \in FreeHeads(m) : map_to_list(Size(m, b)) = i}
    <3>1. \A j \in 1 .. L : H.node[i][j] \in H.free /\ ListOf(H.words[H.node[i][j]]) = i
      BY <1>0, TidyLists DEF L
    <3>2. \A b \in H.free : ListOf(H.words[b]) = i => \E j \in 1 .. L : H.node[i][j] = b
      BY <1>0, TidyLists DEF L, InList
    <3>. QED BY <1>3, <2>4, <2>5, <3>1, <3>2
  <2>7. IsInjective(list)
    BY <2>2, <2>3 DEF IsInjective
  <2>8. \A b \in ToSet(list) \cup {ListHead(i)} : PriorP(m, NextP(m, b)) = b
    <3>. TAKE b \in ToSet(list) \cup {ListHead(i)}
    <3>1. PICK j \in 0 .. L : H.node[i][j] = b
      BY <2>2, <2>4
    <3>2. /\ m.word[H.node[i][j] + 1] = H.node[i][j + 1]
          /\ m.word[H.node[i][j + 1] + 2] = H.node[i][j]
      BY <1>0 DEF Linked, L
    <3>3. H.node[i][j] + 1 \in Address /\ H.node[i][j + 1] + 2 \in Address
      <4>1. j \in 0 .. H.len[i] + 1 /\ j + 1 \in 0 .. H.len[i] + 1
        BY <2>2 DEF L
      <4>. QED BY <1>0, <4>1, NodeIs
    <3>. QED BY <1>0, <3>1, <3>2, <3>3, ReadIs DEF PriorP, NextP
  <2>. QED BY <2>6, <2>7, <2>8 DEF list
<1>8. ListsHoldFreeBlocks(m)
  BY <1>7 DEF ListsHoldFreeBlocks, Lists
<1>. QED BY <1>2, <1>3, <1>4, <1>5, <1>6, <1>8
=============================================================================
