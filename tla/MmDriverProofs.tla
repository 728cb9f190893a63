--------------------------- MODULE MmDriverProofs ----------------------------
(***************************************************************************)
(* The driver of mdriver.c and the allocator of mm.c together, for heaps,  *)
(* traces, indices and sizes without a bound.                              *)
(*                                                                         *)
(* The heaps that the requests of a trace lead to depend on the requests   *)
(* alone, so that the three replays of the trace go through the same       *)
(* heaps, whatever the memory held before.                                 *)
(***************************************************************************)
EXTENDS MmDriver, MmProofs

\* Two sizes of a trace that differ differ by more than the slack of a block
\* that was not split, 72 bytes, and what mm_realloc copies beside a payload,
\* 32 bytes.
SizesFarApart ==
    \A s, t \in Sizes \ {0} : ALIGN(s) < ALIGN(t) => ALIGN(t) - ALIGN(s) > 104

-----------------------------------------------------------------------------
(* The heap, and what the trace knows of it, after some requests.          *)

\* at: the heads of the blocks; size: their sizes; used: the indices in use.
Start == [heap |-> EmptyHeap, at |-> [i \in Index |-> 0], size |-> [i \in Index |-> 0], used |-> {}]

\* The heap is X, the block of index i is at g and has n bytes.
Placed(s, X, i, g, n) ==
    [heap |-> X, at |-> [s.at EXCEPT ![i] = g], size |-> [s.size EXCEPT ![i] = n],
     used |-> s.used \cup {i}]

Served(s, o) ==
    CASE o.type = "ALLOC" ->
            Placed(s, AfterMalloc(s.heap, Need(o.size)), o.index, MallocGives(s.heap, Need(o.size)), o.size)
      [] o.type = "REALLOC" ->
            Placed(s, AfterRealloc(s.heap, s.at[o.index], Need(o.size)), o.index,
                   ReallocGives(s.heap, s.at[o.index], Need(o.size)), o.size)
      [] o.type = "FREE" ->
            [heap |-> AfterFree(s.heap, s.at[o.index]), at |-> s.at, size |-> s.size,
             used |-> s.used \ {o.index}]

\* The pointer that the call returns.
Gives(s, o) ==
    CASE o.type = "ALLOC" -> MallocGives(s.heap, Need(o.size)) + 3
      [] o.type = "REALLOC" -> ReallocGives(s.heap, s.at[o.index], Need(o.size)) + 3
      [] o.type = "FREE" -> NULL

Asked(s, o) == o \in Op /\ (IF o.type = "ALLOC" THEN o.index \notin s.used ELSE o.index \in s.used)

Granted(s, o) ==
    CASE o.type = "ALLOC" -> o.size # 0 /\ ~MallocFails(s.heap, Need(o.size))
      [] o.type = "REALLOC" -> o.size # 0 /\ ~ReallocFails(s.heap, s.at[o.index], Need(o.size))
      [] o.type = "FREE" -> TRUE

Call(m, s, o) ==
    CASE o.type = "ALLOC" -> mm_malloc(m, o.size)
      [] o.type = "REALLOC" -> mm_realloc(m, s.at[o.index] + 3, o.size)
      [] o.type = "FREE" -> Returns(mm_free(m, s.at[o.index] + 3), NULL)

\* A block of w words may have been split for some size that was asked for.
Snug(w) == \E t \in Sizes \ {0} : Need(t) =< w /\ w =< Need(t) + 9

\* The block at b of heap X is allocated and has room for n bytes.
Houses(X, b, n) ==
    /\ b \in Blocks(X) /\ b \notin X.free
    /\ n \in Sizes \ {0} /\ Need(n) =< X.words[b] /\ Snug(X.words[b])

Sound(s) ==
    /\ s = [heap |-> s.heap, at |-> s.at, size |-> s.size, used |-> s.used]
    /\ Shape(s.heap) /\ Chained(s.heap) /\ Tidy(s.heap)
    /\ s.used \subseteq Index
    /\ DOMAIN s.at = Index /\ s.size \in [Index -> Sizes \cup {0}]
    /\ \A i \in s.used : Houses(s.heap, s.at[i], s.size[i])
    /\ \A i, j \in s.used : s.at[i] = s.at[j] => i = j

\* No payload but that of i has changed.
OthersKept(m, x, s, i) ==
    \A j \in s.used \ {i} : \A a \in s.at[j] + 3 .. After(s.heap, s.at[j]) - 2 : x.word[a] = m.word[a]

-----------------------------------------------------------------------------
(* One request.                                                            *)

LEMMA StartIsSound == Sound(Start)
<1>1. Shape(EmptyHeap) /\ Chained(EmptyHeap) /\ Tidy(EmptyHeap)
  BY MmDriverAssumption, EmptyHeapIs
<1>. QED BY <1>1 DEF Start, Sound

\* A larger size does not fit a block by a word or two.
LEMMA SizesGap ==
    ASSUME SizesFarApart, NEW v \in Nat, Snug(v), NEW n \in Sizes \ {0}
    PROVE  Need(n) =< v \/ v + 5 =< Need(n)
<1>1. PICK t \in Sizes \ {0} : Need(t) =< v /\ v =< Need(t) + 9
  BY DEF Snug
<1>2. n \in Nat /\ t \in Nat
  BY MmDriverAssumption
<1>3. /\ Need(t) \in Nat /\ ALIGN(t) = 8 * Need(t) - 32
      /\ Need(n) \in Nat /\ ALIGN(n) = 8 * Need(n) - 32
  BY <1>2, NeedIs
<1>4. ALIGN(t) < ALIGN(n) => ALIGN(n) - ALIGN(t) > 104
  BY DEF SizesFarApart
<1>. QED BY <1>1, <1>3, <1>4

LEMMA PlacedIsSound ==
    ASSUME NEW s, Sound(s), NEW X, Shape(X), Chained(X), Tidy(X),
           NEW i \in Index, NEW g, NEW n, Houses(X, g, n),
           \A j \in s.used \ {i} : /\ s.at[j] \in Blocks(X) /\ X.words[s.at[j]] = s.heap.words[s.at[j]]
                                   /\ s.at[j] \notin X.free /\ s.at[j] # g
    PROVE  Sound(Placed(s, X, i, g, n))
<1>. DEFINE y == Placed(s, X, i, g, n)
<1>1. /\ y = [heap |-> y.heap, at |-> y.at, size |-> y.size, used |-> y.used]
      /\ y.heap = X /\ y.at = [s.at EXCEPT ![i] = g] /\ y.size = [s.size EXCEPT ![i] = n]
      /\ y.used = s.used \cup {i}
  BY DEF Placed
<1>2. /\ s.used \subseteq Index /\ DOMAIN s.at = Index /\ s.size \in [Index -> Sizes \cup {0}]
      /\ \A j \in s.used : Houses(s.heap, s.at[j], s.size[j])
      /\ \A j, k \in s.used : s.at[j] = s.at[k] => j = k
  BY DEF Sound
<1>3. n \in Sizes
  BY DEF Houses
<1>4. /\ DOMAIN y.at = Index /\ y.size \in [Index -> Sizes \cup {0}] /\ y.used \subseteq Index
      /\ y.at[i] = g /\ y.size[i] = n
      /\ \A j \in Index \ {i} : y.at[j] = s.at[j] /\ y.size[j] = s.size[j]
  BY <1>1, <1>2, <1>3
<1>. HIDE DEF y
<1>5. \A j \in y.used : Houses(y.heap, y.at[j], y.size[j])
  <2>. TAKE j \in y.used
  <2>1. CASE j = i
    BY <1>1, <1>4, <2>1
  <2>2. CASE j # i
    <3>1. j \in s.used \ {i} /\ y.at[j] = s.at[j] /\ y.size[j] = s.size[j]
      BY <1>1, <1>2, <1>4, <2>2
    <3>. QED BY <1>1, <1>2, <3>1 DEF Houses
  <2>. QED BY <2>1, <2>2
<1>6. \A j, k \in y.used : y.at[j] = y.at[k] => j = k
  BY <1>1, <1>2, <1>4
<1>. QED BY <1>1, <1>4, <1>5, <1>6 DEF Sound, y

LEMMA ServeAlloc ==
    ASSUME NEW m, NEW s, Sound(s), Holds(m, s.heap), NEW o, Asked(s, o), Granted(s, o),
           o.type = "ALLOC"
    PROVE  /\ Sound(Served(s, o))
           /\ \E x : /\ Call(m, s, o) = Returns(x, Gives(s, o))
                     /\ Holds(x, Served(s, o).heap) /\ OthersKept(m, x, s, o.index)
<1>. DEFINE H == s.heap
            i == o.index
            n == o.size
            w == Need(n)
            X == AfterMalloc(H, w)
            g == MallocGives(H, w)
<1>1. /\ i \in Index /\ i \notin s.used /\ n \in Sizes /\ n \in Nat /\ n # 0 /\ ~MallocFails(H, w)
  BY MmDriverAssumption DEF Asked, Granted, Op
<1>2. Tidy(H) /\ \A j \in s.used : Houses(H, s.at[j], s.size[j])
  BY DEF Sound
<1>3. Served(s, o) = Placed(s, X, i, g, n) /\ Gives(s, o) = g + 3 /\ Call(m, s, o) = mm_malloc(m, n)
  BY DEF Served, Gives, Call
<1>4. Placed(s, X, i, g, n).heap = X
  BY DEF Placed
<1>. HIDE DEF H, n
<1>5. PICK x : mm_malloc(m, n) = Returns(x, g + 3) /\ Holds(x, X) /\ SamePayloads(m, x, H, {g})
  BY <1>1, <1>2, MallocHolds DEF H
<1>6. /\ Tidy(X) /\ Spares(H, X, {g})
      /\ g \in H.free \/ g \notin Blocks(H)
      /\ g \in Blocks(X) /\ g \notin X.free /\ w =< X.words[g] /\ X.words[g] =< w + 9
  BY <1>1, <1>2, MallocHolds DEF H
<1>. HIDE DEF X, g, i
<1>7. Houses(X, g, n)
  BY <1>1, <1>6 DEF Houses, Snug
<1>8. ASSUME NEW j \in s.used
      PROVE  /\ s.at[j] \in Blocks(H) \ {g} /\ s.at[j] \in Blocks(X)
             /\ X.words[s.at[j]] = H.words[s.at[j]] /\ s.at[j] \notin X.free
  <2>1. s.at[j] \in Blocks(H) /\ s.at[j] \notin H.free
    BY <1>2 DEF Houses
  <2>2. s.at[j] # g
    BY <1>6, <2>1
  <2>. QED BY <1>6, <2>1, <2>2 DEF Spares
<1>9. Sound(Placed(s, X, i, g, n))
  <2>1. Shape(X) /\ Chained(X)
    BY <1>5 DEF Holds
  <2>. QED BY <1>1, <1>6, <1>7, <1>8, <2>1, PlacedIsSound DEF H
<1>10. OthersKept(m, x, s, i)
  BY <1>5, <1>8 DEF OthersKept, SamePayloads, H
<1>. QED BY <1>3, <1>4, <1>5, <1>9, <1>10 DEF i

LEMMA ServeRealloc ==
    ASSUME SizesFarApart,
           NEW m, NEW s, Sound(s), Holds(m, s.heap), NEW o, Asked(s, o), Granted(s, o),
           o.type = "REALLOC"
    PROVE  /\ Sound(Served(s, o))
           /\ \E x : /\ Call(m, s, o) = Returns(x, Gives(s, o))
                     /\ Holds(x, Served(s, o).heap) /\ OthersKept(m, x, s, o.index)
                     /\ \A k \in 0 .. s.heap.words[s.at[o.index]] - 5 :
                            x.word[Gives(s, o) + k] = m.word[s.at[o.index] + 3 + k]
<1>. DEFINE H == s.heap
            i == o.index
            b == s.at[i]
            n == o.size
            w == Need(n)
            v == H.words[b]
            X == AfterRealloc(H, b, w)
            g == ReallocGives(H, b, w)
            S == H.free \cup {b}
<1>1. i \in Index /\ i \in s.used /\ n \in Sizes /\ n \in Nat /\ n # 0 /\ ~ReallocFails(H, b, w)
  BY MmDriverAssumption DEF Asked, Granted, Op
<1>2. /\ Tidy(H) /\ Shape(H) /\ \A j \in s.used : Houses(H, s.at[j], s.size[j])
      /\ \A j, k \in s.used : s.at[j] = s.at[k] => j = k
  BY DEF Sound
<1>3. Served(s, o) = Placed(s, X, i, g, n) /\ Gives(s, o) = g + 3 /\ Call(m, s, o) = mm_realloc(m, b + 3, n)
  BY DEF Served, Gives, Call
<1>4. Placed(s, X, i, g, n).heap = X
  BY DEF Placed
<1>5. b \in Blocks(H) /\ b \notin H.free /\ Snug(v)
  BY <1>1, <1>2 DEF Houses
<1>6. w =< v \/ v + 4 =< w
  <2>1. v \in Nat /\ w \in Nat
    BY <1>1, <1>2, <1>5, BlockLies, NeedIs
  <2>2. w =< v \/ v + 5 =< w
    BY <1>1, <1>5, <2>1, SizesGap
  <2>. HIDE DEF v, w
  <2>. QED BY <2>1, <2>2
<1>. HIDE DEF H, n, b, i
<1>7. PICK x : /\ mm_realloc(m, b + 3, n) = Returns(x, g + 3) /\ Holds(x, X) /\ SamePayloads(m, x, H, S)
               /\ \A k \in 0 .. v - 5 : x.word[g + 3 + k] = m.word[b + 3 + k]
  <2>. DEFINE Y == AfterRealloc(H, b, Need(n))
              f == ReallocGives(H, b, Need(n))
  <2>1. \E x : /\ mm_realloc(m, b + 3, n) = Returns(x, f + 3) /\ Holds(x, Y)
               /\ SamePayloads(m, x, H, H.free \cup {b})
               /\ \A k \in 0 .. H.words[b] - 5 : x.word[f + 3 + k] = m.word[b + 3 + k]
    BY <1>1, <1>2, <1>5, <1>6, ReallocHolds DEF H
  <2>. QED BY <2>1
<1>8. /\ Tidy(X) /\ Spares(H, X, S)
      /\ g = b \/ g \in H.free \/ g \notin Blocks(H)
      /\ g \in Blocks(X) /\ g \notin X.free
      /\ w =< X.words[g] /\ (X.words[g] =< w + 9 \/ X.words[g] = v)
  BY <1>1, <1>2, <1>5, <1>6, ReallocHolds DEF H
<1>. HIDE DEF X, g, S
<1>9. Houses(X, g, n)
  <2>1. Snug(X.words[g])
    <3>1. CASE X.words[g] = v
      BY <1>5, <3>1
    <3>2. CASE X.words[g] =< w + 9
      BY <1>1, <1>8, <3>2 DEF Snug
    <3>. QED BY <1>8, <3>1, <3>2
  <2>. QED BY <1>1, <1>8, <2>1 DEF Houses
<1>10. ASSUME NEW j \in s.used \ {i}
       PROVE  /\ s.at[j] \in Blocks(H) \ S /\ s.at[j] \in Blocks(X) /\ s.at[j] # g
              /\ X.words[s.at[j]] = H.words[s.at[j]] /\ s.at[j] \notin X.free
  <2>1. s.at[j] \in Blocks(H) /\ s.at[j] \notin H.free /\ s.at[j] # b
    BY <1>1, <1>2 DEF Houses, b
  <2>2. s.at[j] # g
    BY <1>8, <2>1
  <2>. QED BY <1>8, <2>1, <2>2 DEF Spares, S
<1>11. Sound(Placed(s, X, i, g, n))
  <2>1. Shape(X) /\ Chained(X)
    BY <1>7 DEF Holds
  <2>. QED BY <1>1, <1>8, <1>9, <1>10, <2>1, PlacedIsSound DEF H
<1>12. OthersKept(m, x, s, i)
  BY <1>7, <1>10 DEF OthersKept, SamePayloads, H
<1>13. \A k \in 0 .. v - 5 : x.word[Gives(s, o) + k] = m.word[b + 3 + k]
  BY <1>3, <1>7
<1>. QED BY <1>3, <1>4, <1>7, <1>11, <1>12, <1>13 DEF i, v, b, H

LEMMA ServeFree ==
    ASSUME NEW m, NEW s, Sound(s), Holds(m, s.heap), NEW o, Asked(s, o), o.type = "FREE"
    PROVE  /\ Sound(Served(s, o))
           /\ \E x : /\ Call(m, s, o) = Returns(x, Gives(s, o))
                     /\ Holds(x, Served(s, o).heap) /\ OthersKept(m, x, s, o.index)
<1>. DEFINE H == s.heap
            i == o.index
            b == s.at[i]
            X == AfterFree(H, b)
            S == H.free \cup {b}
            x == mm_free(m, b + 3)
            y == Served(s, o)
<1>1. i \in Index /\ i \in s.used
  BY DEF Asked, Op
<1>2. /\ Tidy(H) /\ s.used \subseteq Index /\ DOMAIN s.at = Index /\ s.size \in [Index -> Sizes \cup {0}]
      /\ \A j \in s.used : Houses(H, s.at[j], s.size[j])
      /\ \A j, k \in s.used : s.at[j] = s.at[k] => j = k
  BY DEF Sound
<1>3. /\ y = [heap |-> X, at |-> s.at, size |-> s.size, used |-> s.used \ {i}]
      /\ Call(m, s, o) = Returns(x, Gives(s, o))
  BY DEF Served, Gives, Call
<1>. HIDE DEF y
<1>4. /\ y = [heap |-> y.heap, at |-> y.at, size |-> y.size, used |-> y.used]
      /\ y.heap = X /\ y.at = s.at /\ y.size = s.size /\ y.used = s.used \ {i}
  BY <1>3
<1>5. b \in Blocks(H) /\ b \notin H.free
  BY <1>1, <1>2 DEF Houses
<1>6. Holds(x, X) /\ Tidy(X) /\ SamePayloads(m, x, H, S) /\ Spares(H, X, S)
  BY <1>2, <1>5, FreeHolds
<1>. HIDE DEF x, X, S, b
<1>7. ASSUME NEW j \in s.used \ {i}
      PROVE  s.at[j] \in Blocks(H) \ S /\ Houses(X, s.at[j], s.size[j])
  <2>1. Houses(H, s.at[j], s.size[j]) /\ s.at[j] # b
    BY <1>1, <1>2 DEF b
  <2>2. s.at[j] \in Blocks(H) /\ s.at[j] \notin H.free
    BY <2>1 DEF Houses
  <2>. QED BY <1>6, <2>1, <2>2 DEF Spares, S, Houses
<1>8. Sound(y)
  <2>1. Shape(X) /\ Chained(X)
    BY <1>6 DEF Holds
  <2>. HIDE DEF H, i
  <2>2. \A j \in y.used : Houses(y.heap, y.at[j], y.size[j])
    BY <1>4, <1>7
  <2>. QED BY <1>2, <1>4, <1>6, <2>1, <2>2 DEF Sound
<1>9. OthersKept(m, x, s, i)
  BY <1>6, <1>7 DEF OthersKept, SamePayloads
<1>. QED BY <1>3, <1>4, <1>6, <1>8, <1>9 DEF y, i

\* What a request makes of memory m is memory x.
Leaves(m, s, o, x) ==
    /\ Call(m, s, o) = Returns(x, Gives(s, o))
    /\ Holds(x, Served(s, o).heap) /\ OthersKept(m, x, s, o.index)
    /\ o.type = "REALLOC" =>
           \A k \in 0 .. s.heap.words[s.at[o.index]] - 5 :
               x.word[Gives(s, o) + k] = m.word[s.at[o.index] + 3 + k]

LEMMA Serve ==
    ASSUME SizesFarApart,
           NEW m, NEW s, Sound(s), Holds(m, s.heap), NEW o, Asked(s, o), Granted(s, o)
    PROVE  Sound(Served(s, o)) /\ \E x : Leaves(m, s, o, x)
<1>1. o.type \in {"ALLOC", "REALLOC", "FREE"}
  BY DEF Asked, Op
<1>2. CASE o.type = "ALLOC"
  BY <1>2, ServeAlloc DEF Leaves
<1>3. CASE o.type = "REALLOC"
  BY <1>3, ServeRealloc DEF Leaves
<1>4. CASE o.type = "FREE"
  BY <1>4, ServeFree DEF Leaves
<1>. QED BY <1>1, <1>2, <1>3, <1>4

\* What a request does to the indices.
LEMMA ServedIs ==
    ASSUME NEW s, Sound(s), NEW o, Asked(s, o)
    PROVE  LET y == Served(s, o)
               i == o.index
           IN  /\ i \in Index
               /\ IF o.type = "FREE"
                  THEN i \in s.used /\ y.used = s.used \ {i}
                  ELSE /\ y.used = s.used \cup {i} /\ i \in y.used /\ o.size \in Sizes
                       /\ Gives(s, o) = y.at[i] + 3 /\ y.size[i] = o.size
               /\ \A j \in s.used \ {i} : y.at[j] = s.at[j] /\ y.size[j] = s.size[j]
<1>. DEFINE y == Served(s, o)
            i == o.index
<1>1. /\ o.type \in {"ALLOC", "REALLOC", "FREE"} /\ i \in Index
      /\ o.type # "ALLOC" => i \in s.used
      /\ o.type # "FREE" => o.size \in Sizes
  BY DEF Asked, Op
<1>2. s.used \subseteq Index /\ DOMAIN s.at = Index /\ DOMAIN s.size = Index
  BY DEF Sound
<1>3. \A X, g, n : LET z == Placed(s, X, i, g, n)
                   IN  /\ z.used = s.used \cup {i} /\ z.at[i] = g /\ z.size[i] = n
                       /\ \A j \in s.used \ {i} : z.at[j] = s.at[j] /\ z.size[j] = s.size[j]
  BY <1>1, <1>2 DEF Placed
<1>4. CASE o.type = "ALLOC"
  <2>. DEFINE X == AfterMalloc(s.heap, Need(o.size))
              g == MallocGives(s.heap, Need(o.size))
  <2>1. y = Placed(s, X, i, g, o.size) /\ Gives(s, o) = g + 3
    BY <1>4 DEF Served, Gives
  <2>. HIDE DEF X, g, y, i
  <2>. QED BY <1>1, <1>3, <1>4, <2>1 DEF y, i
<1>5. CASE o.type = "REALLOC"
  <2>. DEFINE X == AfterRealloc(s.heap, s.at[o.index], Need(o.size))
              g == ReallocGives(s.heap, s.at[o.index], Need(o.size))
  <2>1. y = Placed(s, X, i, g, o.size) /\ Gives(s, o) = g + 3
    BY <1>5 DEF Served, Gives
  <2>. HIDE DEF X, g, y, i
  <2>. QED BY <1>1, <1>3, <1>5, <2>1 DEF y, i
<1>6. CASE o.type = "FREE"
  <2>1. y = [heap |-> AfterFree(s.heap, s.at[o.index]), at |-> s.at, size |-> s.size,
             used |-> s.used \ {o.index}]
    BY <1>6 DEF Served
  <2>. DEFINE X == AfterFree(s.heap, s.at[o.index])
              u == s.used \ {o.index}
  <2>2. y = [heap |-> X, at |-> s.at, size |-> s.size, used |-> u]
    BY <2>1
  <2>. HIDE DEF X, u, y
  <2>3. y.at = s.at /\ y.size = s.size /\ y.used = u
    BY ONLY <2>2
  <2>. HIDE DEF i
  <2>. QED BY <1>1, <1>6, <2>3 DEF y, i, u
<1>. QED BY <1>1, <1>4, <1>5, <1>6

-----------------------------------------------------------------------------
(* Payloads.                                                               *)

\* The words that Extent names lie in the block.
LEMMA PayloadLies ==
    ASSUME NEW s, Sound(s), NEW i \in s.used
    PROVE  LET b == s.at[i]
               n == s.size[i]
               c == Ceil(n)
           IN  /\ b \in Blocks(s.heap) /\ b \notin s.heap.free /\ b \in Nat /\ n \in Sizes \ {0} /\ n \in Nat
               /\ c \in Nat /\ 1 =< c /\ c + 4 =< s.heap.words[b] /\ s.heap.words[b] \in Nat
               /\ b + 2 + c =< After(s.heap, b) - 2 /\ After(s.heap, b) \in Nat
               /\ Extent(b + 3, n) = <<b + 3, b + 2 + c>>
               /\ b + 3 \in Address /\ b + 2 + c \in Address /\ b + 2 + c < s.heap.brk
               /\ \A k \in 0 .. c - 1 : /\ b + 3 + k \in b + 3 .. After(s.heap, b) - 2
                                        /\ b + 3 + k \in Address
<1>. DEFINE b == s.at[i]
            n == s.size[i]
            c == Ceil(n)
            H == s.heap
            v == H.words[b]
<1>1. Shape(H) /\ Houses(H, b, n)
  BY DEF Sound
<1>2. b \in Blocks(H) /\ b \notin H.free /\ n \in Sizes \ {0} /\ Need(n) =< v
  BY <1>1 DEF Houses
<1>3. n \in Nat /\ n # 0
  BY <1>2, MmDriverAssumption
<1>4. Need(n) \in Nat /\ 5 =< Need(n) /\ c = Need(n) - 4
  BY <1>3, NeedIs DEF Ceil
<1>5. /\ b \in Nat /\ v \in Nat /\ After(H, b) \in Nat /\ After(H, b) = b + v
      /\ b .. After(H, b) + 2 \subseteq Address
      /\ After(H, b) =< End(H) /\ H.brk \in Nat /\ End(H) = H.brk - 3
  BY <1>1, <1>2, BlockLies
<1>6. Extent(b + 3, n) = <<b + 3, b + 3 + c - 1>>
  BY DEF Extent
<1>. HIDE DEF H, b, n, c, v
<1>7. c \in Nat /\ 1 =< c /\ c + 4 =< v
  BY <1>2, <1>4, <1>5
<1>8. /\ b + 3 + c - 1 = b + 2 + c /\ b + 2 + c =< After(H, b) - 2 /\ b + 2 + c < H.brk
      /\ b + 3 \in b .. After(H, b) + 2 /\ b + 2 + c \in b .. After(H, b) + 2
      /\ \A k \in 0 .. c - 1 : /\ b + 3 + k \in b + 3 .. After(H, b) - 2
                               /\ b + 3 + k \in b .. After(H, b) + 2
  BY <1>5, <1>7
<1>. QED BY <1>2, <1>3, <1>5, <1>6, <1>7, <1>8 DEF H, b, n, c, v

LEMMA PayloadsApart ==
    ASSUME NEW s, Sound(s), NEW i \in s.used, NEW j \in s.used, i # j
    PROVE  LET e == Extent(s.at[i] + 3, s.size[i])
               f == Extent(s.at[j] + 3, s.size[j])
           IN  (e[2] < f[1] \/ f[2] < e[1]) /\ e[1] # f[1] /\ ~Overlaps(e, f)
<1>. DEFINE b == s.at[i]
            c == s.at[j]
            p == Ceil(s.size[i])
            q == Ceil(s.size[j])
            H == s.heap
<1>1. /\ b \in Blocks(H) /\ c \in Blocks(H) /\ b \in Nat /\ c \in Nat /\ p \in Nat /\ q \in Nat
      /\ 1 =< p /\ 1 =< q
      /\ b + 2 + p =< After(H, b) - 2 /\ c + 2 + q =< After(H, c) - 2
      /\ After(H, b) \in Nat /\ After(H, c) \in Nat
      /\ Extent(b + 3, s.size[i]) = <<b + 3, b + 2 + p>>
      /\ Extent(c + 3, s.size[j]) = <<c + 3, c + 2 + q>>
  BY PayloadLies
<1>2. b # c /\ Shape(H)
  BY DEF Sound
<1>. HIDE DEF b, c, p, q, H
<1>3. After(H, b) =< c \/ After(H, c) =< b
  BY <1>1, <1>2, BlocksApart
<1>. QED BY <1>1, <1>3 DEF Overlaps, b, c

\* The extents of the payloads of the indices in K.
Payloads(s, K) == {Extent(s.at[j] + 3, s.size[j]) : j \in K}

LEMMA PayloadsTyped ==
    ASSUME NEW s, Sound(s), NEW K \in SUBSET s.used
    PROVE  Payloads(s, K) \subseteq Address \X Address
<1>. SUFFICES ASSUME NEW j \in K PROVE Extent(s.at[j] + 3, s.size[j]) \in Address \X Address
  BY DEF Payloads
<1>. DEFINE c == Ceil(s.size[j])
<1>1. /\ Extent(s.at[j] + 3, s.size[j]) = <<s.at[j] + 3, s.at[j] + 2 + c>>
      /\ s.at[j] + 3 \in Address /\ s.at[j] + 2 + c \in Address
  BY PayloadLies
<1>. HIDE DEF c
<1>. QED BY <1>1

LEMMA NothingToReport ==
    ASSUME NEW s, Sound(s), NEW i \in s.used, NEW x, x.brk = s.heap.brk
    PROVE  RangeError(x, Payloads(s, s.used \ {i}), Extent(s.at[i] + 3, s.size[i])) = "none"
<1>. DEFINE e == Extent(s.at[i] + 3, s.size[i])
            b == s.at[i]
            c == Ceil(s.size[i])
<1>1. /\ e = <<b + 3, b + 2 + c>> /\ b + 3 \in Address /\ b + 2 + c \in Address
      /\ b + 2 + c < s.heap.brk /\ b \in Nat /\ c \in Nat /\ 1 =< c
  BY PayloadLies
<1>2. \A p \in Payloads(s, s.used \ {i}) : ~Overlaps(e, p)
  BY PayloadsApart DEF Payloads
<1>3. s.heap.brk \in Nat
  BY DEF Sound, Shape
<1>. HIDE DEF e, b, c
<1>4. InHeap(x, e[1]) /\ InHeap(x, e[2])
  <2>1. e[1] = b + 3 /\ e[2] = b + 2 + c /\ mem_start_brk =< b + 3 /\ mem_start_brk =< b + 2 + c
    BY <1>1, Addresses
  <2>. QED BY <1>1, <1>3, <2>1, Addresses DEF InHeap, mem_heap_lo, mem_heap_hi
<1>. QED BY <1>2, <1>4 DEF RangeError, e

LEMMA RangeRemoved ==
    ASSUME NEW s, Sound(s), NEW i \in s.used
    PROVE  remove_range(Payloads(s, s.used), s.at[i] + 3) = Payloads(s, s.used \ {i})
<1>1. ASSUME NEW j \in s.used PROVE Extent(s.at[j] + 3, s.size[j])[1] = s.at[j] + 3
  BY DEF Extent
<1>2. ASSUME NEW j \in s.used, j # i PROVE Extent(s.at[j] + 3, s.size[j])[1] # s.at[i] + 3
  BY <1>1, <1>2, PayloadsApart
<1>. QED BY <1>1, <1>2 DEF remove_range, Payloads

\* Memory x with the payload of i filled with v.
Filled(x, s, i, v) == FillWords(x, s.at[i] + 3, Ceil(s.size[i]), v)

LEMMA FillHolds ==
    ASSUME NEW s, Sound(s), NEW x, Holds(x, s.heap), NEW i \in s.used, NEW v \in Nat
    PROVE  /\ Holds(Filled(x, s, i, v), s.heap) /\ OthersKept(x, Filled(x, s, i, v), s, i)
           /\ \A k \in 0 .. Ceil(s.size[i]) - 1 : Filled(x, s, i, v).word[s.at[i] + 3 + k] = v
<1>. DEFINE b == s.at[i]
            c == Ceil(s.size[i])
            H == s.heap
            word == [a \in Address |-> IF a \in b + 3 .. b + 3 + c - 1 THEN v ELSE x.word[a]]
            y == Filled(x, s, i, v)
<1>1. /\ b \in Blocks(H) /\ b \in Nat /\ c \in Nat /\ b + 2 + c =< After(H, b) - 2 /\ After(H, b) \in Nat
      /\ \A k \in 0 .. c - 1 : b + 3 + k \in Address
  BY PayloadLies
<1>0. y = FillWords(x, b + 3, c, v)
  BY DEF Filled
<1>2. IsMemory(x) /\ Shape(H) /\ \A j \in s.used : Houses(H, s.at[j], s.size[j])
  BY DEF Sound, Holds
<1>. HIDE DEF H, b, c, y
<1>3. y = [brk |-> x.brk, word |-> word]
  BY <1>0, <1>2 DEF FillWords, IsMemory
<1>4. \A a \in Address : word[a] \in Nat /\ word[a] = IF a \in b + 3 .. b + 3 + c - 1 THEN v ELSE x.word[a]
  BY <1>2 DEF IsMemory
<1>5. word \in [Address -> Nat]
  BY <1>4
<1>. HIDE DEF word
<1>6. y.brk = x.brk /\ y.word = word /\ IsMemory(y)
  BY <1>3, <1>5 DEF IsMemory
<1>7. \A a \in Address : y.word[a] = x.word[a] \/ a \in b + 3 .. After(H, b) - 2
  <2>1. \A a \in Int : a \in b + 3 .. b + 3 + c - 1 => a \in b + 3 .. After(H, b) - 2
    BY <1>1
  <2>2. \A a \in Address : a \in Int
    BY Addresses
  <2>. QED BY <1>4, <1>6, <2>1, <2>2
<1>8. Holds(y, H) /\ SamePayloads(x, y, H, {b})
  BY <1>1, <1>6, <1>7, PayloadWritten DEF H
<1>9. OthersKept(x, y, s, i)
  <2>1. \A j \in s.used \ {i} : s.at[j] \in Blocks(H) \ {b}
    BY <1>2 DEF Houses, b, Sound
  <2>. QED BY <1>8, <2>1 DEF OthersKept, SamePayloads, H
<1>10. \A k \in 0 .. c - 1 : y.word[b + 3 + k] = v
  <2>. TAKE k \in 0 .. c - 1
  <2>1. b + 3 + k \in b + 3 .. b + 3 + c - 1 /\ b + 3 + k \in Address
    BY <1>1
  <2>. QED BY <1>4, <1>6, <2>1
<1>. QED BY <1>8, <1>9, <1>10 DEF H, b, c, y

\* Memories with a heap are memories of the type.
LEMMA MemoryTyped ==
    /\ \A x : IsMemory(x) /\ x.brk \in mem_start_brk .. mem_max_addr
              <=> x \in [brk : mem_start_brk .. mem_max_addr, word : [Address -> Nat]]
    /\ \A x, H : Holds(x, H) => IsMemory(x) /\ x.brk = H.brk /\ x.brk \in mem_start_brk .. mem_max_addr
<1>1. ASSUME NEW x
      PROVE  IsMemory(x) /\ x.brk \in mem_start_brk .. mem_max_addr
             <=> x \in [brk : mem_start_brk .. mem_max_addr, word : [Address -> Nat]]
  BY DEF IsMemory
<1>2. ASSUME NEW x, NEW H, Holds(x, H)
      PROVE  IsMemory(x) /\ x.brk = H.brk /\ x.brk \in mem_start_brk .. mem_max_addr
  BY <1>2, Addresses DEF Holds, Shape
<1>. QED BY <1>1, <1>2

-----------------------------------------------------------------------------
(* The invariant.                                                          *)

\* The requests os returned rs, and S has the heaps that they led to, and lead
\* to again in every replay.
History(S, os, rs) ==
    /\ S[1] = Start
    /\ \A k \in 1 .. Len(os) : /\ Asked(S[k], os[k]) /\ Granted(S[k], os[k])
                               /\ S[k + 1] = Served(S[k], os[k])
                               /\ rs[k] = Gives(S[k], os[k])
    /\ \A k \in 1 .. Len(os) + 1 : Sound(S[k])
    /\ Len(rs) = Len(os)

\* The memory holds the heap of s, and blocks has its pointers.
AtWork(s) ==
    /\ Holds(mem, s.heap)
    /\ live = s.used
    /\ \A i \in live : blocks[i] = s.at[i] + 3

SizesKnown(s) == \A i \in live : block_sizes[i] = s.size[i]

\* The range list has the payloads, and the payloads have what was written.
Checked(s) ==
    /\ ranges = Payloads(s, s.used)
    /\ \A i \in live : \A k \in 0 .. Ceil(s.size[i]) - 1 : mem.word[s.at[i] + 3 + k] = i % 256

Inv ==
    /\ TypeOK
    /\ verdict # "none" => pc = "main"
    /\ pc = "valid" => \E S : /\ History(S, ops, returned) /\ AtWork(S[Len(ops) + 1])
                              /\ SizesKnown(S[Len(ops) + 1]) /\ Checked(S[Len(ops) + 1])
    /\ pc = "util" => \E S : History(S, ops, returned) /\ AtWork(S[op]) /\ SizesKnown(S[op])
    /\ pc = "speed" => \E S : History(S, ops, returned) /\ AtWork(S[op])
    /\ OnlyTheseAreRejected
    /\ CrashesOnlyWhenFull

LEMMA HistoryGrows ==
    ASSUME NEW os \in Seq(Op), NEW rs \in Seq(Address \cup {NULL}), NEW S, History(S, os, rs),
           NEW o, Asked(S[Len(os) + 1], o), Granted(S[Len(os) + 1], o), Sound(Served(S[Len(os) + 1], o))
    PROVE  \E T : /\ History(T, Append(os, o), Append(rs, Gives(S[Len(os) + 1], o)))
                  /\ T[Len(os) + 2] = Served(S[Len(os) + 1], o)
<1>. DEFINE n == Len(os)
            s == S[n + 1]
            os1 == Append(os, o)
            rs1 == Append(rs, Gives(s, o))
            T == [k \in 1 .. n + 2 |-> IF k = n + 2 THEN Served(s, o) ELSE S[k]]
<1>1. /\ n \in Nat /\ Len(rs) = n
      /\ Len(os1) = n + 1 /\ Len(rs1) = n + 1
      /\ \A k \in 1 .. n : os1[k] = os[k] /\ rs1[k] = rs[k]
      /\ os1[n + 1] = o /\ rs1[n + 1] = Gives(s, o)
  <2>1. n \in Nat /\ Len(rs) = n
    BY DEF History
  <2>2. o \in Op
    BY DEF Asked
  <2>3. /\ Len(os1) = n + 1 /\ \A k \in 1 .. n : os1[k] = os[k]
        /\ os1[n + 1] = o
    BY <2>2
  <2>. HIDE DEF n
  <2>4. Len(rs1) = n + 1 /\ (\A k \in 1 .. n : rs1[k] = rs[k]) /\ rs1[n + 1] = Gives(s, o)
    BY <2>1
  <2>. QED BY <2>1, <2>3, <2>4
<1>2. /\ S[1] = Start
      /\ \A k \in 1 .. n : /\ Asked(S[k], os[k]) /\ Granted(S[k], os[k])
                           /\ S[k + 1] = Served(S[k], os[k]) /\ rs[k] = Gives(S[k], os[k])
      /\ \A k \in 1 .. n + 1 : Sound(S[k])
  BY DEF History
<1>3. s = S[n + 1] /\ Asked(s, o) /\ Granted(s, o) /\ Sound(Served(s, o))
  OBVIOUS
<1>. HIDE DEF n, os1, rs1, s
<1>4. T[n + 2] = Served(s, o) /\ \A k \in 1 .. n + 1 : T[k] = S[k]
  BY <1>1
<1>. HIDE DEF T
<1>5. T[1] = Start
  BY <1>1, <1>2, <1>4
<1>6. ASSUME NEW k \in 1 .. n + 1
      PROVE  /\ Asked(T[k], os1[k]) /\ Granted(T[k], os1[k])
             /\ T[k + 1] = Served(T[k], os1[k]) /\ rs1[k] = Gives(T[k], os1[k])
  <2>1. CASE k = n + 1
    <3>1. k + 1 = n + 2 /\ T[n + 1] = S[n + 1]
      BY <1>1, <1>4, <2>1
    <3>2. T[k] = s /\ os1[k] = o /\ rs1[k] = Gives(s, o) /\ T[k + 1] = Served(s, o)
      BY <1>1, <1>3, <1>4, <2>1, <3>1
    <3>. QED BY <1>3, <3>2
  <2>2. CASE k # n + 1
    <3>1. k \in 1 .. n /\ k + 1 \in 1 .. n + 1
      BY <1>1, <2>2
    <3>2. T[k] = S[k] /\ T[k + 1] = S[k + 1] /\ os1[k] = os[k] /\ rs1[k] = rs[k]
      BY <1>1, <1>4, <3>1
    <3>. QED BY <1>2, <3>1, <3>2
  <2>. QED BY <2>1, <2>2
<1>7. ASSUME NEW k \in 1 .. n + 2 PROVE Sound(T[k])
  <2>1. CASE k = n + 2
    BY <1>3, <1>4, <2>1
  <2>2. CASE k # n + 2
    <3>1. k \in 1 .. n + 1
      BY <1>1, <2>2
    <3>. QED BY <1>2, <1>4, <3>1
  <2>. QED BY <2>1, <2>2
<1>8. History(T, os1, rs1)
  <2>1. (n + 1) + 1 = n + 2
    BY <1>1
  <2>. QED BY <1>1, <1>5, <1>6, <1>7, <2>1 DEF History
<1>. QED BY <1>4, <1>8 DEF n, os1, rs1, s

LEMMA Restarted ==
    ASSUME TypeOK, Restart
    PROVE  Holds(mem', Start.heap) /\ mem' \in [brk : mem_start_brk .. mem_max_addr, word : [Address -> Nat]]
<1>. DEFINE x == mem_reset_brk(mem)
<1>1. IsMemory(mem)
  BY MemoryTyped DEF TypeOK
<1>2. x = [brk |-> mem_start_brk, word |-> mem.word]
  BY <1>1 DEF IsMemory, mem_reset_brk
<1>3. IsMemory(x) /\ x.brk = mem_start_brk
  BY <1>1, <1>2 DEF IsMemory
<1>4. mem' = mm_init(x)
  BY DEF Restart
<1>. HIDE DEF x
<1>5. Holds(mem', EmptyHeap)
  BY <1>3, <1>4, InitHolds, MmDriverAssumption
<1>. QED BY <1>5, MemoryTyped DEF Start

\* What a call answers depends on the requests before it alone.
LEMMA RequestIs ==
    ASSUME NEW s, AtWork(s), NEW o, Asked(s, o)
    PROVE  Request(o) = Call(mem, s, o)
<1>1. o.type \in {"ALLOC", "REALLOC", "FREE"} /\ (o.type # "ALLOC" => o.index \in live)
  BY DEF Asked, Op, AtWork
<1>2. o.type # "ALLOC" => blocks[o.index] = s.at[o.index] + 3
  BY <1>1 DEF AtWork
<1>. QED BY <1>1, <1>2 DEF Request, Call

\* A block of a sound heap is not at NULL.
LEMMA PointersAre ==
    ASSUME NEW s, Sound(s), NEW i \in s.used
    PROVE  s.at[i] + 3 \in Address /\ s.at[i] + 3 # NULL
<1>1. s.at[i] \in Nat /\ s.at[i] + 3 \in Address
  BY PayloadLies
<1>. QED BY <1>1 DEF NULL

\* A request that the history has, in a replay.
LEMMA RepeatHolds ==
    ASSUME SizesFarApart, TypeOK, NEW S, History(S, ops, returned),
           NEW k \in 1 .. Len(ops), op = k, AtWork(S[k]), Repeat(ops[k], Request(ops[k]))
    PROVE  /\ pc' = pc /\ AtWork(S[k + 1])'
           /\ mem' \in [brk : mem_start_brk .. mem_max_addr, word : [Address -> Nat]]
           /\ live' \subseteq Index
           /\ blocks' \in [Index -> Address \cup {NULL}]
           /\ ops[k].type # "FREE" => blocks'[ops[k].index] = returned[k]
<1>. DEFINE s == S[k]
            o == ops[k]
            i == o.index
            y == Served(s, o)
            p == Gives(s, o)
<1>1. /\ Sound(s) /\ Asked(s, o) /\ Granted(s, o) /\ S[k + 1] = y /\ returned[k] = p
  <2>1. k \in 1 .. Len(ops) + 1
    BY DEF TypeOK
  <2>. QED BY <2>1 DEF History
<1>2. /\ Holds(mem, s.heap) /\ live = s.used /\ \A j \in live : blocks[j] = s.at[j] + 3
  BY DEF AtWork
<1>3. /\ mem' = Request(o).mem
      /\ pc' = IF "crashes" \in Request(o).ends THEN "crashed"
               ELSE IF Request(o).p = NULL /\ o.type # "FREE" THEN "exit"
               ELSE pc
      /\ live' = IF o.type = "FREE" THEN live \ {i} ELSE live \cup {i}
      /\ blocks' = IF o.type = "FREE" THEN blocks ELSE [blocks EXCEPT ![i] = Request(o).p]
  BY DEF Repeat
<1>. HIDE DEF s, o
<1>4. Sound(y)
  BY <1>1, <1>2, Serve
<1>5. PICK x : Call(mem, s, o) = Returns(x, p) /\ Holds(x, y.heap)
  <2>1. \E x : Leaves(mem, s, o, x)
    BY <1>1, <1>2, Serve
  <2>. QED BY <2>1 DEF Leaves
<1>6. Request(o) = Returns(x, p)
  BY <1>1, <1>5, RequestIs DEF s
<1>7. /\ i \in Index
      /\ IF o.type = "FREE" THEN i \in s.used /\ y.used = s.used \ {i}
         ELSE y.used = s.used \cup {i} /\ i \in y.used /\ p = y.at[i] + 3
      /\ \A j \in s.used \ {i} : y.at[j] = s.at[j]
  BY <1>1, ServedIs
<1>. HIDE DEF y, p, i
<1>8. mem' = x /\ Request(o).p = p /\ "crashes" \notin Request(o).ends
  BY <1>3, <1>6 DEF Returns
<1>9. o.type # "FREE" => p \in Address /\ p # NULL
  BY <1>4, <1>7, PointersAre
<1>10. pc' = pc
  BY <1>3, <1>8, <1>9
<1>11. live' = y.used /\ y.used \subseteq Index
  BY <1>2, <1>3, <1>4, <1>7 DEF Sound
<1>12. blocks \in [Index -> Address \cup {NULL}]
  BY DEF TypeOK
<1>13. /\ blocks' \in [Index -> Address \cup {NULL}]
       /\ o.type # "FREE" => blocks'[i] = p
       /\ \A j \in Index \ {i} : blocks'[j] = blocks[j]
  BY <1>3, <1>7, <1>8, <1>9, <1>12
<1>14. \A j \in live' : blocks'[j] = y.at[j] + 3
  <2>. TAKE j \in live'
  <2>1. CASE j = i
    BY <1>7, <1>11, <1>13, <2>1
  <2>2. CASE j # i
    BY <1>2, <1>7, <1>11, <1>13, <2>2
  <2>. QED BY <2>1, <2>2
<1>15. AtWork(S[k + 1])'
  <2>1. S[k + 1] = y
    BY <1>1
  <2>. QED BY <1>5, <1>8, <1>11, <1>14, <2>1 DEF AtWork
<1>16. mem' \in [brk : mem_start_brk .. mem_max_addr, word : [Address -> Nat]]
  BY <1>5, <1>8, MemoryTyped
<1>. QED BY <1>1, <1>10, <1>11, <1>13, <1>15, <1>16 DEF o, i

-----------------------------------------------------------------------------
(* eval_mm_valid.                                                          *)

LEMMA AskIs ==
    ASSUME TypeOK, NEW o \in Op, Ask(o)
    PROVE  /\ pc = "valid" /\ ops' = Append(ops, o) /\ ops' \in Seq(Op)
           /\ Len(ops) \in Nat /\ Len(ops') = Len(ops) + 1 /\ ops'[Len(ops')] = o
           /\ traces' \in 0 .. num_tracefiles /\ left' \in 0 .. MaxOps /\ op' \in 1 .. Len(ops') + 1
           /\ {total_size', max_total_size'} \subseteq Int
           /\ returned \in Seq(Address \cup {NULL}) /\ Len(returned) \in Nat /\ Len(returned) =< Len(ops)
<1>1. ops \in Seq(Op) /\ ops' = Append(ops, o) /\ returned \in Seq(Address \cup {NULL}) /\ Len(returned) =< Len(ops)
  BY DEF TypeOK, Ask
<1>2. ops' \in Seq(Op) /\ Len(ops) \in Nat /\ Len(ops') = Len(ops) + 1 /\ ops'[Len(ops')] = o
  BY <1>1
<1>3. Len(returned) \in Nat
  BY <1>1
<1>4. /\ pc = "valid" /\ traces' = traces /\ left > 0 /\ left' = left - 1 /\ op' = op
      /\ total_size' = total_size /\ max_total_size' = max_total_size
  BY DEF Ask
<1>5. traces \in 0 .. num_tracefiles /\ left \in 0 .. MaxOps /\ op \in 1 .. Len(ops) + 1
      /\ {total_size, max_total_size} \subseteq Int
  BY DEF TypeOK
<1>6. left' \in 0 .. MaxOps
  BY <1>4, <1>5, MmDriverAssumption
<1>7. op' \in 1 .. Len(ops') + 1
  BY <1>2, <1>4, <1>5
<1>. QED BY <1>1, <1>2, <1>3, <1>4, <1>5, <1>6, <1>7

LEMMA PayloadsKept ==
    ASSUME NEW s, Sound(s), NEW o, Asked(s, o), NEW K \in SUBSET (s.used \ {o.index})
    PROVE  Payloads(Served(s, o), K) = Payloads(s, K)
<1>1. \A j \in K : Served(s, o).at[j] = s.at[j] /\ Served(s, o).size[j] = s.size[j]
  BY ServedIs
<1>. QED BY <1>1 DEF Payloads

\* The invariant of a trace that goes on.
LEMMA Accepted ==
    ASSUME TypeOK', pc' = "valid", verdict' = "none",
           NEW T, History(T, ops', returned'), NEW y, y = T[Len(ops') + 1],
           Holds(mem', y.heap), live' = y.used, \A j \in y.used : blocks'[j] = y.at[j] + 3,
           \A j \in y.used : block_sizes'[j] = y.size[j],
           ranges' = Payloads(y, y.used),
           \A j \in y.used : \A k \in 0 .. Ceil(y.size[j]) - 1 : mem'.word[y.at[j] + 3 + k] = j % 256
    PROVE  Inv'
<1>1. AtWork(T[Len(ops) + 1])' /\ SizesKnown(T[Len(ops) + 1])' /\ Checked(T[Len(ops) + 1])'
  BY DEF AtWork, SizesKnown, Checked
<1>2. OnlyTheseAreRejected' /\ CrashesOnlyWhenFull'
  BY DEF OnlyTheseAreRejected, CrashesOnlyWhenFull
<1>. QED BY <1>1, <1>2 DEF Inv

\* The invariant after a trace that was rejected.
LEMMA Rejected ==
    ASSUME TypeOK', pc' = "main", OnlyTheseAreRejected'
    PROVE  Inv'
BY DEF Inv, CrashesOnlyWhenFull

\* The invariant after a crash.
LEMMA Crashed ==
    ASSUME TypeOK', pc' = "crashed", verdict' = "none", CrashesOnlyWhenFull'
    PROVE  Inv'
BY DEF Inv, OnlyTheseAreRejected

\* A payload that was copied has, as chars, what was written into it.
LEMMA PayloadCopied ==
    ASSUME NEW s, Sound(s), Checked(s), live = s.used, SizesKnown(s),
           NEW o, o.index \in s.used, o.index % 256 =< 127,
           NEW y, Sound(y), o.index \in y.used, y.size[o.index] = o.size,
           NEW x, \A k \in 0 .. s.heap.words[s.at[o.index]] - 5 :
                      x.word[y.at[o.index] + 3 + k] = mem.word[s.at[o.index] + 3 + k]
    PROVE  Preserved(o, x, y.at[o.index] + 3)
<1>. DEFINE i == o.index
            c == s.at[i]
            d == y.at[i]
            n == s.size[i]
            oldsize == IF o.size < block_sizes[i] THEN o.size ELSE block_sizes[i]
<1>1. n \in Nat /\ o.size \in Nat /\ Ceil(n) \in Nat /\ Ceil(n) + 4 =< s.heap.words[c] /\ s.heap.words[c] \in Nat
      /\ Ceil(o.size) \in Nat
      /\ \A k \in 0 .. Ceil(o.size) - 1 : d + 3 + k \in Address
  BY PayloadLies
<1>2. block_sizes[i] = n
  BY DEF SizesKnown
<1>3. i \in Nat
  BY MmDriverAssumption DEF Sound
<1>4. \A k \in 0 .. Ceil(n) - 1 : mem.word[c + 3 + k] = i % 256
  BY DEF Checked
<1>. HIDE DEF n, c, d
<1>5. oldsize \in Nat /\ oldsize =< n /\ oldsize =< o.size
  BY <1>1, <1>2
<1>6. \A k \in 0 .. Ceil(oldsize) - 1 : k \in 0 .. Ceil(n) - 1 /\ k \in 0 .. Ceil(o.size) - 1
  <2>. HIDE DEF oldsize
  <2>1. \A r, t \in Nat : r =< t => (r + 7) \div 8 =< (t + 7) \div 8
    OBVIOUS
  <2>2. \A r \in Nat : Ceil(r) = (r + 7) \div 8 /\ Ceil(r) \in Nat
    <3>. TAKE r \in Nat
    <3>. DEFINE q == (r + 7) \div 8
    <3>1. q \in Nat /\ (8 * q) \div 8 = q
      OBVIOUS
    <3>. QED BY <3>1 DEF Ceil, ALIGN
  <2>3. Ceil(oldsize) =< Ceil(n) /\ Ceil(oldsize) =< Ceil(o.size) /\ Ceil(oldsize) \in Nat
    BY <1>1, <1>5, <2>1, <2>2
  <2>. QED BY <1>1, <2>3
<1>7. ASSUME NEW k \in 0 .. Ceil(oldsize) - 1
      PROVE  Char(Read(x, d + 3 + k)) = i % 256
  <2>1. k \in 0 .. Ceil(n) - 1 /\ k \in 0 .. Ceil(o.size) - 1
    BY <1>6
  <2>2. k \in 0 .. s.heap.words[c] - 5
    BY <1>1, <2>1
  <2>3. Read(x, d + 3 + k) = i % 256
    BY <1>1, <1>4, <2>1, <2>2 DEF Read, c, d
  <2>4. i % 256 \notin 128 .. 255
    BY <1>3
  <2>. QED BY <2>3, <2>4 DEF Char
<1>. HIDE DEF oldsize
<1>8. Preserved(o, x, d + 3) <=> \A k \in 0 .. Ceil(oldsize) - 1 : Char(Read(x, d + 3 + k)) = i % 256
  BY DEF Preserved, oldsize
<1>. QED BY <1>7, <1>8 DEF d

\* An allocation or a reallocation that finds room.
LEMMA ValidGranted ==
    ASSUME SizesFarApart, Inv, verdict = "none",
           NEW S, History(S, ops, returned), NEW s, s = S[Len(ops) + 1], Sound(s),
           AtWork(s), SizesKnown(s), Checked(s),
           NEW o \in Op, o.type # "FREE", Asked(s, o), Granted(s, o), Ask(o),
           Answer(o, Request(o), Payloads(s, s.used \ {o.index}))
    PROVE  Inv'
<1>. DEFINE i == o.index
            y == Served(s, o)
            p == Gives(s, o)
            list == Payloads(s, s.used \ {i})
<1>1. TypeOK
  BY DEF Inv
<1>2. /\ Holds(mem, s.heap) /\ live = s.used /\ \A j \in live : blocks[j] = s.at[j] + 3 /\ block_sizes[j] = s.size[j]
      /\ ranges = Payloads(s, s.used)
      /\ \A j \in live : \A k \in 0 .. Ceil(s.size[j]) - 1 : mem.word[s.at[j] + 3 + k] = j % 256
  BY DEF AtWork, SizesKnown, Checked
<1>3. Sound(y)
  BY <1>2, Serve
<1>4. PICK x : /\ Call(mem, s, o) = Returns(x, p) /\ Holds(x, y.heap) /\ OthersKept(mem, x, s, i)
               /\ o.type = "REALLOC" =>
                      \A k \in 0 .. s.heap.words[s.at[i]] - 5 :
                          x.word[p + k] = mem.word[s.at[i] + 3 + k]
  <2>1. Holds(mem, s.heap)
    BY <1>2
  <2>2. \E x : Leaves(mem, s, o, x)
    BY <2>1, Serve
  <2>. QED BY <2>2 DEF Leaves
<1>5. Request(o) = Returns(x, p)
  BY <1>4, RequestIs
<1>6. /\ i \in Index /\ y.used = s.used \cup {i} /\ i \in y.used /\ o.size \in Sizes
      /\ p = y.at[i] + 3 /\ y.size[i] = o.size
      /\ \A j \in s.used \ {i} : y.at[j] = s.at[j] /\ y.size[j] = s.size[j]
  BY ServedIs
<1>7. list = Payloads(y, y.used \ {i})
  <2>1. Payloads(Served(s, o), s.used \ {o.index}) = Payloads(s, s.used \ {o.index})
    BY PayloadsKept
  <2>2. y.used \ {i} = s.used \ {i}
    BY <1>6
  <2>. QED BY <2>1, <2>2
<1>. HIDE DEF i, y, p, list
<1>8. p \in Address /\ p # NULL /\ y.used \subseteq Index
  <2>1. y.used \subseteq Index
    BY <1>3 DEF Sound
  <2>. QED BY <1>3, <1>6, <2>1, PointersAre
<1>9. RangeError(x, list, Extent(p, o.size)) = "none"
  <2>1. x.brk = y.heap.brk
    BY <1>4, MemoryTyped
  <2>2. \A j \in y.used : RangeError(x, Payloads(y, y.used \ {j}), Extent(y.at[j] + 3, y.size[j])) = "none"
    BY <1>3, <2>1, NothingToReport
  <2>. QED BY <1>6, <1>7, <2>2
<1>10. /\ Request(o).mem = x /\ Request(o).p = p /\ Request(o).ends = {"returns"}
  BY <1>5 DEF Returns
<1>11. Judge(o, Request(o), list, Report(o, Request(o), list))
  BY <1>10 DEF Answer, list, i
<1>12. Report(o, Request(o), list) =
           IF o.type = "REALLOC" /\ ~Preserved(o, x, p) THEN "not preserved" ELSE "none"
  BY <1>8, <1>9, <1>10 DEF Report
<1>13. /\ ops' = Append(ops, o) /\ ops' \in Seq(Op) /\ Len(ops) \in Nat /\ Len(ops') = Len(ops) + 1
       /\ ops'[Len(ops')] = o /\ pc = "valid"
       /\ traces' \in 0 .. num_tracefiles /\ left' \in 0 .. MaxOps /\ op' \in 1 .. Len(ops') + 1
       /\ {total_size', max_total_size'} \subseteq Int
       /\ returned \in Seq(Address \cup {NULL}) /\ Len(returned) \in Nat /\ Len(returned) =< Len(ops)
  BY <1>1, AskIs
<1>14. ranges' = list \cup {Extent(p, o.size)} /\ ranges' = Payloads(y, y.used)
  <2>1. ranges' = RangesAfter(o, Request(o), list, Report(o, Request(o), list))
    BY <1>11 DEF Judge
  <2>2. ranges' = list \cup {Extent(p, o.size)}
    BY <1>8, <1>10, <1>12, <2>1 DEF RangesAfter
  <2>. QED BY <1>6, <1>7, <2>2 DEF Payloads
<1>15. ranges' \subseteq Address \X Address
  BY <1>3, <1>14, PayloadsTyped
<1>16. CASE Report(o, Request(o), list) = "none"
  <2>. DEFINE z == FillWords(x, p, Ceil(o.size), i % 256)
  <2>1. Remember(o, x, p)
    BY <1>10, <1>11, <1>16 DEF Judge
  <2>2. i % 256 \in Nat
    BY <1>6, MmDriverAssumption
  <2>3. Holds(z, y.heap) /\ OthersKept(x, z, y, i) /\ \A k \in 0 .. Ceil(o.size) - 1 : z.word[p + k] = i % 256
    <3>1. z = Filled(x, y, i, i % 256)
      BY <1>6 DEF Filled
    <3>. HIDE DEF z
    <3>. QED BY <1>3, <1>4, <1>6, <2>2, <3>1, FillHolds
  <2>4. /\ mem' = z /\ live' = y.used /\ blocks' = [blocks EXCEPT ![i] = p]
        /\ block_sizes' = [block_sizes EXCEPT ![i] = o.size]
        /\ returned' = Append(returned, p) /\ pc' = "valid" /\ verdict' = "none"
    BY <1>2, <1>6, <1>13, <2>1 DEF Remember, i
  <2>. HIDE DEF z
  <2>5. blocks \in [Index -> Address \cup {NULL}] /\ block_sizes \in [Index -> Sizes \cup {0}]
    BY <1>1 DEF TypeOK
  <2>6. /\ blocks' \in [Index -> Address \cup {NULL}] /\ block_sizes' \in [Index -> Sizes \cup {0}]
        /\ blocks'[i] = p /\ block_sizes'[i] = o.size
        /\ \A j \in Index \ {i} : blocks'[j] = blocks[j] /\ block_sizes'[j] = block_sizes[j]
    BY <1>6, <1>8, <2>4, <2>5
  <2>7. ASSUME NEW j \in y.used PROVE blocks'[j] = y.at[j] + 3 /\ block_sizes'[j] = y.size[j]
    <3>1. CASE j = i
      BY <1>6, <2>6, <3>1
    <3>2. CASE j # i
      BY <1>2, <1>6, <1>8, <2>6, <3>2
    <3>. QED BY <3>1, <3>2
  <2>8. ASSUME NEW j \in y.used, NEW k \in 0 .. Ceil(y.size[j]) - 1
        PROVE  z.word[y.at[j] + 3 + k] = j % 256
    <3>1. CASE j = i
      BY <1>6, <2>3, <2>8, <3>1
    <3>2. CASE j # i
      <4>1. j \in s.used \ {i} /\ j \in y.used \ {i} /\ y.at[j] = s.at[j] /\ y.size[j] = s.size[j] /\ j \in live
        BY <1>2, <1>6, <3>2
      <4>2. y.at[j] + 3 + k \in y.at[j] + 3 .. After(y.heap, y.at[j]) - 2
        BY <1>3, <2>8, PayloadLies
      <4>3. s.at[j] + 3 + k \in s.at[j] + 3 .. After(s.heap, s.at[j]) - 2
        BY <2>8, <4>1, PayloadLies
      <4>4. z.word[y.at[j] + 3 + k] = x.word[y.at[j] + 3 + k]
        BY <2>3, <4>1, <4>2 DEF OthersKept
      <4>5. x.word[s.at[j] + 3 + k] = mem.word[s.at[j] + 3 + k]
        BY <1>4, <4>1, <4>3 DEF OthersKept
      <4>6. mem.word[s.at[j] + 3 + k] = j % 256
        BY <1>2, <2>8, <4>1
      <4>. QED BY <4>1, <4>4, <4>5, <4>6
    <3>. QED BY <3>1, <3>2
  <2>9. returned' \in Seq(Address \cup {NULL}) /\ Len(returned') =< Len(ops')
    <3>1. p \in Address \cup {NULL}
      BY <1>8
    <3>. QED BY <1>13, <2>4, <3>1
  <2>10. TypeOK'
    <3>1. mem' \in [brk : mem_start_brk .. mem_max_addr, word : [Address -> Nat]]
      BY <2>3, <2>4, MemoryTyped
    <3>2. pc' \in {"main", "valid", "util", "speed", "crashed", "exit"} /\ verdict' \in Verdict
      BY <2>4 DEF Verdict
    <3>3. live' \subseteq Index
      BY <1>8, <2>4
    <3>. QED BY <1>13, <1>15, <2>6, <2>9, <3>1, <3>2, <3>3 DEF TypeOK
  <2>11. \E T : History(T, Append(ops, o), Append(returned, Gives(s, o))) /\ T[Len(ops) + 2] = Served(s, o)
    <3>1. ops \in Seq(Op) /\ returned \in Seq(Address \cup {NULL})
      BY <1>1 DEF TypeOK
    <3>2. /\ Asked(S[Len(ops) + 1], o) /\ Granted(S[Len(ops) + 1], o)
          /\ Sound(Served(S[Len(ops) + 1], o))
      BY <1>3 DEF y
    <3>3. \E T : /\ History(T, Append(ops, o), Append(returned, Gives(S[Len(ops) + 1], o)))
                 /\ T[Len(ops) + 2] = Served(S[Len(ops) + 1], o)
      BY <3>1, <3>2, HistoryGrows
    <3>. QED BY <3>3
  <2>12. PICK T : History(T, ops', returned') /\ y = T[Len(ops') + 1]
    <3>1. Len(ops') + 1 = Len(ops) + 2
      BY <1>13
    <3>. QED BY <1>13, <2>4, <2>11, <3>1 DEF y, p
  <2>. QED BY <1>14, <2>3, <2>4, <2>7, <2>8, <2>10, <2>12, Accepted
<1>17. CASE Report(o, Request(o), list) # "none"
  <2>1. o.type = "REALLOC" /\ ~Preserved(o, x, p) /\ Report(o, Request(o), list) = "not preserved"
    BY <1>12, <1>17
  <2>2. Reject(x, "not preserved")
    BY <1>10, <1>11, <2>1 DEF Judge
  <2>3. /\ mem' = x /\ verdict' = "not preserved" /\ pc' = "main"
        /\ live' = live /\ blocks' = blocks /\ block_sizes' = block_sizes /\ returned' = returned
    BY <2>2 DEF Reject
  <2>4. TypeOK'
    <3>1. mem' \in [brk : mem_start_brk .. mem_max_addr, word : [Address -> Nat]]
      BY <1>4, <2>3, MemoryTyped
    <3>2. pc' \in {"main", "valid", "util", "speed", "crashed", "exit"} /\ verdict' \in Verdict
      BY <2>3 DEF Verdict
    <3>3. /\ live' \subseteq Index /\ blocks' \in [Index -> Address \cup {NULL}]
          /\ block_sizes' \in [Index -> Sizes \cup {0}]
      BY <1>1, <2>3 DEF TypeOK
    <3>4. returned' \in Seq(Address \cup {NULL}) /\ Len(returned') =< Len(ops')
      <4>1. Len(returned) =< Len(ops) + 1
        BY <1>13
      <4>. QED BY <1>13, <2>3, <4>1
    <3>. QED BY <1>13, <1>15, <3>1, <3>2, <3>3, <3>4 DEF TypeOK
  <2>5. o.index % 256 > 127
    <3>0. i \in Nat /\ o.index = i
      BY <1>6, MmDriverAssumption DEF i
    <3>1. SUFFICES ASSUME i % 256 =< 127 PROVE FALSE
      BY <3>0
    <3>2. i \in s.used
      BY <2>1 DEF Asked, i
    <3>3. \A k \in 0 .. s.heap.words[s.at[o.index]] - 5 :
              x.word[y.at[o.index] + 3 + k] = mem.word[s.at[o.index] + 3 + k]
      BY <1>4, <1>6, <2>1, <3>0
    <3>4. o.index \in s.used /\ o.index % 256 =< 127 /\ o.index \in y.used /\ y.size[o.index] = o.size
      BY <1>6, <3>0, <3>1, <3>2
    <3>5. live = s.used
      BY DEF AtWork
    <3>6. Preserved(o, x, y.at[o.index] + 3)
      BY <1>3, <3>3, <3>4, <3>5, PayloadCopied
    <3>. QED BY <1>6, <2>1, <3>0, <3>6
  <2>6. OnlyTheseAreRejected'
    BY <1>13, <2>1, <2>3, <2>5 DEF OnlyTheseAreRejected
  <2>. QED BY <2>3, <2>4, <2>6, Rejected
<1>. QED BY <1>16, <1>17

\* What stays typed when a trace is rejected or the program crashes.
LEMMA RefusedTyped ==
    ASSUME TypeOK, NEW o \in Op, Ask(o), mem' \in [brk : mem_start_brk .. mem_max_addr, word : [Address -> Nat]],
           pc' \in {"main", "crashed"}, verdict' \in Verdict,
           UNCHANGED <<live, blocks, block_sizes, returned>>, ranges' \subseteq Address \X Address
    PROVE  TypeOK'
<1>1. /\ Len(ops) \in Nat /\ Len(ops') = Len(ops) + 1 /\ ops' \in Seq(Op)
      /\ traces' \in 0 .. num_tracefiles /\ left' \in 0 .. MaxOps /\ op' \in 1 .. Len(ops') + 1
      /\ {total_size', max_total_size'} \subseteq Int
      /\ returned \in Seq(Address \cup {NULL}) /\ Len(returned) \in Nat /\ Len(returned) =< Len(ops)
  BY AskIs
<1>2. /\ live' \subseteq Index /\ blocks' \in [Index -> Address \cup {NULL}]
      /\ block_sizes' \in [Index -> Sizes \cup {0}]
  BY DEF TypeOK
<1>3. returned' \in Seq(Address \cup {NULL}) /\ Len(returned') =< Len(ops')
  <2>1. Len(returned) =< Len(ops) + 1
    BY <1>1
  <2>. QED BY <1>1, <2>1
<1>. QED BY <1>1, <1>2, <1>3 DEF TypeOK

\* malloc_error is called for a call that returns NULL.
LEMMA NullIsRejected ==
    ASSUME Inv, verdict = "none", NEW o \in Op, o.type # "FREE", o.size = 0, Ask(o),
           NEW x, NEW list, Request(o) = Returns(x, NULL),
           x \in [brk : mem_start_brk .. mem_max_addr, word : [Address -> Nat]],
           Answer(o, Request(o), list)
    PROVE  Inv'
<1>. DEFINE report == IF o.type = "ALLOC" THEN "mm_malloc failed" ELSE "mm_realloc failed"
<1>1. Request(o).mem = x /\ Request(o).p = NULL /\ Request(o).ends = {"returns"}
  BY DEF Returns
<1>2. Report(o, Request(o), list) = report
  BY <1>1 DEF Report
<1>3. report \in {"mm_malloc failed", "mm_realloc failed"}
  OBVIOUS
<1>. HIDE DEF report
<1>4. Judge(o, Request(o), list, report)
  BY <1>1, <1>2 DEF Answer
<1>5. ranges' = ranges /\ Reject(x, report)
  BY <1>1, <1>3, <1>4 DEF Judge, RangesAfter
<1>6. /\ mem' = x /\ verdict' = report /\ pc' = "main"
      /\ UNCHANGED <<live, blocks, block_sizes, returned>>
  BY <1>5 DEF Reject
<1>7. TypeOK /\ ranges \subseteq Address \X Address
  BY DEF Inv, TypeOK
<1>8. TypeOK'
  <2>1. verdict' \in Verdict
    BY <1>3, <1>6 DEF Verdict
  <2>. QED BY <1>5, <1>6, <1>7, <2>1, RefusedTyped
<1>9. OnlyTheseAreRejected'
  <2>1. ops'[Len(ops')] = o
    BY <1>7, AskIs
  <2>. QED BY <1>3, <1>6, <2>1 DEF OnlyTheseAreRejected
<1>. QED BY <1>6, <1>8, <1>9, Rejected

\* mm_malloc crashes when the heap is full, and no free block is large enough.
LEMMA AllocRefused ==
    ASSUME Inv, verdict = "none", NEW s, Sound(s), AtWork(s),
           NEW o \in Op, o.type = "ALLOC", Asked(s, o), ~Granted(s, o), Ask(o), NEW list,
           Answer(o, Request(o), list)
    PROVE  Inv'
<1>. DEFINE H == s.heap
            w == Need(o.size)
<1>1. /\ Request(o) = mm_malloc(mem, o.size) /\ Holds(mem, H) /\ Tidy(H) /\ o.size \in Nat
      /\ (o.size = 0 \/ MallocFails(H, w))
  BY RequestIs, MmDriverAssumption DEF Call, AtWork, Sound, Op, Granted
<1>2. CASE o.size = 0
  <2>1. Request(o) = Returns(mem, NULL)
    BY <1>1, <1>2 DEF mm_malloc
  <2>2. mem \in [brk : mem_start_brk .. mem_max_addr, word : [Address -> Nat]]
    BY DEF Inv, TypeOK
  <2>. QED BY <1>2, <2>1, <2>2, NullIsRejected
<1>3. CASE o.size # 0
  <2>1. \E x : /\ mm_malloc(mem, o.size) = Crashes(x)
               /\ IsMemory(x) /\ x.brk = H.brk
               /\ \A b \in Blocks(H) : Size(x, b) = SizeWord(H, b)
               /\ \A b \in H.free : H.words[b] < w
    BY <1>1, <1>3, MallocHolds
  <2>2. PICK x : /\ mm_malloc(mem, o.size) = Crashes(x)
                 /\ IsMemory(x) /\ x.brk = H.brk
                 /\ \A b \in Blocks(H) : Size(x, b) = SizeWord(H, b)
                 /\ \A b \in H.free : H.words[b] < w
    BY <2>1
  <2>3. Shape(H) /\ w \in Nat /\ ALIGN(o.size + BLK_HDR_FTR_SIZE) = 8 * w
    BY <1>1, <1>3, NeedIs DEF Holds
  <2>. HIDE DEF H, w
  <2>4. Crash(x)
    <3>1. Request(o).mem = x /\ Request(o).ends = {"crashes"}
      BY <1>1, <2>2 DEF Crashes
    <3>. QED BY <3>1 DEF Answer
  <2>5. /\ mem' = x /\ pc' = "crashed" /\ verdict' = "none" /\ ranges' = ranges
        /\ UNCHANGED <<live, blocks, block_sizes, returned>>
    BY <2>4 DEF Crash
  <2>6. TypeOK /\ ranges \subseteq Address \X Address
    BY DEF Inv, TypeOK
  <2>7. TypeOK'
    <3>1. x \in [brk : mem_start_brk .. mem_max_addr, word : [Address -> Nat]]
      BY <1>1, <2>2, MemoryTyped
    <3>2. verdict' \in Verdict
      BY <2>5 DEF Verdict
    <3>. QED BY <2>5, <2>6, <3>1, <3>2, RefusedTyped
  <2>8. \A b \in FreeHeads(x) : Size(x, b) < ALIGN(o.size + BLK_HDR_FTR_SIZE)
    <3>1. Heads(x) = Blocks(H)
      BY <2>2, <2>3, HeadsIs
    <3>2. SUFFICES ASSUME NEW b \in Blocks(H), IsFree(Size(x, b)) PROVE Size(x, b) < 8 * w
      BY <2>3, <3>1 DEF FreeHeads
    <3>3. H.words[b] \in Nat /\ Size(x, b) = SizeWord(H, b)
      BY <2>2, <2>3 DEF Shape
    <3>4. b \in H.free
      BY <3>2, <3>3 DEF IsFree, SizeWord
    <3>5. Size(x, b) = 8 * H.words[b] /\ H.words[b] < w
      BY <2>2, <3>3, <3>4 DEF SizeWord
    <3>. QED BY <2>3, <3>3, <3>5
  <2>9. CrashesOnlyWhenFull'
    <3>1. ops'[Len(ops')] = o
      BY <2>6, AskIs
    <3>. QED BY <2>5, <2>8, <3>1 DEF CrashesOnlyWhenFull, FreeHeads, Heads, Size, GET_EPILOGUE
  <2>. QED BY <2>5, <2>7, <2>9, Crashed
<1>. QED BY <1>2, <1>3

\* mm_realloc to a size of 0 frees the block; when mem_sbrk fails, it crashes,
\* or returns a block that ends outside the heap.
LEMMA ReallocRefused ==
    ASSUME SizesFarApart, Inv, verdict = "none", NEW s, Sound(s), AtWork(s), Checked(s),
           NEW o \in Op, o.type = "REALLOC", Asked(s, o), ~Granted(s, o), Ask(o),
           Answer(o, Request(o), Payloads(s, s.used \ {o.index}))
    PROVE  Inv'
<1>. DEFINE H == s.heap
            i == o.index
            b == s.at[i]
            w == Need(o.size)
            call == mm_realloc(mem, b + 3, o.size)
            list == Payloads(s, s.used \ {i})
<1>1. /\ Request(o) = call /\ Holds(mem, H) /\ Tidy(H) /\ Shape(H) /\ o.size \in Sizes /\ o.size \in Nat
      /\ i \in s.used /\ (o.size = 0 \/ ReallocFails(H, b, w))
  BY RequestIs, MmDriverAssumption DEF Call, AtWork, Sound, Asked, Op, Granted
<1>2. Houses(H, b, s.size[i])
  BY <1>1 DEF Sound
<1>3. b \in Blocks(H) /\ b \notin H.free /\ Snug(H.words[b])
  BY <1>2 DEF Houses
<1>. HIDE DEF H, i, b
<1>4. b \in Nat /\ b + 3 # NULL /\ H.words[b] \in Nat
  <2>1. b \in Nat /\ H.words[b] \in Nat
    BY <1>1, <1>3, BlockLies
  <2>. QED BY <2>1 DEF NULL
<1>5. CASE o.size = 0
  <2>1. Request(o) = Returns(mm_free(mem, b + 3), NULL)
    BY <1>1, <1>5 DEF mm_realloc
  <2>2. Holds(mm_free(mem, b + 3), AfterFree(H, b))
    BY <1>1, <1>3, FreeHolds
  <2>3. mm_free(mem, b + 3) \in [brk : mem_start_brk .. mem_max_addr, word : [Address -> Nat]]
    BY <2>2, MemoryTyped
  <2>. QED BY <1>5, <2>1, <2>3, NullIsRejected
<1>6. CASE o.size # 0
  <2>1. w \in Nat /\ 5 =< w /\ Ceil(o.size) = w - 4
    BY <1>1, <1>6, NeedIs DEF Ceil
  <2>2. w =< H.words[b] \/ H.words[b] + 5 =< w
    BY <1>1, <1>3, <1>4, <1>6, SizesGap
  <2>3. ReallocFails(H, b, w)
    BY <1>1, <1>6
  <2>4. /\ IsMemory(call.mem) /\ call.mem.brk = H.brk
        /\ \/ call.ends = {"crashes"}
           \/ /\ call.p = b + 3
              /\ H.brk =< b + w - 2 /\ H.brk + w - 4 > mem_max_addr
    BY <1>1, <1>3, <1>6, <2>2, <2>3, ReallocCrashes
  <2>. HIDE DEF w, call, list
  <2>5. call.mem \in [brk : mem_start_brk .. mem_max_addr, word : [Address -> Nat]]
    BY <1>1, <2>4, MemoryTyped
  <2>6. TypeOK /\ ops'[Len(ops')] = o
    <3>1. TypeOK
      BY DEF Inv
    <3>. QED BY <3>1, AskIs
  <2>7. list \subseteq Address \X Address /\ ranges \subseteq Address \X Address
    <3>1. s.used \ {i} \in SUBSET s.used
      OBVIOUS
    <3>. QED BY <2>6, <3>1, PayloadsTyped DEF TypeOK, list
  <2>8. CASE Crash(call.mem)
    <3>1. /\ mem' = call.mem /\ pc' = "crashed" /\ verdict' = "none" /\ ranges' = ranges
          /\ UNCHANGED <<live, blocks, block_sizes, returned>>
      BY <2>8 DEF Crash
    <3>2. TypeOK'
      <4>1. verdict' \in Verdict
        BY <3>1 DEF Verdict
      <4>. QED BY <2>5, <2>6, <2>7, <3>1, <4>1, RefusedTyped
    <3>3. CrashesOnlyWhenFull'
      BY <2>6 DEF CrashesOnlyWhenFull
    <3>. QED BY <3>1, <3>2, <3>3, Crashed
  <2>9. CASE ~Crash(call.mem)
    <3>1. "returns" \in call.ends /\ Judge(o, call, list, Report(o, call, list))
      BY <1>1, <2>9 DEF Answer, list, i
    <3>2. call.p = b + 3 /\ H.brk =< b + w - 2 /\ H.brk + w - 4 > mem_max_addr
      BY <2>4, <3>1
    <3>3. Extent(call.p, o.size)[2] = b + w - 2
      BY <1>4, <2>1, <3>2 DEF Extent
    <3>4. RangeError(call.mem, list, Extent(call.p, o.size)) = "outside"
      <4>1. H.brk \in Nat
        BY <1>1 DEF Shape
      <4>2. ~InHeap(call.mem, Extent(call.p, o.size)[2])
        BY <1>4, <2>1, <2>4, <3>2, <3>3, <4>1 DEF InHeap, mem_heap_hi
      <4>. QED BY <4>2 DEF RangeError
    <3>5. Report(o, call, list) = "outside"
      BY <1>4, <3>2, <3>4 DEF Report
    <3>6. Reject(call.mem, "outside") /\ ranges' = list
      BY <1>4, <3>1, <3>2, <3>5 DEF Judge, RangesAfter
    <3>7. /\ mem' = call.mem /\ verdict' = "outside" /\ pc' = "main"
          /\ UNCHANGED <<live, blocks, block_sizes, returned>>
      BY <3>6 DEF Reject
    <3>8. TypeOK'
      <4>1. verdict' \in Verdict
        BY <3>7 DEF Verdict
      <4>. QED BY <2>5, <2>6, <2>7, <3>6, <3>7, <4>1, RefusedTyped
    <3>9. OnlyTheseAreRejected'
      <4>1. ~CanGrow(call.mem, Ceil(o.size))
        <5>1. H.brk \in Nat /\ mem_max_addr \in Nat
          BY <1>1, Addresses DEF Shape
        <5>. QED BY <2>1, <2>4, <3>2, <5>1 DEF CanGrow
      <4>. QED BY <2>6, <3>7, <4>1 DEF OnlyTheseAreRejected, CanGrow
    <3>. QED BY <3>7, <3>8, <3>9, Rejected
  <2>. QED BY <2>8, <2>9
<1>. QED BY <1>5, <1>6

LEMMA FreeGranted ==
    ASSUME SizesFarApart, Inv, verdict = "none",
           NEW S, History(S, ops, returned), NEW s, s = S[Len(ops) + 1], Sound(s),
           AtWork(s), SizesKnown(s), Checked(s),
           NEW o \in Op, Asked(s, o), ValidFree(o)
    PROVE  Inv'
<1>. DEFINE i == o.index
            y == Served(s, o)
            p == Gives(s, o)
<1>1. TypeOK /\ o.type = "FREE" /\ Granted(s, o) /\ p = NULL
  BY DEF Inv, ValidFree, Granted, Gives
<1>2. /\ Holds(mem, s.heap) /\ live = s.used /\ \A j \in live : blocks[j] = s.at[j] + 3 /\ block_sizes[j] = s.size[j]
      /\ ranges = Payloads(s, s.used)
      /\ \A j \in live : \A k \in 0 .. Ceil(s.size[j]) - 1 : mem.word[s.at[j] + 3 + k] = j % 256
  BY DEF AtWork, SizesKnown, Checked
<1>3. Sound(y) /\ \E x : Leaves(mem, s, o, x)
  BY <1>1, <1>2, Serve
<1>4. PICK x : Call(mem, s, o) = Returns(x, p) /\ Holds(x, y.heap) /\ OthersKept(mem, x, s, i)
  BY <1>3 DEF Leaves
<1>5. Request(o).mem = x
  <2>1. Request(o) = Returns(x, p)
    BY <1>4, RequestIs
  <2>. QED BY <2>1 DEF Returns
<1>6. /\ i \in Index /\ i \in s.used /\ y.used = s.used \ {i}
      /\ \A j \in s.used \ {i} : y.at[j] = s.at[j] /\ y.size[j] = s.size[j]
  BY <1>1, ServedIs
<1>7. Payloads(s, s.used \ {i}) = Payloads(y, y.used)
  <2>1. Payloads(Served(s, o), s.used \ {o.index}) = Payloads(s, s.used \ {o.index})
    BY PayloadsKept
  <2>. QED BY <1>6, <2>1
<1>8. /\ mem' = x /\ ranges' = remove_range(ranges, blocks[i]) /\ live' = live \ {i}
      /\ returned' = Append(returned, p) /\ pc' = pc
      /\ UNCHANGED <<blocks, block_sizes, verdict>> /\ Ask(o)
  BY <1>1, <1>5 DEF ValidFree
<1>. HIDE DEF i, y, p
<1>9. ranges' = Payloads(y, y.used)
  <2>1. ranges' = remove_range(Payloads(s, s.used), s.at[i] + 3)
    BY <1>2, <1>6, <1>8
  <2>2. remove_range(Payloads(s, s.used), s.at[i] + 3) = Payloads(s, s.used \ {i})
    BY <1>6, RangeRemoved
  <2>. QED BY <1>7, <2>1, <2>2
<1>10. /\ ops' = Append(ops, o) /\ ops' \in Seq(Op) /\ Len(ops) \in Nat /\ Len(ops') = Len(ops) + 1
       /\ pc = "valid"
       /\ traces' \in 0 .. num_tracefiles /\ left' \in 0 .. MaxOps /\ op' \in 1 .. Len(ops') + 1
       /\ {total_size', max_total_size'} \subseteq Int
       /\ returned \in Seq(Address \cup {NULL}) /\ Len(returned) \in Nat /\ Len(returned) =< Len(ops)
  BY <1>1, <1>8, AskIs
<1>11. y.used \subseteq Index /\ live' = y.used
  BY <1>2, <1>3, <1>6, <1>8 DEF Sound
<1>12. TypeOK'
  <2>1. mem' \in [brk : mem_start_brk .. mem_max_addr, word : [Address -> Nat]]
    BY <1>4, <1>8, MemoryTyped
  <2>2. pc' \in {"main", "valid", "util", "speed", "crashed", "exit"} /\ verdict' \in Verdict
    BY <1>8, <1>10 DEF Verdict
  <2>3. blocks' \in [Index -> Address \cup {NULL}] /\ block_sizes' \in [Index -> Sizes \cup {0}]
    BY <1>1, <1>8 DEF TypeOK
  <2>4. returned' \in Seq(Address \cup {NULL}) /\ Len(returned') =< Len(ops')
    <3>1. p \in Address \cup {NULL}
      BY <1>1
    <3>. QED BY <1>8, <1>10, <3>1
  <2>5. ranges' \subseteq Address \X Address
    BY <1>3, <1>9, PayloadsTyped
  <2>. QED BY <1>10, <1>11, <2>1, <2>2, <2>3, <2>4, <2>5 DEF TypeOK
<1>13. ASSUME NEW j \in y.used, NEW k \in 0 .. Ceil(y.size[j]) - 1
       PROVE  x.word[y.at[j] + 3 + k] = j % 256
  <2>1. j \in s.used \ {i} /\ y.at[j] = s.at[j] /\ y.size[j] = s.size[j] /\ j \in live
    BY <1>2, <1>6
  <2>2. s.at[j] + 3 + k \in s.at[j] + 3 .. After(s.heap, s.at[j]) - 2
    BY <1>13, <2>1, PayloadLies
  <2>3. x.word[s.at[j] + 3 + k] = mem.word[s.at[j] + 3 + k]
    BY <1>4, <2>1, <2>2 DEF OthersKept
  <2>4. mem.word[s.at[j] + 3 + k] = j % 256
    BY <1>2, <1>13, <2>1
  <2>. QED BY <2>1, <2>3, <2>4
<1>14. PICK T : History(T, ops', returned') /\ y = T[Len(ops') + 1]
  <2>1. ops \in Seq(Op) /\ returned \in Seq(Address \cup {NULL})
    BY <1>1 DEF TypeOK
  <2>2. /\ Asked(S[Len(ops) + 1], o) /\ Granted(S[Len(ops) + 1], o)
        /\ Sound(Served(S[Len(ops) + 1], o))
    BY <1>1, <1>3 DEF y
  <2>3. \E T : /\ History(T, Append(ops, o), Append(returned, Gives(S[Len(ops) + 1], o)))
               /\ T[Len(ops) + 2] = Served(S[Len(ops) + 1], o)
    BY <2>1, <2>2, HistoryGrows
  <2>4. Len(ops') + 1 = Len(ops) + 2
    BY <1>10
  <2>. QED BY <1>8, <1>10, <2>3, <2>4 DEF y, p
<1>15. \A j \in y.used : blocks'[j] = y.at[j] + 3 /\ block_sizes'[j] = y.size[j]
  BY <1>2, <1>6, <1>8
<1>16. pc' = "valid" /\ verdict' = "none" /\ Holds(mem', y.heap)
  BY <1>4, <1>8, <1>10
<1>17. \A j \in y.used : \A k \in 0 .. Ceil(y.size[j]) - 1 : mem'.word[y.at[j] + 3 + k] = j % 256
  BY <1>8, <1>13
<1>. QED BY <1>9, <1>11, <1>12, <1>14, <1>15, <1>16, <1>17, Accepted

-----------------------------------------------------------------------------
(* Every step.                                                             *)

\* What an invariant of the driver gives to a step of eval_mm_valid.
LEMMA InvValid ==
    ASSUME Inv, pc = "valid"
    PROVE  verdict = "none" /\ \E S : /\ History(S, ops, returned) /\ Sound(S[Len(ops) + 1])
                                      /\ AtWork(S[Len(ops) + 1]) /\ SizesKnown(S[Len(ops) + 1])
                                      /\ Checked(S[Len(ops) + 1])
<1>1. verdict = "none"
  BY DEF Inv
<1>2. PICK S : /\ History(S, ops, returned) /\ AtWork(S[Len(ops) + 1])
               /\ SizesKnown(S[Len(ops) + 1]) /\ Checked(S[Len(ops) + 1])
  BY DEF Inv
<1>3. Len(ops) + 1 \in 1 .. Len(ops) + 1
  <2>1. ops \in Seq(Op)
    BY DEF Inv, TypeOK
  <2>2. Len(ops) \in Nat
    BY <2>1
  <2>. QED BY <2>2
<1>4. Sound(S[Len(ops) + 1])
  BY <1>2, <1>3 DEF History
<1>. QED BY <1>1, <1>2, <1>4

LEMMA ValidStep ==
    ASSUME SizesFarApart, Inv, NEW o \in Op, ValidAlloc(o) \/ ValidRealloc(o) \/ ValidFree(o)
    PROVE  Inv'
<1>1. Ask(o) /\ pc = "valid" /\ IsRequest(o)
  BY DEF ValidAlloc, ValidRealloc, ValidFree, Ask
<1>2. verdict = "none"
  BY <1>1, InvValid
<1>3. PICK S : /\ History(S, ops, returned) /\ Sound(S[Len(ops) + 1])
               /\ AtWork(S[Len(ops) + 1]) /\ SizesKnown(S[Len(ops) + 1])
               /\ Checked(S[Len(ops) + 1])
  BY <1>1, InvValid
<1>4. PICK s : s = S[Len(ops) + 1]
  OBVIOUS
<1>5. Sound(s) /\ AtWork(s) /\ SizesKnown(s) /\ Checked(s)
  BY <1>3, <1>4
<1>6. Asked(s, o) /\ live = s.used /\ ranges = Payloads(s, s.used)
  BY <1>1, <1>5 DEF Asked, IsRequest, AtWork, Checked
<1>7. CASE ValidAlloc(o)
  <2>1. o.type = "ALLOC" /\ Answer(o, Request(o), ranges)
    BY <1>7 DEF ValidAlloc
  <2>2. s.used \ {o.index} = s.used
    BY <1>6, <2>1 DEF Asked
  <2>3. Answer(o, Request(o), Payloads(s, s.used \ {o.index}))
    BY <1>6, <2>1, <2>2
  <2>4. CASE Granted(s, o)
    BY <1>1, <1>2, <1>3, <1>4, <1>5, <1>6, <2>1, <2>3, <2>4, ValidGranted
  <2>5. CASE ~Granted(s, o)
    BY <1>1, <1>2, <1>5, <1>6, <2>1, <2>5, AllocRefused
  <2>. QED BY <2>4, <2>5
<1>8. CASE ValidRealloc(o)
  <2>1. o.type = "REALLOC" /\ Answer(o, Request(o), remove_range(ranges, blocks[o.index]))
    BY <1>8 DEF ValidRealloc
  <2>2. o.index \in s.used /\ blocks[o.index] = s.at[o.index] + 3
    BY <1>5, <1>6, <2>1 DEF Asked, AtWork
  <2>3. remove_range(ranges, blocks[o.index]) = Payloads(s, s.used \ {o.index})
    BY <1>5, <1>6, <2>2, RangeRemoved
  <2>4. Answer(o, Request(o), Payloads(s, s.used \ {o.index}))
    BY <2>1, <2>3
  <2>5. CASE Granted(s, o)
    BY <1>1, <1>2, <1>3, <1>4, <1>5, <1>6, <2>1, <2>4, <2>5, ValidGranted
  <2>6. CASE ~Granted(s, o)
    BY <1>1, <1>2, <1>5, <1>6, <2>1, <2>4, <2>6, ReallocRefused
  <2>. QED BY <2>5, <2>6
<1>9. CASE ValidFree(o)
  BY <1>2, <1>3, <1>4, <1>5, <1>6, <1>9, FreeGranted
<1>. QED BY <1>7, <1>8, <1>9

LEMMA InitInv == Init => Inv
<1>. SUFFICES ASSUME Init PROVE Inv
  OBVIOUS
<1>1. TypeOK
  <2>1. mem \in [brk : mem_start_brk .. mem_max_addr, word : [Address -> Nat]]
    BY MemLibAssumption DEF Init, mem_init, mem_max_addr
  <2>2. ops \in Seq(Op) /\ Len(ops) = 0 /\ returned \in Seq(Address \cup {NULL}) /\ Len(returned) = 0
    BY DEF Init
  <2>. QED BY <2>1, <2>2, MmDriverAssumption DEF Init, TypeOK, Verdict
<1>. QED BY <1>1 DEF Init, Inv, OnlyTheseAreRejected, CrashesOnlyWhenFull

\* A replay begins.
LEMMA ReplayInv ==
    ASSUME Inv, NEW evaluation \in {"util", "speed"}, Replay(evaluation),
           verdict = "none", \E S : History(S, ops, returned),
           {total_size', max_total_size'} \subseteq Int
    PROVE  Inv'
<1>1. PICK S : History(S, ops, returned)
  OBVIOUS
<1>2. TypeOK
  BY DEF Inv
<1>3. /\ pc' = evaluation /\ op' = 1 /\ live' = {} /\ Restart
      /\ UNCHANGED <<traces, left, ops, blocks, block_sizes, ranges, verdict, returned>>
  BY DEF Replay
<1>4. Holds(mem', Start.heap) /\ mem' \in [brk : mem_start_brk .. mem_max_addr, word : [Address -> Nat]]
  BY <1>2, <1>3, Restarted
<1>5. TypeOK'
  <2>1. op' \in 1 .. Len(ops') + 1
    <3>1. ops \in Seq(Op)
      BY <1>2 DEF TypeOK
    <3>2. Len(ops) \in Nat /\ Len(ops') = Len(ops)
      BY <1>3, <3>1
    <3>. QED BY <1>3, <3>2
  <2>. QED BY <1>2, <1>3, <1>4, <2>1 DEF TypeOK
<1>6. S[1] = Start /\ Start.used = {}
  BY <1>1 DEF History, Start
<1>7. AtWork(S[1])' /\ SizesKnown(S[1])' /\ History(S, ops', returned')
  BY <1>1, <1>3, <1>4, <1>6 DEF AtWork, SizesKnown
<1>. QED BY <1>3, <1>5, <1>7 DEF Inv, OnlyTheseAreRejected, CrashesOnlyWhenFull

LEMMA StartTraceInv ==
    ASSUME Inv, StartTrace
    PROVE  Inv'
<1>1. TypeOK
  BY DEF Inv
<1>2. /\ traces < num_tracefiles /\ pc' = "valid" /\ traces' = traces + 1 /\ Restart /\ ops' = <<>>
      /\ live' = {} /\ blocks' = [i \in Index |-> NULL] /\ block_sizes' = [i \in Index |-> 0]
      /\ ranges' = {} /\ verdict' = "none" /\ returned' = <<>> /\ op' = 1
      /\ UNCHANGED <<left, total_size, max_total_size>>
  BY DEF StartTrace
<1>3. Holds(mem', Start.heap) /\ mem' \in [brk : mem_start_brk .. mem_max_addr, word : [Address -> Nat]]
  BY <1>1, <1>2, Restarted
<1>4. ops' \in Seq(Op) /\ Len(ops') = 0 /\ returned' \in Seq(Address \cup {NULL}) /\ Len(returned') = 0
  BY <1>2
<1>5. TypeOK'
  <2>1. traces' \in 0 .. num_tracefiles
    BY <1>1, <1>2, MmDriverAssumption DEF TypeOK
  <2>2. /\ blocks' \in [Index -> Address \cup {NULL}] /\ block_sizes' \in [Index -> Sizes \cup {0}]
        /\ live' \subseteq Index /\ ranges' \subseteq Address \X Address
        /\ op' \in 1 .. Len(ops') + 1 /\ verdict' \in Verdict /\ Len(returned') =< Len(ops')
    BY <1>2, <1>4 DEF Verdict
  <2>3. left' \in 0 .. MaxOps /\ {total_size', max_total_size'} \subseteq Int
    BY <1>1, <1>2 DEF TypeOK
  <2>. QED BY <1>2, <1>3, <1>4, <2>1, <2>2, <2>3 DEF TypeOK
<1>6. PICK T : T = [k \in {1} |-> Start]
  OBVIOUS
<1>7. T[1] = Start /\ Start.used = {}
  BY <1>6 DEF Start
<1>8. History(T, ops', returned')
  BY <1>4, <1>7, StartIsSound DEF History
<1>9. Payloads(Start, Start.used) = {}
  BY <1>7 DEF Payloads
<1>10. Len(ops') + 1 = 1
  BY <1>4
<1>11. Holds(mem', Start.heap) /\ live' = Start.used /\ ranges' = Payloads(Start, Start.used)
  BY <1>2, <1>3, <1>7, <1>9
<1>. QED BY <1>2, <1>5, <1>7, <1>8, <1>10, <1>11, Accepted

LEMMA UtilStepInv ==
    ASSUME SizesFarApart, Inv, UtilStep
    PROVE  Inv'
<1>1. TypeOK /\ pc = "util" /\ verdict = "none"
  BY DEF Inv, UtilStep
<1>2. PICK S : History(S, ops, returned) /\ AtWork(S[op]) /\ SizesKnown(S[op])
  BY <1>1 DEF Inv
<1>3. PICK k : k = op
  OBVIOUS
<1>4. k \in 1 .. Len(ops) /\ Repeat(ops[k], Request(ops[k]))
  BY <1>1, <1>3 DEF UtilStep, TypeOK
<1>5. /\ pc' = pc /\ AtWork(S[k + 1])'
      /\ mem' \in [brk : mem_start_brk .. mem_max_addr, word : [Address -> Nat]]
      /\ live' \subseteq Index
      /\ blocks' \in [Index -> Address \cup {NULL}]
  BY <1>1, <1>2, <1>3, <1>4, RepeatHolds
<1>6. /\ op' = k + 1 /\ UNCHANGED <<traces, left, ops, ranges, verdict, returned>>
  BY <1>3, <1>4 DEF Repeat
<1>. DEFINE o == ops[k]
            s == S[k]
            y == S[k + 1]
<1>7. /\ Sound(s) /\ Asked(s, o) /\ y = Served(s, o)
  <2>1. k \in 1 .. Len(ops) + 1
    BY <1>1, <1>4 DEF TypeOK
  <2>. QED BY <1>2, <1>4, <2>1 DEF History
<1>8. /\ o.index \in Index /\ live = s.used /\ live' = y.used
      /\ \A j \in live : block_sizes[j] = s.size[j]
  BY <1>2, <1>3, <1>5, <1>7 DEF AtWork, SizesKnown, Asked, Op
<1>9. /\ IF o.type = "FREE"
         THEN o.index \in s.used /\ y.used = s.used \ {o.index}
         ELSE /\ y.used = s.used \cup {o.index} /\ o.size \in Sizes
              /\ y.size[o.index] = o.size
      /\ \A j \in s.used \ {o.index} : y.size[j] = s.size[j]
  BY <1>7, ServedIs
<1>10. /\ total_size' = total_size + Change(o)
       /\ max_total_size' \in {max_total_size, total_size'}
       /\ block_sizes' = IF o.type = "FREE" THEN block_sizes
                         ELSE [block_sizes EXCEPT ![o.index] = o.size]
  BY <1>3 DEF UtilStep
<1>. HIDE DEF o, s, y
<1>11. block_sizes \in [Index -> Sizes \cup {0}] /\ total_size \in Int /\ max_total_size \in Int
  BY <1>1 DEF TypeOK
<1>12. block_sizes' \in [Index -> Sizes \cup {0}] /\ \A j \in live' : block_sizes'[j] = y.size[j]
  <2>1. s.used \subseteq Index
    BY <1>7 DEF Sound
  <2>2. CASE o.type = "FREE"
    BY <1>8, <1>9, <1>10, <1>11, <2>1, <2>2
  <2>3. CASE o.type # "FREE"
    BY <1>8, <1>9, <1>10, <1>11, <2>1, <2>3
  <2>. QED BY <2>2, <2>3
<1>13. total_size' \in Int /\ max_total_size' \in Int
  <2>1. o \in Op
    BY <1>7 DEF Asked
  <2>2. block_sizes[o.index] \in Int /\ o.size \in Int
    <3>1. \A n \in Sizes \cup {0} : n \in Int
      BY MmDriverAssumption
    <3>2. block_sizes[o.index] \in Sizes \cup {0}
      BY <1>8, <1>11
    <3>3. o.size \in Sizes \cup {0}
      BY <2>1 DEF Op
    <3>. QED BY <3>1, <3>2, <3>3
  <2>3. o.type \in {"ALLOC", "REALLOC", "FREE"}
    BY <2>1 DEF Op
  <2>4. Change(o) \in Int
    BY <2>2, <2>3 DEF Change
  <2>. QED BY <1>10, <1>11, <2>4
<1>14. TypeOK'
  <2>1. op' \in 1 .. Len(ops') + 1
    BY <1>1, <1>4, <1>6 DEF TypeOK
  <2>. QED BY <1>1, <1>5, <1>6, <1>12, <1>13, <2>1 DEF TypeOK
<1>15. AtWork(S[op])' /\ SizesKnown(S[op])' /\ History(S, ops', returned')
  BY <1>2, <1>5, <1>6, <1>12 DEF SizesKnown, AtWork, y
<1>. QED BY <1>1, <1>5, <1>6, <1>14, <1>15 DEF Inv, OnlyTheseAreRejected, CrashesOnlyWhenFull

LEMMA SpeedStepInv ==
    ASSUME SizesFarApart, Inv, SpeedStep
    PROVE  Inv'
<1>1. TypeOK /\ pc = "speed" /\ verdict = "none"
  BY DEF Inv, SpeedStep
<1>2. PICK S : History(S, ops, returned) /\ AtWork(S[op])
  BY <1>1 DEF Inv
<1>3. PICK k : k = op
  OBVIOUS
<1>4. k \in 1 .. Len(ops) /\ Repeat(ops[k], Request(ops[k]))
  BY <1>1, <1>3 DEF SpeedStep, TypeOK
<1>5. /\ pc' = pc /\ AtWork(S[k + 1])'
      /\ mem' \in [brk : mem_start_brk .. mem_max_addr, word : [Address -> Nat]]
      /\ live' \subseteq Index
      /\ blocks' \in [Index -> Address \cup {NULL}]
  BY <1>1, <1>2, <1>3, <1>4, RepeatHolds
<1>6. /\ op' = k + 1 /\ UNCHANGED <<traces, left, ops, ranges, verdict, returned>>
      /\ UNCHANGED <<block_sizes, total_size, max_total_size>>
  BY <1>3, <1>4 DEF Repeat, SpeedStep
<1>7. TypeOK'
  <2>1. op' \in 1 .. Len(ops') + 1
    BY <1>1, <1>4, <1>6 DEF TypeOK
  <2>. QED BY <1>1, <1>5, <1>6, <2>1 DEF TypeOK
<1>8. AtWork(S[op])' /\ History(S, ops', returned')
  BY <1>2, <1>5, <1>6 DEF AtWork
<1>. QED BY <1>1, <1>5, <1>6, <1>7, <1>8 DEF Inv, OnlyTheseAreRejected, CrashesOnlyWhenFull

LEMMA NextInv == SizesFarApart /\ Inv /\ [Next]_vars => Inv'
<1>. SUFFICES ASSUME SizesFarApart, Inv, [Next]_vars PROVE Inv'
  OBVIOUS
<1>1. CASE StartTrace
  BY <1>1, StartTraceInv
<1>2. ASSUME NEW o \in Op, ValidAlloc(o) \/ ValidRealloc(o) \/ ValidFree(o) PROVE Inv'
  BY <1>2, ValidStep
<1>3. CASE StartUtil
  <2>1. pc = "valid" /\ Replay("util") /\ {total_size', max_total_size'} \subseteq Int
    BY <1>3 DEF StartUtil
  <2>2. verdict = "none" /\ \E S : History(S, ops, returned)
    BY <2>1, InvValid
  <2>. QED BY <2>1, <2>2, ReplayInv
<1>4. CASE UtilStep
  BY <1>4, UtilStepInv
<1>5. CASE StartSpeed \/ SpeedAgain
  <2>1. pc \in {"util", "speed"} /\ Replay("speed") /\ total_size' = total_size /\ max_total_size' = max_total_size
    BY <1>5 DEF StartSpeed, SpeedAgain
  <2>2. verdict = "none" /\ \E S : History(S, ops, returned)
    BY <2>1 DEF Inv
  <2>3. {total_size', max_total_size'} \subseteq Int
    BY <2>1 DEF Inv, TypeOK
  <2>. QED BY <2>1, <2>2, <2>3, ReplayInv
<1>6. CASE SpeedStep
  BY <1>6, SpeedStepInv
<1>7. CASE EndTrace
  <2>1. pc = "speed" /\ pc' = "main" /\ UNCHANGED <<mem, op, total_size, max_total_size, driver>>
    BY <1>7 DEF EndTrace
  <2>2. verdict = "none" /\ TypeOK
    BY <2>1 DEF Inv
  <2>3. TypeOK'
    BY <2>1, <2>2 DEF TypeOK, driver
  <2>4. OnlyTheseAreRejected'
    BY <2>1, <2>2 DEF OnlyTheseAreRejected, driver
  <2>. QED BY <2>1, <2>3, <2>4, Rejected
<1>8. CASE UNCHANGED vars
  <2>1. /\ mem' = mem /\ pc' = pc /\ op' = op /\ total_size' = total_size /\ max_total_size' = max_total_size
        /\ traces' = traces /\ left' = left /\ ops' = ops /\ live' = live /\ blocks' = blocks
        /\ block_sizes' = block_sizes /\ ranges' = ranges /\ verdict' = verdict /\ returned' = returned
    BY <1>8 DEF vars, driver
  <2>2. TypeOK'
    BY <2>1 DEF Inv, TypeOK
  <2>3. OnlyTheseAreRejected' /\ (verdict' # "none" => pc' = "main")
    BY <2>1 DEF Inv, OnlyTheseAreRejected
  <2>4. CrashesOnlyWhenFull'
    BY <2>1 DEF Inv, CrashesOnlyWhenFull
  <2>5. ASSUME NEW S
        PROVE  /\ AtWork(S[Len(ops) + 1]) => AtWork(S[Len(ops) + 1])'
               /\ SizesKnown(S[Len(ops) + 1]) => SizesKnown(S[Len(ops) + 1])'
               /\ Checked(S[Len(ops) + 1]) => Checked(S[Len(ops) + 1])'
               /\ AtWork(S[op]) => AtWork(S[op])'
               /\ SizesKnown(S[op]) => SizesKnown(S[op])'
    BY <2>1 DEF AtWork, SizesKnown, Checked
  <2>. QED BY <2>1, <2>2, <2>3, <2>4, <2>5 DEF Inv
<1>. QED BY <1>1, <1>2, <1>3, <1>4, <1>5, <1>6, <1>7, <1>8 DEF Next

LEMMA InvHolds == SizesFarApart => (Spec => []Inv)
<1>. SUFFICES ASSUME SizesFarApart PROVE Spec => []Inv
  OBVIOUS
<1>. QED BY InitInv, NextInv, PTL DEF Spec

-----------------------------------------------------------------------------
(* The theorems.  The sizes of the traces are far enough apart.            *)

\* Every variable keeps its type: the pointers that the driver keeps point into
\* the heap, and the ranges it compares do too.
THEOREM TypesAreKept == SizesFarApart => (Spec => []TypeOK)
<1>1. Inv => TypeOK
  BY DEF Inv
<1>. QED BY <1>1, InvHolds, PTL

\* In an evaluation the memory holds the heap of a state of the history.
LEMMA HeapHeld ==
    ASSUME Inv, Replaying
    PROVE  \E s : Sound(s) /\ Holds(mem, s.heap) /\ Tidy(s.heap)
<1>1. CASE pc = "valid"
  BY <1>1, InvValid DEF AtWork, Sound
<1>2. CASE pc \in {"util", "speed"}
  <2>1. PICK S : History(S, ops, returned) /\ AtWork(S[op])
    BY <1>2 DEF Inv
  <2>2. op \in 1 .. Len(ops) + 1
    BY DEF Inv, TypeOK
  <2>3. Sound(S[op])
    BY <2>1, <2>2 DEF History
  <2>. QED BY <2>1, <2>3 DEF AtWork, Sound
<1>. QED BY <1>1, <1>2 DEF Replaying

\* Whatever mm_malloc, mm_realloc and mm_free have done, the heap is blocks
\* without gaps, and the footers that coalease trusts say what the headers say.
THEOREM HeapStaysTiled == SizesFarApart => (Spec => []HeapIsTiled)
<1>1. Inv => HeapIsTiled
  <2>. SUFFICES ASSUME Inv, Replaying PROVE Tiled(mem) /\ HeadersMatchFooters(mem)
    BY DEF HeapIsTiled
  <2>1. PICK s : Holds(mem, s.heap) /\ Tidy(s.heap)
    BY HeapHeld
  <2>. QED BY <2>1, HeapIsSound
<1>. QED BY <1>1, InvHolds, PTL

\* coalease leaves no two free blocks side by side, and each of the four lists
\* holds exactly the free blocks of its sizes, linked both ways.
THEOREM FreeBlocksStayListed == SizesFarApart => (Spec => []FreeBlocksAreListed)
<1>1. Inv => FreeBlocksAreListed
  <2>. SUFFICES ASSUME Inv, Replaying PROVE NoFreeNeighbours(mem) /\ ListsHoldFreeBlocks(mem)
    BY DEF FreeBlocksAreListed
  <2>1. PICK s : Holds(mem, s.heap) /\ Tidy(s.heap)
    BY HeapHeld
  <2>. QED BY <2>1, HeapIsSound
<1>. QED BY <1>1, InvHolds, PTL

\* A payload keeps what eval_mm_valid wrote into it, through every split, join,
\* copy and relinking that later calls do around it.
THEOREM PayloadsStayIntact == SizesFarApart => (Spec => []PayloadsAreIntact)
<1>1. Inv => PayloadsAreIntact
  <2>. SUFFICES ASSUME Inv, pc = "valid",
                       NEW i \in live, NEW k \in 0 .. Ceil(block_sizes[i]) - 1
                PROVE  Read(mem, blocks[i] + k) = i % 256
    BY DEF PayloadsAreIntact
  <2>1. PICK S : /\ Sound(S[Len(ops) + 1]) /\ AtWork(S[Len(ops) + 1]) /\ SizesKnown(S[Len(ops) + 1])
                 /\ Checked(S[Len(ops) + 1])
    BY InvValid
  <2>2. PICK s : s = S[Len(ops) + 1]
    OBVIOUS
  <2>3. /\ Sound(s) /\ i \in s.used /\ block_sizes[i] = s.size[i] /\ blocks[i] = s.at[i] + 3
        /\ \A j \in 0 .. Ceil(s.size[i]) - 1 : mem.word[s.at[i] + 3 + j] = i % 256
    BY <2>1, <2>2 DEF AtWork, SizesKnown, Checked
  <2>4. s.at[i] + 3 + k \in Address
    BY <2>3, PayloadLies
  <2>. QED BY <2>3, <2>4 DEF Read
<1>. QED BY <1>1, InvHolds, PTL

\* malloc_error never reports two payloads that overlap, and reports nothing
\* else of a size above 0 but a full heap and, for indices whose low byte is
\* no char, data that is there all the same.
THEOREM RejectionsAreKnown == SizesFarApart => (Spec => []OnlyTheseAreRejected)
<1>1. Inv => OnlyTheseAreRejected
  BY DEF Inv
<1>. QED BY <1>1, InvHolds, PTL

\* mm_malloc asks mem_sbrk for more, and crashes when it fails, only if no free
\* block is large enough.
THEOREM CrashesMeanFull == SizesFarApart => (Spec => []CrashesOnlyWhenFull)
<1>1. Inv => CrashesOnlyWhenFull
  BY DEF Inv
<1>. QED BY <1>1, InvHolds, PTL

\* eval_mm_util and eval_mm_speed get from every call the pointer that
\* eval_mm_valid got, though the heap they begin with holds old words.
THEOREM ReplaysReturnTheSame == SizesFarApart => (Spec => ReplaysAgree)
<1>1. ASSUME SizesFarApart, Inv, UtilStep \/ SpeedStep
      PROVE  ops[op].type = "FREE" \/ blocks'[ops[op].index] = returned[op]
  <2>1. TypeOK /\ pc \in {"util", "speed"}
    BY <1>1 DEF Inv, UtilStep, SpeedStep
  <2>2. PICK S : History(S, ops, returned) /\ AtWork(S[op])
    BY <1>1, <2>1 DEF Inv
  <2>3. PICK k : k = op
    OBVIOUS
  <2>4. k \in 1 .. Len(ops) /\ Repeat(ops[k], Request(ops[k]))
    BY <1>1, <2>1, <2>3 DEF UtilStep, SpeedStep, TypeOK
  <2>5. ops[k].type # "FREE" => blocks'[ops[k].index] = returned[k]
    BY <1>1, <2>1, <2>2, <2>3, <2>4, RepeatHolds
  <2>. QED BY <2>3, <2>5
<1>2. SizesFarApart /\ Inv /\ [Next]_vars
          => [UtilStep \/ SpeedStep => ops[op].type = "FREE" \/ blocks'[ops[op].index] = returned[op]]_vars
  BY <1>1
<1>. SUFFICES ASSUME SizesFarApart PROVE Spec => ReplaysAgree
  OBVIOUS
<1>. QED BY <1>2, InvHolds, PTL DEF Spec, ReplaysAgree

-----------------------------------------------------------------------------
(* The abstract package.                                                   *)

\* The payloads that A has.
Package == [i \in IF pc \in {"valid", "util"} THEN live ELSE {} |-> Extent(blocks[i], block_sizes[i])]

InUse == pc \in {"valid", "util"} =>
    /\ live \subseteq Index
    /\ \A i \in live : Extent(blocks[i], block_sizes[i]) \in A!Extents
    /\ \A i, j \in live : i # j => A!Apart(Extent(blocks[i], block_sizes[i]), Extent(blocks[j], block_sizes[j]))

LEMMA PayloadsAreInUse == Inv => InUse
<1>. SUFFICES ASSUME Inv, pc \in {"valid", "util"}
              PROVE  /\ live \subseteq Index
                     /\ \A i \in live : Extent(blocks[i], block_sizes[i]) \in A!Extents
                     /\ \A i, j \in live : i # j => A!Apart(Extent(blocks[i], block_sizes[i]), Extent(blocks[j], block_sizes[j]))
  BY DEF InUse
<1>1. PICK s : Sound(s) /\ AtWork(s) /\ SizesKnown(s)
  <2>1. CASE pc = "valid"
    BY <2>1, InvValid
  <2>2. CASE pc = "util"
    <3>1. PICK S : History(S, ops, returned) /\ AtWork(S[op]) /\ SizesKnown(S[op])
      BY <2>2 DEF Inv
    <3>2. op \in 1 .. Len(ops) + 1
      BY DEF Inv, TypeOK
    <3>3. Sound(S[op])
      BY <3>1, <3>2 DEF History
    <3>. QED BY <3>1, <3>3
  <2>. QED BY <2>1, <2>2
<1>2. live = s.used /\ live \subseteq Index
  BY <1>1 DEF AtWork, Inv, TypeOK
<1>3. \A i \in live : Extent(blocks[i], block_sizes[i]) = Extent(s.at[i] + 3, s.size[i])
  BY <1>1 DEF AtWork, SizesKnown
<1>4. ASSUME NEW i \in live PROVE Extent(blocks[i], block_sizes[i]) \in A!Extents
  <2>. DEFINE b == s.at[i]
              c == Ceil(s.size[i])
  <2>1. /\ Extent(s.at[i] + 3, s.size[i]) = <<b + 3, b + 2 + c>> /\ b \in Nat /\ c \in Nat /\ 1 =< c
        /\ b + 3 \in Address /\ b + 2 + c \in Address
    BY <1>1, <1>2, PayloadLies
  <2>. HIDE DEF b, c
  <2>2. b + 3 =< b + 2 + c
    BY <2>1
  <2>3. \A e : e = <<b + 3, b + 2 + c>> => e \in A!Places \X A!Places /\ e[1] =< e[2]
    BY <2>1, <2>2 DEF A!Places, Address, mem_heap_lo
  <2>. QED BY <1>3, <2>1, <2>3 DEF A!Extents
<1>5. ASSUME NEW i \in live, NEW j \in live, i # j
      PROVE  A!Apart(Extent(blocks[i], block_sizes[i]), Extent(blocks[j], block_sizes[j]))
  BY <1>1, <1>2, <1>3, <1>5, PayloadsApart DEF A!Apart
<1>. QED BY <1>2, <1>4, <1>5

\* A place that the driver remembers is a place that the package gives.
LEMMA PlaceGiven ==
    ASSUME InUse', pc \in {"valid", "util"}, pc' \in {"valid", "util"},
           NEW i \in Index, live' = live \cup {i},
           \A j \in live \ {i} : blocks'[j] = blocks[j] /\ block_sizes'[j] = block_sizes[j]
    PROVE  A!Given(i)
<1>1. /\ DOMAIN Package = live /\ DOMAIN Package' = live'
      /\ \A j \in live : Package[j] = Extent(blocks[j], block_sizes[j])
      /\ \A j \in live' : Package'[j] = Extent(blocks'[j], block_sizes'[j])
  BY DEF Package
<1>2. i \in live' /\ Package'[i] \in A!Extents
  BY <1>1 DEF InUse
<1>3. \A j \in live \ {i} : Package'[j] = Package[j]
  BY <1>1
<1>4. \A j \in live \ {i} : A!Apart(Package'[i], Package[j])
  <2>. TAKE j \in live \ {i}
  <2>1. A!Apart(Package'[i], Package'[j])
    BY <1>1, <1>2 DEF InUse
  <2>. QED BY <1>3, <2>1
<1>5. Package' = [j \in DOMAIN Package \cup {i} |-> IF j = i THEN Package'[i] ELSE Package[j]]
  <2>1. Package' = [j \in DOMAIN Package' |-> Package'[j]]
    BY DEF Package
  <2>. QED BY <1>1, <1>3, <2>1
<1>. QED BY <1>1, <1>2, <1>4, <1>5 DEF A!Given, A!Fits, Package

LEMMA PackageEmptied ==
    ASSUME pc' \notin {"valid", "util"} \/ live' = {}
    PROVE  A!Reset
<1>1. Package' = [i \in {} |-> <<0, 0>>]
  BY DEF Package
<1>. QED BY <1>1 DEF A!Reset, Package

LEMMA PlaceFreed ==
    ASSUME pc \in {"valid", "util"}, pc' = pc, NEW i \in live, live' = live \ {i},
           \A j \in live' : blocks'[j] = blocks[j] /\ block_sizes'[j] = block_sizes[j]
    PROVE  A!Free(i)
<1>1. DOMAIN Package = live
  BY DEF Package
<1>2. Package' = [j \in live \ {i} |-> Package[j]]
  BY DEF Package
<1>. QED BY <1>1, <1>2 DEF A!Free, Package

\* A call of eval_mm_valid that is not rejected is a call of the package.
LEMMA ValidRefines ==
    ASSUME Inv, InUse', NEW o \in Op, ValidAlloc(o) \/ ValidRealloc(o) \/ ValidFree(o)
    PROVE  A!Next
<1>1. pc = "valid" /\ IsRequest(o) /\ o.index \in Index
  BY DEF ValidAlloc, ValidRealloc, ValidFree, Ask, Op
<1>2. blocks \in [Index -> Address \cup {NULL}] /\ block_sizes \in [Index -> Sizes \cup {0}]
      /\ live \subseteq Index
  BY DEF Inv, TypeOK
<1>3. CASE ValidAlloc(o) \/ ValidRealloc(o)
  <2>1. PICK call, list : Answer(o, call, list)
    BY <1>3 DEF ValidAlloc, ValidRealloc
  <2>2. \/ Crash(call.mem)
        \/ \E what : Reject(call.mem, what)
        \/ Remember(o, call.mem, call.p)
    BY <2>1 DEF Answer, Judge
  <2>3. CASE Crash(call.mem)
    BY <2>3, PackageEmptied DEF Crash, A!Next
  <2>4. CASE \E what : Reject(call.mem, what)
    BY <2>4, PackageEmptied DEF Reject, A!Next
  <2>5. CASE Remember(o, call.mem, call.p)
    <3>1. /\ pc' = pc /\ live' = live \cup {o.index}
          /\ blocks' = [blocks EXCEPT ![o.index] = call.p]
          /\ block_sizes' = [block_sizes EXCEPT ![o.index] = o.size]
      BY <2>5 DEF Remember
    <3>2. \A j \in live \ {o.index} : blocks'[j] = blocks[j] /\ block_sizes'[j] = block_sizes[j]
      BY <1>2, <3>1
    <3>3. A!Given(o.index)
      BY <1>1, <3>1, <3>2, PlaceGiven
    <3>4. A!Malloc(o.index) \/ A!Realloc(o.index)
      BY <3>3 DEF A!Malloc, A!Realloc
    <3>. QED BY <1>1, <3>4 DEF A!Next
  <2>. QED BY <2>2, <2>3, <2>4, <2>5
<1>4. CASE ValidFree(o)
  <2>1. /\ o.type = "FREE" /\ pc' = pc /\ live' = live \ {o.index}
        /\ blocks' = blocks /\ block_sizes' = block_sizes
    BY <1>4 DEF ValidFree
  <2>2. o.index \in live
    BY <1>1, <2>1 DEF IsRequest
  <2>3. A!Free(o.index)
    BY <1>1, <2>1, <2>2, PlaceFreed
  <2>. QED BY <1>1, <2>3 DEF A!Next
<1>. QED BY <1>3, <1>4

\* So is a call of eval_mm_util.
LEMMA UtilRefines ==
    ASSUME SizesFarApart, Inv, InUse', UtilStep
    PROVE  A!Next
<1>1. TypeOK /\ pc = "util"
  BY DEF Inv, UtilStep
<1>2. PICK S : History(S, ops, returned) /\ AtWork(S[op]) /\ SizesKnown(S[op])
  BY <1>1 DEF Inv
<1>3. PICK k : k = op
  OBVIOUS
<1>4. k \in 1 .. Len(ops) /\ Repeat(ops[k], Request(ops[k]))
  BY <1>1, <1>3 DEF UtilStep, TypeOK
<1>5. pc' = pc
  BY <1>1, <1>2, <1>3, <1>4, RepeatHolds
<1>. DEFINE o == ops[k]
<1>6. o \in Op /\ (o.type # "ALLOC" => o.index \in live)
  BY <1>2, <1>3, <1>4 DEF History, Asked, AtWork
<1>7. /\ live' = IF o.type = "FREE" THEN live \ {o.index} ELSE live \cup {o.index}
      /\ blocks' = IF o.type = "FREE" THEN blocks ELSE [blocks EXCEPT ![o.index] = Request(o).p]
      /\ block_sizes' = IF o.type = "FREE" THEN block_sizes
                        ELSE [block_sizes EXCEPT ![o.index] = o.size]
  BY <1>3, <1>4 DEF Repeat, UtilStep
<1>8. blocks \in [Index -> Address \cup {NULL}] /\ block_sizes \in [Index -> Sizes \cup {0}]
      /\ live \subseteq Index
  BY <1>1 DEF TypeOK
<1>. HIDE DEF o
<1>9. o.index \in Index
  BY <1>6 DEF Op
<1>10. CASE o.type = "FREE"
  <2>1. A!Free(o.index)
    BY <1>1, <1>5, <1>6, <1>7, <1>10, PlaceFreed
  <2>. QED BY <1>9, <2>1 DEF A!Next
<1>11. CASE o.type # "FREE"
  <2>1. live' = live \cup {o.index}
    BY <1>7, <1>11
  <2>2. \A j \in live \ {o.index} : blocks'[j] = blocks[j] /\ block_sizes'[j] = block_sizes[j]
    BY <1>7, <1>8, <1>11
  <2>3. A!Given(o.index)
    BY <1>1, <1>5, <1>9, <2>1, <2>2, PlaceGiven
  <2>4. A!Malloc(o.index) \/ A!Realloc(o.index)
    BY <2>3 DEF A!Malloc, A!Realloc
  <2>. QED BY <1>9, <2>4 DEF A!Next
<1>. QED BY <1>10, <1>11

LEMMA NextRefines ==
    ASSUME SizesFarApart, Inv, InUse', [Next]_vars
    PROVE  A!Next \/ UNCHANGED Package
<1>1. CASE StartTrace
  BY <1>1, PackageEmptied DEF StartTrace, A!Next
<1>2. ASSUME NEW o \in Op, ValidAlloc(o) \/ ValidRealloc(o) \/ ValidFree(o) PROVE A!Next
  BY <1>2, ValidRefines
<1>3. CASE StartUtil \/ StartSpeed \/ SpeedAgain
  BY <1>3, PackageEmptied DEF StartUtil, StartSpeed, SpeedAgain, Replay, A!Next
<1>4. CASE UtilStep
  BY <1>4, UtilRefines
<1>5. CASE SpeedStep
  <2>1. pc' \in {"crashed", "exit", "speed"}
    BY <1>5 DEF SpeedStep, Repeat
  <2>. QED BY <2>1, PackageEmptied DEF A!Next
<1>6. CASE EndTrace
  BY <1>6, PackageEmptied DEF EndTrace, A!Next
<1>7. CASE UNCHANGED vars
  BY <1>7 DEF vars, driver, Package
<1>. QED BY <1>1, <1>2, <1>3, <1>4, <1>5, <1>6, <1>7 DEF Next

\* What eval_mm_valid accepts, and eval_mm_util repeats, is what a malloc
\* package does: every payload gets a place of its own.
THEOREM DriverIsAllocator == SizesFarApart => (Spec => ImplementsAllocator)
<1>. SUFFICES ASSUME SizesFarApart PROVE Spec => ImplementsAllocator
  OBVIOUS
<1>1. Init => A!Init
  <2>1. Init => Package = [i \in {} |-> <<0, 0>>]
    BY DEF Init, Package
  <2>. QED BY <2>1 DEF A!Init, Package
<1>2. Inv => InUse
  BY PayloadsAreInUse
<1>3. Inv /\ InUse' /\ [Next]_vars => [A!Next]_Package
  BY NextRefines
<1>4. [Next]_vars /\ Inv /\ InUse' => [A!Next]_([i \in IF pc \in {"valid", "util"} THEN live ELSE {} |->
                                                Extent(blocks[i], block_sizes[i])])
  BY <1>3 DEF Package
<1>. QED BY <1>1, <1>2, <1>4, InvHolds, PTL DEF Spec, ImplementsAllocator, A!Spec

-----------------------------------------------------------------------------
(* Sums over the blocks in use.                                            *)

One(s) == CHOOSE x \in s : TRUE

\* g has the sum of f over every set of C.
Adds(g, f, C) == g = [s \in C |-> IF s = {} THEN 0 ELSE f[One(s)] + g[s \ {One(s)}]]

Total(f, D) == (CHOOSE g : Adds(g, f, SUBSET D))[D]

LEMMA OneIs ==
    ASSUME NEW D, IsFiniteSet(D), NEW s \in SUBSET D, s # {}
    PROVE  /\ One(s) \in s /\ IsFiniteSet(s) /\ Cardinality(s) \in Nat
           /\ \A x \in s : /\ s \ {x} \in SUBSET D /\ Cardinality(s \ {x}) \in Nat
                           /\ Cardinality(s \ {x}) = Cardinality(s) - 1
<1>1. One(s) \in s
  BY DEF One
<1>2. IsFiniteSet(s) /\ Cardinality(s) \in Nat
  BY FS_Subset, FS_CardinalityType
<1>3. ASSUME NEW x \in s
      PROVE  /\ s \ {x} \in SUBSET D /\ Cardinality(s \ {x}) \in Nat
             /\ Cardinality(s \ {x}) = Cardinality(s) - 1
  <2>1. IsFiniteSet(s \ {x}) /\ Cardinality(s \ {x}) = Cardinality(s) - 1
    BY <1>2, FS_RemoveElement
  <2>. QED BY <2>1, FS_CardinalityType
<1>. QED BY <1>1, <1>2, <1>3

\* The set of the subsets of D for which something fails has a smallest one.
LEMMA SmallestOf ==
    ASSUME NEW D, IsFiniteSet(D), NEW C \in SUBSET SUBSET D, C # {}
    PROVE  \E s \in C : \A r \in SUBSET s : r # s => r \notin C
<1>. DEFINE S == {Cardinality(s) : s \in C}
<1>1. \A s \in C : Cardinality(s) \in Nat
  BY FS_Subset, FS_CardinalityType
<1>2. S \in SUBSET Nat /\ S # {}
  BY <1>1
<1>3. PICK n \in S : \A y \in S : n =< y
  BY <1>2, LeastOf
<1>4. PICK s \in C : n = Cardinality(s)
  BY <1>3
<1>5. ASSUME NEW r \in SUBSET s, r # s, r \in C PROVE FALSE
  <2>1. IsFiniteSet(s)
    BY FS_Subset
  <2>2. Cardinality(r) =< Cardinality(s) /\ Cardinality(s) # Cardinality(r)
    BY <1>5, <2>1, FS_Subset
  <2>3. Cardinality(s) =< Cardinality(r)
    BY <1>3, <1>4, <1>5
  <2>. HIDE DEF S
  <2>. QED BY <1>1, <1>5, <2>2, <2>3
<1>. QED BY <1>4, <1>5

LEMMA SumsExist ==
    ASSUME NEW f, NEW D, IsFiniteSet(D)
    PROVE  \E g : Adds(g, f, SUBSET D)
<1>. DEFINE Part(n) == {s \in SUBSET D : Cardinality(s) =< n}
            Bad == {n \in Nat : ~ \E g : Adds(g, f, Part(n))}
<1>1. Bad = {}
  <2>1. SUFFICES ASSUME Bad # {} PROVE FALSE
    OBVIOUS
  <2>2. PICK n \in Bad : \A y \in Bad : n =< y
    BY <2>1, LeastOf
  <2>3. n \in Nat /\ ~ \E g : Adds(g, f, Part(n))
    OBVIOUS
  <2>. HIDE DEF Bad
  <2>4. CASE n = 0
    <3>. DEFINE g == [s \in Part(n) |-> 0]
    <3>1. \A s \in Part(n) : s = {}
      BY <2>4, FS_Subset, FS_CardinalityType, FS_EmptySet
    <3>2. g = [s \in Part(n) |-> IF s = {} THEN 0 ELSE f[One(s)] + g[s \ {One(s)}]]
      BY <3>1
    <3>3. Adds(g, f, Part(n))
      BY <3>2 DEF Adds
    <3>. QED BY <2>3, <3>3
  <2>5. CASE n # 0
    <3>1. n - 1 \in Nat /\ ~(n =< n - 1)
      BY <2>3, <2>5
    <3>2. PICK h : Adds(h, f, Part(n - 1))
      BY <2>2, <3>1 DEF Bad
    <3>. DEFINE g == [s \in Part(n) |-> IF s = {} THEN 0 ELSE f[One(s)] + h[s \ {One(s)}]]
    <3>3. \A s \in Part(n - 1) : g[s] = h[s]
      <4>1. \A s \in SUBSET D : Cardinality(s) \in Nat
        BY FS_Subset, FS_CardinalityType
      <4>2. Part(n - 1) \subseteq Part(n)
        BY <2>3, <4>1
      <4>. QED BY <3>2, <4>2 DEF Adds
    <3>4. ASSUME NEW s \in Part(n), s # {} PROVE s \ {One(s)} \in Part(n - 1)
      <4>1. /\ s \ {One(s)} \in SUBSET D /\ Cardinality(s) \in Nat
            /\ Cardinality(s \ {One(s)}) = Cardinality(s) - 1
        BY <3>4, OneIs
      <4>. QED BY <2>3, <4>1
    <3>5. \A s \in Part(n) : s # {} => g[s \ {One(s)}] = h[s \ {One(s)}]
      BY <3>3, <3>4
    <3>6. g = [s \in Part(n) |-> IF s = {} THEN 0 ELSE f[One(s)] + g[s \ {One(s)}]]
      <4>. HIDE DEF Part
      <4>1. ASSUME NEW s \in Part(n) PROVE g[s] = IF s = {} THEN 0 ELSE f[One(s)] + g[s \ {One(s)}]
        BY <3>5
      <4>2. g = [s \in Part(n) |-> g[s]]
        OBVIOUS
      <4>. HIDE DEF g
      <4>. QED BY <4>1, <4>2
    <3>7. Adds(g, f, Part(n))
      BY <3>6 DEF Adds
    <3>. QED BY <2>3, <3>7
  <2>. QED BY <2>4, <2>5
<1>2. Cardinality(D) \in Nat /\ Part(Cardinality(D)) = SUBSET D
  BY FS_Subset, FS_CardinalityType
<1>. HIDE DEF Part
<1>3. \E g : Adds(g, f, Part(Cardinality(D)))
  BY <1>1, <1>2
<1>. QED BY <1>2, <1>3

LEMMA TotalAdds ==
    ASSUME NEW f, NEW D, IsFiniteSet(D)
    PROVE  \E g : Adds(g, f, SUBSET D) /\ Total(f, D) = g[D]
<1>. DEFINE g == CHOOSE g : Adds(g, f, SUBSET D)
<1>1. Adds(g, f, SUBSET D)
  BY SumsExist
<1>. QED BY <1>1 DEF Total

\* Two sums of what is the same on a set are the same there.
LEMMA SumsAgree ==
    ASSUME NEW f, NEW g, NEW D, IsFiniteSet(D), Adds(g, f, SUBSET D),
           NEW e, NEW t \in SUBSET D, \A x \in t : f[x] = e[x]
    PROVE  g[t] = Total(e, t)
<1>1. IsFiniteSet(t)
  BY FS_Subset
<1>. PICK h : Adds(h, e, SUBSET t) /\ Total(e, t) = h[t]
  BY <1>1, TotalAdds
<1>. DEFINE Bad == {s \in SUBSET t : g[s] # h[s]}
<1>2. SUFFICES ASSUME Bad # {} PROVE FALSE
  OBVIOUS
<1>3. PICK s \in Bad : \A r \in SUBSET s : r # s => r \notin Bad
  <2>1. Bad \in SUBSET SUBSET t
    OBVIOUS
  <2>. HIDE DEF Bad
  <2>. QED BY <1>2, <1>1, <2>1, SmallestOf
<1>4. s \in SUBSET t /\ s \in SUBSET D /\ g[s] # h[s]
  OBVIOUS
<1>5. g[s] = (IF s = {} THEN 0 ELSE f[One(s)] + g[s \ {One(s)}])
  BY <1>4 DEF Adds
<1>6. h[s] = (IF s = {} THEN 0 ELSE e[One(s)] + h[s \ {One(s)}])
  BY <1>4 DEF Adds
<1>7. s # {}
  BY <1>4, <1>5, <1>6
<1>8. One(s) \in s
  BY <1>7 DEF One
<1>9. g[s \ {One(s)}] = h[s \ {One(s)}] /\ f[One(s)] = e[One(s)]
  <2>1. s \ {One(s)} \in SUBSET s /\ s \ {One(s)} # s
    BY <1>8
  <2>. QED BY <1>3, <1>4, <1>8, <2>1
<1>. QED BY <1>4, <1>5, <1>6, <1>9

\* A sum does not depend on the order.
LEMMA SumWithout ==
    ASSUME NEW f, NEW g, NEW D, IsFiniteSet(D), Adds(g, f, SUBSET D), \A x \in D : f[x] \in Int
    PROVE  \A s \in SUBSET D : g[s] \in Int /\ \A x \in s : g[s] = f[x] + g[s \ {x}]
<1>. DEFINE Bad == {s \in SUBSET D : ~(g[s] \in Int /\ \A x \in s : g[s] = f[x] + g[s \ {x}])}
<1>1. SUFFICES ASSUME Bad # {} PROVE FALSE
  OBVIOUS
<1>2. PICK s \in Bad : \A r \in SUBSET s : r # s => r \notin Bad
  <2>1. Bad \in SUBSET SUBSET D
    OBVIOUS
  <2>. HIDE DEF Bad
  <2>. QED BY <1>1, <2>1, SmallestOf
<1>3. s \in SUBSET D /\ ~(g[s] \in Int /\ \A x \in s : g[s] = f[x] + g[s \ {x}])
  OBVIOUS
<1>4. g[s] = (IF s = {} THEN 0 ELSE f[One(s)] + g[s \ {One(s)}])
  BY <1>3 DEF Adds
<1>5. s # {}
  BY <1>3, <1>4
<1>6. One(s) \in s
  BY <1>5 DEF One
<1>7. \A r \in SUBSET s : r # s => g[r] \in Int /\ \A x \in r : g[r] = f[x] + g[r \ {x}]
  BY <1>2, <1>3
<1>8. g[s] \in Int
  <2>1. s \ {One(s)} \in SUBSET s /\ s \ {One(s)} # s /\ f[One(s)] \in Int
    BY <1>3, <1>6
  <2>2. g[s \ {One(s)}] \in Int
    BY <1>7, <2>1
  <2>. QED BY <1>4, <1>5, <2>1, <2>2
<1>9. ASSUME NEW x \in s PROVE g[s] = f[x] + g[s \ {x}]
  <2>. DEFINE c == One(s)
  <2>1. CASE x = c
    BY <1>4, <1>5, <2>1
  <2>2. CASE x # c
    <3>. DEFINE sc == s \ {c}
                sx == s \ {x}
                r == sc \ {x}
    <3>1. /\ r = sx \ {c} /\ sc \in SUBSET s /\ sx \in SUBSET s /\ r \in SUBSET s
          /\ sc # s /\ sx # s /\ r # s /\ x \in sc /\ c \in sx
      BY <1>6, <2>2
    <3>2. f[x] \in Int /\ f[c] \in Int /\ g[s] = f[c] + g[sc]
      BY <1>3, <1>4, <1>5, <1>6
    <3>. HIDE DEF c, sc, sx, r
    <3>3. g[sc] = f[x] + g[sc \ {x}] /\ g[sx] = f[c] + g[r] /\ g[r] \in Int
      BY <1>7, <3>1
    <3>. QED BY <3>1, <3>2, <3>3 DEF r, sx
  <2>. QED BY <2>1, <2>2
<1>. QED BY <1>3, <1>8, <1>9

LEMMA TotalIs ==
    ASSUME NEW f, NEW D, IsFiniteSet(D), \A x \in D : f[x] \in Int
    PROVE  /\ Total(f, D) \in Int
           /\ D = {} => Total(f, D) = 0
           /\ \A x \in D : Total(f, D) = f[x] + Total(f, D \ {x})
           /\ \A e : (\A x \in D : e[x] = f[x]) => Total(e, D) = Total(f, D)
<1>1. PICK g : Adds(g, f, SUBSET D) /\ Total(f, D) = g[D]
  BY TotalAdds
<1>2. D = {} => g[D] = 0
  BY <1>1 DEF Adds
<1>3. g[D] \in Int /\ \A x \in D : g[D] = f[x] + g[D \ {x}]
  BY <1>1, SumWithout
<1>4. ASSUME NEW x \in D PROVE Total(f, D \ {x}) = g[D \ {x}]
  <2>. DEFINE R == D \ {x}
  <2>1. R \in SUBSET D
    OBVIOUS
  <2>. HIDE DEF R
  <2>2. g[R] = Total(f, R)
    BY <1>1, <2>1, SumsAgree
  <2>. QED BY <2>2 DEF R
<1>5. ASSUME NEW e, \A x \in D : e[x] = f[x] PROVE Total(e, D) = Total(f, D)
  <2>1. D \in SUBSET D /\ \A x \in D : f[x] = e[x]
    BY <1>5
  <2>. QED BY <1>1, <2>1, SumsAgree
<1>. QED BY <1>1, <1>2, <1>3, <1>4, <1>5

\* The sizes of some blocks are no more than the room from the first to the end.
LEMMA Packed ==
    ASSUME NEW s, Sound(s), IsFiniteSet(s.used)
    PROVE  \A K \in SUBSET s.used : \A lo \in Nat :
               lo =< End(s.heap) /\ (\A i \in K : lo =< s.at[i])
                   => Total(s.size, K) =< 8 * (End(s.heap) - lo)
<1>. DEFINE H == s.heap
            Fitting(K) == \A lo \in Nat : lo =< End(H) /\ (\A i \in K : lo =< s.at[i])
                              => Total(s.size, K) =< 8 * (End(H) - lo)
            Bad == {K \in SUBSET s.used : ~Fitting(K)}
<1>0. Shape(H) /\ End(H) \in Nat
  BY Addresses DEF Sound, Shape, End
<1>1. SUFFICES ASSUME Bad # {} PROVE FALSE
  OBVIOUS
<1>2. PICK K \in Bad : \A R \in SUBSET K : R # K => R \notin Bad
  <2>1. Bad \in SUBSET SUBSET s.used
    OBVIOUS
  <2>. HIDE DEF Bad
  <2>. QED BY <1>1, <2>1, SmallestOf
<1>3. K \in SUBSET s.used /\ IsFiniteSet(K)
  BY FS_Subset
<1>4. PICK lo \in Nat : /\ lo =< End(H) /\ \A i \in K : lo =< s.at[i]
                        /\ ~(Total(s.size, K) =< 8 * (End(H) - lo))
  BY <1>2
<1>5. \A i \in K : /\ s.at[i] \in Blocks(H) /\ s.at[i] \in Nat /\ s.size[i] \in Nat
                   /\ After(H, s.at[i]) \in Nat /\ After(H, s.at[i]) =< End(H)
                   /\ s.size[i] =< 8 * (After(H, s.at[i]) - s.at[i])
  <2>. TAKE i \in K
  <2>1. /\ s.at[i] \in Blocks(H) /\ s.at[i] \in Nat /\ s.size[i] \in Nat /\ s.size[i] # 0
        /\ Need(s.size[i]) =< H.words[s.at[i]]
    BY <1>3, PayloadLies, MmDriverAssumption DEF Sound, Houses
  <2>2. ALIGN(s.size[i]) = 8 * Need(s.size[i]) - 32 /\ Need(s.size[i]) \in Nat
    BY <2>1, NeedIs
  <2>3. s.size[i] =< ALIGN(s.size[i])
    BY <2>1 DEF ALIGN
  <2>4. /\ After(H, s.at[i]) \in Nat /\ After(H, s.at[i]) =< End(H)
        /\ After(H, s.at[i]) = s.at[i] + H.words[s.at[i]] /\ H.words[s.at[i]] \in Nat
    BY <1>0, <2>1, BlockLies
  <2>. HIDE DEF H
  <2>. QED BY <2>1, <2>2, <2>3, <2>4
<1>6. \A i \in K : s.size[i] \in Int
  BY <1>5
<1>7. K # {}
  <2>1. ASSUME K = {} PROVE Total(s.size, K) = 0
    BY <1>3, <1>6, <2>1, TotalIs
  <2>. QED BY <1>0, <1>4, <2>1
<1>8. PICK i \in K : \A j \in K : s.at[i] =< s.at[j]
  <2>. DEFINE S == {s.at[j] : j \in K}
  <2>1. S \in SUBSET Nat /\ S # {}
    BY <1>5, <1>7
  <2>2. PICK a \in S : \A b \in S : a =< b
    BY <2>1, LeastOf
  <2>. QED BY <2>2
<1>. DEFINE R == K \ {i}
            e == After(H, s.at[i])
<1>9. Fitting(R)
  <2>1. R \in SUBSET K /\ R # K /\ R \in SUBSET s.used
    BY <1>3
  <2>. HIDE DEF R, Fitting
  <2>. QED BY <1>2, <2>1
<1>10. \A j \in R : e =< s.at[j]
  <2>. TAKE j \in R
  <2>1. s.at[i] # s.at[j] /\ s.at[i] =< s.at[j]
    BY <1>3, <1>8 DEF Sound
  <2>2. e =< s.at[j] \/ After(H, s.at[j]) =< s.at[i]
    BY <1>0, <1>5, <2>1, BlocksApart
  <2>3. s.at[j] + 4 =< After(H, s.at[j])
    BY <1>0, <1>5, BlockLies
  <2>. QED BY <1>5, <2>1, <2>2, <2>3
<1>11. Total(s.size, R) =< 8 * (End(H) - e)
  BY <1>5, <1>9, <1>10
<1>12. Total(s.size, K) = s.size[i] + Total(s.size, R) /\ Total(s.size, R) \in Int
  <2>1. IsFiniteSet(R) /\ \A j \in R : s.size[j] \in Int
    BY <1>3, <1>6, FS_RemoveElement
  <2>2. Total(s.size, R) \in Int
    BY <2>1, TotalIs
  <2>. QED BY <1>3, <1>6, <2>2, TotalIs
<1>13. lo =< s.at[i] /\ s.at[i] \in Nat /\ e \in Nat /\ s.size[i] \in Nat
       /\ s.size[i] =< 8 * (e - s.at[i])
  BY <1>4, <1>5
<1>. HIDE DEF R, e, H
<1>. QED BY <1>0, <1>4, <1>11, <1>12, <1>13 DEF H

\* No request makes the heap smaller.
LEMMA HeapGrows ==
    ASSUME NEW s, Sound(s), NEW o, Asked(s, o)
    PROVE  Served(s, o).heap.brk >= s.heap.brk
<1>. DEFINE H == s.heap
            w == Need(o.size)
            b == s.at[o.index]
<1>1. H.brk \in Nat
  BY DEF Sound, Shape
<1>2. ASSUME NEW X, NEW c PROVE AfterFree(X, c).brk = X.brk
  <2>1. \A Y, S : DroppedIf(Y, S).brk = Y.brk
    BY DEF DroppedIf, Dropped, Without
  <2>2. Unlisted(X, c).brk = X.brk
    BY <2>1 DEF Unlisted, Unmarked
  <2>3. \A Y, d, v : Merged(Y, d, v).brk = Y.brk
    BY DEF Merged
  <2>4. \A Y, d : Pushed(Y, d).brk = Y.brk
    BY DEF Pushed, With
  <2>. QED BY <2>2, <2>3, <2>4 DEF AfterFree
<1>3. ASSUME NEW v \in Nat PROVE AfterMalloc(H, v).brk \in {H.brk, H.brk + v + 3}
  <2>1. \A Y, d : Dropped(Y, d).brk = Y.brk /\ Marked(Y, d).brk = Y.brk /\ Pushed(Y, d).brk = Y.brk
    BY DEF Dropped, Without, Marked, Pushed, With
  <2>2. \A Y, d, x : Split(Y, d, x).brk = Y.brk
    BY DEF Split
  <2>3. \A d : Used(H, d, v).brk = H.brk
    BY <2>1, <2>2 DEF Used
  <2>4. Extended(H, End(H), v + 3).brk = H.brk + v + 3
    BY <1>1 DEF Extended
  <2>. QED BY <2>3, <2>4 DEF AfterMalloc
<1>4. o.type \in {"ALLOC", "REALLOC", "FREE"} /\ (o.type # "FREE" => o.size \in Nat)
  BY MmDriverAssumption DEF Asked, Op
<1>5. o.type # "FREE" => w \in Nat
  BY <1>4 DEF Need, ALIGN, Words, BLK_HDR_FTR_SIZE, BLK_HDR_SIZE, BLK_FTR_SIZE
<1>6. CASE o.type = "ALLOC"
  <2>1. Served(s, o).heap = AfterMalloc(H, w)
    BY <1>6 DEF Served, Placed
  <2>. HIDE DEF H, w
  <2>. QED BY <1>1, <1>3, <1>5, <1>6, <2>1 DEF H
<1>7. CASE o.type = "REALLOC"
  <2>1. Served(s, o).heap = AfterRealloc(H, b, w)
    BY <1>7 DEF Served, Placed
  <2>2. H.words[b] \in Nat
    BY <1>7, PayloadLies DEF Asked
  <2>. HIDE DEF H, w, b
  <2>3. CASE w =< H.words[b]
    BY <1>1, <2>1, <2>3 DEF AfterRealloc, H
  <2>4. CASE ~(w =< H.words[b]) /\ After(H, b) = End(H)
    <3>1. Extended(H, b, w - H.words[b]).brk = H.brk + (w - H.words[b])
      BY DEF Extended
    <3>2. w \in Nat
      BY <1>5, <1>7
    <3>3. Served(s, o).heap.brk = H.brk + (w - H.words[b])
      BY <2>1, <2>4, <3>1 DEF AfterRealloc
    <3>. QED BY <1>1, <2>2, <2>4, <3>2, <3>3 DEF H
  <2>5. CASE ~(w =< H.words[b]) /\ After(H, b) # End(H)
    <3>1. Served(s, o).heap.brk = AfterMalloc(H, w).brk
      BY <1>2, <2>1, <2>5 DEF AfterRealloc
    <3>. QED BY <1>1, <1>3, <1>5, <1>7, <3>1 DEF H
  <2>. QED BY <2>3, <2>4, <2>5
<1>8. CASE o.type = "FREE"
  <2>1. Served(s, o).heap = AfterFree(H, b)
    BY <1>8 DEF Served
  <2>. QED BY <1>1, <1>2, <2>1
<1>. QED BY <1>4, <1>6, <1>7, <1>8

\* total_size is the sum of the sizes of the blocks in use.
Summed == pc = "util" => IsFiniteSet(live) /\ total_size = Total(block_sizes, live)

LEMMA SummedStep ==
    ASSUME Inv, Summed, UtilStep
    PROVE  Summed'
<1>1. TypeOK /\ pc = "util"
  BY DEF Inv, UtilStep
<1>2. PICK S : History(S, ops, returned) /\ AtWork(S[op])
  BY <1>1 DEF Inv
<1>3. PICK k : k = op
  OBVIOUS
<1>4. k \in 1 .. Len(ops) /\ Repeat(ops[k], Request(ops[k]))
  BY <1>1, <1>3 DEF UtilStep, TypeOK
<1>. DEFINE o == ops[k]
            i == o.index
            R == live \ {i}
            f == block_sizes
            g == block_sizes'
<1>5. /\ i \in Index
      /\ \/ o.type = "ALLOC" /\ i \notin live /\ o.size \in Nat
         \/ o.type = "REALLOC" /\ i \in live /\ o.size \in Nat
         \/ o.type = "FREE" /\ i \in live
  <2>1. Asked(S[k], o) /\ live = S[k].used
    BY <1>2, <1>3, <1>4 DEF History, AtWork
  <2>. HIDE DEF o
  <2>2. /\ o \in Op
        /\ o.type = "ALLOC" => i \notin live
        /\ o.type # "ALLOC" => i \in live
    BY <2>1 DEF Asked
  <2>3. o.type \in {"ALLOC", "REALLOC", "FREE"} /\ i \in Index /\ (o.type # "FREE" => o.size \in Sizes)
    BY <2>2 DEF Op
  <2>4. o.type # "FREE" => o.size \in Nat
    BY <2>3, MmDriverAssumption
  <2>. HIDE DEF i
  <2>. QED BY <2>2, <2>3, <2>4
<1>6. /\ live' = IF o.type = "FREE" THEN live \ {i} ELSE live \cup {i}
      /\ g = IF o.type = "FREE" THEN f ELSE [f EXCEPT ![i] = o.size]
      /\ total_size' = total_size + Change(o)
  BY <1>3, <1>4 DEF Repeat, UtilStep
<1>7. /\ Change(o) = CASE o.type = "ALLOC" -> o.size
                       [] o.type = "REALLOC" -> o.size - f[i]
                       [] o.type = "FREE" -> 0 - f[i]
  BY DEF Change
<1>. HIDE DEF o
<1>8. f \in [Index -> Nat] /\ live \subseteq Index
  <2>1. Sizes \cup {0} \subseteq Nat
    BY MmDriverAssumption
  <2>. QED BY <1>1, <2>1 DEF TypeOK
<1>9. IsFiniteSet(live) /\ total_size = Total(f, live)
  BY <1>1 DEF Summed
<1>10. IsFiniteSet(R) /\ R \cup {i} = live \cup {i} /\ R \subseteq Index /\ i \notin R
  BY <1>8, <1>9, FS_RemoveElement
<1>11. IsFiniteSet(live \cup {i}) /\ (live \cup {i}) \ {i} = R /\ i \in live \cup {i}
  BY <1>9, FS_AddElement
<1>. HIDE DEF f, g, i
<1>12. f[i] \in Nat /\ (\A j \in live : f[j] \in Int) /\ \A j \in R : f[j] \in Int /\ g[j] = f[j]
  BY <1>5, <1>6, <1>8, <1>10
<1>13. Total(f, R) \in Int /\ Total(g, R) = Total(f, R)
  BY <1>10, <1>12, TotalIs
<1>14. i \in live => Total(f, live) = f[i] + Total(f, R)
  BY <1>9, <1>12, TotalIs
<1>15. CASE o.type # "FREE"
  <2>1. g[i] = o.size /\ o.size \in Nat /\ live' = live \cup {i}
    BY <1>5, <1>6, <1>8, <1>15
  <2>2. \A j \in live \cup {i} : g[j] \in Int
    BY <1>12, <2>1
  <2>3. Total(g, live \cup {i}) = o.size + Total(g, R)
    BY <1>11, <2>1, <2>2, TotalIs
  <2>4. total_size' = o.size + Total(f, R)
    <3>1. CASE o.type = "ALLOC"
      <4>1. R = live
        BY <1>5, <3>1
      <4>2. total_size' = Total(f, R) + o.size
        BY <1>6, <1>7, <1>9, <3>1, <4>1
      <4>. QED BY <1>13, <2>1, <4>2
    <3>2. CASE o.type = "REALLOC"
      <4>1. total_size' = (f[i] + Total(f, R)) + (o.size - f[i])
        BY <1>5, <1>6, <1>7, <1>9, <1>14, <3>2
      <4>. QED BY <1>12, <1>13, <2>1, <4>1
    <3>. QED BY <1>5, <1>15, <3>1, <3>2
  <2>5. total_size' = Total(g, live') /\ IsFiniteSet(live')
    BY <1>11, <1>13, <2>1, <2>3, <2>4
  <2>. QED BY <2>5 DEF Summed, g
<1>16. CASE o.type = "FREE"
  <2>1. live' = R /\ g = f
    BY <1>6, <1>16
  <2>2. total_size' = (f[i] + Total(f, R)) + (0 - f[i])
    BY <1>5, <1>6, <1>7, <1>9, <1>14, <1>16
  <2>3. total_size' = Total(g, live') /\ IsFiniteSet(live')
    BY <1>10, <1>12, <1>13, <2>1, <2>2
  <2>. QED BY <2>3 DEF Summed, g
<1>. QED BY <1>15, <1>16

LEMMA SummedNext == Inv /\ Summed /\ [Next]_vars => Summed'
<1>. SUFFICES ASSUME Inv, Summed, [Next]_vars PROVE Summed'
  OBVIOUS
<1>1. CASE StartUtil
  <2>1. live' = {} /\ total_size' = 0
    BY <1>1 DEF StartUtil, Replay
  <2>2. IsFiniteSet({}) /\ Total(block_sizes', {}) = 0
    BY FS_EmptySet, TotalIs
  <2>. QED BY <2>1, <2>2 DEF Summed
<1>2. CASE UtilStep
  BY <1>2, SummedStep
<1>3. CASE UNCHANGED vars
  BY <1>3 DEF vars, driver, Summed
<1>4. CASE StartTrace \/ StartSpeed \/ SpeedAgain \/ EndTrace
  BY <1>4 DEF StartTrace, StartSpeed, SpeedAgain, EndTrace, Replay, Summed
<1>5. CASE SpeedStep
  <2>1. pc = "speed" /\ pc' # "util"
    BY <1>5 DEF SpeedStep, Repeat
  <2>. QED BY <2>1 DEF Summed
<1>6. ASSUME NEW o \in Op, ValidAlloc(o) \/ ValidRealloc(o) \/ ValidFree(o)
      PROVE  Summed'
  <2>1. pc = "valid"
    BY <1>6 DEF ValidAlloc, ValidRealloc, ValidFree, Ask
  <2>2. pc' \in {pc, "main", "crashed"}
    BY <1>6 DEF ValidAlloc, ValidRealloc, ValidFree, Answer, Judge, Remember, Reject, Crash
  <2>. QED BY <2>1, <2>2 DEF Summed
<1>. QED BY <1>1, <1>2, <1>3, <1>4, <1>5, <1>6 DEF Next

\* total_size is no more than the heap: its blocks lie apart in it.
Fitted == pc = "util" => total_size =< mem_heapsize(mem)

LEMMA SumIsFitted == Inv /\ Summed => Fitted
<1>. SUFFICES ASSUME Inv, Summed, pc = "util" PROVE total_size =< mem_heapsize(mem)
  BY DEF Fitted
<1>1. PICK S : History(S, ops, returned) /\ AtWork(S[op]) /\ SizesKnown(S[op])
  BY DEF Inv
<1>. DEFINE s == S[op]
            H == s.heap
<1>2. Sound(s)
  <2>1. op \in 1 .. Len(ops) + 1
    BY DEF Inv, TypeOK
  <2>. QED BY <1>1, <2>1 DEF History
<1>. HIDE DEF s
<1>3. /\ mem.brk = H.brk /\ live = s.used /\ Shape(H)
      /\ \A i \in live : block_sizes[i] = s.size[i]
  BY <1>1 DEF AtWork, SizesKnown, Holds, s
<1>4. IsFiniteSet(live) /\ total_size = Total(block_sizes, live)
  BY DEF Summed
<1>5. \A i \in live : s.size[i] \in Int
  BY <1>2, <1>3, PayloadLies
<1>6. Total(block_sizes, live) = Total(s.size, live)
  BY <1>3, <1>4, <1>5, TotalIs
<1>7. /\ mem_start_brk \in Nat /\ FirstBlock = mem_start_brk + 13 /\ FirstBlock \in Nat
      /\ H.brk \in Nat /\ FirstBlock + 3 =< H.brk /\ End(H) = H.brk - 3
  BY <1>3, Addresses, MemLibAssumption DEF Shape, End, FirstBlock
<1>8. \A i \in live : FirstBlock =< s.at[i]
  BY <1>2, <1>3, PayloadLies DEF Shape
<1>9. Total(s.size, live) =< 8 * (End(H) - FirstBlock)
  <2>1. FirstBlock =< End(H) /\ live \in SUBSET s.used
    BY <1>3, <1>7
  <2>. QED BY <1>2, <1>3, <1>4, <1>7, <1>8, <2>1, Packed
<1>10. Total(s.size, live) \in Int
  BY <1>4, <1>5, TotalIs
<1>11. mem_heapsize(mem) = 8 * (H.brk - mem_start_brk)
  BY <1>3 DEF mem_heapsize
<1>. HIDE DEF H
<1>. QED BY <1>4, <1>6, <1>7, <1>9, <1>10, <1>11

\* Nor was it ever.
Peaked == pc = "util" => max_total_size =< mem_heapsize(mem)

LEMMA PeakedNext ==
    SizesFarApart /\ Inv /\ Fitted' /\ Peaked /\ [Next]_vars => Peaked'
<1>. SUFFICES ASSUME SizesFarApart, Inv, Fitted', Peaked, [Next]_vars PROVE Peaked'
  OBVIOUS
<1>0. TypeOK /\ mem_heapsize(mem)' = mem_heapsize(mem')
  BY DEF Inv, mem_heapsize
<1>1. CASE StartUtil
  <2>1. Holds(mem', Start.heap)
    BY <1>0, <1>1, Restarted DEF StartUtil, Replay
  <2>2. mem'.brk \in Nat /\ mem_start_brk \in Nat /\ mem_start_brk =< mem'.brk
    BY <2>1, Addresses DEF Holds, Shape
  <2>3. mem_heapsize(mem') >= 0 /\ max_total_size' = 0
    BY <1>1, <2>2 DEF mem_heapsize, StartUtil
  <2>. QED BY <1>0, <2>3 DEF Peaked
<1>2. CASE UtilStep
  <2>1. pc = "util"
    BY <1>2 DEF UtilStep
  <2>2. PICK S : History(S, ops, returned) /\ AtWork(S[op]) /\ SizesKnown(S[op])
    BY <2>1 DEF Inv
  <2>3. PICK k : k = op
    OBVIOUS
  <2>4. k \in 1 .. Len(ops) /\ Repeat(ops[k], Request(ops[k]))
    BY <1>0, <1>2, <2>3 DEF UtilStep, TypeOK
  <2>5. pc' = pc /\ AtWork(S[k + 1])'
    BY <1>0, <2>2, <2>3, <2>4, RepeatHolds
  <2>6. /\ Sound(S[k]) /\ Asked(S[k], ops[k]) /\ S[k + 1] = Served(S[k], ops[k]) /\ Sound(S[k + 1])
    <3>1. k \in 1 .. Len(ops) + 1 /\ k + 1 \in 1 .. Len(ops) + 1
      BY <1>0, <2>4 DEF TypeOK
    <3>. QED BY <2>2, <2>4, <3>1 DEF History
  <2>7. mem.brk = S[k].heap.brk /\ mem'.brk = S[k + 1].heap.brk
    BY <2>2, <2>3, <2>5 DEF AtWork, Holds
  <2>8. mem.brk \in Nat /\ mem'.brk \in Nat /\ mem'.brk >= mem.brk /\ mem_start_brk \in Nat
    <3>1. S[k + 1].heap.brk >= S[k].heap.brk
      BY <2>6, HeapGrows
    <3>2. S[k].heap.brk \in Nat /\ S[k + 1].heap.brk \in Nat
      BY <2>6 DEF Sound, Shape
    <3>. QED BY <2>7, <3>1, <3>2, MemLibAssumption
  <2>9. mem_heapsize(mem) =< mem_heapsize(mem') /\ mem_heapsize(mem) \in Int /\ mem_heapsize(mem') \in Int
    BY <2>8 DEF mem_heapsize
  <2>10. max_total_size =< mem_heapsize(mem) /\ total_size' =< mem_heapsize(mem')
    BY <1>0, <2>1, <2>5 DEF Peaked, Fitted
  <2>11. max_total_size' \in {max_total_size, total_size'}
    BY <1>2 DEF UtilStep
  <2>12. max_total_size \in Int
    BY <1>0 DEF TypeOK
  <2>13. max_total_size' =< mem_heapsize(mem')
    BY <2>9, <2>10, <2>11, <2>12
  <2>. QED BY <1>0, <2>13 DEF Peaked
<1>3. CASE UNCHANGED vars
  BY <1>0, <1>3 DEF vars, Peaked
<1>4. CASE StartTrace \/ StartSpeed \/ SpeedAgain \/ EndTrace
  BY <1>4 DEF StartTrace, StartSpeed, SpeedAgain, EndTrace, Replay, Peaked
<1>5. CASE SpeedStep
  <2>1. pc = "speed" /\ pc' # "util"
    BY <1>5 DEF SpeedStep, Repeat
  <2>. QED BY <2>1 DEF Peaked
<1>6. ASSUME NEW o \in Op, ValidAlloc(o) \/ ValidRealloc(o) \/ ValidFree(o)
      PROVE  Peaked'
  <2>1. pc = "valid"
    BY <1>6 DEF ValidAlloc, ValidRealloc, ValidFree, Ask
  <2>2. pc' \in {pc, "main", "crashed"}
    BY <1>6 DEF ValidAlloc, ValidRealloc, ValidFree, Answer, Judge, Remember, Reject, Crash
  <2>. QED BY <2>1, <2>2 DEF Peaked
<1>. QED BY <1>1, <1>2, <1>3, <1>4, <1>5, <1>6 DEF Next

\* eval_mm_util's total_size follows every allocation, resize and free, and
\* the utilization it computes is a share of the heap, at most 1.
THEOREM UtilizationAtMostOne == SizesFarApart => (Spec => []UtilizationIsAShare)
<1>. SUFFICES ASSUME SizesFarApart PROVE Spec => []UtilizationIsAShare
  OBVIOUS
<1>1. Init => Summed /\ Peaked
  BY DEF Init, Summed, Peaked
<1>2. MapThenSumSet(LAMBDA i : block_sizes[i], live) = Total(block_sizes, live)
  BY Zenon DEF MapThenSumSet, MapThenFoldSet, Total, Adds, One
<1>3. Summed /\ Peaked => UtilizationIsAShare
  BY <1>2, Zenon DEF Summed, Peaked, UtilizationIsAShare
<1>. QED BY <1>1, <1>3, InvHolds, SummedNext, SumIsFitted, PeakedNext, PTL DEF Spec
=============================================================================
