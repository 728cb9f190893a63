--------------------------- MODULE HashtableProofs ---------------------------
(***************************************************************************)
(* Proofs that the hashtable holds every key once, in the chain where it   *)
(* is looked for, and that it owns what is allocated: for any keys, hash   *)
(* function and sizes, and chains of any length; and that it implements    *)
(* the dictionary, where no step of ht_rehash shows.                       *)
(***************************************************************************)
EXTENDS Hashtable, FiniteSetTheorems, SequenceTheorems, WellFoundedInduction, TLAPS

-----------------------------------------------------------------------------
(* The helpers of the model.                                               *)

\* malloc returns a block that was not allocated.
LEMMA MallocIsFresh ==
    ASSUME NEW mem, NEW text, Free(mem, text) # {}
    PROVE  /\ Malloc(mem, text) \in BlocksOf({text})
           /\ Malloc(mem, text) \in Block
           /\ Malloc(mem, text).text = text
           /\ Malloc(mem, text) \notin mem
<1>1. Malloc(mem, text) \in Free(mem, text)
  BY DEF Malloc
<1>. QED BY <1>1 DEF Free, BlocksOf

\* hash(key) % ht->size is the number of a bucket.
LEMMA IndexIsBucket ==
    ASSUME NEW t, t.size \in Nat \ {0}, NEW k \in Key
    PROVE  Index(t, k) \in 0 .. t.size - 1
<1>1. Hash[k] \in Nat
  BY HashtableAssumption
<1>. QED BY <1>1 DEF Index

\* The smallest of the numbers a search finds.
LEMMA LeastExists ==
    ASSUME NEW S \in SUBSET Nat, S # {}
    PROVE  \E x \in S : \A y \in S : x =< y
<1>. DEFINE Less == OpToRel(<, Nat)
<1>1. IsWellFoundedOn(Less, Nat)
  BY NatLessThanWellFounded
<1>2. \A x, y \in Nat : y < x => <<y, x>> \in Less
  <2>. SUFFICES ASSUME NEW x \in Nat, NEW y \in Nat, y < x
                PROVE  <<y, x>> \in {ss \in Nat \X Nat : ss[1] < ss[2]}
    BY DEF OpToRel
  <2>1. <<y, x>> \in Nat \X Nat /\ <<y, x>>[1] < <<y, x>>[2]
    OBVIOUS
  <2>. QED BY <2>1
<1>. HIDE DEF Less
<1>3. PICK x \in S : \A y \in S : ~ (<<y, x>> \in Less)
  BY <1>1, WFMin
<1>4. ASSUME NEW y \in S PROVE x =< y
  <2>1. x \in Nat /\ y \in Nat
    OBVIOUS
  <2>2. ~ (y < x)
    BY <1>2, <1>3, <2>1
  <2>. QED BY <2>1, <2>2
<1>. QED BY <1>4

\* strcmp finds a key that the chain holds.
LEMMA PlaceIsFound ==
    ASSUME NEW t, NEW k, t.chain[Index(t, k)] \in Seq(Cell), Places(t, k) # {}
    PROVE  /\ Place(t, k) \in DOMAIN t.chain[Index(t, k)]
           /\ t.chain[Index(t, k)][Place(t, k)].key.text = k
<1>. DEFINE P == Places(t, k)
<1>1. P \subseteq Nat
  BY DEF Places
<1>2. \E j \in P : \A l \in P : j =< l
  BY <1>1, LeastExists
<1>3. Place(t, k) \in P
  BY <1>2 DEF Place
<1>. QED BY <1>3 DEF Places

-----------------------------------------------------------------------------
(* Tables and their cells.                                                 *)

CellsOf(t) == {CellAt(t, at) : at \in Positions(t)}

\* A table that can be searched: every cell is in the chain of its key.
Sound(t) ==
    /\ t = [header |-> t.header, array |-> t.array, size |-> t.size, chain |-> t.chain]
    /\ IsTable(t)
    /\ \A i \in 0 .. t.size - 1 : \A j \in DOMAIN t.chain[i] :
            Index(t, t.chain[i][j].key.text) = i

\* Two cells with different keys that share no block.
Unlike(c, d) == c.key.text # d.key.text /\ CellBlocks(c) \cap CellBlocks(d) = {}

\* No key and no block is twice in a table.
OneEach(t) ==
    \A i, k \in 0 .. t.size - 1 :
        \A j \in DOMAIN t.chain[i], l \in DOMAIN t.chain[k] :
            i # k \/ j # l => Unlike(t.chain[i][j], t.chain[k][l])

LEMMA PositionsAre ==
    ASSUME NEW t
    PROVE  /\ \A i \in 0 .. t.size - 1 : \A j \in DOMAIN t.chain[i] :
                    <<i, j>> \in Positions(t)
           /\ \A at \in Positions(t) :
                    /\ at = <<at[1], at[2]>>
                    /\ at[1] \in 0 .. t.size - 1
                    /\ at[2] \in DOMAIN t.chain[at[1]]
BY DEF Positions

\* u is t with another chain in bucket i.
Rechained(u, t, i, s) == u = [t EXCEPT !.chain[i] = s]

LEMMA CellHasPlace ==
    ASSUME NEW t, NEW c \in CellsOf(t)
    PROVE  \E i \in 0 .. t.size - 1 : \E j \in DOMAIN t.chain[i] : c = t.chain[i][j]
BY PositionsAre DEF CellsOf, CellAt

LEMMA PlaceHasCell ==
    ASSUME NEW t, NEW i \in 0 .. t.size - 1, NEW j \in DOMAIN t.chain[i]
    PROVE  t.chain[i][j] \in CellsOf(t)
<1>1. <<i, j>> \in Positions(t) /\ CellAt(t, <<i, j>>) = t.chain[i][j]
  BY PositionsAre DEF CellAt
<1>. QED BY <1>1 DEF CellsOf

LEMMA CellType ==
    ASSUME NEW t, Sound(t), NEW c \in CellsOf(t)
    PROVE  c \in Cell
<1>1. PICK i \in 0 .. t.size - 1 : \E j \in DOMAIN t.chain[i] : c = t.chain[i][j]
  BY CellHasPlace
<1>2. t.chain[i] \in Seq(Cell)
  BY DEF Sound, IsTable
<1>. QED BY <1>1, <1>2

\* A cell put in front of the chain of its key.
LEMMA PrependCell ==
    ASSUME NEW t, Sound(t), OneEach(t), NEW cell \in Cell,
           NEW i \in 0 .. t.size - 1, i = Index(t, cell.key.text),
           \A c \in CellsOf(t) : Unlike(c, cell),
           NEW u, Rechained(u, t, i, <<cell>> \o t.chain[i])
    PROVE  /\ Sound(u) /\ OneEach(u)
           /\ CellsOf(u) = CellsOf(t) \cup {cell}
           /\ u.header = t.header /\ u.array = t.array /\ u.size = t.size
<1>. DEFINE s == <<cell>> \o t.chain[i]
<1>1. u = [header |-> t.header, array |-> t.array, size |-> t.size,
           chain |-> [t.chain EXCEPT ![i] = s]]
  BY DEF Sound, Rechained
<1>2. /\ t.size \in Nat /\ t.size \in Sizes
      /\ t.chain \in [0 .. t.size - 1 -> Seq(Cell)]
      /\ t.chain[i] \in Seq(Cell)
  BY HashtableAssumption DEF Sound, IsTable
<1>3. /\ s \in Seq(Cell) /\ DOMAIN s = 1 .. Len(t.chain[i]) + 1 /\ s[1] = cell
      /\ \A j \in DOMAIN s \ {1} : j - 1 \in DOMAIN t.chain[i] /\ s[j] = t.chain[i][j - 1]
      /\ \A j \in DOMAIN t.chain[i] : j + 1 \in DOMAIN s /\ s[j + 1] = t.chain[i][j]
  BY <1>2
<1>4. /\ u.header = t.header /\ u.array = t.array /\ u.size = t.size
      /\ u.chain[i] = s
      /\ \A k \in 0 .. t.size - 1 : k # i => u.chain[k] = t.chain[k]
      /\ u.chain \in [0 .. t.size - 1 -> Seq(Cell)]
  BY <1>1, <1>2, <1>3
<1>. HIDE DEF s
<1>5. \A k \in Key : Index(u, k) = Index(t, k)
  BY <1>4 DEF Index
<1>6. Sound(u)
  <2>1. IsTable(u)
    BY <1>4 DEF Sound, IsTable
  <2>2. ASSUME NEW k \in 0 .. u.size - 1, NEW j \in DOMAIN u.chain[k]
        PROVE  Index(u, u.chain[k][j].key.text) = k
    <3>1. CASE k # i
      BY <1>4, <2>2, <3>1 DEF Sound, Index
    <3>2. CASE k = i /\ j = 1
      BY <1>3, <1>4, <3>2 DEF Index
    <3>3. CASE k = i /\ j # 1
      <4>1. j - 1 \in DOMAIN t.chain[i] /\ u.chain[k][j] = t.chain[i][j - 1]
        BY <1>3, <1>4, <2>2, <3>3
      <4>2. Index(t, t.chain[i][j - 1].key.text) = i
        BY <4>1 DEF Sound
      <4>. QED BY <1>4, <3>3, <4>1, <4>2 DEF Index
    <3>. QED BY <3>1, <3>2, <3>3
  <2>. QED BY <1>1, <1>4, <2>1, <2>2 DEF Sound
<1>7. OneEach(u)
  <2>. SUFFICES ASSUME NEW k \in 0 .. t.size - 1, NEW j \in DOMAIN u.chain[k],
                       NEW m \in 0 .. t.size - 1, NEW l \in DOMAIN u.chain[m],
                       k # m \/ j # l
                PROVE  Unlike(u.chain[k][j], u.chain[m][l])
    BY <1>4 DEF OneEach
  <2>1. \A n \in 0 .. t.size - 1 : \A p \in DOMAIN t.chain[n] :
            Unlike(t.chain[n][p], cell) /\ Unlike(cell, t.chain[n][p])
    BY PlaceHasCell DEF Unlike
  <2>2. CASE k = i /\ m = i
    <3>1. u.chain[k] = s /\ u.chain[m] = s /\ j # l
      BY <1>4, <2>2
    <3>2. CASE j = 1
      <4>1. l - 1 \in DOMAIN t.chain[m] /\ s[l] = t.chain[m][l - 1] /\ s[j] = cell
        BY <1>3, <2>2, <3>1, <3>2
      <4>. QED BY <2>1, <3>1, <4>1
    <3>3. CASE l = 1
      <4>1. j - 1 \in DOMAIN t.chain[k] /\ s[j] = t.chain[k][j - 1] /\ s[l] = cell
        BY <1>3, <2>2, <3>1, <3>3
      <4>. QED BY <2>1, <3>1, <4>1
    <3>4. CASE j # 1 /\ l # 1
      <4>1. /\ j - 1 \in DOMAIN t.chain[k] /\ s[j] = t.chain[k][j - 1]
            /\ l - 1 \in DOMAIN t.chain[m] /\ s[l] = t.chain[m][l - 1]
            /\ j - 1 # l - 1
        BY <1>3, <2>2, <3>1, <3>4
      <4>. QED BY <3>1, <4>1 DEF OneEach
    <3>. QED BY <3>2, <3>3, <3>4
  <2>3. CASE k = i /\ m # i
    <3>1. u.chain[m] = t.chain[m] /\ u.chain[k] = s
      BY <1>4, <2>3
    <3>2. CASE j = 1
      BY <1>3, <2>1, <3>1, <3>2
    <3>3. CASE j # 1
      <4>1. j - 1 \in DOMAIN t.chain[k] /\ s[j] = t.chain[k][j - 1]
        BY <1>3, <2>3, <3>1, <3>3
      <4>. QED BY <2>3, <3>1, <4>1 DEF OneEach
    <3>. QED BY <3>2, <3>3
  <2>4. CASE k # i /\ m = i
    <3>1. u.chain[k] = t.chain[k] /\ u.chain[m] = s
      BY <1>4, <2>4
    <3>2. CASE l = 1
      BY <1>3, <2>1, <3>1, <3>2
    <3>3. CASE l # 1
      <4>1. l - 1 \in DOMAIN t.chain[m] /\ s[l] = t.chain[m][l - 1]
        BY <1>3, <2>4, <3>1, <3>3
      <4>. QED BY <2>4, <3>1, <4>1 DEF OneEach
    <3>. QED BY <3>2, <3>3
  <2>5. CASE k # i /\ m # i
    BY <1>4, <2>5 DEF OneEach
  <2>. QED BY <2>2, <2>3, <2>4, <2>5
<1>8. CellsOf(u) = CellsOf(t) \cup {cell}
  <2>1. ASSUME NEW c \in CellsOf(u) PROVE c \in CellsOf(t) \cup {cell}
    <3>0. PICK k \in 0 .. u.size - 1 : \E j \in DOMAIN u.chain[k] : c = u.chain[k][j]
      BY <2>1, CellHasPlace
    <3>1. k \in 0 .. t.size - 1
      BY <1>4
    <3>2. PICK j \in DOMAIN u.chain[k] : c = u.chain[k][j]
      BY <3>0
    <3>3. CASE k = i /\ j = 1
      BY <1>3, <1>4, <3>2, <3>3
    <3>4. CASE k = i /\ j # 1
      <4>1. j - 1 \in DOMAIN t.chain[k] /\ c = t.chain[k][j - 1]
        BY <1>3, <1>4, <3>2, <3>4
      <4>. QED BY <3>1, <4>1, PlaceHasCell
    <3>5. CASE k # i
      <4>1. j \in DOMAIN t.chain[k] /\ c = t.chain[k][j]
        BY <1>4, <3>1, <3>2, <3>5
      <4>. QED BY <3>1, <4>1, PlaceHasCell
    <3>. QED BY <3>3, <3>4, <3>5
  <2>2. ASSUME NEW c \in CellsOf(t) PROVE c \in CellsOf(u)
    <3>1. PICK k \in 0 .. t.size - 1 : \E j \in DOMAIN t.chain[k] : c = t.chain[k][j]
      BY <2>2, CellHasPlace
    <3>2. PICK j \in DOMAIN t.chain[k] : c = t.chain[k][j]
      BY <3>1
    <3>3. \E l \in DOMAIN u.chain[k] : c = u.chain[k][l]
      <4>1. CASE k = i
        <5>1. j + 1 \in DOMAIN u.chain[k] /\ c = u.chain[k][j + 1]
          BY <1>3, <1>4, <3>2, <4>1
        <5>. QED BY <5>1
      <4>2. CASE k # i
        BY <1>4, <3>2, <4>2
      <4>. QED BY <4>1, <4>2
    <3>. QED BY <1>4, <3>3, PlaceHasCell
  <2>3. cell \in CellsOf(u)
    <3>1. 1 \in DOMAIN u.chain[i] /\ cell = u.chain[i][1]
      BY <1>2, <1>3, <1>4
    <3>. QED BY <1>4, <3>1, PlaceHasCell
  <2>. QED BY <2>1, <2>2, <2>3
<1>. QED BY <1>4, <1>6, <1>7, <1>8

\* A new value in a cell: the old one is in no cell any more.
LEMMA ReplaceValue ==
    ASSUME NEW t, Sound(t), OneEach(t),
           NEW i \in 0 .. t.size - 1, NEW j \in DOMAIN t.chain[i],
           NEW val \in BlocksOf(Val), \A c \in CellsOf(t) : val \notin CellBlocks(c),
           NEW cell, cell = [t.chain[i][j] EXCEPT !.val = val],
           NEW u, Rechained(u, t, i, [t.chain[i] EXCEPT ![j] = cell])
    PROVE  /\ Sound(u) /\ OneEach(u)
           /\ CellsOf(u) = (CellsOf(t) \ {t.chain[i][j]}) \cup {cell}
           /\ u.header = t.header /\ u.array = t.array /\ u.size = t.size
<1>. DEFINE old == t.chain[i][j]
            s == [t.chain[i] EXCEPT ![j] = cell]
<1>1. u = [header |-> t.header, array |-> t.array, size |-> t.size,
           chain |-> [t.chain EXCEPT ![i] = s]]
  BY DEF Sound, Rechained
<1>2. /\ t.size \in Nat /\ t.size \in Sizes
      /\ t.chain \in [0 .. t.size - 1 -> Seq(Cell)]
      /\ t.chain[i] \in Seq(Cell)
  BY HashtableAssumption DEF Sound, IsTable
<1>3. old \in Cell
  BY <1>2
<1>4. /\ cell \in Cell /\ cell.key = old.key /\ cell.node = old.node /\ cell.val = val
      /\ CellBlocks(cell) = (CellBlocks(old) \ {old.val}) \cup {val}
  <2>1. cell = [node |-> old.node, key |-> old.key, val |-> val]
    BY <1>3 DEF Cell
  <2>2. old.val.text \in Val /\ old.key.text \in Key /\ old.node.text = "cell"
    BY <1>3 DEF Cell, BlocksOf
  <2>3. old.val # old.key /\ old.val # old.node
    BY <2>2, HashtableAssumption DEF Structure
  <2>. QED BY <1>3, <2>1, <2>3 DEF Cell, CellBlocks
<1>. HIDE DEF s
<1>5. /\ s \in Seq(Cell) /\ DOMAIN s = DOMAIN t.chain[i] /\ s[j] = cell
      /\ \A m \in DOMAIN t.chain[i] : m # j => s[m] = t.chain[i][m]
  <2>. HIDE DEF old
  <2>. QED BY <1>2, <1>4 DEF s
<1>6. /\ u.header = t.header /\ u.array = t.array /\ u.size = t.size
      /\ u.chain[i] = s
      /\ \A k \in 0 .. t.size - 1 : k # i => u.chain[k] = t.chain[k]
      /\ \A k \in 0 .. t.size - 1 : DOMAIN u.chain[k] = DOMAIN t.chain[k]
      /\ u.chain \in [0 .. t.size - 1 -> Seq(Cell)]
  BY <1>1, <1>2, <1>5
<1>7. \A k \in 0 .. t.size - 1 : \A l \in DOMAIN t.chain[k] :
         u.chain[k][l] = IF k = i /\ l = j THEN cell ELSE t.chain[k][l]
  BY <1>5, <1>6
<1>. HIDE DEF old
<1>8. Sound(u)
  <2>1. IsTable(u)
    BY <1>6 DEF Sound, IsTable
  <2>2. ASSUME NEW k \in 0 .. u.size - 1, NEW l \in DOMAIN u.chain[k]
        PROVE  Index(u, u.chain[k][l].key.text) = k
    <3>1. k \in 0 .. t.size - 1 /\ l \in DOMAIN t.chain[k]
      BY <1>6
    <3>2. u.chain[k][l].key = t.chain[k][l].key
      BY <1>4, <1>7, <3>1 DEF old
    <3>3. Index(t, t.chain[k][l].key.text) = k
      BY <3>1 DEF Sound
    <3>. QED BY <1>6, <3>2, <3>3 DEF Index
  <2>. QED BY <1>1, <1>6, <2>1, <2>2 DEF Sound
<1>9. ASSUME NEW k \in 0 .. t.size - 1, NEW l \in DOMAIN t.chain[k], k # i \/ l # j
      PROVE  Unlike(t.chain[k][l], cell) /\ Unlike(cell, t.chain[k][l])
  <2>1. Unlike(t.chain[k][l], old)
    BY <1>9 DEF OneEach, old
  <2>2. val \notin CellBlocks(t.chain[k][l])
    BY PlaceHasCell
  <2>. QED BY <1>4, <2>1, <2>2 DEF Unlike
<1>10. OneEach(u)
  <2>. SUFFICES ASSUME NEW k \in 0 .. t.size - 1, NEW l \in DOMAIN t.chain[k],
                       NEW m \in 0 .. t.size - 1, NEW n \in DOMAIN t.chain[m],
                       k # m \/ l # n
                PROVE  Unlike(u.chain[k][l], u.chain[m][n])
    BY <1>6 DEF OneEach
  <2>1. CASE k = i /\ l = j
    BY <1>7, <1>9, <2>1
  <2>2. CASE m = i /\ n = j
    BY <1>7, <1>9, <2>2
  <2>3. CASE ~ (k = i /\ l = j) /\ ~ (m = i /\ n = j)
    BY <1>7, <2>3 DEF OneEach
  <2>. QED BY <2>1, <2>2, <2>3
<1>11. CellsOf(u) = (CellsOf(t) \ {old}) \cup {cell}
  <2>1. ASSUME NEW c \in CellsOf(u) PROVE c \in (CellsOf(t) \ {old}) \cup {cell}
    <3>1. PICK k \in 0 .. u.size - 1 : \E l \in DOMAIN u.chain[k] : c = u.chain[k][l]
      BY <2>1, CellHasPlace
    <3>2. PICK l \in DOMAIN u.chain[k] : c = u.chain[k][l]
      BY <3>1
    <3>3. k \in 0 .. t.size - 1 /\ l \in DOMAIN t.chain[k]
      BY <1>6, <3>1, <3>2
    <3>4. CASE k = i /\ l = j
      BY <1>7, <3>2, <3>3, <3>4
    <3>5. CASE ~ (k = i /\ l = j)
      <4>1. c = t.chain[k][l]
        BY <1>7, <3>2, <3>3, <3>5
      <4>2. c \in CellsOf(t)
        BY <3>3, <4>1, PlaceHasCell
      <4>3. c # old
        BY <3>3, <3>5, <4>1 DEF OneEach, Unlike, old
      <4>. QED BY <4>2, <4>3
    <3>. QED BY <3>4, <3>5
  <2>2. ASSUME NEW c \in CellsOf(t), c # old PROVE c \in CellsOf(u)
    <3>1. PICK k \in 0 .. t.size - 1 : \E l \in DOMAIN t.chain[k] : c = t.chain[k][l]
      BY <2>2, CellHasPlace
    <3>2. PICK l \in DOMAIN t.chain[k] : c = t.chain[k][l]
      BY <3>1
    <3>3. k \in 0 .. u.size - 1 /\ l \in DOMAIN u.chain[k] /\ c = u.chain[k][l]
      BY <1>6, <1>7, <2>2, <3>2 DEF old
    <3>. QED BY <3>3, PlaceHasCell
  <2>3. cell \in CellsOf(u)
    <3>1. i \in 0 .. u.size - 1 /\ j \in DOMAIN u.chain[i] /\ cell = u.chain[i][j]
      BY <1>6, <1>7
    <3>. QED BY <3>1, PlaceHasCell
  <2>. QED BY <2>1, <2>2, <2>3
<1>. QED BY <1>6, <1>8, <1>10, <1>11 DEF old

\* s is chain q without the cell at j.
Without(s, q, j) ==
    /\ s \in Seq(Cell) /\ Len(s) = Len(q) - 1
    /\ \A m \in 1 .. Len(s) : /\ m < j => s[m] = q[m]
                              /\ m >= j => s[m] = q[m + 1]

\* A cell taken out of its chain.
LEMMA DropCell ==
    ASSUME NEW t, Sound(t), OneEach(t),
           NEW i \in 0 .. t.size - 1, NEW j \in DOMAIN t.chain[i],
           NEW s, Without(s, t.chain[i], j),
           NEW u, Rechained(u, t, i, s)
    PROVE  /\ Sound(u) /\ OneEach(u)
           /\ CellsOf(u) = CellsOf(t) \ {t.chain[i][j]}
           /\ u.header = t.header /\ u.array = t.array /\ u.size = t.size
<1>. DEFINE old == t.chain[i][j]
            From(k, l) == IF k = i /\ l >= j THEN l + 1 ELSE l
<1>0. /\ s \in Seq(Cell) /\ Len(s) = Len(t.chain[i]) - 1
      /\ \A m \in 1 .. Len(s) : /\ m < j => s[m] = t.chain[i][m]
                                /\ m >= j => s[m] = t.chain[i][m + 1]
  BY DEF Without
<1>1. u = [header |-> t.header, array |-> t.array, size |-> t.size,
           chain |-> [t.chain EXCEPT ![i] = s]]
  BY DEF Sound, Rechained
<1>2. /\ t.size \in Nat /\ t.size \in Sizes
      /\ t.chain \in [0 .. t.size - 1 -> Seq(Cell)]
      /\ t.chain[i] \in Seq(Cell) /\ Len(t.chain[i]) \in Nat
      /\ DOMAIN t.chain[i] = 1 .. Len(t.chain[i]) /\ DOMAIN s = 1 .. Len(s)
  BY <1>0, HashtableAssumption DEF Sound, IsTable
<1>3. /\ u.header = t.header /\ u.array = t.array /\ u.size = t.size
      /\ u.chain[i] = s
      /\ \A k \in 0 .. t.size - 1 : k # i => u.chain[k] = t.chain[k]
      /\ u.chain \in [0 .. t.size - 1 -> Seq(Cell)]
  BY <1>0, <1>1, <1>2
<1>4. ASSUME NEW k \in 0 .. t.size - 1, NEW l \in DOMAIN u.chain[k]
      PROVE  /\ l \in Nat
             /\ From(k, l) \in DOMAIN t.chain[k]
             /\ u.chain[k][l] = t.chain[k][From(k, l)]
             /\ k # i \/ From(k, l) # j
  <2>1. CASE k = i
    <3>1. l \in 1 .. Len(s) /\ u.chain[k] = s /\ j \in Nat
      BY <1>0, <1>2, <1>3, <1>4, <2>1
    <3>2. l \in 1 .. Len(t.chain[i]) /\ l + 1 \in 1 .. Len(t.chain[i])
      BY <1>0, <1>2, <3>1
    <3>3. CASE l < j
      <4>1. From(k, l) = l
        BY <2>1, <3>1, <3>3
      <4>2. s[l] = t.chain[i][l]
        BY <1>0, <3>1, <3>3
      <4>. HIDE DEF From
      <4>. QED BY <1>2, <2>1, <3>1, <3>2, <3>3, <4>1, <4>2
    <3>4. CASE l >= j
      <4>1. From(k, l) = l + 1
        BY <2>1, <3>1, <3>4
      <4>2. s[l] = t.chain[i][l + 1]
        BY <1>0, <3>1, <3>4
      <4>. HIDE DEF From
      <4>. QED BY <1>2, <2>1, <3>1, <3>2, <3>4, <4>1, <4>2
    <3>. QED BY <3>1, <3>3, <3>4
  <2>2. CASE k # i
    <3>1. u.chain[k] = t.chain[k] /\ t.chain[k] \in Seq(Cell)
      BY <1>2, <1>3, <2>2
    <3>. QED BY <2>2, <3>1
  <2>. QED BY <2>1, <2>2
<1>5. Sound(u)
  <2>1. IsTable(u)
    BY <1>3 DEF Sound, IsTable
  <2>2. ASSUME NEW k \in 0 .. t.size - 1, NEW l \in DOMAIN u.chain[k]
        PROVE  Index(u, u.chain[k][l].key.text) = k
    <3>. HIDE DEF From
    <3>1. Index(t, t.chain[k][From(k, l)].key.text) = k
      BY <1>4 DEF Sound
    <3>. QED BY <1>3, <1>4, <3>1 DEF Index
  <2>. QED BY <1>1, <1>3, <2>1, <2>2 DEF Sound
<1>6. OneEach(u)
  <2>. SUFFICES ASSUME NEW k \in 0 .. t.size - 1, NEW l \in DOMAIN u.chain[k],
                       NEW m \in 0 .. t.size - 1, NEW n \in DOMAIN u.chain[m],
                       k # m \/ l # n
                PROVE  Unlike(u.chain[k][l], u.chain[m][n])
    BY <1>3 DEF OneEach
  <2>1. k # m \/ From(k, l) # From(m, n)
    BY <1>2, <1>4
  <2>. HIDE DEF From
  <2>. QED BY <1>4, <2>1 DEF OneEach
<1>7. CellsOf(u) = CellsOf(t) \ {old}
  <2>1. ASSUME NEW c \in CellsOf(u) PROVE c \in CellsOf(t) \ {old}
    <3>. HIDE DEF From
    <3>1. PICK k \in 0 .. u.size - 1 : \E l \in DOMAIN u.chain[k] : c = u.chain[k][l]
      BY <2>1, CellHasPlace
    <3>2. PICK l \in DOMAIN u.chain[k] : c = u.chain[k][l]
      BY <3>1
    <3>3. /\ k \in 0 .. t.size - 1 /\ From(k, l) \in DOMAIN t.chain[k]
          /\ c = t.chain[k][From(k, l)] /\ (k # i \/ From(k, l) # j)
      BY <1>3, <1>4, <3>1, <3>2
    <3>4. c \in CellsOf(t)
      BY <3>3, PlaceHasCell
    <3>5. Unlike(c, old)
      BY <3>3 DEF OneEach
    <3>. QED BY <3>4, <3>5 DEF Unlike
  <2>2. ASSUME NEW c \in CellsOf(t), c # old PROVE c \in CellsOf(u)
    <3>1. PICK k \in 0 .. t.size - 1 : \E l \in DOMAIN t.chain[k] : c = t.chain[k][l]
      BY <2>2, CellHasPlace
    <3>2. PICK l \in DOMAIN t.chain[k] : c = t.chain[k][l]
      BY <3>1
    <3>3. \E n \in DOMAIN u.chain[k] : c = u.chain[k][n]
      <4>1. CASE k = i /\ l < j
        <5>1. l \in 1 .. Len(s) /\ c = t.chain[i][l]
          BY <1>0, <1>2, <3>2, <4>1
        <5>2. s[l] = c
          BY <1>0, <4>1, <5>1
        <5>. QED BY <1>2, <1>3, <4>1, <5>1, <5>2
      <4>2. CASE k = i /\ l > j
        <5>1. l - 1 \in 1 .. Len(s) /\ l - 1 >= j /\ c = t.chain[i][(l - 1) + 1]
          BY <1>0, <1>2, <3>2, <4>2
        <5>2. s[l - 1] = c
          BY <1>0, <5>1
        <5>. QED BY <1>2, <1>3, <4>2, <5>1, <5>2
      <4>3. CASE k # i
        BY <1>3, <3>2, <4>3
      <4>. QED BY <1>2, <2>2, <3>2, <4>1, <4>2, <4>3
    <3>. QED BY <1>3, <3>3, PlaceHasCell
  <2>. QED BY <2>1, <2>2
<1>. QED BY <1>3, <1>5, <1>6, <1>7

LEMMA CellsUnlike ==
    ASSUME NEW t, OneEach(t), NEW c \in CellsOf(t), NEW d \in CellsOf(t), c # d
    PROVE  Unlike(c, d)
<1>1. PICK i \in 0 .. t.size - 1 : \E j \in DOMAIN t.chain[i] : c = t.chain[i][j]
  BY CellHasPlace
<1>2. PICK k \in 0 .. t.size - 1 : \E l \in DOMAIN t.chain[k] : d = t.chain[k][l]
  BY CellHasPlace
<1>. QED BY <1>1, <1>2 DEF OneEach

\* The blocks of a cell are three, and none is a header or an array.
LEMMA CellBlocksDiffer ==
    ASSUME NEW c \in Cell
    PROVE  /\ c.node \in Block /\ c.key \in BlocksOf(Key) /\ c.val \in BlocksOf(Val)
           /\ c.node # c.key /\ c.node # c.val /\ c.key # c.val
           /\ CellBlocks(c) \subseteq Block
           /\ \A x \in CellBlocks(c) : x.text \notin {"table", "array"}
BY HashtableAssumption DEF Cell, BlocksOf, Structure, CellBlocks

LEMMA TableBlocksAre ==
    ASSUME NEW t
    PROVE  \A x : x \in TableBlocks(t) <=>
              \/ x \in {t.header, t.array}
              \/ \E c \in CellsOf(t) : x \in CellBlocks(c)
BY DEF TableBlocks, CellsOf

LEMMA NoTableIsUnsound ==
    /\ CellsOf(NoTable) = {} /\ OneEach(NoTable)
    /\ \A t : Sound(t) => t # NoTable
<1>1. 0 .. NoTable.size - 1 = {}
  BY DEF NoTable
<1>2. ASSUME NEW t, Sound(t), t = NoTable PROVE FALSE
  <2>1. t.header \in BlocksOf({"table"}) /\ t.array \in BlocksOf({"array"})
    BY <1>2 DEF Sound, IsTable
  <2>2. t.header = t.array
    BY <1>2 DEF NoTable
  <2>. QED BY <2>1, <2>2 DEF BlocksOf
<1>. QED BY <1>1, <1>2, CellHasPlace DEF OneEach

\* A search that finds nothing has searched where the key would be.
LEMMA NotFound ==
    ASSUME NEW t, Sound(t), NEW k, Places(t, k) = {}, NEW c \in CellsOf(t)
    PROVE  c.key.text # k
<1>1. PICK i \in 0 .. t.size - 1 : \E j \in DOMAIN t.chain[i] : c = t.chain[i][j]
  BY CellHasPlace
<1>2. PICK j \in DOMAIN t.chain[i] : c = t.chain[i][j]
  BY <1>1
<1>3. Index(t, c.key.text) = i
  BY <1>2 DEF Sound
<1>. QED BY <1>2, <1>3 DEF Places

-----------------------------------------------------------------------------
(* The functions of hashtable.c.                                           *)

\* make_hashtable allocates a header and an array of empty chains.
LEMMA MakeSpec ==
    ASSUME NEW mem, NEW size \in Sizes, Free(mem, "table") # {}, Free(mem, "array") # {},
           NEW made, made = make_hashtable(mem, size)
    PROVE  /\ Sound(made.table) /\ OneEach(made.table) /\ CellsOf(made.table) = {}
           /\ made.mem = mem \cup {made.table.header, made.table.array}
           /\ made.table.header \in Block \ mem
           /\ made.table.array \in Block \ mem
<1>. DEFINE t == made.table
            chain == [i \in 0 .. size - 1 |-> <<>>]
<1>1. t = [header |-> Malloc(mem, "table"), array |-> Malloc(mem, "array"),
           size |-> size, chain |-> chain]
      /\ made.mem = mem \cup {Malloc(mem, "table"), Malloc(mem, "array")}
  BY DEF make_hashtable
<1>2. chain \in [0 .. size - 1 -> Seq(Cell)]
  OBVIOUS
<1>3. \A i \in 0 .. size - 1 : DOMAIN chain[i] = {}
  OBVIOUS
<1>4. /\ Malloc(mem, "table") \in BlocksOf({"table"}) \cap (Block \ mem)
      /\ Malloc(mem, "array") \in BlocksOf({"array"}) \cap (Block \ mem)
  BY MallocIsFresh
<1>. HIDE DEF chain, t
<1>5. IsTable(t)
  BY <1>1, <1>2, <1>4 DEF IsTable
<1>6. \A i \in 0 .. t.size - 1 : DOMAIN t.chain[i] = {}
  BY <1>1, <1>3
<1>7. Sound(t) /\ OneEach(t) /\ CellsOf(t) = {}
  BY <1>1, <1>5, <1>6, CellHasPlace DEF Sound, OneEach
<1>. QED BY <1>1, <1>4, <1>7 DEF t

\* ht_put changes the value of the one cell with that key, and frees the old
\* value and the key, or adds a cell.
LEMMA PutSpec ==
    ASSUME NEW t, Sound(t), OneEach(t), t.size # 0,
           NEW mem, Free(mem, "cell") # {},
           NEW key \in BlocksOf(Key), NEW val \in BlocksOf(Val),
           \A c \in CellsOf(t) : CellBlocks(c) \cap {key, val} = {} /\ CellBlocks(c) \subseteq mem,
           NEW put, put = ht_put(mem, t, key, val)
    PROVE  /\ Sound(put.table) /\ OneEach(put.table)
           /\ put.table.header = t.header /\ put.table.array = t.array
           /\ \/ \E c \in CellsOf(t), d \in Cell :
                    /\ c.key.text = key.text
                    /\ d.key = c.key /\ d.node = c.node /\ d.val = val
                    /\ CellsOf(put.table) = (CellsOf(t) \ {c}) \cup {d}
                    /\ put.mem = mem \ {c.val, key}
              \/ /\ \A c \in CellsOf(t) : c.key.text # key.text
                 /\ \E d \in Cell :
                    /\ d.key = key /\ d.val = val /\ d.node \notin mem
                    /\ CellsOf(put.table) = CellsOf(t) \cup {d}
                    /\ put.mem = mem \cup {d.node}
<1>. DEFINE i == Index(t, key.text)
            j == Place(t, key.text)
            node == Malloc(mem, "cell")
            cell == [node |-> node, key |-> key, val |-> val]
            u == put.table
<1>1. key.text \in Key /\ t.size \in Nat
  BY HashtableAssumption DEF BlocksOf, Sound, IsTable
<1>2. i \in 0 .. t.size - 1 /\ t.chain[i] \in Seq(Cell)
  <2>1. i \in 0 .. t.size - 1
    BY <1>1, IndexIsBucket
  <2>. HIDE DEF i
  <2>. QED BY <2>1 DEF Sound, IsTable
<1>3. CASE Places(t, key.text) # {}
  <2>. DEFINE old == t.chain[i][j]
              new == [old EXCEPT !.val = val]
  <2>1. j \in DOMAIN t.chain[i] /\ old.key.text = key.text
    BY <1>2, <1>3, PlaceIsFound
  <2>2. old \in Cell /\ old \in CellsOf(t)
    BY <1>2, <2>1, PlaceHasCell
  <2>3. u = [t EXCEPT !.chain[i][j].val = val] /\ put.mem = mem \ {old.val, key}
    BY <1>3 DEF ht_put
  <2>4. Rechained(u, t, i, [t.chain[i] EXCEPT ![j] = new])
    BY <2>3 DEF Rechained
  <2>. HIDE DEF i, j, u
  <2>5. new \in Cell /\ new.key = old.key /\ new.node = old.node /\ new.val = val
    BY <2>2 DEF Cell
  <2>6. \A c \in CellsOf(t) : val \notin CellBlocks(c)
    OBVIOUS
  <2>7. /\ Sound(u) /\ OneEach(u)
        /\ CellsOf(u) = (CellsOf(t) \ {old}) \cup {new}
        /\ u.header = t.header /\ u.array = t.array
    BY <1>2, <2>1, <2>4, <2>6, ReplaceValue
  <2>. HIDE DEF old, new
  <2>. QED BY <2>1, <2>2, <2>3, <2>5, <2>7 DEF u
<1>4. CASE Places(t, key.text) = {}
  <2>1. u = [t EXCEPT !.chain[i] = <<cell>> \o @] /\ put.mem = mem \cup {node}
    BY <1>4 DEF ht_put
  <2>2. Rechained(u, t, i, <<cell>> \o t.chain[i])
    BY <2>1 DEF Rechained
  <2>3. node \in BlocksOf({"cell"}) /\ node \notin mem
    BY MallocIsFresh
  <2>4. cell \in Cell /\ cell.key = key /\ cell.val = val /\ cell.node = node
    BY <2>3 DEF Cell
  <2>5. \A c \in CellsOf(t) : c.key.text # key.text
    BY <1>4, NotFound
  <2>. HIDE DEF i, j, u, node, cell
  <2>6. \A c \in CellsOf(t) : Unlike(c, cell)
    <3>1. CellBlocks(cell) = {node, key, val}
      BY <2>4 DEF CellBlocks
    <3>. QED BY <2>3, <2>4, <2>5, <3>1 DEF Unlike
  <2>7. i = Index(t, cell.key.text)
    BY <2>4 DEF i
  <2>8. /\ Sound(u) /\ OneEach(u)
        /\ CellsOf(u) = CellsOf(t) \cup {cell}
        /\ u.header = t.header /\ u.array = t.array
    BY <1>2, <2>2, <2>4, <2>6, <2>7, PrependCell
  <2>. QED BY <2>1, <2>3, <2>4, <2>5, <2>8 DEF u
<1>. QED BY <1>3, <1>4

-----------------------------------------------------------------------------
(* The tables and the heap.                                                *)

\* What every step keeps: the tables are sound, no key and no block is in two
\* places, and the heap is what the tables reach.
TablesInv ==
    /\ pc \in {"start", "trace", "rehash", "done", "crashed"}
    /\ heap \subseteq Block
    /\ IF pc = "start" THEN ht = NoTable /\ heap = {} ELSE Sound(ht)
    /\ newht # NoTable => pc \in {"rehash", "crashed"} /\ Sound(newht)
    /\ OneEach(ht) /\ OneEach(newht)
    /\ \A c \in CellsOf(ht), d \in CellsOf(newht) : Unlike(c, d)
    /\ pc = "trace" => heap = TableBlocks(ht)
    /\ pc = "rehash" =>
          /\ newht # NoTable
          /\ heap = TableBlocks(ht) \cup TableBlocks(newht)
          /\ ht.header # newht.header /\ ht.array # newht.array
    /\ pc = "done" => heap = {}

LEMMA InitTablesInv == Init => TablesInv
BY NoTableIsUnsound DEF Init, TablesInv

LEMMA StartStep ==
    ASSUME TablesInv, Start
    PROVE  TablesInv'
<1>1. PICK size \in Sizes :
         heap' = make_hashtable(heap, size).mem /\ ht' = make_hashtable(heap, size).table
  BY DEF Start
<1>2. heap = {} /\ pc = "start" /\ pc' = "trace" /\ newht' = newht /\ newht = NoTable
  BY DEF Start, TablesInv
<1>3. Free(heap, "table") # {} /\ Free(heap, "array") # {}
  <2>1. 1 \in 1 .. Copies
    BY HashtableAssumption
  <2>2. /\ [text |-> "table", copy |-> 1] \in Free(heap, "table")
        /\ [text |-> "array", copy |-> 1] \in Free(heap, "array")
    BY <1>2, <2>1 DEF Free, BlocksOf, Block, Structure
  <2>. QED BY <2>2
<1>4. /\ Sound(ht') /\ OneEach(ht') /\ CellsOf(ht') = {}
      /\ heap' = {ht'.header, ht'.array} /\ heap' \subseteq Block
  BY <1>1, <1>2, <1>3, MakeSpec
<1>5. heap' = TableBlocks(ht')
  BY <1>4, TableBlocksAre
<1>. QED BY <1>2, <1>4, <1>5, NoTableIsUnsound DEF TablesInv

\* What a put of k that does not crash makes of the table, with the new blocks
\* key and val: it replaces a value, or it adds a cell.
PutsCell(k, key, val) ==
    /\ key \notin heap /\ val \notin heap
    /\ Sound(ht') /\ OneEach(ht') /\ ht'.header = ht.header /\ ht'.array = ht.array
    /\ \/ \E c \in CellsOf(ht), d \in Cell :
            /\ c.key.text = k
            /\ d.key = c.key /\ d.node = c.node /\ d.val = val
            /\ CellsOf(ht') = (CellsOf(ht) \ {c}) \cup {d}
            /\ heap' = (heap \cup {key, val}) \ {c.val, key}
       \/ /\ \A c \in CellsOf(ht) : c.key.text # k
          /\ \E d \in Cell :
            /\ d.key = key /\ d.val = val
            /\ CellsOf(ht') = CellsOf(ht) \cup {d}
            /\ heap' = (heap \cup {key, val}) \cup {d.node}

LEMMA PutCells ==
    ASSUME TablesInv, NEW k \in Key, NEW v \in Val, Put(k, v), ~Crash
    PROVE  \E key \in BlocksOf({k}), val \in BlocksOf({v}) :
                PutsCell(k, key, val) /\ last' = <<"put", k, val>>
<1>. DEFINE key == Malloc(heap, k)
            val == Malloc(heap, v)
            mem == heap \cup {key, val}
            put == ht_put(mem, ht, key, val)
<1>1. /\ ht.size # 0 /\ Sound(ht) /\ OneEach(ht) /\ heap = TableBlocks(ht)
      /\ heap' = put.mem /\ ht' = put.table /\ last' = <<"put", k, val>>
  BY DEF Put, TablesInv
<1>2. Free(heap, k) # {} /\ Free(heap, v) # {} /\ Free(heap, "cell") # {}
  BY DEF Put, CanAllocate
<1>3. /\ key \in BlocksOf({k}) /\ val \in BlocksOf({v})
      /\ key \in BlocksOf(Key) /\ val \in BlocksOf(Val) /\ key.text = k
      /\ key \notin heap /\ val \notin heap
      /\ key.text # "cell" /\ val.text # "cell"
  BY <1>2, MallocIsFresh, HashtableAssumption DEF BlocksOf, Structure
<1>. HIDE DEF key, val
<1>4. Free(mem, "cell") # {}
  BY <1>2, <1>3 DEF Free, BlocksOf
<1>5. \A c \in CellsOf(ht) : CellBlocks(c) \cap {key, val} = {} /\ CellBlocks(c) \subseteq mem
  BY <1>1, <1>3, TableBlocksAre
<1>. HIDE DEF mem
<1>6. PICK r : r = put
  OBVIOUS
<1>7. /\ Sound(ht) /\ OneEach(ht) /\ ht.size # 0
      /\ key \in BlocksOf(Key) /\ val \in BlocksOf(Val)
  BY <1>1, <1>3
<1>8. /\ Sound(r.table) /\ OneEach(r.table)
      /\ r.table.header = ht.header /\ r.table.array = ht.array
      /\ \/ \E c \in CellsOf(ht), d \in Cell :
                    /\ c.key.text = key.text
                    /\ d.key = c.key /\ d.node = c.node /\ d.val = val
                    /\ CellsOf(r.table) = (CellsOf(ht) \ {c}) \cup {d}
                    /\ r.mem = mem \ {c.val, key}
         \/ /\ \A c \in CellsOf(ht) : c.key.text # key.text
            /\ \E d \in Cell :
                    /\ d.key = key /\ d.val = val /\ d.node \notin mem
                    /\ CellsOf(r.table) = CellsOf(ht) \cup {d}
                    /\ r.mem = mem \cup {d.node}
  BY <1>4, <1>5, <1>6, <1>7, PutSpec
<1>9. heap' = r.mem /\ ht' = r.table
  BY <1>1, <1>6
<1>10. last' = <<"put", k, val>>
  BY <1>1
<1>. HIDE DEF put
<1>11. \/ \E c \in CellsOf(ht), d \in Cell :
                    /\ c.key.text = k
                    /\ d.key = c.key /\ d.node = c.node /\ d.val = val
                    /\ CellsOf(ht') = (CellsOf(ht) \ {c}) \cup {d}
                    /\ heap' = (heap \cup {key, val}) \ {c.val, key}
       \/ /\ \A c \in CellsOf(ht) : c.key.text # k
          /\ \E d \in Cell :
                    /\ d.key = key /\ d.val = val
                    /\ CellsOf(ht') = CellsOf(ht) \cup {d}
                    /\ heap' = (heap \cup {key, val}) \cup {d.node}
  <2>1. CASE \E c \in CellsOf(ht), d \in Cell :
                    /\ c.key.text = key.text
                    /\ d.key = c.key /\ d.node = c.node /\ d.val = val
                    /\ CellsOf(r.table) = (CellsOf(ht) \ {c}) \cup {d}
                    /\ r.mem = mem \ {c.val, key}
    BY <1>3, <1>9, <2>1 DEF mem
  <2>2. CASE /\ \A c \in CellsOf(ht) : c.key.text # key.text
             /\ \E d \in Cell :
                    /\ d.key = key /\ d.val = val /\ d.node \notin mem
                    /\ CellsOf(r.table) = CellsOf(ht) \cup {d}
                    /\ r.mem = mem \cup {d.node}
    BY <1>3, <1>9, <2>2 DEF mem
  <2>. QED BY <1>8, <2>1, <2>2
<1>12. Sound(ht') /\ OneEach(ht') /\ ht'.header = ht.header /\ ht'.array = ht.array
  BY <1>8, <1>9
<1>13. key \in BlocksOf({k}) /\ val \in BlocksOf({v}) /\ key \notin heap /\ val \notin heap
  BY <1>3
<1>14. PutsCell(k, key, val)
  BY <1>11, <1>12, <1>13 DEF PutsCell
<1>. QED BY <1>10, <1>13, <1>14

LEMMA PutStep ==
    ASSUME TablesInv, NEW k \in Key, NEW v \in Val, Put(k, v)
    PROVE  TablesInv'
<1>1. CASE Crash
  BY <1>1 DEF Crash, Put, TablesInv
<1>2. CASE ~Crash
  <2>1. /\ pc = "trace" /\ pc' = pc /\ newht' = newht /\ newht = NoTable
        /\ Sound(ht) /\ OneEach(ht) /\ heap = TableBlocks(ht)
    BY <1>2 DEF Put, TablesInv
  <2>2. PICK key \in BlocksOf({k}), val \in BlocksOf({v}) : PutsCell(k, key, val)
    BY <1>2, PutCells
  <2>3. key \in Block /\ val \in Block /\ key # val
    BY HashtableAssumption DEF BlocksOf
  <2>. DEFINE mem == heap \cup {key, val}
  <2>5. \A c \in CellsOf(ht) : CellBlocks(c) \cap {key, val} = {}
    <3>1. key \notin heap /\ val \notin heap
      BY <2>2 DEF PutsCell
    <3>. QED BY <2>1, <3>1, TableBlocksAre
  <2>. HIDE DEF mem
  <2>7. /\ Sound(ht') /\ OneEach(ht') /\ ht'.header = ht.header /\ ht'.array = ht.array
    BY <2>2 DEF PutsCell
  <2>8. CASE \E c \in CellsOf(ht), d \in Cell :
                    /\ d.key = c.key /\ d.node = c.node /\ d.val = val
                    /\ CellsOf(ht') = (CellsOf(ht) \ {c}) \cup {d}
                    /\ heap' = mem \ {c.val, key}
    <3>1. PICK c \in CellsOf(ht), d \in Cell :
                    /\ d.key = c.key /\ d.node = c.node /\ d.val = val
                    /\ CellsOf(ht') = (CellsOf(ht) \ {c}) \cup {d}
                    /\ heap' = mem \ {c.val, key}
      BY <2>8
    <3>2. /\ c \in Cell /\ c.val # c.key /\ c.val # c.node
          /\ CellBlocks(c) = {c.node, c.key, c.val}
          /\ CellBlocks(d) = {c.node, c.key, val}
          /\ c.val.text \notin {"table", "array"}
      BY <2>1, <3>1, CellType, CellBlocksDiffer DEF CellBlocks
    <3>3. \A e \in CellsOf(ht) : e # c => CellBlocks(e) \cap CellBlocks(c) = {}
      BY <2>1, CellsUnlike DEF Unlike
    <3>4. ht.header.text = "table" /\ ht.array.text = "array"
      BY <2>1 DEF Sound, IsTable, BlocksOf
    <3>5. \A x : x \in heap' <=> x \in TableBlocks(ht')
      <4>1. \A x : x \in heap <=>
                \/ x \in {ht.header, ht.array, c.node, c.key, c.val}
                \/ \E e \in CellsOf(ht) \ {c} : x \in CellBlocks(e)
        BY <2>1, <3>2, TableBlocksAre
      <4>2. \A x : x \in TableBlocks(ht') <=>
                \/ x \in {ht.header, ht.array, c.node, c.key, val}
                \/ \E e \in CellsOf(ht) \ {c} : x \in CellBlocks(e)
        <5>1. d \in CellsOf(ht')
          BY <3>1
        <5>. QED BY <2>7, <3>1, <3>2, <5>1, TableBlocksAre
      <4>3. \A x : (\E e \in CellsOf(ht) \ {c} : x \in CellBlocks(e)) => x # c.val
        BY <3>2, <3>3
      <4>4. c.val \notin {ht.header, ht.array, c.node, c.key, val}
        BY <2>5, <3>2, <3>4
      <4>5. \A x : x \in heap' <=> (x \in heap \/ x = val) /\ x # c.val
        <5>1. key \notin heap /\ key # val
          BY <2>2, <2>3 DEF PutsCell
        <5>2. heap' = (heap \cup {key, val}) \ {c.val, key}
          BY <3>1 DEF mem
        <5>. QED BY <5>1, <5>2
      <4>. QED BY <4>1, <4>2, <4>3, <4>4, <4>5
    <3>6. heap' = TableBlocks(ht') /\ heap' \subseteq Block
      BY <2>3, <3>1, <3>5 DEF TablesInv, mem
    <3>. QED BY <2>1, <2>7, <3>6, NoTableIsUnsound DEF TablesInv
  <2>9. CASE \E d \in Cell :
                    /\ d.key = key /\ d.val = val
                    /\ CellsOf(ht') = CellsOf(ht) \cup {d}
                    /\ heap' = mem \cup {d.node}
    <3>1. PICK d \in Cell :
                    /\ d.key = key /\ d.val = val
                    /\ CellsOf(ht') = CellsOf(ht) \cup {d}
                    /\ heap' = mem \cup {d.node}
      BY <2>9
    <3>2. CellBlocks(d) = {d.node, key, val} /\ d.node \in Block
      BY <3>1, CellBlocksDiffer DEF CellBlocks
    <3>3. heap' = TableBlocks(ht') /\ heap' \subseteq Block
      <4>1. \A x : x \in heap' <=> x \in heap \/ x \in {key, val, d.node}
        BY <3>1 DEF mem
      <4>2. \A x : x \in TableBlocks(ht') <=> x \in TableBlocks(ht) \/ x \in CellBlocks(d)
        BY <2>7, <3>1, TableBlocksAre
      <4>. QED BY <2>1, <2>3, <3>2, <4>1, <4>2 DEF TablesInv
    <3>. QED BY <2>1, <2>7, <3>3, NoTableIsUnsound DEF TablesInv
  <2>. QED BY <2>2, <2>8, <2>9 DEF mem, PutsCell
<1>. QED BY <1>1, <1>2

\* A cell that leaves its table, to be freed or moved.
LEMMA WithoutCell ==
    ASSUME NEW t, Sound(t), OneEach(t), NEW c \in CellsOf(t),
           NEW u, CellsOf(u) = CellsOf(t) \ {c},
           u.header = t.header, u.array = t.array
    PROVE  \A x : x \in TableBlocks(u) <=> x \in TableBlocks(t) /\ x \notin CellBlocks(c)
<1>1. \A d \in CellsOf(t) : d # c => CellBlocks(d) \cap CellBlocks(c) = {}
  BY CellsUnlike DEF Unlike
<1>2. t.header.text = "table" /\ t.array.text = "array"
  BY DEF Sound, IsTable, BlocksOf
<1>3. t.header \notin CellBlocks(c) /\ t.array \notin CellBlocks(c)
  BY <1>2, CellType, CellBlocksDiffer
<1>. QED BY <1>1, <1>3, TableBlocksAre

LEMMA RemoveAtSpec ==
    ASSUME NEW q \in Seq(Cell), NEW j \in 1 .. Len(q)
    PROVE  /\ RemoveAt(q, j) \in Seq(Cell) /\ Len(RemoveAt(q, j)) = Len(q) - 1
           /\ \A m \in 1 .. Len(q) - 1 :
                /\ m < j => RemoveAt(q, j)[m] = q[m]
                /\ m >= j => RemoveAt(q, j)[m] = q[m + 1]
<1>. DEFINE a == SubSeq(q, 1, j - 1)
            b == SubSeq(q, j + 1, Len(q))
<1>1. j \in Nat /\ 1 =< j /\ j =< Len(q) /\ Len(q) \in Nat
  OBVIOUS
<1>2. a \in Seq(Cell) /\ Len(a) = j - 1 /\ \A m \in 1 .. j - 1 : a[m] = q[m]
  BY <1>1, SubSeqProperties
<1>3. b \in Seq(Cell) /\ Len(b) = Len(q) - j /\ \A m \in 1 .. Len(q) - j : b[m] = q[j + m]
  BY <1>1, SubSeqProperties
<1>4. RemoveAt(q, j) = a \o b
  BY DEF RemoveAt
<1>. HIDE DEF a, b
<1>5. /\ a \o b \in Seq(Cell) /\ Len(a \o b) = Len(q) - 1
      /\ \A m \in 1 .. Len(q) - 1 : (a \o b)[m] = IF m =< j - 1 THEN a[m] ELSE b[m - (j - 1)]
  <2>1. /\ a \o b \in Seq(Cell) /\ Len(a \o b) = Len(a) + Len(b)
        /\ \A m \in 1 .. Len(a) + Len(b) :
              (a \o b)[m] = IF m =< Len(a) THEN a[m] ELSE b[m - Len(a)]
    BY <1>2, <1>3, ConcatProperties
  <2>2. Len(a) + Len(b) = Len(q) - 1
    BY <1>1, <1>2, <1>3
  <2>. QED BY <1>2, <2>1, <2>2
<1>6. ASSUME NEW m \in 1 .. Len(q) - 1, m < j PROVE (a \o b)[m] = q[m]
  BY <1>1, <1>2, <1>5, <1>6
<1>7. ASSUME NEW m \in 1 .. Len(q) - 1, m >= j PROVE (a \o b)[m] = q[m + 1]
  <2>1. (a \o b)[m] = b[m - (j - 1)]
    BY <1>1, <1>5, <1>7
  <2>2. m - (j - 1) \in 1 .. Len(q) - j /\ j + (m - (j - 1)) = m + 1
    BY <1>1, <1>7
  <2>. QED BY <1>3, <2>1, <2>2
<1>. QED BY <1>4, <1>5, <1>6, <1>7

\* A del that does not crash.
LEMMA DelCells ==
    ASSUME TablesInv, NEW k \in Key, Del(k), ~Crash
    PROVE  \/ /\ ht' = ht /\ heap' = heap
              /\ \A c \in CellsOf(ht) : c.key.text # k
           \/ \E c \in CellsOf(ht) :
                /\ c.key.text = k
                /\ Sound(ht') /\ OneEach(ht')
                /\ CellsOf(ht') = CellsOf(ht) \ {c}
                /\ ht'.header = ht.header /\ ht'.array = ht.array
                /\ heap' = heap \ CellBlocks(c)
<1>. DEFINE i == Index(ht, k)
            j == Place(ht, k)
            old == ht.chain[i][j]
<1>1. Sound(ht) /\ OneEach(ht)
  BY DEF Del, TablesInv
<1>2. CASE ht' = ht /\ heap' = heap /\ Places(ht, k) = {}
  BY <1>1, <1>2, NotFound
<1>3. CASE /\ ht.size # 0 /\ Places(ht, k) # {}
           /\ ht' = [ht EXCEPT !.chain[i] = RemoveAt(@, j)]
           /\ heap' = heap \ CellBlocks(old)
  <2>2. i \in 0 .. ht.size - 1 /\ ht.chain[i] \in Seq(Cell)
    <3>1. ht.size \in Nat
      BY <1>1, HashtableAssumption DEF Sound, IsTable
    <3>2. i \in 0 .. ht.size - 1
      BY <1>3, <3>1, IndexIsBucket
    <3>. HIDE DEF i
    <3>. QED BY <1>1, <3>2 DEF Sound, IsTable
  <2>3. j \in DOMAIN ht.chain[i] /\ old \in CellsOf(ht) /\ old.key.text = k
    <3>1. j \in DOMAIN ht.chain[i] /\ old.key.text = k
      BY <1>3, <2>2, PlaceIsFound
    <3>. HIDE DEF i, j
    <3>. QED BY <2>2, <3>1, PlaceHasCell
  <2>. DEFINE s == RemoveAt(ht.chain[i], j)
  <2>4. Rechained(ht', ht, i, s)
    BY <1>3 DEF Rechained
  <2>. HIDE DEF i, j
  <2>5. Without(s, ht.chain[i], j)
    <3>. DEFINE q == ht.chain[i]
    <3>1. q \in Seq(Cell) /\ j \in 1 .. Len(q) /\ s = RemoveAt(q, j)
      BY <2>2, <2>3
    <3>. HIDE DEF q, s
    <3>2. s \in Seq(Cell) /\ Len(s) = Len(q) - 1
      BY <3>1, RemoveAtSpec
    <3>3. \A m \in 1 .. Len(s) : /\ m < j => s[m] = q[m]
                                 /\ m >= j => s[m] = q[m + 1]
      BY <3>1, <3>2, RemoveAtSpec
    <3>. QED BY <3>2, <3>3 DEF Without, q
  <2>. HIDE DEF s
  <2>6. i \in 0 .. ht.size - 1 /\ j \in DOMAIN ht.chain[i]
    BY <2>2, <2>3
  <2>7. Sound(ht') /\ OneEach(ht')
    BY <1>1, <2>4, <2>5, <2>6, DropCell
  <2>8. CellsOf(ht') = CellsOf(ht) \ {old}
    BY <1>1, <2>4, <2>5, <2>6, DropCell
  <2>9. ht'.header = ht.header /\ ht'.array = ht.array
    BY <1>1, <2>4, <2>5, <2>6, DropCell
  <2>. HIDE DEF old
  <2>. QED BY <1>3, <2>3, <2>7, <2>8, <2>9
<1>. QED BY <1>2, <1>3 DEF Del

LEMMA DelStep ==
    ASSUME TablesInv, NEW k \in Key, Del(k)
    PROVE  TablesInv'
<1>1. CASE Crash
  BY <1>1 DEF Crash, Del, TablesInv
<1>2. CASE ~Crash
  <2>1. /\ pc = "trace" /\ pc' = pc /\ newht' = newht /\ newht = NoTable
        /\ Sound(ht) /\ OneEach(ht) /\ heap = TableBlocks(ht) /\ heap \subseteq Block
    BY <1>2 DEF Del, TablesInv
  <2>2. CASE ht' = ht /\ heap' = heap
    BY <2>1, <2>2 DEF TablesInv
  <2>3. ASSUME NEW c \in CellsOf(ht),
               Sound(ht') /\ OneEach(ht'), CellsOf(ht') = CellsOf(ht) \ {c},
               ht'.header = ht.header /\ ht'.array = ht.array,
               heap' = heap \ CellBlocks(c)
        PROVE  TablesInv'
    <3>1. heap' = TableBlocks(ht')
      <4>1. \A x : x \in TableBlocks(ht') <=> x \in TableBlocks(ht) /\ x \notin CellBlocks(c)
        BY <2>1, <2>3, WithoutCell
      <4>. QED BY <2>1, <2>3, <4>1
    <3>. QED BY <2>1, <2>3, <3>1, NoTableIsUnsound DEF TablesInv
  <2>. QED BY <1>2, <2>2, <2>3, DelCells
<1>. QED BY <1>1, <1>2

LEMMA RehashStartStep ==
    ASSUME TablesInv, RehashStart
    PROVE  TablesInv'
<1>1. PICK size \in Sizes :
         heap' = make_hashtable(heap, size).mem /\ newht' = make_hashtable(heap, size).table
  BY DEF RehashStart
<1>2. /\ pc = "trace" /\ pc' = "rehash" /\ ht' = ht /\ Sound(ht) /\ OneEach(ht)
      /\ heap = TableBlocks(ht) /\ heap \subseteq Block
  BY DEF RehashStart, TablesInv
<1>3. Free(heap, "table") # {} /\ Free(heap, "array") # {}
  BY DEF RehashStart, CanAllocate
<1>4. /\ Sound(newht') /\ OneEach(newht') /\ CellsOf(newht') = {}
      /\ heap' = heap \cup {newht'.header, newht'.array} /\ heap' \subseteq Block
      /\ newht'.header \notin heap /\ newht'.array \notin heap
  <2>1. PICK r : r = make_hashtable(heap, size)
    OBVIOUS
  <2>2. /\ Sound(r.table) /\ OneEach(r.table) /\ CellsOf(r.table) = {}
        /\ r.mem = heap \cup {r.table.header, r.table.array}
        /\ r.table.header \in Block \ heap /\ r.table.array \in Block \ heap
    BY <1>3, <2>1, MakeSpec
  <2>. QED BY <1>1, <1>2, <2>1, <2>2
<1>5. heap' = TableBlocks(ht') \cup TableBlocks(newht')
  BY <1>2, <1>4, TableBlocksAre
<1>6. ht.header \in heap /\ ht.array \in heap
  BY <1>2, TableBlocksAre
<1>. QED BY <1>2, <1>4, <1>5, <1>6, NoTableIsUnsound DEF TablesInv

LEMMA RehashMoveStep ==
    ASSUME TablesInv, RehashMove
    PROVE  /\ TablesInv'
           /\ Crash \/ \E c \in CellsOf(ht), d \in Cell :
                /\ d.key = c.key /\ d.val = c.val
                /\ CellsOf(ht') = CellsOf(ht) \ {c}
                /\ CellsOf(newht') = CellsOf(newht) \cup {d}
<1>. DEFINE i == CHOOSE n \in ToMove : \A m \in ToMove : n =< m
            cell == Head(ht.chain[i])
            put == ht_put(heap, newht, cell.key, cell.val)
<1>1. CASE Crash
  BY <1>1 DEF Crash, RehashMove, TablesInv
<1>2. CASE ~Crash
  <2>1. /\ pc = "rehash" /\ pc' = pc /\ newht.size # 0
        /\ Sound(ht) /\ OneEach(ht) /\ Sound(newht) /\ OneEach(newht)
        /\ \A c \in CellsOf(ht), d \in CellsOf(newht) : Unlike(c, d)
        /\ heap = TableBlocks(ht) \cup TableBlocks(newht) /\ heap \subseteq Block
        /\ ht.header # newht.header /\ ht.array # newht.array
    BY <1>2 DEF RehashMove, TablesInv
  <2>2. /\ ht' = [ht EXCEPT !.chain[i] = Tail(@)]
        /\ newht' = put.table
        /\ heap' = put.mem \ {cell.node}
        /\ Free(heap, "cell") # {}
    BY <1>2 DEF RehashMove, CanAllocate
  <2>3. i \in 0 .. ht.size - 1 /\ ht.chain[i] \in Seq(Cell) /\ ht.chain[i] # <<>>
    <3>a. ht.size \in Nat
      BY <2>1, HashtableAssumption DEF Sound, IsTable
    <3>b. ToMove \subseteq Nat
      BY <3>a DEF ToMove
    <3>c. ToMove # {}
      BY DEF RehashMove
    <3>1. ToMove \subseteq Nat /\ ToMove # {}
      BY <3>b, <3>c
    <3>2. i \in ToMove
      BY <3>1, LeastExists
    <3>. HIDE DEF i
    <3>. QED BY <2>1, <3>2 DEF Sound, IsTable, ToMove
  <2>. DEFINE s == Tail(ht.chain[i])
  <2>4. Rechained(ht', ht, i, s)
    BY <2>2 DEF Rechained
  <2>. HIDE DEF i
  <2>5. /\ 1 \in DOMAIN ht.chain[i] /\ cell = ht.chain[i][1]
        /\ Without(s, ht.chain[i], 1)
    BY <2>3 DEF Without
  <2>6. cell \in CellsOf(ht)
    BY <2>3, <2>5, PlaceHasCell
  <2>. HIDE DEF s
  <2>7. /\ Sound(ht') /\ OneEach(ht') /\ CellsOf(ht') = CellsOf(ht) \ {cell}
        /\ ht'.header = ht.header /\ ht'.array = ht.array
    <3>1. Sound(ht) /\ OneEach(ht)
      BY <2>1
    <3>2. i \in 0 .. ht.size - 1 /\ 1 \in DOMAIN ht.chain[i]
          /\ Without(s, ht.chain[i], 1)
      BY <2>3, <2>5
    <3>3. Sound(ht') /\ OneEach(ht')
      BY <2>4, <3>1, <3>2, DropCell
    <3>4. CellsOf(ht') = CellsOf(ht) \ {ht.chain[i][1]}
      BY <2>4, <3>1, <3>2, DropCell
    <3>5. ht'.header = ht.header /\ ht'.array = ht.array
      BY <2>4, <3>1, <3>2, DropCell
    <3>6. cell = ht.chain[i][1]
      BY <2>5
    <3>. HIDE DEF cell
    <3>. QED BY <3>3, <3>4, <3>5, <3>6
  <2>. HIDE DEF cell
  <2>8. /\ cell \in Cell /\ cell.key \in BlocksOf(Key) /\ cell.val \in BlocksOf(Val)
        /\ CellBlocks(cell) = {cell.node, cell.key, cell.val}
        /\ cell.node # cell.key /\ cell.node # cell.val
    BY <2>1, <2>6, CellType, CellBlocksDiffer DEF CellBlocks
  <2>9. \A d \in CellsOf(newht) :
            /\ CellBlocks(d) \cap {cell.key, cell.val} = {} /\ CellBlocks(d) \subseteq heap
            /\ d.key.text # cell.key.text
    BY <2>1, <2>6, <2>8, TableBlocksAre DEF Unlike
  <2>10. PICK r : r = put
    OBVIOUS
  <2>11. /\ Sound(newht') /\ OneEach(newht')
         /\ newht'.header = newht.header /\ newht'.array = newht.array
         /\ \E d \in Cell :
              /\ d.key = cell.key /\ d.val = cell.val /\ d.node \notin heap
              /\ CellsOf(newht') = CellsOf(newht) \cup {d}
              /\ heap' = (heap \cup {d.node}) \ {cell.node}
    <3>1. \A d \in CellsOf(newht) :
              CellBlocks(d) \cap {cell.key, cell.val} = {} /\ CellBlocks(d) \subseteq heap
      BY <2>9
    <3>2. /\ Sound(r.table) /\ OneEach(r.table)
          /\ r.table.header = newht.header /\ r.table.array = newht.array
          /\ \/ \E c \in CellsOf(newht), d \in Cell :
                    /\ c.key.text = cell.key.text
                    /\ d.key = c.key /\ d.node = c.node /\ d.val = cell.val
                    /\ CellsOf(r.table) = (CellsOf(newht) \ {c}) \cup {d}
                    /\ r.mem = heap \ {c.val, cell.key}
             \/ /\ \A c \in CellsOf(newht) : c.key.text # cell.key.text
                /\ \E d \in Cell :
                    /\ d.key = cell.key /\ d.val = cell.val /\ d.node \notin heap
                    /\ CellsOf(r.table) = CellsOf(newht) \cup {d}
                    /\ r.mem = heap \cup {d.node}
      <4>1. /\ Sound(newht) /\ OneEach(newht) /\ newht.size # 0 /\ Free(heap, "cell") # {}
            /\ cell.key \in BlocksOf(Key) /\ cell.val \in BlocksOf(Val)
        BY <2>1, <2>2, <2>8
      <4>. QED BY <2>10, <3>1, <4>1, PutSpec
    <3>. HIDE DEF put
    <3>. QED BY <2>2, <2>9, <2>10, <3>2
  <2>12. PICK d \in Cell :
              /\ d.key = cell.key /\ d.val = cell.val /\ d.node \notin heap
              /\ CellsOf(newht') = CellsOf(newht) \cup {d}
              /\ heap' = (heap \cup {d.node}) \ {cell.node}
    BY <2>11
  <2>13. CellBlocks(d) = {d.node, cell.key, cell.val} /\ d.node \in Block
    BY <2>12, CellBlocksDiffer DEF CellBlocks
  <2>14. \A c \in CellsOf(ht'), e \in CellsOf(newht') : Unlike(c, e)
    <3>1. ASSUME NEW c \in CellsOf(ht) \ {cell} PROVE Unlike(c, d)
      <4>1. Unlike(c, cell)
        BY <2>1, <2>6, <3>1, CellsUnlike
      <4>2. CellBlocks(c) \subseteq heap
        BY <2>1, TableBlocksAre
      <4>. QED BY <2>8, <2>12, <2>13, <4>1, <4>2 DEF Unlike
    <3>. QED BY <2>1, <2>7, <2>12, <3>1
  <2>15. heap' = TableBlocks(ht') \cup TableBlocks(newht')
    <3>1. \A x : x \in TableBlocks(ht') <=> x \in TableBlocks(ht) /\ x \notin CellBlocks(cell)
      BY <2>1, <2>6, <2>7, WithoutCell
    <3>2. \A x : x \in TableBlocks(newht') <=> x \in TableBlocks(newht) \/ x \in CellBlocks(d)
      BY <2>11, <2>12, TableBlocksAre
    <3>3. \A x \in CellBlocks(cell) : x \in TableBlocks(ht) /\ x \notin TableBlocks(newht)
      <4>1. \A x \in CellBlocks(cell) : x.text \notin {"table", "array"}
        BY <2>8, CellBlocksDiffer
      <4>2. newht.header.text = "table" /\ newht.array.text = "array"
        BY <2>1 DEF Sound, IsTable, BlocksOf
      <4>. QED BY <2>1, <2>6, <4>1, <4>2, TableBlocksAre DEF Unlike
    <3>4. \A x : x \in heap' <=> (x \in heap \/ x = d.node) /\ x # cell.node
      BY <2>12
    <3>5. d.node # cell.node
      BY <2>1, <2>8, <2>12, <3>3
    <3>. QED BY <2>1, <2>8, <2>13, <3>1, <3>2, <3>3, <3>4, <3>5
  <2>16. heap' \subseteq Block
    BY <2>1, <2>12, <2>13
  <2>17. TablesInv'
    BY <2>1, <2>7, <2>11, <2>14, <2>15, <2>16, NoTableIsUnsound DEF TablesInv
  <2>. QED BY <2>6, <2>7, <2>12, <2>17
<1>. QED BY <1>1, <1>2

LEMMA RehashEndStep ==
    ASSUME TablesInv, RehashEnd
    PROVE  TablesInv'
<1>1. /\ pc = "rehash" /\ pc' = "trace" /\ newht' = NoTable /\ ToMove = {}
      /\ ht' = [newht EXCEPT !.header = ht.header]
      /\ heap' = heap \ {ht.array, newht.header}
      /\ Sound(ht) /\ Sound(newht) /\ OneEach(newht)
      /\ heap = TableBlocks(ht) \cup TableBlocks(newht) /\ heap \subseteq Block
      /\ ht.header # newht.header /\ ht.array # newht.array
  BY DEF RehashEnd, TablesInv
<1>2. ht' = [header |-> ht.header, array |-> newht.array, size |-> newht.size,
             chain |-> newht.chain]
  BY <1>1 DEF Sound
<1>3. CellsOf(ht) = {}
  <2>1. \A i \in 0 .. ht.size - 1 : ht.chain[i] = <<>>
    BY <1>1 DEF ToMove, Sound, IsTable
  <2>. QED BY <2>1, CellHasPlace
<1>4. Sound(ht') /\ OneEach(ht') /\ CellsOf(ht') = CellsOf(newht)
  BY <1>1, <1>2 DEF Sound, IsTable, OneEach, Index, CellsOf, Positions, CellAt
<1>5. \A x : x \in heap' <=> x \in TableBlocks(ht')
  <2>1. \A c \in CellsOf(newht) : \A x \in CellBlocks(c) : x.text \notin {"table", "array"}
    BY <1>1, CellType, CellBlocksDiffer
  <2>2. /\ ht.header.text = "table" /\ newht.header.text = "table"
        /\ ht.array.text = "array" /\ newht.array.text = "array"
    BY <1>1 DEF Sound, IsTable, BlocksOf
  <2>3. \A x : x \in TableBlocks(ht) <=> x \in {ht.header, ht.array}
    BY <1>3, TableBlocksAre
  <2>4. \A x : x \in TableBlocks(ht') <=> \/ x \in {ht.header, newht.array}
                                          \/ \E c \in CellsOf(newht) : x \in CellBlocks(c)
    BY <1>2, <1>4, TableBlocksAre
  <2>5. \A x : x \in TableBlocks(newht) <=> \/ x \in {newht.header, newht.array}
                                            \/ \E c \in CellsOf(newht) : x \in CellBlocks(c)
    BY TableBlocksAre
  <2>. QED BY <1>1, <2>1, <2>2, <2>3, <2>4, <2>5
<1>6. heap' = TableBlocks(ht') /\ heap' \subseteq Block
  BY <1>1, <1>5
<1>. QED BY <1>1, <1>4, <1>6, NoTableIsUnsound DEF TablesInv

\* Every step keeps TablesInv.
LEMMA TablesStep ==
    ASSUME TablesInv, [Next]_vars
    PROVE  TablesInv'
<1>1. ASSUME NEW k \in Key, Get(k) PROVE TablesInv'
  BY <1>1 DEF Get, Crash, TablesInv
<1>2. CASE Info
  BY <1>2 DEF Info, TablesInv
<1>3. CASE End
  BY <1>3, NoTableIsUnsound DEF End, TablesInv
<1>4. CASE UNCHANGED vars
  BY <1>4 DEF vars, TablesInv
<1>. QED BY <1>1, <1>2, <1>3, <1>4, StartStep, PutStep, DelStep, RehashStartStep,
            RehashMoveStep, RehashEndStep DEF Next

LEMMA TablesAlways == Spec => []TablesInv
<1>1. TablesInv /\ [Next]_vars => TablesInv'
  BY TablesStep
<1>. QED BY InitTablesInv, <1>1, PTL DEF Spec

-----------------------------------------------------------------------------
(* The properties.                                                         *)

\* A key is in one cell, of one table, in the chain where it is looked for,
\* also in the middle of ht_rehash.
THEOREM EachKeyOnce == Spec => []KeysAreUnique
<1>1. TablesInv => KeysAreUnique
  <2>. SUFFICES ASSUME TablesInv, NEW t \in Tables, NEW u \in Tables,
                       NEW at \in Positions(t), NEW to \in Positions(u)
                PROVE  /\ at[1] = Index(t, CellAt(t, at).key.text)
                       /\ CellAt(t, at).key.text = CellAt(u, to).key.text
                             => t = u /\ at = to
    BY DEF KeysAreUnique
  <2>1. /\ \A w \in {t, u} : Sound(w) /\ OneEach(w)
        /\ t # u => \A c \in CellsOf(t), d \in CellsOf(u) : Unlike(c, d) \/ Unlike(d, c)
    BY DEF Tables, TablesInv
  <2>2. /\ at = <<at[1], at[2]>> /\ at[1] \in 0 .. t.size - 1 /\ at[2] \in DOMAIN t.chain[at[1]]
        /\ to = <<to[1], to[2]>> /\ to[1] \in 0 .. u.size - 1 /\ to[2] \in DOMAIN u.chain[to[1]]
    BY PositionsAre
  <2>3. CellAt(t, at) \in CellsOf(t) /\ CellAt(u, to) \in CellsOf(u)
    BY DEF CellsOf
  <2>4. at[1] = Index(t, CellAt(t, at).key.text)
    BY <2>1, <2>2 DEF Sound, CellAt
  <2>5. ASSUME CellAt(t, at).key.text = CellAt(u, to).key.text PROVE t = u /\ at = to
    <3>1. t = u
      BY <2>1, <2>3, <2>5 DEF Unlike
    <3>2. at[1] = to[1] /\ at[2] = to[2]
      BY <2>1, <2>2, <2>5, <3>1 DEF OneEach, Unlike, CellAt
    <3>. QED BY <2>2, <3>1, <3>2
  <2>. QED BY <2>4, <2>5
<1>. QED BY <1>1, TablesAlways, PTL

\* Between two commands, and between two cells of ht_rehash, the heap is what
\* the tables reach and no block is reached in two ways.
THEOREM HeapOwned == Spec => []HeapIsOwned
<1>1. TablesInv => HeapIsOwned
  <2>. SUFFICES ASSUME TablesInv, pc \in {"trace", "rehash"} PROVE HeapIsOwned
    BY DEF HeapIsOwned
  <2>1. heap = UNION {TableBlocks(t) : t \in Tables}
    <3>1. CASE pc = "trace"
      <4>1. Sound(ht) /\ newht = NoTable /\ heap = TableBlocks(ht)
        BY <3>1 DEF TablesInv
      <4>2. Tables = {ht}
        BY <4>1, NoTableIsUnsound DEF Tables
      <4>. QED BY <4>1, <4>2
    <3>2. CASE pc = "rehash"
      <4>1. Sound(ht) /\ Sound(newht) /\ heap = TableBlocks(ht) \cup TableBlocks(newht)
        BY <3>2 DEF TablesInv
      <4>2. Tables = {ht, newht}
        BY <4>1, NoTableIsUnsound DEF Tables
      <4>. QED BY <4>1, <4>2
    <3>. QED BY <3>1, <3>2
  <2>2. ASSUME NEW t \in Tables, NEW u \in Tables,
               NEW at \in Positions(t), NEW to \in Positions(u), <<t, at>> # <<u, to>>
        PROVE  CellBlocks(CellAt(t, at)) \cap CellBlocks(CellAt(u, to)) = {}
    <3>1. /\ OneEach(t)
          /\ t # u => \A c \in CellsOf(t), d \in CellsOf(u) : Unlike(c, d) \/ Unlike(d, c)
      BY DEF Tables, TablesInv
    <3>2. CASE t # u
      <4>1. CellAt(t, at) \in CellsOf(t) /\ CellAt(u, to) \in CellsOf(u)
        BY DEF CellsOf
      <4>. QED BY <3>1, <3>2, <4>1 DEF Unlike
    <3>3. CASE t = u
      <4>1. /\ at = <<at[1], at[2]>> /\ at[1] \in 0 .. t.size - 1
            /\ at[2] \in DOMAIN t.chain[at[1]]
            /\ to = <<to[1], to[2]>> /\ to[1] \in 0 .. t.size - 1
            /\ to[2] \in DOMAIN t.chain[to[1]]
        BY <3>3, PositionsAre
      <4>2. at[1] # to[1] \/ at[2] # to[2]
        BY <2>2, <3>3, <4>1
      <4>3. Unlike(t.chain[at[1]][at[2]], t.chain[to[1]][to[2]])
        BY <3>1, <4>1, <4>2 DEF OneEach
      <4>. QED BY <3>3, <4>3 DEF Unlike, CellAt
    <3>. QED BY <3>2, <3>3
  <2>. QED BY <2>1, <2>2 DEF HeapIsOwned
<1>. QED BY <1>1, TablesAlways, PTL

\* free_hashtable frees everything that is allocated when the trace ends.
THEOREM NoLeaks == Spec => []NothingLeaks
<1>1. TablesInv => NothingLeaks
  BY DEF TablesInv, NothingLeaks
<1>. QED BY <1>1, TablesAlways, PTL

-----------------------------------------------------------------------------
(* Type correctness.                                                       *)

LEMMA IndicesAreFinite ==
    ASSUME NEW n \in Nat
    PROVE  IsFiniteSet(0 .. n - 1) /\ IsFiniteSet(1 .. n)
<1>1. 0 \in Int /\ 1 \in Int /\ n \in Int /\ n - 1 \in Int
  OBVIOUS
<1>2. IsFiniteSet(0 .. n - 1)
  BY <1>1, FS_Interval
<1>3. IsFiniteSet(1 .. n)
  BY <1>1, FS_Interval
<1>. QED BY <1>2, <1>3

\* print_ht_stats counts a number of cells.
LEMMA CountIsNatural ==
    ASSUME NEW t, Sound(t)
    PROVE  IsFiniteSet(Positions(t)) /\ Cardinality(Positions(t)) \in Nat
<1>. DEFINE Row(i) == {<<i, j>> : j \in DOMAIN t.chain[i]}
            Rows == {Row(i) : i \in 0 .. t.size - 1}
<1>1. t.size \in Nat /\ \A i \in 0 .. t.size - 1 : t.chain[i] \in Seq(Cell)
  BY HashtableAssumption DEF Sound, IsTable
<1>2. ASSUME NEW i \in 0 .. t.size - 1 PROVE IsFiniteSet(Row(i))
  <2>1. DOMAIN t.chain[i] = 1 .. Len(t.chain[i]) /\ Len(t.chain[i]) \in Nat
    BY <1>1
  <2>2. IsFiniteSet(DOMAIN t.chain[i])
    BY <2>1, IndicesAreFinite
  <2>3. Row(i) = {i} \X DOMAIN t.chain[i]
    OBVIOUS
  <2>4. IsFiniteSet({i})
    BY FS_Singleton
  <2>5. IsFiniteSet({i} \X DOMAIN t.chain[i])
    BY <2>2, <2>4, FS_Product
  <2>. QED BY <2>3, <2>5
<1>3. IsFiniteSet(Rows)
  <2>1. IsFiniteSet(0 .. t.size - 1)
    BY <1>1, IndicesAreFinite
  <2>. HIDE DEF Row
  <2>2. [i \in 0 .. t.size - 1 |-> Row(i)] \in Surjection(0 .. t.size - 1, Rows)
    BY DEF Surjection
  <2>. QED BY <2>1, <2>2, FS_Surjection
<1>4. \A R \in Rows : IsFiniteSet(R)
  BY <1>2
<1>. HIDE DEF Rows
<1>5. IsFiniteSet(UNION Rows)
  BY <1>3, <1>4, FS_UNION
<1>. QED BY <1>5, FS_CardinalityType DEF Positions, Rows

\* Every step reports a command of the trace and a result it can have.
LEMMA LastStep ==
    ASSUME TablesInv, last \in Command, [Next]_vars
    PROVE  last' \in Command
<1>1. ASSUME NEW k \in Key, NEW v \in Val, Put(k, v) PROVE last' \in Command
  <2>1. CanAllocate({k, v, "cell"})
    BY <1>1 DEF Put
  <2>2. Malloc(heap, v) \in BlocksOf(Val)
    BY <2>1, MallocIsFresh DEF CanAllocate, BlocksOf
  <2>. QED BY <1>1, <2>2 DEF Put, Crash, Command
<1>2. ASSUME NEW k \in Key, Get(k) PROVE last' \in Command
  <2>1. CASE Crash
    BY <2>1 DEF Crash
  <2>2. CASE ht.size # 0 /\ last' = <<"get", k, ht_get(ht, k)>>
    <3>. DEFINE i == Index(ht, k)
                j == Place(ht, k)
    <3>1. Sound(ht) /\ ht.size \in Nat
      BY <1>2, HashtableAssumption DEF Get, TablesInv, Sound, IsTable
    <3>2. i \in 0 .. ht.size - 1
      BY <2>2, <3>1, IndexIsBucket
    <3>3. ht.chain[i] \in Seq(Cell)
      <4>. HIDE DEF i
      <4>. QED BY <3>1, <3>2 DEF Sound, IsTable
    <3>4. Places(ht, k) # {} => ht.chain[i][j] \in Cell
      <4>1. Places(ht, k) # {} => j \in DOMAIN ht.chain[i]
        BY <3>3, PlaceIsFound
      <4>. HIDE DEF i, j
      <4>. QED BY <3>3, <4>1
    <3>5. ht_get(ht, k) \in BlocksOf(Val) \cup {NoVal}
      <4>1. CASE Places(ht, k) = {}
        BY <4>1 DEF ht_get
      <4>2. CASE Places(ht, k) # {}
        <5>1. ht_get(ht, k) = ht.chain[i][j].val
          BY <2>2, <4>2 DEF ht_get
        <5>2. ht.chain[i][j] \in Cell
          BY <3>4, <4>2
        <5>. HIDE DEF i, j
        <5>. QED BY <5>1, <5>2 DEF Cell
      <4>. QED BY <4>1, <4>2
    <3>. HIDE DEF i, j
    <3>. QED BY <2>2, <3>5 DEF Command
  <2>. QED BY <1>2, <2>1, <2>2 DEF Get
<1>3. ASSUME NEW k \in Key, Del(k) PROVE last' \in Command
  BY <1>3 DEF Del, Crash, Command
<1>4. CASE Info
  <2>1. Cardinality(Positions(ht)) \in Nat
    BY <1>4, CountIsNatural DEF Info, TablesInv
  <2>. QED BY <1>4, <2>1 DEF Info, Command
<1>5. CASE RehashStart
  BY <1>5 DEF RehashStart, Command
<1>6. CASE Start \/ RehashMove \/ RehashEnd \/ End \/ UNCHANGED vars
  BY <1>6 DEF Start, RehashMove, RehashEnd, End, Crash, vars
<1>. QED BY <1>1, <1>2, <1>3, <1>4, <1>5, <1>6 DEF Next

\* Every variable keeps its type: the cells stay cells, whatever is put,
\* deleted and moved.
THEOREM TypeCorrect == Spec => []TypeOK
<1>1. Init => last \in Command
  BY DEF Init, Command
<1>2. TablesInv /\ last \in Command /\ [Next]_vars => (TablesInv /\ last \in Command)'
  BY TablesStep, LastStep
<1>3. TablesInv /\ last \in Command => TypeOK
  BY DEF TablesInv, TypeOK, Sound
<1>. QED BY InitTablesInv, <1>1, <1>2, <1>3, PTL DEF Spec

-----------------------------------------------------------------------------
(* The refinement.  The map is what the cells of both tables say.  The     *)
(* lemmas below are about sets of cells that represent a map; the steps of *)
(* Hashtable come to them through what is shown above of the cells.        *)

AllCells == CellsOf(ht) \cup CellsOf(newht)

\* The map that the refinement shows.
TheDict == [k \in Key |-> ValueOf(k)]

-----------------------------------------------------------------------------
(* Sets of cells that represent a map.                                     *)

Holds(C, k, v) ==
    \/ \E c \in C : c.key.text = k /\ v = c.val
    \/ (\A c \in C : c.key.text # k) /\ v = NoVal

OnlyOne(C) == \A c, d \in C : c.key.text = d.key.text => c = d

Represents(C, f) ==
    /\ f = [k \in Key |-> f[k]]
    /\ OnlyOne(C)
    /\ \A k \in Key : Holds(C, k, f[k])

\* A cell that stands for another, with its key and its value, changes nothing.
LEMMA SameMap ==
    ASSUME NEW C, NEW E, NEW f, NEW g, Represents(C, f), Represents(E, g),
           \A c \in C : \E d \in E : d.key.text = c.key.text /\ d.val = c.val,
           \A d \in E : \E c \in C : d.key.text = c.key.text /\ d.val = c.val
    PROVE  g = f
<1>1. ASSUME NEW k \in Key PROVE g[k] = f[k]
  BY DEF Represents, Holds, OnlyOne
<1>. QED BY <1>1 DEF Represents

\* A cell of k comes in, and replaces another if there was one.
LEMMA PutMap ==
    ASSUME NEW C, NEW E, NEW f, NEW g, Represents(C, f), Represents(E, g),
           NEW k \in Key, NEW d \in E, d.key.text = k,
           \A e : e.key.text # k => (e \in C <=> e \in E)
    PROVE  g = [f EXCEPT ![k] = d.val]
<1>1. g[k] = d.val
  BY DEF Represents, Holds, OnlyOne
<1>2. ASSUME NEW x \in Key, x # k PROVE g[x] = f[x]
  BY <1>2 DEF Represents, Holds, OnlyOne
<1>. QED BY <1>1, <1>2 DEF Represents

\* The cell of k, if there was one, goes.
LEMMA DelMap ==
    ASSUME NEW C, NEW E, NEW f, NEW g, Represents(C, f), Represents(E, g),
           NEW k \in Key, \A e \in E : e.key.text # k,
           \A e : e.key.text # k => (e \in C <=> e \in E)
    PROVE  g = [f EXCEPT ![k] = NoVal]
<1>1. g[k] = NoVal
  BY DEF Represents, Holds
<1>2. ASSUME NEW x \in Key, x # k PROVE g[x] = f[x]
  BY <1>2 DEF Represents, Holds, OnlyOne
<1>. QED BY <1>1, <1>2 DEF Represents

-----------------------------------------------------------------------------
(* The tables represent the map of the refinement.                         *)

DictInv == Represents(AllCells, TheDict)

LEMMA TablesHaveAllCells ==
    ASSUME TablesInv
    PROVE  UNION {{CellAt(t, at) : at \in Positions(t)} : t \in Tables} = AllCells
<1>1. \A t : {CellAt(t, at) : at \in Positions(t)} = CellsOf(t)
  BY DEF CellsOf
<1>2. UNION {CellsOf(t) : t \in Tables} = AllCells
  BY NoTableIsUnsound DEF Tables, AllCells
<1>. QED BY <1>1, <1>2

LEMMA CellsAreOne ==
    ASSUME TablesInv
    PROVE  OnlyOne(AllCells)
<1>1. /\ OneEach(ht) /\ OneEach(newht)
      /\ \A c \in CellsOf(ht), d \in CellsOf(newht) : Unlike(c, d)
  BY DEF TablesInv
<1>2. ASSUME NEW c \in AllCells, NEW d \in AllCells, c # d
      PROVE  c.key.text # d.key.text
  <2>1. CASE c \in CellsOf(ht) /\ d \in CellsOf(ht)
    BY <1>1, <1>2, <2>1, CellsUnlike DEF Unlike
  <2>2. CASE c \in CellsOf(newht) /\ d \in CellsOf(newht)
    BY <1>1, <1>2, <2>2, CellsUnlike DEF Unlike
  <2>3. CASE c \in CellsOf(ht) /\ d \in CellsOf(newht)
    BY <1>1, <2>3 DEF Unlike
  <2>4. CASE d \in CellsOf(ht) /\ c \in CellsOf(newht)
    BY <1>1, <2>4 DEF Unlike
  <2>. QED BY <2>1, <2>2, <2>3, <2>4 DEF AllCells
<1>. QED BY <1>2 DEF OnlyOne

LEMMA TablesAreDict == TablesInv => DictInv
<1>. SUFFICES ASSUME TablesInv PROVE DictInv
  OBVIOUS
<1>1. OnlyOne(AllCells)
  BY CellsAreOne
<1>2. ASSUME NEW k \in Key PROVE Holds(AllCells, k, TheDict[k])
  <2>. DEFINE Found == {c \in AllCells : c.key.text = k}
  <2>1. ValueOf(k) = IF Found = {} THEN NoVal ELSE (CHOOSE c \in Found : TRUE).val
    <3>. DEFINE C == UNION {{CellAt(t, at) : at \in Positions(t)} : t \in Tables}
    <3>1. C = AllCells
      BY TablesHaveAllCells
    <3>2. ValueOf(k) = IF {c \in C : c.key.text = k} = {} THEN NoVal
                       ELSE (CHOOSE c \in {c \in C : c.key.text = k} : TRUE).val
      BY DEF ValueOf
    <3>. HIDE DEF C
    <3>. QED BY <3>1, <3>2
  <2>2. TheDict[k] = ValueOf(k)
    BY DEF TheDict
  <2>. QED BY <2>1, <2>2 DEF Holds
<1>3. TheDict = [k \in Key |-> TheDict[k]]
  BY DEF TheDict
<1>. QED BY <1>1, <1>2, <1>3 DEF DictInv, Represents

\* Between two commands the cells are those of ht.
LEMMA CellsOfTrace ==
    ASSUME TablesInv, pc \notin {"rehash", "crashed"}
    PROVE  AllCells = CellsOf(ht)
BY NoTableIsUnsound DEF TablesInv, AllCells

-----------------------------------------------------------------------------
(* The commands.                                                           *)

LEMMA PutsInDict ==
    ASSUME TablesInv, TablesInv', DictInv, DictInv', NEW k \in Key, NEW v \in Val,
           Put(k, v), ~Crash
    PROVE  \E val \in BlocksOf(Val) :
                last' = <<"put", k, val>> /\ TheDict' = [TheDict EXCEPT ![k] = val]
<1>1. PICK key \in BlocksOf({k}), val \in BlocksOf({v}) :
            PutsCell(k, key, val) /\ last' = <<"put", k, val>>
  BY PutCells
<1>2. key.text = k /\ val \in BlocksOf(Val)
  BY DEF BlocksOf
<1>3. pc = "trace" /\ pc' = pc
  BY DEF Put
<1>4. AllCells = CellsOf(ht)
  BY <1>3, CellsOfTrace
<1>5. AllCells' = CellsOf(ht')
  BY <1>3, NoTableIsUnsound DEF TablesInv, AllCells
<1>6. \E d \in CellsOf(ht') :
        /\ d.key.text = k /\ d.val = val
        /\ \A e : e.key.text # k => (e \in CellsOf(ht) <=> e \in CellsOf(ht'))
  <2>1. CASE \E c \in CellsOf(ht), d \in Cell :
                    /\ c.key.text = k
                    /\ d.key = c.key /\ d.node = c.node /\ d.val = val
                    /\ CellsOf(ht') = (CellsOf(ht) \ {c}) \cup {d}
    BY <2>1
  <2>2. CASE \E d \in Cell :
                    /\ d.key = key /\ d.val = val
                    /\ CellsOf(ht') = CellsOf(ht) \cup {d}
    BY <1>2, <2>2
  <2>. QED BY <1>1, <2>1, <2>2 DEF PutsCell
<1>7. Represents(CellsOf(ht), TheDict) /\ Represents(CellsOf(ht'), TheDict')
  BY <1>4, <1>5 DEF DictInv
<1>8. TheDict' = [TheDict EXCEPT ![k] = val]
  BY <1>6, <1>7, PutMap
<1>. QED BY <1>1, <1>2, <1>8

LEMMA DelsInDict ==
    ASSUME TablesInv, TablesInv', DictInv, DictInv', NEW k \in Key, Del(k), ~Crash
    PROVE  last' = <<"del", k>> /\ TheDict' = [TheDict EXCEPT ![k] = NoVal]
<1>1. pc = "trace" /\ pc' = pc /\ last' = <<"del", k>>
  BY DEF Del
<1>2. AllCells = CellsOf(ht)
  BY <1>1, CellsOfTrace
<1>3. AllCells' = CellsOf(ht')
  BY <1>1, NoTableIsUnsound DEF TablesInv, AllCells
<1>4. OnlyOne(CellsOf(ht))
  BY <1>2, CellsAreOne
<1>5. /\ \A e \in CellsOf(ht') : e.key.text # k
      /\ \A e : e.key.text # k => (e \in CellsOf(ht) <=> e \in CellsOf(ht'))
  <2>1. CASE ht' = ht /\ \A c \in CellsOf(ht) : c.key.text # k
    BY <2>1
  <2>2. CASE \E c \in CellsOf(ht) : c.key.text = k /\ CellsOf(ht') = CellsOf(ht) \ {c}
    BY <1>4, <2>2 DEF OnlyOne
  <2>. QED BY <2>1, <2>2, DelCells
<1>6. Represents(CellsOf(ht), TheDict) /\ Represents(CellsOf(ht'), TheDict')
  BY <1>2, <1>3 DEF DictInv
<1>. QED BY <1>1, <1>5, <1>6, DelMap

LEMMA GetsFromDict ==
    ASSUME TablesInv, DictInv, NEW k \in Key, Get(k), ~Crash
    PROVE  last' = <<"get", k, TheDict[k]>>
<1>1. /\ pc = "trace" /\ ht.size # 0 /\ last' = <<"get", k, ht_get(ht, k)>>
      /\ Sound(ht)
  BY DEF Get, TablesInv
<1>2. AllCells = CellsOf(ht)
  BY <1>1, CellsOfTrace
<1>3. Holds(CellsOf(ht), k, TheDict[k]) /\ OnlyOne(CellsOf(ht))
  BY <1>2 DEF DictInv, Represents
<1>4. CASE Places(ht, k) = {}
  <2>1. \A c \in CellsOf(ht) : c.key.text # k
    BY <1>1, <1>4, NotFound
  <2>2. ht_get(ht, k) = NoVal
    BY <1>4 DEF ht_get
  <2>. QED BY <1>1, <1>3, <2>1, <2>2 DEF Holds
<1>5. CASE Places(ht, k) # {}
  <2>. DEFINE i == Index(ht, k)
              j == Place(ht, k)
  <2>1. i \in 0 .. ht.size - 1 /\ ht.chain[i] \in Seq(Cell)
    <3>1. ht.size \in Nat
      BY <1>1, HashtableAssumption DEF Sound, IsTable
    <3>2. i \in 0 .. ht.size - 1
      BY <1>1, <3>1, IndexIsBucket
    <3>. HIDE DEF i
    <3>. QED BY <1>1, <3>2 DEF Sound, IsTable
  <2>2. j \in DOMAIN ht.chain[i] /\ ht.chain[i][j].key.text = k
    BY <1>5, <2>1, PlaceIsFound
  <2>3. ht_get(ht, k) = ht.chain[i][j].val
    BY <1>1, <1>5 DEF ht_get
  <2>. HIDE DEF i, j
  <2>4. ht.chain[i][j] \in CellsOf(ht)
    BY <2>1, <2>2, PlaceHasCell
  <2>5. TheDict[k] = ht.chain[i][j].val
    BY <1>3, <2>2, <2>4 DEF Holds, OnlyOne
  <2>. QED BY <1>1, <2>3, <2>5
<1>. QED BY <1>4, <1>5

\* The cells that print_ht_stats counts are as many as the keys of the map.
LEMMA CellsAreKeys ==
    ASSUME NEW t, Sound(t), OneEach(t), NEW f, Represents(CellsOf(t), f)
    PROVE  Cardinality({k \in Key : f[k] # NoVal}) = Cardinality(Positions(t))
<1>. DEFINE K == {k \in Key : f[k] # NoVal}
            P == Positions(t)
            name == [at \in P |-> CellAt(t, at).key.text]
<1>1. \A c \in CellsOf(t) : c.key.text \in Key /\ c.val # NoVal
  <2>1. \A c \in CellsOf(t) : c.key \in BlocksOf(Key) /\ c.val \in BlocksOf(Val)
    BY CellType DEF Cell
  <2>. QED BY <2>1, HashtableAssumption DEF BlocksOf, Block
<1>2. \A at \in P : CellAt(t, at) \in CellsOf(t)
  BY DEF CellsOf
<1>3. \A k \in Key : k \in K <=> \E c \in CellsOf(t) : c.key.text = k
  BY <1>1 DEF Represents, Holds
<1>4. name \in [P -> K]
  BY <1>1, <1>2, <1>3
<1>5. \A k \in K : \E at \in P : name[at] = k
  BY <1>3 DEF CellsOf
<1>6. \A at, to \in P : name[at] = name[to] => at = to
  <2>. SUFFICES ASSUME NEW at \in P, NEW to \in P, at # to
                PROVE  CellAt(t, at).key.text # CellAt(t, to).key.text
    OBVIOUS
  <2>1. /\ at = <<at[1], at[2]>> /\ at[1] \in 0 .. t.size - 1 /\ at[2] \in DOMAIN t.chain[at[1]]
        /\ to = <<to[1], to[2]>> /\ to[1] \in 0 .. t.size - 1 /\ to[2] \in DOMAIN t.chain[to[1]]
    BY PositionsAre
  <2>2. at[1] # to[1] \/ at[2] # to[2]
    BY <2>1
  <2>. QED BY <2>1, <2>2 DEF OneEach, Unlike, CellAt
<1>. HIDE DEF K, P, name
<1>7. name \in Bijection(P, K)
  BY <1>4, <1>5, <1>6 DEF Bijection, Injection, Surjection, IsInjective
<1>8. ExistsBijection(P, K)
  BY <1>7 DEF ExistsBijection
<1>9. IsFiniteSet(P)
  BY CountIsNatural DEF P
<1>10. Cardinality(K) = Cardinality(P)
  BY <1>8, <1>9, FS_Bijection
<1>. QED BY <1>10 DEF K, P

-----------------------------------------------------------------------------
(* The steps of the map.                                                   *)

\* Where the cells keep their keys and values the map does not change.
LEMMA SameDict ==
    ASSUME DictInv, DictInv',
           \A c \in AllCells : \E d \in AllCells' : d.key.text = c.key.text /\ d.val = c.val,
           \A d \in AllCells' : \E c \in AllCells : d.key.text = c.key.text /\ d.val = c.val
    PROVE  TheDict' = TheDict
<1>1. Represents(AllCells, TheDict) /\ Represents(AllCells', TheDict')
  BY DEF DictInv
<1>. QED BY <1>1, SameMap

LEMMA RehashKeepsDict ==
    ASSUME TablesInv, TablesInv', DictInv, DictInv', RehashStart \/ RehashMove \/ RehashEnd
    PROVE  TheDict' = TheDict
<1>1. CASE RehashStart
  <2>1. /\ pc = "trace" /\ ht' = ht
        /\ \E size \in Sizes : newht' = make_hashtable(heap, size).table
    BY <1>1 DEF RehashStart
  <2>2. CellsOf(newht') = {}
    <3>1. Free(heap, "table") # {} /\ Free(heap, "array") # {}
      BY <1>1 DEF RehashStart, CanAllocate
    <3>2. PICK size \in Sizes : newht' = make_hashtable(heap, size).table
      BY <2>1
    <3>3. PICK r : r = make_hashtable(heap, size)
      OBVIOUS
    <3>4. heap \subseteq Block
      BY DEF TablesInv
    <3>5. CellsOf(r.table) = {}
      BY <3>1, <3>3, <3>4, MakeSpec
    <3>. QED BY <3>2, <3>3, <3>5
  <2>3. AllCells = CellsOf(ht)
    BY <2>1, CellsOfTrace
  <2>4. AllCells' = AllCells
    BY <2>1, <2>2, <2>3 DEF AllCells
  <2>. QED BY <2>4, SameDict
<1>2. CASE RehashMove
  <2>1. CASE Crash
    <3>1. AllCells' = AllCells
      BY <2>1 DEF Crash, AllCells
    <3>. QED BY <3>1, SameDict
  <2>2. CASE ~Crash
    <3>1. PICK c \in CellsOf(ht), d \in Cell :
            /\ d.key = c.key /\ d.val = c.val
            /\ CellsOf(ht') = CellsOf(ht) \ {c}
            /\ CellsOf(newht') = CellsOf(newht) \cup {d}
      BY <1>2, <2>2, RehashMoveStep
    <3>2. AllCells' = (CellsOf(ht) \ {c}) \cup (CellsOf(newht) \cup {d})
      BY <3>1 DEF AllCells
    <3>3. \A x \in AllCells : \E y \in AllCells' : y.key.text = x.key.text /\ y.val = x.val
      BY <3>1, <3>2 DEF AllCells
    <3>4. \A y \in AllCells' : \E x \in AllCells : y.key.text = x.key.text /\ y.val = x.val
      BY <3>1, <3>2 DEF AllCells
    <3>. QED BY <3>3, <3>4, SameDict
  <2>. QED BY <2>1, <2>2
<1>3. CASE RehashEnd
  <2>1. /\ pc = "rehash" /\ ToMove = {} /\ newht' = NoTable
        /\ ht' = [newht EXCEPT !.header = ht.header]
        /\ Sound(ht) /\ Sound(newht)
    BY <1>3 DEF RehashEnd, TablesInv
  <2>2. CellsOf(ht) = {}
    <3>1. \A i \in 0 .. ht.size - 1 : ht.chain[i] = <<>>
      BY <2>1 DEF ToMove, Sound, IsTable
    <3>. QED BY <3>1, CellHasPlace
  <2>3. CellsOf(ht') = CellsOf(newht)
    <3>1. ht' = [header |-> ht.header, array |-> newht.array, size |-> newht.size,
                 chain |-> newht.chain]
      BY <2>1 DEF Sound
    <3>. QED BY <3>1 DEF CellsOf, Positions, CellAt
  <2>4. AllCells' = AllCells
    BY <2>1, <2>2, <2>3, NoTableIsUnsound DEF AllCells
  <2>. QED BY <2>4, SameDict
<1>. QED BY <1>1, <1>2, <1>3

\* Every step is a command of the map, or changes nothing of it.
LEMMA DictStep ==
    ASSUME TablesInv, TablesInv', DictInv, DictInv', [Next]_vars
    PROVE  \/ \E k \in Key, v \in BlocksOf(Val) :
                last' = <<"put", k, v>> /\ TheDict' = [TheDict EXCEPT ![k] = v]
           \/ \E k \in Key :
                \/ last' = <<"del", k>> /\ TheDict' = [TheDict EXCEPT ![k] = NoVal]
                \/ last' = <<"get", k, TheDict[k]>> /\ TheDict' = TheDict
           \/ last' = <<"rehash">> /\ TheDict' = TheDict
           \/ /\ last' = <<"info", Cardinality({k \in Key : TheDict[k] # NoVal})>>
              /\ TheDict' = TheDict
           \/ last' = last /\ TheDict' = TheDict
<1>1. ASSUME ht' = ht, newht' = newht PROVE TheDict' = TheDict
  <2>1. AllCells' = AllCells
    BY <1>1 DEF AllCells
  <2>. QED BY <2>1, SameDict
<1>2. CASE Crash
  BY <1>1, <1>2 DEF Crash
<1>3. ASSUME NEW k \in Key, NEW v \in Val, Put(k, v), ~Crash
      PROVE  \E val \in BlocksOf(Val) :
                last' = <<"put", k, val>> /\ TheDict' = [TheDict EXCEPT ![k] = val]
  BY <1>3, PutsInDict
<1>4. ASSUME NEW k \in Key, Get(k), ~Crash
      PROVE  last' = <<"get", k, TheDict[k]>> /\ TheDict' = TheDict
  <2>1. ht' = ht /\ newht' = newht
    BY <1>4 DEF Get
  <2>. QED BY <1>1, <1>4, <2>1, GetsFromDict
<1>5. ASSUME NEW k \in Key, Del(k), ~Crash
      PROVE  last' = <<"del", k>> /\ TheDict' = [TheDict EXCEPT ![k] = NoVal]
  BY <1>5, DelsInDict
<1>6. ASSUME Info
      PROVE  /\ last' = <<"info", Cardinality({k \in Key : TheDict[k] # NoVal})>>
             /\ TheDict' = TheDict
  <2>1. /\ pc = "trace" /\ ht' = ht /\ newht' = newht
        /\ last' = <<"info", Cardinality(Positions(ht))>>
        /\ Sound(ht) /\ OneEach(ht)
    BY <1>6 DEF Info, TablesInv
  <2>2. Represents(CellsOf(ht), TheDict)
    BY <2>1, CellsOfTrace DEF DictInv
  <2>. QED BY <1>1, <2>1, <2>2, CellsAreKeys
<1>7. CASE Start
  <2>1. pc = "start" /\ newht' = newht /\ last' = last /\ pc' = "trace"
    BY <1>7 DEF Start
  <2>2. CellsOf(ht) = {}
    BY <2>1, NoTableIsUnsound DEF TablesInv
  <2>3. CellsOf(ht') = {}
    <3>1. PICK size \in Sizes : ht' = make_hashtable(heap, size).table
      BY <1>7 DEF Start
    <3>2. heap = {}
      BY <2>1 DEF TablesInv
    <3>3. Free(heap, "table") # {} /\ Free(heap, "array") # {}
      <4>1. 1 \in 1 .. Copies
        BY HashtableAssumption
      <4>2. /\ [text |-> "table", copy |-> 1] \in Free(heap, "table")
            /\ [text |-> "array", copy |-> 1] \in Free(heap, "array")
        BY <3>2, <4>1 DEF Free, BlocksOf, Block, Structure
      <4>. QED BY <4>2
    <3>4. PICK r : r = make_hashtable(heap, size)
      OBVIOUS
    <3>5. CellsOf(r.table) = {}
      BY <3>2, <3>3, <3>4, MakeSpec
    <3>. QED BY <3>1, <3>4, <3>5
  <2>4. AllCells' = AllCells
    BY <2>1, <2>2, <2>3 DEF AllCells
  <2>. QED BY <2>1, <2>4, SameDict
<1>8. CASE End
  BY <1>1, <1>8 DEF End
<1>9. CASE RehashStart
  BY <1>9, RehashKeepsDict DEF RehashStart
<1>10. CASE RehashMove
  BY <1>10, RehashKeepsDict DEF RehashMove, Crash
<1>11. CASE RehashEnd
  BY <1>11, RehashKeepsDict DEF RehashEnd
<1>12. CASE UNCHANGED vars
  BY <1>1, <1>12 DEF vars
<1>. QED BY <1>2, <1>3, <1>4, <1>5, <1>6, <1>7, <1>8, <1>9, <1>10, <1>11, <1>12 DEF Next

\* Every command has the effect and the result it has on a map, for every hash
\* function and every size the table is given; no step of ht_rehash shows.
THEOREM TableIsDictionary == Spec => ImplementsDictionary
<1>1. Init => D!Init
  <2>. SUFFICES ASSUME Init PROVE D!Init
    OBVIOUS
  <2>1. Tables = {} /\ last = <<"start">>
    BY DEF Init, Tables
  <2>2. \A k \in Key : ValueOf(k) = NoVal
    BY <2>1 DEF ValueOf
  <2>. QED BY <2>1, <2>2 DEF D!Init
<1>2. ASSUME TablesInv, TablesInv', DictInv, DictInv', [Next]_vars
      PROVE  [D!Next]_(D!vars)
  <2>1. ASSUME NEW k \in Key, NEW v \in BlocksOf(Val),
               last' = <<"put", k, v>>, TheDict' = [TheDict EXCEPT ![k] = v]
        PROVE  D!Put(k, v)
    BY <2>1 DEF D!Put, TheDict
  <2>2. ASSUME NEW k \in Key, last' = <<"del", k>>, TheDict' = [TheDict EXCEPT ![k] = NoVal]
        PROVE  D!Del(k)
    BY <2>2 DEF D!Del, TheDict
  <2>3. ASSUME NEW k \in Key, last' = <<"get", k, TheDict[k]>>, TheDict' = TheDict
        PROVE  D!Get(k)
    BY <2>3 DEF D!Get, TheDict
  <2>4. ASSUME last' = <<"rehash">>, TheDict' = TheDict PROVE D!Rehash
    BY <2>4 DEF D!Rehash, TheDict
  <2>5. ASSUME last' = <<"info", Cardinality({k \in Key : TheDict[k] # NoVal})>>,
               TheDict' = TheDict
        PROVE  D!Info
    <3>1. \A S : D!Cardinality(S) = Cardinality(S)
      BY DEF D!Cardinality, Cardinality
    <3>. QED BY <2>5, <3>1 DEF D!Info, D!Present, TheDict
  <2>6. ASSUME last' = last, TheDict' = TheDict PROVE UNCHANGED D!vars
    BY <2>6 DEF D!vars, TheDict
  <2>. QED BY <1>2, <2>1, <2>2, <2>3, <2>4, <2>5, <2>6, DictStep DEF D!Next
<1>. QED BY <1>1, <1>2, TablesAlways, TablesAreDict, PTL DEF Spec, ImplementsDictionary, D!Spec
=============================================================================
