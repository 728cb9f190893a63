----------------------------- MODULE CsimProofs ------------------------------
(***************************************************************************)
(* The cache simulator: its counters agree with the contents of its lines, *)
(* no set holds a tag twice, and the second access of an M hits.           *)
(* The shifts divide an address into its tag, its set and its offset; the  *)
(* laws of 2^x they need come from 2^n being the number of subsets of a    *)
(* set of n elements.                                                      *)
(***************************************************************************)
EXTENDS Csim, FiniteSetTheorems, WellFoundedInduction, TLAPS

-----------------------------------------------------------------------------
(* The shifts of simulate_cache.                                           *)

\* The subsets of a union of two sets that share nothing are pairs of subsets.
LEMMA PowersMultiply ==
    ASSUME NEW m \in Nat, NEW n \in Nat
    PROVE  /\ 2^m \in Nat \ {0}
           /\ 2^(m + n) = 2^m * 2^n
<1>. DEFINE S == 1 .. m
            T == m + 1 .. m + n
<1>1. IsFiniteSet(S) /\ Cardinality(S) = m
  BY FS_Interval, 1 \in Int, m \in Int
<1>2. IsFiniteSet(T) /\ Cardinality(T) = n
  BY FS_Interval, m + 1 \in Int, m + n \in Int
<1>3. S \cap T = {}
  OBVIOUS
<1>. HIDE DEF S, T
<1>4. IsFiniteSet(S \cup T) /\ Cardinality(S \cup T) = m + n
  <2>1. Cardinality(S \cap T) = 0
    BY <1>3, FS_EmptySet
  <2>2. IsFiniteSet(S \cup T)
        /\ Cardinality(S \cup T) = Cardinality(S) + Cardinality(T) - Cardinality(S \cap T)
    BY <1>1, <1>2, FS_Union
  <2>. QED BY <1>1, <1>2, <2>1, <2>2
<1>5. /\ 2^m = Cardinality(SUBSET S) /\ IsFiniteSet(SUBSET S)
      /\ 2^n = Cardinality(SUBSET T) /\ IsFiniteSet(SUBSET T)
      /\ 2^(m + n) = Cardinality(SUBSET (S \cup T)) /\ IsFiniteSet(SUBSET (S \cup T))
  BY <1>1, <1>2, <1>4, FS_SUBSET
<1>6. 2^m \in Nat \ {0}
  <2>1. SUBSET S # {}
    OBVIOUS
  <2>. QED BY <1>5, <2>1, FS_CardinalityType, FS_EmptySet
<1>7. ExistsBijection(SUBSET (S \cup T), (SUBSET S) \X (SUBSET T))
  <2>. DEFINE f == [X \in SUBSET (S \cup T) |-> <<X \cap S, X \cap T>>]
  <2>1. f \in [SUBSET (S \cup T) -> (SUBSET S) \X (SUBSET T)]
    OBVIOUS
  <2>2. ASSUME NEW X \in SUBSET (S \cup T), NEW Y \in SUBSET (S \cup T), f[X] = f[Y]
        PROVE  X = Y
    <3>1. X \cap S = Y \cap S /\ X \cap T = Y \cap T
      BY <2>2
    <3>. QED BY <3>1
  <2>3. ASSUME NEW p \in (SUBSET S) \X (SUBSET T)
        PROVE  \E X \in SUBSET (S \cup T) : f[X] = p
    <3>. DEFINE X == p[1] \cup p[2]
    <3>1. p = <<p[1], p[2]>> /\ p[1] \in SUBSET S /\ p[2] \in SUBSET T
      OBVIOUS
    <3>2. X \cap S = p[1] /\ X \cap T = p[2]
      BY <1>3, <3>1
    <3>3. X \in SUBSET (S \cup T)
      BY <3>1
    <3>. QED BY <3>1, <3>2, <3>3
  <2>. HIDE DEF f
  <2>4. f \in Bijection(SUBSET (S \cup T), (SUBSET S) \X (SUBSET T))
    BY <2>1, <2>2, <2>3 DEF Bijection, Injection, Surjection, IsInjective
  <2>. QED BY <2>4 DEF ExistsBijection
<1>8. Cardinality(SUBSET (S \cup T)) = Cardinality((SUBSET S) \X (SUBSET T))
  BY <1>5, <1>7, FS_Bijection
<1>9. Cardinality((SUBSET S) \X (SUBSET T)) = 2^m * 2^n
  BY <1>5, FS_Product
<1>. QED BY <1>5, <1>6, <1>8, <1>9

LEMMA ProductsGrow ==
    ASSUME NEW x \in Nat, NEW y \in Nat, NEW d \in Nat, x < y
    PROVE  x * d + d =< y * d
<1>1. y - x - 1 \in Nat
  OBVIOUS
<1>2. (y - x - 1) * d \in Nat
  BY <1>1
<1>3. (y - x - 1) * d = y * d - x * d - d
  OBVIOUS
<1>4. x * d \in Int /\ y * d \in Int
  OBVIOUS
<1>. QED BY <1>2, <1>3, <1>4

LEMMA Division ==
    ASSUME NEW n \in Nat, NEW d \in Nat \ {0}
    PROVE  /\ n \div d \in Nat /\ n % d \in 0 .. d - 1
           /\ n = (n \div d) * d + (n % d)
OBVIOUS

\* Division has one result.
LEMMA DivisionIs ==
    ASSUME NEW q \in Nat, NEW d \in Nat \ {0}, NEW r \in 0 .. d - 1
    PROVE  (q * d + r) \div d = q /\ (q * d + r) % d = r
<1>. DEFINE n == q * d + r
            p == n \div d
            o == n % d
<1>1. n \in Nat /\ q * d \in Nat
  OBVIOUS
<1>2. p \in Nat /\ o \in 0 .. d - 1 /\ n = p * d + o
  BY <1>1, Division
<1>3. p * d \in Nat
  BY <1>2
<1>4. n = q * d + r
  OBVIOUS
<1>. HIDE DEF n, p, o
<1>5. ~ (p < q)
  <2>1. p < q => p * d + d =< q * d
    BY <1>2, ProductsGrow
  <2>. QED BY <1>1, <1>2, <1>3, <1>4, <2>1
<1>6. ~ (q < p)
  <2>1. q < p => q * d + d =< p * d
    BY <1>2, ProductsGrow
  <2>. QED BY <1>1, <1>2, <1>3, <1>4, <2>1
<1>7. p = q
  BY <1>2, <1>5, <1>6
<1>8. o = r
  BY <1>1, <1>2, <1>4, <1>7
<1>. QED BY <1>7, <1>8 DEF n, p, o

\* Multiplying by A, dropping what exceeds a word and dividing again leaves the
\* set, for any number A of tags, S of sets and B of bytes in a block.
LEMMA Cut ==
    ASSUME NEW A \in Nat \ {0}, NEW S \in Nat \ {0}, NEW B \in Nat \ {0},
           NEW a \in 0 .. A * (S * B) - 1
    PROVE  /\ a \div (S * B) \in 0 .. A - 1
           /\ ((a * A) % (A * (S * B))) \div (A * B) \in 0 .. S - 1
           /\ ((a * A) % (A * (S * B))) \div (A * B) = (a \div B) % S
           /\ a \div B = (a \div (S * B)) * S + ((a \div B) % S)
<1>. DEFINE D == S * B
            q == a \div D
            r == a % D
            i == r \div B
            o == r % B
<1>1. D \in Nat \ {0} /\ A * B \in Nat \ {0} /\ A * D \in Nat \ {0} /\ a \in Nat
  <2>1. \A x, y \in Nat \ {0} : x * y \in Nat \ {0}
    OBVIOUS
  <2>. QED BY <2>1
<1>2. q \in Nat /\ r \in 0 .. D - 1 /\ a = q * D + r
  BY <1>1, Division
<1>3. i \in Nat /\ o \in 0 .. B - 1 /\ r = i * B + o
  <2>1. r \in Nat
    BY <1>1, <1>2
  <2>. HIDE DEF r
  <2>. QED BY <2>1, Division
<1>. HIDE DEF q, r, i, o
<1>4. q < A
  <2>1. A =< q => A * D =< q * D
    <3>1. A < q => A * D + D =< q * D
      BY <1>1, <1>2, ProductsGrow
    <3>. QED BY <1>1, <1>2, <3>1
  <2>2. q * D \in Nat /\ A * D \in Nat
    BY <1>1, <1>2
  <2>. QED BY <1>1, <1>2, <2>1, <2>2 DEF D
<1>5. i < S
  <2>1. S < i => S * B + B =< i * B
    BY <1>3, ProductsGrow
  <2>2. i * B \in Nat /\ S * B \in Nat
    BY <1>3
  <2>. QED BY <1>2, <1>3, <2>1, <2>2 DEF D
<1>6. a \div B = q * S + i
  <2>1. q * S + i \in Nat
    BY <1>2, <1>3
  <2>2. a = (q * S + i) * B + o
    BY <1>2, <1>3 DEF D
  <2>. QED BY <1>3, <2>1, <2>2, DivisionIs
<1>7. (a \div B) % S = i
  <2>1. i \in 0 .. S - 1
    BY <1>3, <1>5
  <2>2. (q * S + i) % S = i
    BY <1>2, <2>1, DivisionIs
  <2>. QED BY <1>6, <2>2
<1>8. (a * A) % (A * D) = r * A
  <2>1. r * A \in 0 .. A * D - 1
    <3>1. r * A + A =< D * A
      BY <1>2, ProductsGrow
    <3>. QED BY <1>1, <1>2, <3>1
  <2>2. a * A = q * (A * D) + r * A
    <3>1. D \in Nat /\ q \in Nat /\ r \in Nat
      BY <1>1, <1>2
    <3>. HIDE DEF D
    <3>. QED BY <1>2, <3>1
  <2>3. (q * (A * D) + r * A) % (A * D) = r * A
    BY <1>1, <1>2, <2>1, DivisionIs
  <2>. QED BY <2>2, <2>3
<1>9. (r * A) \div (A * B) = i
  <2>1. o * A \in 0 .. A * B - 1
    <3>1. o * A + A =< B * A
      BY <1>3, ProductsGrow
    <3>. QED BY <1>1, <1>3, <3>1
  <2>2. r * A = i * (A * B) + o * A
    BY <1>3
  <2>. QED BY <1>1, <1>3, <2>1, <2>2, DivisionIs
<1>10. a \div D \in 0 .. A - 1
  BY <1>2, <1>4 DEF q
<1>11. i \in 0 .. S - 1
  BY <1>3, <1>5
<1>12. a \div D = q
  BY DEF q
<1>. QED BY <1>6, <1>7, <1>8, <1>9, <1>10, <1>11, <1>12 DEF D

\* Every address is cut into a tag, a set and an offset, and zero is one.
ShiftsCut ==
    /\ num_sets \in Nat
    /\ 0 \in Address
    /\ 0 \in 0 .. 2^(Width - (s + b)) - 1
    /\ \A a \in Address : IsCutRight(a)

LEMMA ShiftsDivide == ShiftsCut
<1>. DEFINE A == 2^tag_size
            S == 2^s
            B == 2^b
<1>1. tag_size \in Nat /\ s \in Nat /\ b \in Nat /\ Width = tag_size + (s + b)
  BY CsimAssumption DEF tag_size
<1>2. A \in Nat \ {0} /\ S \in Nat \ {0} /\ B \in Nat \ {0}
  BY <1>1, PowersMultiply
<1>3. 2^(s + b) = S * B /\ 2^(tag_size + b) = A * B
  BY <1>1, PowersMultiply
<1>4. 2^Width = A * (S * B)
  <2>1. s + b \in Nat
    BY <1>1
  <2>2. 2^(tag_size + (s + b)) = A * 2^(s + b)
    BY <1>1, <2>1, PowersMultiply
  <2>. QED BY <1>1, <1>3, <2>2
<1>5. num_sets = S /\ 2^(Width - (s + b)) = A
  BY DEF num_sets, tag_size
<1>6. 0 \in Address
  <2>1. \A x, y \in Nat \ {0} : x * y \in Nat \ {0}
    OBVIOUS
  <2>2. A * (S * B) \in Nat \ {0}
    BY <1>2, <2>1
  <2>. QED BY <1>4, <2>2 DEF Address
<1>7. \A a : Cache!BlockOf(a) = a \div B /\ Cache!SetOf(a) = (a \div B) % S
  BY DEF Cache!BlockOf, Cache!SetOf
<1>8. \A a : setIndex(a) = ((a * A) % (A * (S * B))) \div (A * B)
             /\ input_tag(a) = a \div (S * B)
  BY <1>3, <1>4 DEF setIndex, input_tag
<1>9. Address = 0 .. A * (S * B) - 1
  BY <1>4 DEF Address
<1>. HIDE DEF A, S, B
<1>10. ASSUME NEW a \in Address PROVE IsCutRight(a)
  <2>1. /\ a \div (S * B) \in 0 .. A - 1
        /\ setIndex(a) \in 0 .. S - 1
        /\ setIndex(a) = (a \div B) % S
        /\ a \div B = (a \div (S * B)) * S + ((a \div B) % S)
    <3>1. a \in 0 .. A * (S * B) - 1
      BY <1>9
    <3>2. setIndex(a) = ((a * A) % (A * (S * B))) \div (A * B)
      BY <1>8
    <3>. DEFINE j == ((a * A) % (A * (S * B))) \div (A * B)
    <3>3. /\ a \div (S * B) \in 0 .. A - 1
          /\ j \in 0 .. S - 1
          /\ j = (a \div B) % S
          /\ a \div B = (a \div (S * B)) * S + ((a \div B) % S)
      BY <1>2, <3>1, Cut
    <3>4. setIndex(a) = j
      BY <3>2
    <3>. HIDE DEF j
    <3>. QED BY <3>3, <3>4
  <2>2. 2^tag_size = A
    BY DEF A
  <2>. QED BY <1>5, <1>7, <1>8, <2>1, <2>2 DEF IsCutRight
<1>. QED BY <1>2, <1>5, <1>6, <1>10 DEF ShiftsCut

LEMMA CutsAre ==
    ASSUME NEW a \in Address
    PROVE  /\ setIndex(a) \in 0 .. num_sets - 1
           /\ input_tag(a) \in 0 .. 2^(Width - (s + b)) - 1
           /\ Cache!SetOf(a) = setIndex(a)
           /\ Cache!BlockOf(a) = input_tag(a) * num_sets + setIndex(a)
BY ShiftsDivide DEF ShiftsCut, IsCutRight, tag_size

-----------------------------------------------------------------------------
(* The searches through a set.                                             *)

LEMMA LeastExists ==
    ASSUME NEW S \in SUBSET Nat, S # {}
    PROVE  \E x \in S : \A y \in S : x =< y
<1>. DEFINE Less == OpToRel(<, Nat)
<1>1. IsWellFoundedOn(Less, Nat)
  BY NatLessThanWellFounded
<1>2. \A x, y \in Nat : y < x => <<y, x>> \in Less
  <2>. SUFFICES ASSUME NEW x \in Nat, NEW y \in Nat, y < x
                PROVE  <<y, x>> \in {ss \in Nat \X Nat : ss[1] < ss[2]}
    BY DEF OpToRel
  <2>1. <<y, x>> \in Nat \X Nat /\ <<y, x>>[1] < <<y, x>>[2]
    OBVIOUS
  <2>. QED BY <2>1
<1>. HIDE DEF Less
<1>3. PICK x \in S : \A y \in S : ~ (<<y, x>> \in Less)
  BY <1>1, WFMin
<1>4. ASSUME NEW y \in S PROVE x =< y
  <2>1. x \in Nat /\ y \in Nat
    OBVIOUS
  <2>2. ~ (y < x)
    BY <1>2, <1>3, <2>1
  <2>. QED BY <2>1, <2>2
<1>. QED BY <1>4

LEMMA LowestLineIsOne ==
    ASSUME NEW S \in SUBSET (1 .. E), S # {}
    PROVE  LowestLine(S) \in S
<1>1. S \in SUBSET Nat
  BY CsimAssumption
<1>. QED BY <1>1, LeastExists DEF LowestLine

\* A line whose count is the least exists, and one whose count is the greatest.
LEMMA CountsHaveBounds ==
    ASSUME NEW f \in [1 .. E -> 0 .. MaxAccess]
    PROVE  /\ \E l \in 1 .. E : \A k \in 1 .. E : f[l] =< f[k]
           /\ \E l \in 1 .. E : \A k \in 1 .. E : f[k] =< f[l]
<1>. DEFINE Low == {f[l] : l \in 1 .. E}
            High == {MaxAccess - f[l] : l \in 1 .. E}
<1>a. E \in Nat /\ 1 \in 1 .. E /\ MaxAccess \in Nat
  BY CsimAssumption
<1>1. Low \in SUBSET Nat /\ Low # {}
  BY <1>a
<1>2. High \in SUBSET Nat /\ High # {}
  BY <1>a
<1>3. \E c \in Low : \A d \in Low : c =< d
  BY <1>1, LeastExists
<1>4. \E c \in High : \A d \in High : c =< d
  BY <1>2, LeastExists
<1>5. \E l \in 1 .. E : \A k \in 1 .. E : f[l] =< f[k]
  BY <1>3
<1>6. PICK l \in 1 .. E : \A k \in 1 .. E : MaxAccess - f[l] =< MaxAccess - f[k]
  BY <1>4
<1>7. \A k \in 1 .. E : f[k] \in Nat /\ f[k] =< f[l]
  BY <1>a, <1>6
<1>. QED BY <1>5, <1>7

-----------------------------------------------------------------------------
(* The cache and its counters.                                             *)

Accesses == par.hits + par.misses

\* A line of S holds the block of address a.
Holds(S, a) ==
    \E l \in 1 .. E : S[setIndex(a)][l].valid /\ S[setIndex(a)][l].tag = input_tag(a)

\* A line counts at most as many accesses as there were: max_used is a count,
\* and each access adds one to it at most.
LinesCounted ==
    \A i \in 0 .. num_sets - 1 : \A l \in 1 .. E : sets[i][l].count =< Accesses

TagsDiffer ==
    \A i \in 0 .. num_sets - 1 : \A l, k \in 1 .. E :
        sets[i][l].valid /\ sets[i][k].valid /\ sets[i][l].tag = sets[i][k].tag => l = k

\* What simulate_cache keeps.
StoreInv ==
    /\ sets \in [0 .. num_sets - 1 -> [1 .. E -> Line]]
    /\ par \in [hits : Nat, misses : Nat, evictions : Nat]
    /\ Accesses =< MaxAccess
    /\ LinesCounted
    /\ TagsDiffer
    /\ MissesFillOrEvict

\* What the program keeps: a block is still there when its M comes back to it.
CacheInv ==
    /\ StoreInv
    /\ address \in Address
    /\ twice \in BOOLEAN
    /\ twice => Holds(sets, address)

LEMMA LineFields ==
    ASSUME NEW line \in Line
    PROVE  line.valid \in BOOLEAN /\ line.count \in 0 .. MaxAccess
BY DEF Line

LEMMA LinesTyped ==
    ASSUME StoreInv, NEW j \in 0 .. num_sets - 1, NEW l \in 1 .. E
    PROVE  /\ sets[j][l] \in Line
           /\ sets[j][l].count \in 0 .. MaxAccess
           /\ sets[j][l].count =< Accesses
<1>1. sets[j][l] \in Line
  BY DEF StoreInv
<1>2. sets[j][l].count =< Accesses
  BY DEF StoreInv, LinesCounted
<1>. QED BY <1>1, <1>2, LineFields

LEMMA ValidIsFinite ==
    IsFiniteSet(Valid) /\ Cardinality(Valid) \in Nat
<1>1. IsFiniteSet(0 .. num_sets - 1) /\ IsFiniteSet(1 .. E)
  <2>1. 0 \in Int /\ 1 \in Int /\ E \in Int /\ num_sets - 1 \in Int
    BY ShiftsDivide, CsimAssumption DEF ShiftsCut
  <2>2. IsFiniteSet(0 .. num_sets - 1)
    BY <2>1, FS_Interval
  <2>3. IsFiniteSet(1 .. E)
    BY <2>1, FS_Interval
  <2>. QED BY <2>2, <2>3
<1>2. IsFiniteSet((0 .. num_sets - 1) \X (1 .. E))
  BY <1>1, FS_Product
<1>3. Valid \subseteq (0 .. num_sets - 1) \X (1 .. E)
  BY DEF Valid
<1>4. IsFiniteSet(Valid)
  BY <1>2, <1>3, FS_Subset
<1>. QED BY <1>4, FS_CardinalityType

LEMMA StoreIsTyped ==
    ASSUME StoreInv
    PROVE  par \in [hits : 0 .. MaxAccess, misses : 0 .. MaxAccess, evictions : 0 .. MaxAccess]
<1>1. Cardinality(Valid) \in Nat
  BY ValidIsFinite
<1>2. MaxAccess \in Nat
  BY CsimAssumption
<1>. QED BY <1>1, <1>2 DEF StoreInv, Accesses, MissesFillOrEvict

LEMMA OneHit ==
    ASSUME StoreInv, NEW a \in Address, Hits(a) # {}
    PROVE  Cardinality(Hits(a)) = 1
<1>1. PICK l \in 1 .. E : l \in Hits(a)
  BY DEF Hits
<1>2. \A k \in Hits(a) : k = l
  BY <1>1, CutsAre DEF Hits, StoreInv, TagsDiffer
<1>3. Hits(a) = {l}
  BY <1>1, <1>2
<1>. QED BY <1>3, FS_Singleton

\* A hit only counts.
LEMMA HitStep ==
    ASSUME StoreInv, NEW a \in Address, Accesses < MaxAccess, Hit(a)
    PROVE  /\ StoreInv' /\ Holds(sets', a) /\ par' = [par EXCEPT !.hits = @ + 1]
           /\ \A j \in 0 .. num_sets - 1 : \A l \in 1 .. E :
                /\ sets'[j][l].valid = sets[j][l].valid
                /\ sets'[j][l].tag = sets[j][l].tag
<1>. DEFINE i == setIndex(a)
<1>1. Cardinality(Hits(a)) = 1
  BY OneHit DEF Hit
<1>2. par' = [par EXCEPT !.hits = @ + 1]
  <2>1. par' = [par EXCEPT !.hits = par.hits + Cardinality(Hits(a))]
    BY DEF Hit
  <2>. QED BY <1>1, <2>1
<1>3. /\ par' \in [hits : Nat, misses : Nat, evictions : Nat]
      /\ par'.hits = par.hits + 1 /\ par'.misses = par.misses
      /\ par'.evictions = par.evictions
  BY <1>2 DEF StoreInv
<1>4. Accesses' = Accesses + 1 /\ Accesses \in Nat
  BY <1>3 DEF Accesses, StoreInv
<1>5. i \in 0 .. num_sets - 1
  BY CutsAre
<1>6. sets' = [sets EXCEPT ![i] = [l \in 1 .. E |->
            IF l \in Hits(a) THEN [sets[i][l] EXCEPT !.count = @ + 1] ELSE sets[i][l]]]
  BY DEF Hit
<1>. HIDE DEF i
<1>7. ASSUME NEW j \in 0 .. num_sets - 1, NEW l \in 1 .. E
      PROVE  /\ sets'[j][l] \in Line
             /\ sets'[j][l].valid = sets[j][l].valid
             /\ sets'[j][l].tag = sets[j][l].tag
             /\ sets'[j][l].count =< Accesses + 1
  <2>1. /\ sets[j][l] \in Line /\ sets[j][l].count \in 0 .. MaxAccess
        /\ sets[j][l].count =< Accesses
    BY LinesTyped
  <2>2. \/ sets'[j][l] = sets[j][l]
        \/ sets'[j][l] = [sets[j][l] EXCEPT !.count = @ + 1]
    BY <1>5, <1>6 DEF StoreInv
  <2>3. CASE sets'[j][l] = sets[j][l]
    BY <1>4, <2>1, <2>3
  <2>4. CASE sets'[j][l] = [sets[j][l] EXCEPT !.count = @ + 1]
    <3>1. sets[j][l].count + 1 \in 0 .. MaxAccess /\ sets[j][l].count + 1 =< Accesses + 1
      BY <1>4, <2>1, CsimAssumption
    <3>. QED BY <2>1, <2>4, <3>1 DEF Line
  <2>. QED BY <2>2, <2>3, <2>4
<1>8. sets' \in [0 .. num_sets - 1 -> [1 .. E -> Line]]
  <2>1. ASSUME NEW j \in 0 .. num_sets - 1 PROVE sets'[j] \in [1 .. E -> Line]
    <3>1. sets'[j] = [l \in 1 .. E |-> sets'[j][l]]
      BY <1>5, <1>6 DEF StoreInv
    <3>. QED BY <1>7, <3>1
  <2>2. sets' = [j \in 0 .. num_sets - 1 |-> sets'[j]]
    BY <1>6 DEF StoreInv
  <2>. QED BY <2>1, <2>2
<1>9. TagsDiffer' /\ LinesCounted'
  BY <1>4, <1>7 DEF TagsDiffer, LinesCounted, StoreInv
<1>10. Valid' = Valid
  BY <1>7 DEF Valid
<1>11. MissesFillOrEvict'
  BY <1>3, <1>10 DEF StoreInv, MissesFillOrEvict
<1>12. Holds(sets', a)
  <2>1. PICK l \in 1 .. E : sets[i][l].valid /\ sets[i][l].tag = input_tag(a)
    BY DEF Hit, Hits, i
  <2>2. sets'[i][l].valid /\ sets'[i][l].tag = input_tag(a)
    BY <1>5, <1>7, <2>1
  <2>. QED BY <2>2 DEF Holds, i
<1>13. Accesses' =< MaxAccess
  BY <1>4, CsimAssumption
<1>14. StoreInv'
  BY <1>3, <1>8, <1>9, <1>11, <1>13 DEF StoreInv
<1>. QED BY <1>2, <1>7, <1>12, <1>14

\* What a load leaves in line l and in the other lines.
Loaded(a, l) ==
    /\ \A j \in 0 .. num_sets - 1 : \A k \in 1 .. E :
            j # setIndex(a) \/ k # l => sets'[j][k] = sets[j][k]
    /\ sets'[setIndex(a)][l].valid
    /\ sets'[setIndex(a)][l].tag = input_tag(a)

\* A block that comes into line l.
LEMMA LoadStep ==
    ASSUME StoreInv, NEW a \in Address, Accesses < MaxAccess, Hits(a) = {},
           NEW l \in 1 .. E, Load(a, l), Accesses' = Accesses + 1
    PROVE  /\ sets' \in [0 .. num_sets - 1 -> [1 .. E -> Line]]
           /\ LinesCounted' /\ TagsDiffer' /\ Holds(sets', a)
           /\ Valid' = Valid \cup {<<setIndex(a), l>>}
           /\ Loaded(a, l)
<1>. DEFINE i == setIndex(a)
            new == [valid |-> TRUE, tag |-> input_tag(a), count |-> max_used(sets[i]) + 1]
<1>1. i \in 0 .. num_sets - 1 /\ input_tag(a) \in 0 .. 2^(Width - (s + b)) - 1
  BY CutsAre
<1>2. sets' = [sets EXCEPT ![i][l] = new]
  BY DEF Load
<1>a. \A k \in 1 .. E : sets[i][k].valid => sets[i][k].tag # input_tag(a)
  BY DEF Hits
<1>3. max_used(sets[i]) \in 0 .. MaxAccess /\ max_used(sets[i]) =< Accesses
  <2>. DEFINE lines == sets[i]
              f == [k \in 1 .. E |-> lines[k].count]
              top == CHOOSE m \in 1 .. E : \A k \in 1 .. E : lines[k].count =< lines[m].count
  <2>1. \A k \in 1 .. E : lines[k].count \in 0 .. MaxAccess
    BY <1>1 DEF StoreInv, Line
  <2>2. f \in [1 .. E -> 0 .. MaxAccess]
    BY <2>1
  <2>3. \E m \in 1 .. E : \A k \in 1 .. E : f[k] =< f[m]
    BY <2>2, CountsHaveBounds
  <2>4. top \in 1 .. E
    BY <2>3
  <2>5. max_used(lines) = lines[top].count
    BY DEF max_used
  <2>. HIDE DEF top
  <2>. QED BY <1>1, <2>1, <2>4, <2>5 DEF StoreInv, LinesCounted
<1>. HIDE DEF i
<1>4. Accesses \in Nat
  BY DEF StoreInv, Accesses
<1>5. new \in Line /\ new.count =< Accesses + 1 /\ new.valid /\ new.tag = input_tag(a)
  <2>1. max_used(sets[i]) + 1 \in 0 .. MaxAccess /\ max_used(sets[i]) + 1 =< Accesses + 1
    BY <1>3, <1>4, CsimAssumption
  <2>. QED BY <1>1, <2>1 DEF Line
<1>. HIDE DEF new
<1>6. /\ \A j \in 0 .. num_sets - 1 : \A k \in 1 .. E :
            j # i \/ k # l => sets'[j][k] = sets[j][k]
      /\ sets'[i][l] = new
  BY <1>1, <1>2 DEF StoreInv
<1>7. sets' \in [0 .. num_sets - 1 -> [1 .. E -> Line]]
  BY <1>1, <1>2, <1>5 DEF StoreInv
<1>8. LinesCounted'
  <2>1. ASSUME NEW j \in 0 .. num_sets - 1, NEW k \in 1 .. E
        PROVE  sets'[j][k].count =< Accesses + 1
    <3>1. sets[j][k].count \in 0 .. MaxAccess /\ sets[j][k].count =< Accesses
      BY LinesTyped
    <3>. QED BY <1>4, <1>5, <1>6, <3>1
  <2>. QED BY <2>1 DEF LinesCounted
<1>9. TagsDiffer'
  BY <1>a, <1>5, <1>6 DEF StoreInv, TagsDiffer, i
<1>10. Holds(sets', a)
  BY <1>5, <1>6 DEF Holds, i
<1>11. Valid' = Valid \cup {<<setIndex(a), l>>}
  <2>1. \A j \in 0 .. num_sets - 1 : \A k \in 1 .. E :
            sets'[j][k].valid <=> sets[j][k].valid \/ <<j, k>> = <<i, l>>
    BY <1>5, <1>6
  <2>2. \A x : x \in Valid' <=> x \in Valid \/ x = <<i, l>>
    BY <1>1, <2>1 DEF Valid
  <2>. QED BY <2>2 DEF i
<1>12. Loaded(a, l)
  BY <1>5, <1>6 DEF Loaded, i
<1>. QED BY <1>7, <1>8, <1>9, <1>10, <1>11, <1>12

LEMMA MissStep ==
    ASSUME StoreInv, NEW a \in Address, Accesses < MaxAccess, Miss(a)
    PROVE  /\ StoreInv' /\ Holds(sets', a)
           /\ \E l \in 1 .. E :
                /\ Loaded(a, l)
                /\ \/ /\ Full(a)
                      /\ par' = [par EXCEPT !.misses = @ + 1, !.evictions = @ + 1]
                   \/ /\ ~sets[setIndex(a)][l].valid
                      /\ par' = [par EXCEPT !.misses = @ + 1]
<1>. DEFINE i == setIndex(a)
<1>1. i \in 0 .. num_sets - 1
  BY CutsAre
<1>2. IsFiniteSet(Valid) /\ Cardinality(Valid) \in Nat
  BY ValidIsFinite
<1>3. Accesses' = Accesses + 1 /\ Accesses' =< MaxAccess
      /\ par' \in [hits : Nat, misses : Nat, evictions : Nat]
  <2>1. par \in [hits : Nat, misses : Nat, evictions : Nat]
    BY DEF StoreInv
  <2>2. \/ par' = [par EXCEPT !.misses = @ + 1, !.evictions = @ + 1]
        \/ par' = [par EXCEPT !.misses = @ + 1]
    BY DEF Miss
  <2>3. /\ par'.hits = par.hits /\ par'.misses = par.misses + 1
        /\ par' \in [hits : Nat, misses : Nat, evictions : Nat]
    <3>1. par = [hits |-> par.hits, misses |-> par.misses, evictions |-> par.evictions]
          /\ par.hits \in Nat /\ par.misses \in Nat /\ par.evictions \in Nat
      BY <2>1
    <3>2. CASE par' = [par EXCEPT !.misses = @ + 1, !.evictions = @ + 1]
      <4>1. par' = [hits |-> par.hits, misses |-> par.misses + 1,
                    evictions |-> par.evictions + 1]
        BY <3>1, <3>2
      <4>. QED BY <3>1, <4>1
    <3>3. CASE par' = [par EXCEPT !.misses = @ + 1]
      BY <2>1, <3>3
    <3>. QED BY <2>2, <3>2, <3>3
  <2>4. par.hits \in Nat /\ par.misses \in Nat /\ MaxAccess \in Nat
    BY <2>1, CsimAssumption
  <2>. QED BY <2>3, <2>4 DEF Accesses
<1>4. CASE Full(a) /\ Load(a, get_LRU(sets[i])) /\
           par' = [par EXCEPT !.misses = @ + 1, !.evictions = @ + 1]
  <2>. DEFINE l == get_LRU(sets[i])
  <2>1. l \in 1 .. E
    <3>. DEFINE lines == sets[i]
                f == [k \in 1 .. E |-> lines[k].count]
                Least == {m \in 1 .. E : \A k \in 1 .. E : lines[m].count =< lines[k].count}
    <3>1. \A k \in 1 .. E : lines[k].count \in 0 .. MaxAccess
      BY <1>1 DEF StoreInv, Line
    <3>2. f \in [1 .. E -> 0 .. MaxAccess]
      BY <3>1
    <3>3. \E m \in 1 .. E : \A k \in 1 .. E : f[m] =< f[k]
      BY <3>2, CountsHaveBounds
    <3>4. Least # {} /\ Least \in SUBSET (1 .. E)
      BY <3>3
    <3>5. LowestLine(Least) \in Least
      BY <3>4, LowestLineIsOne
    <3>6. l = LowestLine(Least)
      BY DEF get_LRU
    <3>. QED BY <3>5, <3>6
  <2>. HIDE DEF l
  <2>2. /\ sets' \in [0 .. num_sets - 1 -> [1 .. E -> Line]]
        /\ LinesCounted' /\ TagsDiffer' /\ Holds(sets', a)
        /\ Valid' = Valid \cup {<<i, l>>} /\ Loaded(a, l)
    BY <1>3, <1>4, <2>1, LoadStep DEF Miss, l
  <2>3. <<i, l>> \in Valid
    BY <1>1, <1>4, <2>1 DEF Full, Valid
  <2>4. Valid' = Valid
    BY <2>2, <2>3
  <2>5. MissesFillOrEvict'
    BY <1>2, <1>4, <2>4 DEF StoreInv, MissesFillOrEvict
  <2>6. StoreInv'
    BY <1>3, <2>2, <2>5 DEF StoreInv
  <2>. QED BY <1>4, <2>1, <2>2, <2>6
<1>5. CASE ~Full(a) /\ Load(a, get_empty_line(sets[i])) /\ par' = [par EXCEPT !.misses = @ + 1]
  <2>. DEFINE l == get_empty_line(sets[i])
              Empty == {k \in 1 .. E : ~sets[i][k].valid}
  <2>1. l \in Empty
    <3>1. Empty # {} /\ Empty \in SUBSET (1 .. E)
      BY <1>5 DEF Full
    <3>2. l = LowestLine(Empty)
      BY DEF get_empty_line
    <3>. QED BY <3>1, <3>2, LowestLineIsOne
  <2>2. l \in 1 .. E /\ ~sets[i][l].valid
    BY <2>1
  <2>. HIDE DEF l, Empty
  <2>3. /\ sets' \in [0 .. num_sets - 1 -> [1 .. E -> Line]]
        /\ LinesCounted' /\ TagsDiffer' /\ Holds(sets', a)
        /\ Valid' = Valid \cup {<<i, l>>} /\ Loaded(a, l)
    BY <1>3, <1>5, <2>2, LoadStep DEF Miss, l
  <2>4. <<i, l>> \notin Valid
    BY <2>2 DEF Valid
  <2>5. Cardinality(Valid') = Cardinality(Valid) + 1
    BY <1>2, <2>3, <2>4, FS_AddElement
  <2>6. MissesFillOrEvict'
    BY <1>2, <1>5, <2>5 DEF StoreInv, MissesFillOrEvict
  <2>7. StoreInv'
    BY <1>3, <2>3, <2>6 DEF StoreInv
  <2>. QED BY <1>5, <2>2, <2>3, <2>7 DEF i
<1>. QED BY <1>4, <1>5 DEF Miss

-----------------------------------------------------------------------------
(* The commands.                                                           *)

LEMMA SimulateStep ==
    ASSUME StoreInv, NEW a \in Address, simulate_cache(a)
    PROVE  StoreInv' /\ Holds(sets', a)
<1>1. Accesses < MaxAccess
  BY DEF simulate_cache, Accesses
<1>2. CASE Hit(a)
  BY <1>1, <1>2, HitStep
<1>3. CASE Miss(a)
  BY <1>1, <1>3, MissStep
<1>. QED BY <1>2, <1>3 DEF simulate_cache

LEMMA InitCacheInv == Init => CacheInv
<1>. SUFFICES ASSUME Init PROVE CacheInv
  OBVIOUS
<1>1. [valid |-> FALSE, tag |-> 0, count |-> 0] \in Line
  BY ShiftsDivide, CsimAssumption DEF Line, ShiftsCut
<1>2. /\ sets \in [0 .. num_sets - 1 -> [1 .. E -> Line]]
      /\ \A i \in 0 .. num_sets - 1 : \A l \in 1 .. E :
            sets[i][l] = [valid |-> FALSE, tag |-> 0, count |-> 0]
  BY <1>1 DEF Init, build_cache
<1>3. par = [hits |-> 0, misses |-> 0, evictions |-> 0] /\ address = 0 /\ twice = FALSE
  BY DEF Init
<1>4. Accesses = 0 /\ Accesses =< MaxAccess
  BY <1>3, CsimAssumption DEF Accesses
<1>5. LinesCounted /\ TagsDiffer
  BY <1>2, <1>4 DEF LinesCounted, TagsDiffer
<1>6. Valid = {}
  BY <1>2 DEF Valid
<1>7. MissesFillOrEvict
  BY <1>3, <1>6, FS_EmptySet DEF MissesFillOrEvict
<1>. QED BY <1>2, <1>3, <1>4, <1>5, <1>7, ShiftsDivide
     DEF CacheInv, StoreInv, ShiftsCut

LEMMA CacheStep == CacheInv /\ [Next]_vars => CacheInv'
<1>. SUFFICES ASSUME CacheInv, [Next]_vars PROVE CacheInv'
  OBVIOUS
<1>1. CASE LoadOrStore
  BY <1>1, SimulateStep DEF LoadOrStore, CacheInv
<1>2. CASE Modify
  BY <1>2, SimulateStep DEF Modify, CacheInv
<1>3. CASE ModifyAgain
  BY <1>3, SimulateStep DEF ModifyAgain, CacheInv
<1>4. CASE UNCHANGED vars
  BY <1>4 DEF vars, CacheInv, StoreInv, Accesses, LinesCounted, TagsDiffer,
     MissesFillOrEvict, Valid
<1>. QED BY <1>1, <1>2, <1>3, <1>4 DEF Next

LEMMA CacheAlways == Spec => []CacheInv
<1>1. Init => CacheInv
  BY InitCacheInv
<1>2. CacheInv /\ [Next]_vars => CacheInv'
  BY CacheStep
<1>. QED BY <1>1, <1>2, PTL DEF Spec

\* The counters and the counts of the lines keep their types.
THEOREM CacheTyped == Spec => []TypeOK
<1>1. CacheInv => TypeOK
  BY StoreIsTyped DEF CacheInv, StoreInv, TypeOK
<1>. QED BY <1>1, CacheAlways, PTL

\* Shifting left and right again cuts every address of every trace as division
\* does, whatever the geometry: no tag is truncated, no index is out of the sets,
\* and no two blocks have both in common.
THEOREM CutsAreRight == Spec => []AddressIsCut
<1>1. CacheInv => AddressIsCut
  BY ShiftsDivide DEF CacheInv, ShiftsCut, AddressIsCut
<1>. QED BY <1>1, CacheAlways, PTL

\* What printSummary prints agrees with the cache: a miss fills a line that was
\* empty, or evicts.
THEOREM CountersAgree == Spec => []MissesFillOrEvict
<1>1. CacheInv => MissesFillOrEvict
  BY DEF CacheInv, StoreInv
<1>. QED BY <1>1, CacheAlways, PTL

\* The second access of an M finds the block, and counts one hit.
THEOREM SecondAccessHits == Spec => ModifyHits
<1>1. CacheInv /\ [Next]_vars => [ModifyAgain => par'.hits = par.hits + 1]_vars
  <2>. SUFFICES ASSUME CacheInv, ModifyAgain
                PROVE  par'.hits = par.hits + 1
    OBVIOUS
  <2>1. StoreInv /\ Holds(sets, address) /\ address \in Address
    BY DEF CacheInv, ModifyAgain
  <2>2. Hits(address) # {}
    BY <2>1 DEF Holds, Hits
  <2>3. Hit(address) /\ Accesses < MaxAccess
    BY <2>2 DEF ModifyAgain, simulate_cache, Miss, Accesses
  <2>4. par' = [par EXCEPT !.hits = @ + 1]
    BY <2>1, <2>3, HitStep
  <2>. QED BY <2>1, <2>4 DEF StoreInv
<1>. QED BY <1>1, CacheAlways, PTL DEF Spec, ModifyHits

-----------------------------------------------------------------------------
(* The refinement.                                                         *)

\* What the refinement shows of the lines.
Held == [i \in 0 .. num_sets - 1 |-> BlocksHeld(i)]

Block(i, t) == t * num_sets + i

LEMMA HeldAre ==
    ASSUME NEW i
    PROVE  \A x : x \in BlocksHeld(i) <=>
                    \E l \in 1 .. E : sets[i][l].valid /\ x = Block(i, sets[i][l].tag)
BY DEF BlocksHeld, Block

LEMMA TimesInjective ==
    ASSUME NEW n \in Nat, n # 0, NEW t \in Nat, NEW u \in Nat, t * n = u * n
    PROVE  t = u
<1>1. CASE t < u
  <2>1. u - t >= 1 /\ n >= 1 /\ u - t \in Int
    BY <1>1
  <2>2. (u - t) * n >= n
    BY <2>1
  <2>3. (u - t) * n = u * n - t * n
    OBVIOUS
  <2>. QED BY <2>2, <2>3
<1>2. CASE u < t
  <2>1. t - u >= 1 /\ n >= 1 /\ t - u \in Int
    BY <1>2
  <2>2. (t - u) * n >= n
    BY <2>1
  <2>3. (t - u) * n = t * n - u * n
    OBVIOUS
  <2>. QED BY <2>2, <2>3
<1>. QED BY <1>1, <1>2

\* Different tags of a set stand for different blocks.
LEMMA BlocksDiffer ==
    ASSUME NEW i \in 0 .. num_sets - 1,
           NEW t \in 0 .. 2^(Width - (s + b)) - 1, NEW u \in 0 .. 2^(Width - (s + b)) - 1,
           Block(i, t) = Block(i, u)
    PROVE  t = u
<1>1. num_sets \in Nat /\ num_sets # 0 /\ t \in Nat /\ u \in Nat /\ i \in Int
  BY ShiftsDivide DEF ShiftsCut
<1>. DEFINE n == num_sets
<1>2. t * n + i = u * n + i
  BY DEF Block
<1>. HIDE DEF n
<1>3. n \in Nat /\ n # 0
  BY <1>1 DEF n
<1>4. t * n = u * n
  <2>1. t * n \in Int /\ u * n \in Int
    BY <1>1, <1>3
  <2>. QED BY <1>1, <1>2, <2>1
<1>. QED BY <1>1, <1>3, <1>4, TimesInjective

LEMMA TagTyped ==
    ASSUME StoreInv, NEW j \in 0 .. num_sets - 1, NEW l \in 1 .. E
    PROVE  sets[j][l].tag \in 0 .. 2^(Width - (s + b)) - 1
<1>1. sets[j][l] \in Line
  BY LinesTyped
<1>. QED BY <1>1 DEF Line

\* A set that is full holds E blocks, another one holds less.
LEMMA HeldCount ==
    ASSUME StoreInv, NEW i \in 0 .. num_sets - 1
    PROVE  /\ (\A l \in 1 .. E : sets[i][l].valid) => Cardinality(BlocksHeld(i)) = E
           /\ (\E l \in 1 .. E : ~sets[i][l].valid) => Cardinality(BlocksHeld(i)) < E
<1>. DEFINE V == {l \in 1 .. E : sets[i][l].valid}
            H == BlocksHeld(i)
            f == [l \in V |-> Block(i, sets[i][l].tag)]
<1>1. f \in [V -> H]
  BY HeldAre
<1>2. \A x \in H : \E l \in V : f[l] = x
  BY HeldAre
<1>3. \A l, k \in V : f[l] = f[k] => l = k
  <2>. SUFFICES ASSUME NEW l \in V, NEW k \in V, f[l] = f[k] PROVE l = k
    OBVIOUS
  <2>1. Block(i, sets[i][l].tag) = Block(i, sets[i][k].tag)
    OBVIOUS
  <2>2. /\ sets[i][l].tag \in 0 .. 2^(Width - (s + b)) - 1
        /\ sets[i][k].tag \in 0 .. 2^(Width - (s + b)) - 1
    BY TagTyped
  <2>3. sets[i][l].tag = sets[i][k].tag
    BY <2>1, <2>2, BlocksDiffer
  <2>. QED BY <2>3 DEF StoreInv, TagsDiffer
<1>. HIDE DEF f, H
<1>4. ExistsBijection(V, H)
  <2>1. f \in Bijection(V, H)
    BY <1>1, <1>2, <1>3 DEF Bijection, Injection, Surjection, IsInjective
  <2>. QED BY <2>1 DEF ExistsBijection
<1>5. IsFiniteSet(1 .. E) /\ Cardinality(1 .. E) = E
  <2>1. E \in Int /\ 1 \in Int /\ ~ (1 > E) /\ E - 1 + 1 = E
    BY CsimAssumption
  <2>. QED BY <2>1, FS_Interval
<1>6. V \in SUBSET (1 .. E)
  OBVIOUS
<1>7. /\ IsFiniteSet(V) /\ Cardinality(V) =< E
      /\ Cardinality(V) = E => V = 1 .. E
  BY <1>5, <1>6, FS_Subset
<1>8. Cardinality(H) = Cardinality(V) /\ Cardinality(V) \in Nat
  BY <1>4, <1>7, FS_Bijection, FS_CardinalityType
<1>9. (\A l \in 1 .. E : sets[i][l].valid) => V = 1 .. E
  OBVIOUS
<1>10. (\E l \in 1 .. E : ~sets[i][l].valid) => V # 1 .. E
  OBVIOUS
<1>. HIDE DEF V
<1>. QED BY <1>5, <1>7, <1>8, <1>9, <1>10, CsimAssumption DEF H

\* A block is held by its set when a line holds it.
LEMMA HitIsHeld ==
    ASSUME StoreInv, NEW a \in Address
    PROVE  Cache!BlockOf(a) \in BlocksHeld(setIndex(a)) <=> Hits(a) # {}
<1>. DEFINE i == setIndex(a)
<1>1. /\ i \in 0 .. num_sets - 1 /\ Cache!BlockOf(a) = Block(i, input_tag(a))
      /\ input_tag(a) \in 0 .. 2^(Width - (s + b)) - 1
  BY CutsAre DEF Block
<1>. HIDE DEF i
<1>2. \A l \in 1 .. E : sets[i][l].tag \in 0 .. 2^(Width - (s + b)) - 1
  BY <1>1, TagTyped
<1>3. \A l \in 1 .. E : Block(i, input_tag(a)) = Block(i, sets[i][l].tag)
                            <=> input_tag(a) = sets[i][l].tag
  BY <1>1, <1>2, BlocksDiffer
<1>4. Cache!BlockOf(a) \in BlocksHeld(i) <=>
        \E l \in 1 .. E : sets[i][l].valid /\ sets[i][l].tag = input_tag(a)
  BY <1>1, <1>3, HeldAre
<1>. QED BY <1>4 DEF Hits, i

LEMMA HitHolds ==
    ASSUME StoreInv, NEW a \in Address, Accesses < MaxAccess, Hit(a)
    PROVE  Held' = Held
<1>1. \A i \in 0 .. num_sets - 1 : BlocksHeld(i)' = BlocksHeld(i)
  <2>. TAKE i \in 0 .. num_sets - 1
  <2>1. \A l \in 1 .. E : sets'[i][l].valid = sets[i][l].valid /\ sets'[i][l].tag = sets[i][l].tag
    BY HitStep
  <2>. QED BY <2>1 DEF BlocksHeld
<1>. QED BY <1>1 DEF Held

\* A line that is loaded takes the new block in, and loses the one it had.
LEMMA LoadHolds ==
    ASSUME StoreInv, NEW a \in Address, NEW l \in 1 .. E, Loaded(a, l)
    PROVE  LET i == setIndex(a)
               new == Block(i, input_tag(a))
               old == Block(i, sets[i][l].tag)
           IN  /\ sets[i][l].valid =>
                    /\ old \in Held[i]
                    /\ Held' = [Held EXCEPT ![i] = (@ \ {old}) \cup {new}]
               /\ ~sets[i][l].valid => Held' = [Held EXCEPT ![i] = @ \cup {new}]
<1>. DEFINE i == setIndex(a)
            new == Block(i, input_tag(a))
            old == Block(i, sets[i][l].tag)
<1>1. i \in 0 .. num_sets - 1 /\ Held[i] = BlocksHeld(i)
  BY CutsAre DEF Held
<1>2. /\ \A j \in 0 .. num_sets - 1 : \A k \in 1 .. E : j # i \/ k # l => sets'[j][k] = sets[j][k]
      /\ sets'[i][l].valid /\ sets'[i][l].tag = input_tag(a)
  BY DEF Loaded
<1>. HIDE DEF i
<1>3. ASSUME NEW j \in 0 .. num_sets - 1, j # i PROVE BlocksHeld(j)' = BlocksHeld(j)
  <2>1. \A k \in 1 .. E : sets'[j][k] = sets[j][k]
    BY <1>2, <1>3
  <2>. QED BY <2>1 DEF BlocksHeld
<1>4. \A x : x \in BlocksHeld(i)' <=>
        x = new \/ \E k \in 1 .. E : k # l /\ sets[i][k].valid /\ x = Block(i, sets[i][k].tag)
  <2>1. \A x : x \in BlocksHeld(i)' <=>
            \E k \in 1 .. E : sets'[i][k].valid /\ x = Block(i, sets'[i][k].tag)
    BY DEF BlocksHeld, Block
  <2>2. \A k \in 1 .. E : k # l => sets'[i][k] = sets[i][k]
    BY <1>1, <1>2
  <2>. QED BY <1>2, <2>1, <2>2
<1>5. \A x : x \in BlocksHeld(i) <=>
        \E k \in 1 .. E : sets[i][k].valid /\ x = Block(i, sets[i][k].tag)
  BY HeldAre
<1>6. ASSUME sets[i][l].valid, NEW k \in 1 .. E, k # l, sets[i][k].valid
      PROVE  Block(i, sets[i][k].tag) # old
  <2>1. /\ sets[i][l].tag \in 0 .. 2^(Width - (s + b)) - 1
        /\ sets[i][k].tag \in 0 .. 2^(Width - (s + b)) - 1
    BY <1>1, TagTyped
  <2>2. sets[i][k].tag # sets[i][l].tag
    BY <1>1, <1>6 DEF StoreInv, TagsDiffer
  <2>. QED BY <1>1, <2>1, <2>2, BlocksDiffer
<1>7. ASSUME NEW S, BlocksHeld(i)' = S PROVE Held' = [Held EXCEPT ![i] = S]
  BY <1>3, <1>7 DEF Held
<1>. HIDE DEF new, old
<1>8. CASE sets[i][l].valid
  <2>1. old \in BlocksHeld(i)
    BY <1>5, <1>8 DEF old
  <2>2. \A x : (\E k \in 1 .. E : k # l /\ sets[i][k].valid /\ x = Block(i, sets[i][k].tag))
                    <=> x \in BlocksHeld(i) /\ x # old
    <3>1. \A k \in 1 .. E : k # l /\ sets[i][k].valid => Block(i, sets[i][k].tag) # old
      BY <1>6, <1>8
    <3>2. old = Block(i, sets[i][l].tag)
      BY DEF old
    <3>. QED BY <1>5, <3>1, <3>2
  <2>3. BlocksHeld(i)' = (Held[i] \ {old}) \cup {new}
    BY <1>1, <1>4, <2>2
  <2>. QED BY <1>1, <1>7, <1>8, <2>1, <2>3 DEF i, new, old
<1>9. CASE ~sets[i][l].valid
  <2>1. \A x : (\E k \in 1 .. E : k # l /\ sets[i][k].valid /\ x = Block(i, sets[i][k].tag))
                    <=> x \in BlocksHeld(i)
    BY <1>5, <1>9
  <2>2. BlocksHeld(i)' = Held[i] \cup {new}
    BY <1>1, <1>4, <2>1
  <2>. QED BY <1>7, <1>9, <2>2 DEF i, new, old
<1>. QED BY <1>8, <1>9

\* An access of the program is one of the set-associative cache.
LEMMA AccessRefines ==
    ASSUME StoreInv, NEW a \in Address, simulate_cache(a)
    PROVE  Cache!Hit(a) \/ Cache!Miss(a)
<1>. DEFINE i == setIndex(a)
            new == Cache!BlockOf(a)
<1>1. /\ Accesses < MaxAccess /\ Cache!SetOf(a) = i /\ new = Block(i, input_tag(a))
      /\ i \in 0 .. num_sets - 1 /\ Held[i] = BlocksHeld(i)
      /\ par \in [hits : Nat, misses : Nat, evictions : Nat]
  BY CutsAre DEF simulate_cache, Accesses, Block, Held, StoreInv
<1>2. new \in Held[i] <=> Hits(a) # {}
  BY <1>1, HitIsHeld
<1>. HIDE DEF i, new
<1>3. CASE Hit(a)
  <2>1. par' = [par EXCEPT !.hits = @ + 1] /\ Held' = Held
    BY <1>1, <1>3, HitStep, HitHolds
  <2>2. /\ par'.hits = par.hits + 1 /\ par'.misses = par.misses
        /\ par'.evictions = par.evictions
    BY <1>1, <2>1
  <2>3. new \in Held[i]
    BY <1>2, <1>3 DEF Hit
  <2>4. Cache!Hit(a)
    BY <1>1, <2>1, <2>2, <2>3 DEF Cache!Hit, Held, new
  <2>. QED BY <2>4
<1>4. CASE Miss(a)
  <2>0. \A S : Cache!Cardinality(S) = Cardinality(S)
    BY DEF Cache!Cardinality, Cardinality
  <2>1. new \notin Held[i]
    BY <1>2, <1>4 DEF Miss
  <2>2. PICK l \in 1 .. E :
                /\ Loaded(a, l)
                /\ \/ /\ Full(a)
                      /\ par' = [par EXCEPT !.misses = @ + 1, !.evictions = @ + 1]
                   \/ /\ ~sets[i][l].valid
                      /\ par' = [par EXCEPT !.misses = @ + 1]
    BY <1>1, <1>4, MissStep DEF i
  <2>. DEFINE old == Block(i, sets[i][l].tag)
  <2>3. /\ sets[i][l].valid =>
                /\ old \in Held[i]
                /\ Held' = [Held EXCEPT ![i] = (@ \ {old}) \cup {new}]
        /\ ~sets[i][l].valid => Held' = [Held EXCEPT ![i] = @ \cup {new}]
    BY <1>1, <2>2, LoadHolds DEF i
  <2>. HIDE DEF old
  <2>4. CASE Full(a) /\ par' = [par EXCEPT !.misses = @ + 1, !.evictions = @ + 1]
    <3>1. \A k \in 1 .. E : sets[i][k].valid
      BY <2>4 DEF Full, i
    <3>2. Cardinality(Held[i]) = E
      BY <1>1, <3>1, HeldCount
    <3>3. /\ par'.hits = par.hits /\ par'.misses = par.misses + 1
          /\ par'.evictions = par.evictions + 1
      BY <1>1, <2>4
    <3>4. old \in Held[i] /\ Held' = [Held EXCEPT ![i] = (@ \ {old}) \cup {new}]
      BY <2>3, <3>1
    <3>5. /\ Cache!BlockOf(a) \notin Held[Cache!SetOf(a)]
          /\ Cache!Cardinality(Held[Cache!SetOf(a)]) = E
          /\ \E o \in Held[Cache!SetOf(a)] :
                Held' = [Held EXCEPT ![Cache!SetOf(a)] = (@ \ {o}) \cup {Cache!BlockOf(a)}]
      BY <1>1, <2>0, <2>1, <3>2, <3>4 DEF new
    <3>. QED BY <3>3, <3>5 DEF Cache!Miss, Held
  <2>5. CASE ~sets[i][l].valid /\ par' = [par EXCEPT !.misses = @ + 1]
    <3>1. Cardinality(Held[i]) < E
      BY <1>1, <2>5, HeldCount
    <3>2. /\ par'.hits = par.hits /\ par'.misses = par.misses + 1
          /\ par'.evictions = par.evictions
      BY <1>1, <2>5
    <3>3. Held' = [Held EXCEPT ![i] = @ \cup {new}]
      BY <2>3, <2>5
    <3>4. /\ Cache!BlockOf(a) \notin Held[Cache!SetOf(a)]
          /\ Cache!Cardinality(Held[Cache!SetOf(a)]) < E
          /\ Held' = [Held EXCEPT ![Cache!SetOf(a)] = @ \cup {Cache!BlockOf(a)}]
      BY <1>1, <2>0, <2>1, <3>1, <3>3 DEF new
    <3>. QED BY <3>2, <3>4 DEF Cache!Miss, Held
  <2>. QED BY <2>2, <2>4, <2>5
<1>. QED BY <1>3, <1>4 DEF simulate_cache

\* Every access hits, misses and evicts as in a set-associative cache of that
\* geometry, for every number of sets, lines and bits.
THEOREM CacheImplemented == Spec => ImplementsSetCache
<1>1. Init => Cache!Init
  <2>. SUFFICES ASSUME Init PROVE Cache!Init
    OBVIOUS
  <2>1. \A i \in 0 .. num_sets - 1 : BlocksHeld(i) = {}
    BY DEF Init, build_cache, BlocksHeld
  <2>2. par.hits = 0 /\ par.misses = 0 /\ par.evictions = 0
    BY DEF Init
  <2>. QED BY <2>1, <2>2 DEF Cache!Init, num_sets
<1>2. CacheInv /\ [Next]_vars => [Cache!Next]_(Cache!vars)
  <2>. SUFFICES ASSUME CacheInv, [Next]_vars PROVE [Cache!Next]_(Cache!vars)
    OBVIOUS
  <2>1. ASSUME Next PROVE \E a \in Address : simulate_cache(a)
    BY <2>1 DEF Next, LoadOrStore, Modify, ModifyAgain, CacheInv
  <2>2. ASSUME UNCHANGED vars PROVE UNCHANGED Cache!vars
    BY <2>2 DEF vars, Cache!vars, BlocksHeld
  <2>. QED BY <2>1, <2>2, AccessRefines DEF CacheInv, Cache!Next
<1>. QED BY <1>1, <1>2, CacheAlways, PTL DEF Spec, ImplementsSetCache, Cache!Spec
=============================================================================
