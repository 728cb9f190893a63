--------------------------- MODULE AllocatorProofs ---------------------------
(***************************************************************************)
(* A package that gives each block a place apart from the others keeps all *)
(* of them apart, for any indices and any memory.                          *)
(***************************************************************************)
EXTENDS Allocator, TLAPS

\* All payloads are apart, pair by pair.
AllApart == \A i, j \in DOMAIN payload : i # j => Apart(payload[i], payload[j])

IInv == TypeOK /\ AllApart

LEMMA ExtentIsInts ==
    ASSUME NEW e \in Extents
    PROVE  e[1] \in Int /\ e[2] \in Int /\ e[1] =< e[2]
BY DEF Extents, Places

LEMMA InitInv == Init => IInv
BY DEF Init, IInv, TypeOK, AllApart

\* The block that gets a place is apart from the others, which stay.
LEMMA GivenInv ==
    ASSUME IInv, NEW i \in Index, Given(i)
    PROVE  IInv'
<1>1. /\ payload' = [j \in DOMAIN payload \cup {i} |-> IF j = i THEN payload'[i] ELSE payload[j]]
      /\ payload'[i] \in Extents
  BY DEF Given
<1>2. \A j \in DOMAIN payload : payload[j] \in Extents
  BY DEF IInv, TypeOK
<1>3. TypeOK'
  <2>1. DOMAIN payload' = DOMAIN payload \cup {i}
    BY <1>1
  <2>2. \A j \in DOMAIN payload' : payload'[j] \in Extents
    BY <1>1, <1>2
  <2>3. payload' \in [DOMAIN payload' -> Extents]
    BY <1>1, <2>1, <2>2
  <2> QED  BY <2>1, <2>3 DEF IInv, TypeOK
<1>4. ASSUME NEW j \in DOMAIN payload', NEW k \in DOMAIN payload', j # k
      PROVE  Apart(payload'[j], payload'[k])
  <2>1. CASE j = i
    <3>1. k \in DOMAIN payload \ {i} /\ payload'[k] = payload[k]
      BY <1>1, <1>4, <2>1
    <3> QED  BY <3>1, <2>1 DEF Given, Fits
  <2>2. CASE k = i
    <3>1. j \in DOMAIN payload \ {i} /\ payload'[j] = payload[j]
      BY <1>1, <1>4, <2>2
    <3>2. Apart(payload'[i], payload[j])
      BY <3>1 DEF Given, Fits
    <3> QED  BY <3>1, <3>2, <2>2 DEF Apart
  <2>3. CASE j # i /\ k # i
    <3>1. /\ j \in DOMAIN payload /\ payload'[j] = payload[j]
          /\ k \in DOMAIN payload /\ payload'[k] = payload[k]
      BY <1>1, <1>4, <2>3
    <3> QED  BY <3>1, <1>4 DEF IInv, AllApart
  <2> QED  BY <2>1, <2>2, <2>3
<1> QED  BY <1>3, <1>4 DEF IInv, AllApart

LEMMA NextInv == IInv /\ [Next]_payload => IInv'
<1> SUFFICES ASSUME IInv, [Next]_payload PROVE IInv'
  OBVIOUS
<1>1. ASSUME NEW i \in Index, Malloc(i) \/ Realloc(i) PROVE IInv'
  BY <1>1, GivenInv DEF Malloc, Realloc
<1>2. ASSUME NEW i \in Index, Free(i) PROVE IInv'
  BY <1>2 DEF Free, IInv, TypeOK, AllApart
<1>3. CASE Reset
  BY <1>3 DEF Reset, IInv, TypeOK, AllApart
<1>4. CASE UNCHANGED payload
  BY <1>4 DEF IInv, TypeOK, AllApart
<1> QED  BY <1>1, <1>2, <1>3, <1>4 DEF Next

LEMMA ApartMeansUnshared == IInv => NothingShared
<1> SUFFICES ASSUME IInv,
                    NEW i \in DOMAIN payload, NEW j \in DOMAIN payload, i # j,
                    NEW a \in Places, payload[i][1] =< a, a =< payload[i][2],
                    payload[j][1] =< a, a =< payload[j][2]
             PROVE  FALSE
  BY DEF NothingShared
<1>1. payload[i] \in Extents /\ payload[j] \in Extents /\ a \in Int
  BY DEF IInv, TypeOK, Places
<1>2. Apart(payload[i], payload[j])
  BY DEF IInv, AllApart
<1> QED  BY <1>1, <1>2, ExtentIsInts DEF Apart

\* In every state of a malloc package no address belongs to two payloads: what
\* mm_malloc, mm_realloc and mm_free together must not break.
THEOREM PayloadsShareNothing == Spec => [](TypeOK /\ NothingShared)
<1>1. IInv => TypeOK
  BY DEF IInv
<1> QED  BY <1>1, InitInv, NextInv, ApartMeansUnshared, PTL DEF Spec
=============================================================================
