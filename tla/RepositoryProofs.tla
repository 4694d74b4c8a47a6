-------------------------- MODULE RepositoryProofs --------------------------
(***************************************************************************)
(* What the statements of module Repository return and preserve.           *)
(***************************************************************************)
EXTENDS Repository, Integers, FiniteSetTheorems, WellFoundedInduction, TLAPS

(***************************************************************************)
(* Every non-empty set of ids has a lowest one.  The library states the    *)
(* least-number principle for predicates passed as parameters, which the   *)
(* provers cannot instantiate; the proof below goes through the strict     *)
(* subset ordering instead: the sets of ids below a bound k are finite, so *)
(* one of the sets {j \in ids : j < i} is minimal, and it must be empty.   *)
(***************************************************************************)
LEMMA LowestExists ==
  ASSUME NEW ids \in SUBSET Nat, ids # {}
  PROVE  \E i \in ids : \A j \in ids : i <= j
<1>1. \A i \in ids : i \in Nat
  OBVIOUS
<1>2. PICK k \in ids : k \in Nat
  BY <1>1
<1> DEFINE Below(i) == {j \in ids : j < i}
           Near == {i \in ids : i <= k}
<1>3. k \in Near
  BY <1>2
<1>4. ASSUME NEW i \in Near
      PROVE  Below(i) \in SUBSET (0 .. k)
  <2>1. ASSUME NEW j \in ids, j < i
        PROVE  j \in 0 .. k
    BY <1>1, <1>2, <2>1
  <2> QED
    BY <2>1
<1>5. ASSUME NEW i \in Near, NEW j \in ids, j < i
      PROVE  /\ j \in Near
             /\ Below(j) \subseteq Below(i)
             /\ j \in Below(i) /\ j \notin Below(j)
  <2>1. j \in Near
    BY <1>1, <1>2, <1>5
  <2>2. \A n \in ids : n < j => n < i
    BY <1>1, <1>5
  <2>3. ~ (j < j)
    BY <1>1
  <2> QED
    BY <1>5, <2>1, <2>2, <2>3
<1> HIDE DEF Below, Near
<1> DEFINE T == {Below(i) : i \in Near}
<1>6. FiniteSubsetsOf(0 .. k) = SUBSET (0 .. k)
  <2>1. IsFiniteSet(0 .. k)
    BY <1>2, FS_Interval, 0 \in Int, k \in Int
  <2> QED
    BY <2>1, FS_FiniteSubsetsOfFinite
<1>7. T \subseteq FiniteSubsetsOf(0 .. k) /\ T # {}
  BY <1>3, <1>4, <1>6
<1>8. PICK x \in T : \A y \in T : ~ (<<y, x>> \in StrictSubsetOrdering(0 .. k))
  <2> HIDE DEF T
  <2> QED
    BY <1>7, FS_StrictSubsetOrderingWellFounded, WFMin
<1>9. PICK i \in Near : x = Below(i)
  BY <1>8
<1>10. ASSUME NEW j \in ids, j < i
       PROVE  FALSE
  <2>1. /\ j \in Near
        /\ Below(j) \subseteq Below(i)
        /\ j \in Below(i) /\ j \notin Below(j)
    BY <1>5, <1>10
  <2>2. <<Below(j), Below(i)>> \in StrictSubsetOrdering(0 .. k)
    BY <1>4, <2>1 DEF StrictSubsetOrdering
  <2> QED
    BY <1>8, <1>9, <2>1, <2>2
<1>11. i \in ids
  BY DEF Near
<1> QED
  BY <1>1, <1>10, <1>11

\* findOne picks a matching row, and none with a smaller id matches.
LEMMA FindOneIsLowest ==
  ASSUME NEW ids \in SUBSET Nat, ids # {}
  PROVE  /\ FindOne(ids) \in ids
         /\ \A j \in ids : FindOne(ids) <= j
  BY LowestExists DEF FindOne, Lowest

\* findOne answers Null or the id of a matching row.
LEMMA FindOneType ==
  ASSUME NEW ids \in SUBSET (Nat \ {0})
  PROVE  /\ FindOne(ids) \in ids \cup {Null}
         /\ FindOne(ids) = Null <=> ids = {}
  BY FindOneIsLowest DEF FindOne, Null
=============================================================================
