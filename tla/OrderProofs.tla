----------------------------- MODULE OrderProofs ----------------------------
(***************************************************************************)
(* Facts about sets and sequences that the proofs of the components need:  *)
(* what InOrder and Sorted return for every finite set, least and greatest *)
(* elements, and the elements of a sequence.                               *)
(***************************************************************************)
EXTENDS Ordering, SequencesExt, FiniteSetTheorems, SequenceTheorems, TLAPS

(* A non-empty set of naturals has a least element.                        *)
LEMMA MinIsLeast ==
    ASSUME NEW S \in SUBSET Nat, S # {}
    PROVE  Min(S) \in S /\ \A x \in S : Min(S) <= x
<1>1. PICK x \in S : \A y \in S : ~(<<y, x>> \in OpToRel(<, Nat))
  BY NatLessThanWellFounded, WFMin
<1>2. ASSUME NEW y \in S PROVE x <= y
  <2>1. x \in Nat /\ y \in Nat
    OBVIOUS
  <2>2. <<y, x>> \in Nat \X Nat /\ <<y, x>>[1] = y /\ <<y, x>>[2] = x
    BY <2>1
  <2>3. ~(y < x)
    BY <1>1, <2>2 DEF OpToRel
  <2> QED BY <2>1, <2>3
<1> QED
  BY <1>2 DEF Min

StrictOrder(S, less) ==
    /\ \A j, k \in S : j = k \/ <<j, k>> \in less \/ <<k, j>> \in less
    /\ \A k \in S : <<k, k>> \notin less
    /\ \A i, j, k \in S : <<i, j>> \in less /\ <<j, k>> \in less => <<i, k>> \in less

(* InOrder lists a finite set, every element once, in its order.           *)
LEMMA InOrderLists ==
    ASSUME NEW S, IsFiniteSet(S), NEW less, StrictOrder(S, less)
    PROVE  /\ InOrder(S, less) \in Seq(S)
           /\ Len(InOrder(S, less)) = Cardinality(S)
           /\ \A k \in S : \E i \in 1 .. Cardinality(S) : InOrder(S, less)[i] = k
           /\ \A i, j \in 1 .. Cardinality(S) :
                 i < j => <<InOrder(S, less)[i], InOrder(S, less)[j]>> \in less
<1> DEFINE n == Cardinality(S)
           below(k) == {j \in S : <<j, k>> \in less}
           rank == [k \in S |-> Cardinality(below(k))]
<1>1. n \in Nat
  BY FS_CardinalityType
<1>2. ASSUME NEW k \in S PROVE IsFiniteSet(below(k)) /\ rank[k] \in 0 .. n - 1
  <2>1. IsFiniteSet(below(k)) /\ Cardinality(below(k)) <= n /\ (n = Cardinality(below(k)) => S = below(k))
    BY FS_Subset
  <2>2. k \notin below(k)
    BY DEF StrictOrder
  <2>3. Cardinality(below(k)) \in Nat
    BY <2>1, FS_CardinalityType
  <2> QED BY <1>1, <2>1, <2>2, <2>3
<1> HIDE DEF rank, below
<1>r. \A k \in S : rank[k] \in Nat /\ rank[k] < n
  BY <1>1, <1>2
<1>3. ASSUME NEW j \in S, NEW k \in S, <<j, k>> \in less
      PROVE  rank[j] < rank[k]
  <2>1. below(j) \in SUBSET below(k) /\ j \in below(k) /\ j \notin below(j)
    BY <1>3 DEF StrictOrder, below
  <2>2. Cardinality(below(j)) <= Cardinality(below(k)) /\ (Cardinality(below(k)) = Cardinality(below(j)) => below(k) = below(j))
    BY <1>2, <2>1, FS_Subset
  <2>3. rank[j] <= rank[k] /\ rank[k] # rank[j]
    BY <2>1, <2>2 DEF rank
  <2> QED BY <1>r, <2>3
<1>4. rank \in Injection(S, 0 .. n - 1)
  <2>1. rank \in [S -> 0 .. n - 1]
    BY <1>2 DEF rank
  <2>2. ASSUME NEW j \in S, NEW k \in S, rank[j] = rank[k] PROVE j = k
    <3>1. ~(<<j, k>> \in less)
      <4> SUFFICES ASSUME <<j, k>> \in less PROVE FALSE
        OBVIOUS
      <4>1. rank[j] < rank[k]
        BY <1>3
      <4> QED BY <4>1, <1>r, <2>2
    <3>2. ~(<<k, j>> \in less)
      <4> SUFFICES ASSUME <<k, j>> \in less PROVE FALSE
        OBVIOUS
      <4>1. rank[k] < rank[j]
        BY <1>3
      <4> QED BY <4>1, <1>r, <2>2
    <3> QED BY <3>1, <3>2 DEF StrictOrder
  <2> QED BY <2>1, <2>2 DEF Injection, IsInjective
<1>5. rank \in Surjection(S, 0 .. n - 1)
  <2>1. IsFiniteSet(0 .. n - 1) /\ Cardinality(0 .. n - 1) = n
    BY <1>1, FS_Interval
  <2> QED BY <1>4, <2>1, FS_Injection
<1>6. ASSUME NEW i \in 1 .. n
      PROVE  InOrder(S, less)[i] \in S /\ rank[InOrder(S, less)[i]] = i - 1
  <2>1. PICK k \in S : rank[k] = i - 1
    BY <1>1, <1>5 DEF Surjection
  <2>2. Cardinality({j \in S : <<j, k>> \in less}) = i - 1
    BY <2>1 DEF rank, below
  <2>3. InOrder(S, less)[i] = CHOOSE l \in S : Cardinality({j \in S : <<j, l>> \in less}) = i - 1
    BY DEF InOrder
  <2> QED BY <2>2, <2>3 DEF rank, below
<1>7. InOrder(S, less) \in [1 .. n -> S]
  BY <1>6 DEF InOrder
<1>8. InOrder(S, less) \in Seq(S) /\ Len(InOrder(S, less)) = n
  BY <1>1, <1>7
<1>9. ASSUME NEW k \in S PROVE \E i \in 1 .. n : InOrder(S, less)[i] = k
  <2>1. rank[k] + 1 \in 1 .. n
    BY <1>1, <1>r
  <2>2. rank[InOrder(S, less)[rank[k] + 1]] = rank[k] /\ InOrder(S, less)[rank[k] + 1] \in S
    BY <1>r, <1>6, <2>1
  <2>3. InOrder(S, less)[rank[k] + 1] = k
    BY <1>4, <2>2 DEF Injection, IsInjective
  <2> QED BY <2>1, <2>3
<1>10. ASSUME NEW i \in 1 .. n, NEW j \in 1 .. n, i < j
       PROVE  <<InOrder(S, less)[i], InOrder(S, less)[j]>> \in less
  <2> DEFINE x == InOrder(S, less)[i]
             y == InOrder(S, less)[j]
  <2>1. x \in S /\ y \in S /\ rank[x] = i - 1 /\ rank[y] = j - 1
    BY <1>6
  <2> HIDE DEF x, y
  <2>2. rank[x] < rank[y]
    BY <1>1, <1>10, <2>1
  <2>3. ~(<<y, x>> \in less)
    <3> SUFFICES ASSUME <<y, x>> \in less PROVE FALSE
      OBVIOUS
    <3>1. rank[y] < rank[x]
      BY <1>3, <2>1
    <3> QED BY <3>1, <2>1, <2>2, <1>r
  <2>4. x # y
    BY <2>1, <2>2, <1>r
  <2>5. <<x, y>> \in less
    BY <2>1, <2>3, <2>4 DEF StrictOrder
  <2> QED BY <2>5 DEF x, y
<1> QED
  BY <1>8, <1>9, <1>10

(* The image of a finite set is finite.                                    *)
LEMMA FiniteImage ==
    ASSUME NEW f, NEW S, IsFiniteSet(S), f = [x \in S |-> f[x]]
    PROVE  IsFiniteSet({f[x] : x \in S})
<1>1. f \in Surjection(S, {f[x] : x \in S})
  BY DEF Surjection
<1> QED
  BY <1>1, FS_Surjection

(* The elements of a sequence: finitely many, the first one and the rest.  *)
LEMMA ToSetFinite ==
    ASSUME NEW S, NEW s \in Seq(S)
    PROVE  IsFiniteSet(ToSet(s)) /\ ToSet(s) \subseteq S
<1>1. s \in [1 .. Len(s) -> S] /\ Len(s) \in Nat
  OBVIOUS
<1>2. IsFiniteSet(1 .. Len(s))
  BY <1>1, FS_Interval
<1>3. IsFiniteSet({s[x] : x \in 1 .. Len(s)})
  BY <1>1, <1>2, FiniteImage
<1> QED
  BY <1>1, <1>3 DEF ToSet

(* The elements of a sequence are its head and those of its tail.          *)
LEMMA ToSetHeadTail ==
    ASSUME NEW S, NEW s \in Seq(S), s # <<>>
    PROVE  ToSet(s) = {Head(s)} \cup ToSet(Tail(s))
<1>1. Tail(s) \in Seq(S) /\ Len(Tail(s)) = Len(s) - 1 /\ Len(s) \in Nat \ {0}
      /\ \A i \in 1 .. Len(s) - 1 : Tail(s)[i] = s[i + 1]
  BY HeadTailProperties, EmptySeq
<1>2. DOMAIN s = 1 .. Len(s) /\ DOMAIN Tail(s) = 1 .. Len(s) - 1 /\ Head(s) = s[1]
  BY <1>1
<1>3. ASSUME NEW i \in 1 .. Len(s)
      PROVE  s[i] \in {Head(s)} \cup ToSet(Tail(s))
  <2>1. CASE i = 1
    BY <1>2, <2>1
  <2>2. CASE i # 1
    <3>1. i - 1 \in 1 .. Len(s) - 1 /\ s[i] = Tail(s)[i - 1]
      BY <1>1, <2>2
    <3> QED
      BY <1>2, <3>1 DEF ToSet
  <2> QED
    BY <2>1, <2>2
<1>4. ASSUME NEW i \in 1 .. Len(s) - 1
      PROVE  Tail(s)[i] \in ToSet(s)
  BY <1>1, <1>2 DEF ToSet
<1>5. Head(s) \in ToSet(s)
  BY <1>1, <1>2 DEF ToSet
<1> QED
  BY <1>2, <1>3, <1>4, <1>5 DEF ToSet

(* What is left of two or more.                                            *)
LEMMA TailLeft ==
    ASSUME NEW S, NEW s \in Seq(S), Len(s) > 1
    PROVE  Tail(s) # <<>>
<1> DEFINE n == Len(s)
           m == Len(Tail(s))
<1>1. n \in Nat /\ n > 1
  OBVIOUS
<1>2. s # <<>>
  BY <1>1, EmptySeq
<1>3. m = n - 1 /\ Tail(s) \in Seq(S)
  BY <1>2, HeadTailProperties
<1>4. Len(<<>>) = 0
  OBVIOUS
<1> HIDE DEF n, m
<1>5. m # 0
  BY <1>1, <1>3
<1> QED
  BY <1>4, <1>5 DEF m

(* Nothing is left of one.                                                 *)
LEMMA OneLeft ==
    ASSUME NEW S, NEW s \in Seq(S), s # <<>>, ~(Len(s) > 1)
    PROVE  ToSet(Tail(s)) = {}
<1> DEFINE n == Len(s)
           m == Len(Tail(s))
<1>1. n \in Nat /\ n # 0 /\ ~(n > 1)
  BY EmptySeq
<1>2. m = n - 1 /\ Tail(s) \in Seq(S)
  BY HeadTailProperties
<1>3. DOMAIN Tail(s) = 1 .. m
  BY <1>2
<1> HIDE DEF n, m
<1>4. m = 0
  BY <1>1, <1>2
<1> QED
  BY <1>3, <1>4 DEF ToSet


(* Sorted lists a finite set of numbers, every number once, ascending.     *)
LEMMA SortedLists ==
    ASSUME NEW S \in SUBSET Int, IsFiniteSet(S)
    PROVE  /\ Sorted(S) \in Seq(S)
           /\ Len(Sorted(S)) = Cardinality(S)
           /\ \A k \in S : \E i \in 1 .. Cardinality(S) : Sorted(S)[i] = k
           /\ \A i, j \in 1 .. Cardinality(S) : i < j => Sorted(S)[i] < Sorted(S)[j]
<1> DEFINE less == {p \in S \X S : p[1] < p[2]}
<1>1. \A j, k \in S : <<j, k>> \in less <=> j < k
  OBVIOUS
<1>2. \A j, k \in S : j \in Int /\ k \in Int
  OBVIOUS
<1> HIDE DEF less
<1>3. StrictOrder(S, less)
  BY <1>1, <1>2 DEF StrictOrder
<1>4. Sorted(S) = InOrder(S, less)
  BY DEF Sorted, less
<1>5. /\ Sorted(S) \in Seq(S) /\ Len(Sorted(S)) = Cardinality(S)
      /\ \A k \in S : \E i \in 1 .. Cardinality(S) : Sorted(S)[i] = k
      /\ \A i, j \in 1 .. Cardinality(S) : i < j => <<Sorted(S)[i], Sorted(S)[j]>> \in less
  BY <1>3, <1>4, InOrderLists
<1>6. \A i \in 1 .. Cardinality(S) : Sorted(S)[i] \in S
  BY <1>5
<1> QED
  BY <1>1, <1>5, <1>6

(* A non-empty set of naturals with an upper bound has a greatest element. *)
LEMMA MaxIsGreatest ==
    ASSUME NEW n \in Nat, NEW S \in SUBSET (0 .. n), S # {}
    PROVE  Max(S) \in S /\ \A x \in S : x <= Max(S)
<1> DEFINE T == {n - x : x \in S}
<1>0. \A x \in S : n - x \in Nat
  OBVIOUS
<1>1. T \in SUBSET Nat /\ T # {}
  BY <1>0
<1>2. Min(T) \in T /\ \A t \in T : Min(T) <= t
  BY <1>1, MinIsLeast
<1>3. PICK y \in S : Min(T) = n - y
  BY <1>2
<1>4. \A x \in S : x <= y
  <2> SUFFICES ASSUME NEW x \in S PROVE x <= y
    OBVIOUS
  <2>1. n - y <= n - x
    BY <1>2, <1>3
  <2>2. x \in Nat /\ y \in Nat
    OBVIOUS
  <2> QED
    BY <2>1, <2>2
<1>5. \A x \in S : y >= x
  BY <1>4
<1> QED
  BY <1>5 DEF Max
=============================================================================
