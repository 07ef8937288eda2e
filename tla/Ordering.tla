------------------------------ MODULE Ordering ------------------------------
(***************************************************************************)
(* Sorted lists (Go's sort, SQL's ORDER BY, the order of an S3 listing):   *)
(* an element comes after as many others as are smaller.  Unlike a choice  *)
(* among all permutations this can be reasoned about for every finite set. *)
(***************************************************************************)
EXTENDS Integers, Sequences, FiniteSets

(* A finite set as a sequence in the order of a relation.                  *)
InOrder(S, less) ==
    [i \in 1 .. Cardinality(S) |->
        CHOOSE k \in S : Cardinality({j \in S : <<j, k>> \in less}) = i - 1]

(* A finite set of numbers in ascending order.                             *)
Sorted(S) == InOrder(S, {p \in S \X S : p[1] < p[2]})
=============================================================================
