------------------------------ MODULE Sharding ------------------------------
(***************************************************************************)
(* The pure part of package sched: how a bucket is assigned to one member  *)
(* of the scheduler group, and how wall-clock time is cut into slots.      *)
(*                                                                         *)
(* Host names are natural numbers: the code only compares them (sort,      *)
(* SearchStrings, equality).  Time is a natural number of ticks.           *)
(***************************************************************************)
EXTENDS Ordering, SequencesExt

(* Group.Members after the SCAN: duplicates dropped, `me' always present,  *)
(* sorted.  `live' is what the SCAN has found, all at one moment: a SCAN   *)
(* in several parts may also miss a key that appears meanwhile, or find    *)
(* one that expires, as one of an earlier or a later moment would.         *)
Members(live, me) == Sorted(live \cup {me})

(* sort.SearchStrings: the 0-based index of the first element >= me, or    *)
(* Len(members) when there is none.                                        *)
SearchStrings(members, me) ==
    CHOOSE i \in 0 .. Len(members) :
        /\ \A j \in 1 .. i : members[j] < me
        /\ i < Len(members) => members[i + 1] >= me

(* A mutation of Mine: the remainder compared with the 1-based index.      *)
MineOffByOne(id, members, me) ==
    LET n == Len(members)
        i == SearchStrings(members, me)
    IN  \/ n = 0
        \/ i < n /\ members[i + 1] = me /\ id % n = i + 1

(* Does host `me' own bucket `id' under this list of members?              *)
Mine(id, members, me) ==
    LET n == Len(members)
        i == SearchStrings(members, me)
    IN  \/ n = 0
        \/ /\ i < n
           /\ members[i + 1] = me
           /\ id % n = i

(* Slot: the start of the slot that contains `now' (its name in the claim  *)
(* key), and the TTL of a claim made in it, the remaining time raised to   *)
(* at least minTTL (one second in the code).                               *)
SlotStart(now, interval) == now - (now % interval)

(* A mutation of SlotTTL: the TTL ends one tick before the slot.           *)
SlotTTLShort(now, interval, minTTL) ==
    LET rest == SlotStart(now, interval) + interval - now - 1
    IN  IF rest < minTTL THEN minTTL ELSE rest

SlotTTL(now, interval, minTTL) ==
    LET rest == SlotStart(now, interval) + interval - now
    IN  IF rest < minTTL THEN minTTL ELSE rest

-----------------------------------------------------------------------------
(* What Members returns: a list without duplicates in ascending order.     *)
Ascending(members) ==
    /\ members \in Seq(Nat)
    /\ \A i, j \in 1 .. Len(members) : i < j => members[i] < members[j]

(* A group that shares one view of its members gives every bucket exactly  *)
(* one owner (sched.Mine).                                                 *)
OneOwner(members, id) ==
    \E i \in 1 .. Len(members) :
        /\ Mine(id, members, members[i])
        /\ \A j \in 1 .. Len(members) :
               Mine(id, members, members[j]) => j = i
=============================================================================
