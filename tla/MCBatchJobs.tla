---------------------------- MODULE MCBatchJobs -----------------------------
(* A small instance of the batch handlers for TLC.                         *)
EXTENDS BatchJobs

(* Keys 11, 12 and 13 have the trash keys 1, 2 and 3, which sort first.    *)
MCKeys == {1, 2, 3, 11, 12, 13}
MCTrashOf == [k \in {11, 12, 13} |-> k - 10]

(* 11 was deleted before and uploaded again.                               *)
MCInitS3 == [k \in MCKeys |-> CASE k = 11 -> 7 [] k = 12 -> 8 [] k = 1 -> 9 [] OTHER -> 0]

(* Directory 100 contains 11 and 12.                                       *)
MCUnder == [d \in {100} |-> {11, 12}]

To(src, dest) == [src |-> src, dest |-> dest]
Del(name) == [src |-> name, dest |-> 0]

(* All kinds, with the key that one task frees as the destination of       *)
(* another, a move onto itself, a bucket that is not visible, a directory  *)
(* and an invalid key.                                                     *)
FourKinds ==
    1 :> [kind |-> "move", items |-> <<To(12, 12), To(12, 11)>>] @@
    2 :> [kind |-> "trash", items |-> <<Del(100)>>] @@
    3 :> [kind |-> "copy", items |-> <<To(11, 0), To(11, 13)>>] @@
    4 :> [kind |-> "purge", items |-> <<Del(13), Del(3)>>]

Perms == Permutations(Workers)
=============================================================================
