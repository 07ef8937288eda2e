---------------------------- MODULE MCBucketSync ----------------------------
(* Small instances of a bucket with batches, scans and clients for TLC.    *)
EXTENDS BucketSync

(* Key 11 has the trash key 1; 12 the trash key 2.                         *)
MCKeys == {1, 2, 11, 12}
MCTrashOf == [k \in {11, 12} |-> k - 10]
MCInitS3 == [k \in MCKeys |-> CASE k = 11 -> 7 [] k = 12 -> 8 [] OTHER -> 0]
MCUnder == [d \in {100} |-> {11, 12}]

To(src, dest) == [src |-> src, dest |-> dest]

OneTrash == 1 :> [kind |-> "trash", items |-> <<To(11, 0)>>]

(* A directory is deleted while it changes.                                *)
DirectoryTrash == 1 :> [kind |-> "trash", items |-> <<To(100, 0)>>]
=============================================================================
