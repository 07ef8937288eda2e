---------------------------- MODULE ObjectStore -----------------------------
(***************************************************************************)
(* The two stores every job works on: the objects in S3 (external) and the *)
(* object_records table that mirrors them (internal/objects/store.go).     *)
(* No transaction spans both.                                              *)
(*                                                                         *)
(* A key is a natural number; the order of numbers is the order in which   *)
(* S3 lists keys.  The content of an object is a natural number that also  *)
(* stands for its size and its ETag; 0 is "no object".  A record keeps the *)
(* size and the ETag it was given separately, because the code takes them  *)
(* from different calls.                                                   *)
(***************************************************************************)
EXTENDS Ordering, SequencesExt

CONSTANTS
    Keys,       \* all object keys
    TrashOf,    \* the trash key of every user key
    InitS3      \* the objects there are at the start

UserKeys == DOMAIN TrashOf
TrashKeys == {TrashOf[k] : k \in UserKeys}

ASSUME KeysAssumption ==
    /\ Keys \subseteq Nat \ {0} /\ IsFiniteSet(Keys)
    /\ UserKeys \subseteq Keys /\ TrashKeys \subseteq Keys \ UserKeys
    /\ \A j, k \in UserKeys : TrashOf[j] = TrashOf[k] => j = k
    /\ InitS3 \in [Keys -> Nat]

VARIABLES
    s3,       \* s3[k]: the content stored under key k
    rec,      \* rec[k]: the row of object_records for key k
    clock     \* the time job handlers read, never going back

store == <<s3, rec, clock>>

Row(size, etag, at) == [size |-> size, etag |-> etag, seen |-> at]
NoRow == Row(0, 0, 0)

(* ToTrashKey; keys outside the domain are not valid user keys.            *)
ToTrashKey(k) == TrashOf[k]

(* s3.CopyObject: S3 refuses to copy an object onto itself unchanged.      *)
CanCopy(from, to) == s3[from] # 0 /\ from # to
CopyObject(to, from) == [s3 EXCEPT ![to] = s3[from]]

(* s3.DeleteObject succeeds whether or not the key exists.                 *)
DeleteObject(k) == [s3 EXCEPT ![k] = 0]

(* Store.Delete.                                                           *)
DeleteRow(k) == [rec EXCEPT ![k] = NoRow]

(* Store.Upsert.                                                           *)
Upsert(k, size, etag, at) == [rec EXCEPT ![k] = Row(size, etag, at)]

(* A mutation of MoveKey: the row of the source is left behind.            *)
MoveKeyCopies(from, to, size, etag, at) == [rec EXCEPT ![to] = Row(size, etag, at)]

(* Store.MoveKey, one transaction: the row of the destination is dropped,  *)
(* the row of the source becomes the destination's, or a row is inserted   *)
(* when the source had none.                                               *)
MoveKey(from, to, size, etag, at) ==
    [[rec EXCEPT ![from] = NoRow] EXCEPT ![to] = Row(size, etag, at)]

(* Store.UpsertSeen: everything the listing says, and the time the scan    *)
(* started, overwrite the row.                                             *)
UpsertSeen(k, content, at) == [rec EXCEPT ![k] = Row(content, content, at)]

(* A mutation of PurgeUnseen: the rows of this very scan go too.           *)
PurgeUnseenTooMuch(at) ==
    [k \in Keys |-> IF rec[k].seen <= at THEN NoRow ELSE rec[k]]

(* Store.PurgeUnseen: rows last seen before the scan started disappear; a  *)
(* row that was never seen (NULL) has seen = 0.                            *)
PurgeUnseen(at) ==
    [k \in Keys |-> IF rec[k].seen < at THEN NoRow ELSE rec[k]]

(* The row of k is present exactly when the object is, and describes it.   *)
Agrees(k) == rec[k].etag = s3[k] /\ rec[k].size = s3[k]

(* The stores agree at the start, at time 1.                               *)
StoreInit ==
    /\ s3 = InitS3
    /\ rec = [k \in Keys |-> IF s3[k] = 0 THEN NoRow ELSE Row(s3[k], s3[k], 1)]
    /\ clock = 1

Rows == [size : Nat, etag : Nat, seen : Nat]

StoreOK ==
    /\ s3 \in [Keys -> Nat]
    /\ rec \in [Keys -> Rows]
    /\ clock \in Nat
=============================================================================
