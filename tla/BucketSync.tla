----------------------------- MODULE BucketSync -----------------------------
(***************************************************************************)
(* One bucket under everything that works on it at the same time: batch    *)
(* handlers, inventory scans, and clients that put and delete objects      *)
(* directly in S3 (presigned requests), which only a scan notices.         *)
(***************************************************************************)
EXTENDS BatchJobs, Inventory

CONSTANT MaxWrites    \* bound: requests of clients

(* Batches and scans read one clock; no scanner has the name under which   *)
(* the others' changes are remembered.                                     *)
ASSUME SyncAssumption ==
    /\ MaxWrites \in Nat
    /\ MaxClock <= MaxTime
    /\ "batch" \notin Scanners /\ "client" \notin Scanners

VARIABLE writes       \* requests of clients so far; names new content

syncVars == <<store, batchVars, scanVars, writes>>

SyncInit == StoreInit /\ BatchInit /\ ScanInit /\ writes = 0

ClientPut(k) ==
    /\ writes < MaxWrites
    /\ writes' = writes + 1
    /\ s3' = [s3 EXCEPT ![k] = 100 + writes]
    /\ UNCHANGED <<rec, clock, batchVars, scanLocal, scans, aborts, marked>>
    /\ Touch("client")

ClientDelete(k) ==
    /\ s3[k] # 0
    /\ writes < MaxWrites
    /\ writes' = writes + 1
    /\ s3' = DeleteObject(k)
    /\ UNCHANGED <<rec, clock, batchVars, scanLocal, scans, aborts, marked>>
    /\ Touch("client")

BatchStep ==
    /\ BatchNext
    /\ UNCHANGED <<scanLocal, scans, aborts, marked, writes>>
    /\ Touch("batch")

InventoryStep == ScanNext /\ UNCHANGED <<batchVars, writes>>

ClientStep == \E k \in UserKeys : ClientPut(k) \/ ClientDelete(k)

SyncNext == BatchStep \/ InventoryStep \/ ClientStep

SyncSpec == SyncInit /\ [][SyncNext]_syncVars

(* A scan that has begun goes on, and so do the handlers of batches: the   *)
(* queue hands out what it has, and every call returns.                    *)
BatchWork(w) ==
    /\ Work(w)
    /\ UNCHANGED <<scanLocal, scans, aborts, marked, writes>>
    /\ Touch("batch")

SyncFairSpec ==
    /\ SyncSpec
    /\ \A s \in Scanners : WF_syncVars(ScanStep(s) /\ UNCHANGED <<batchVars, writes>>)
    /\ \A w \in Workers : WF_syncVars(BatchWork(w))

-----------------------------------------------------------------------------
SyncTypeOK == StoreOK /\ BatchOK /\ ScanOK
=============================================================================
