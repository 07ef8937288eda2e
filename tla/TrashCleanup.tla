---------------------------- MODULE TrashCleanup ----------------------------
(***************************************************************************)
(* Jobs.trash (internal/worker/jobs.go): the hourly job that empties the   *)
(* trash of a bucket, together with what changes the trash under it: soft  *)
(* deletes (objects/apply.go), inventory scans (scanBucket), uploads, and  *)
(* the administrator who edits the policy.                                 *)
(*                                                                         *)
(* Time is counted in days, as the retention is.  The age of a row is the  *)
(* time since its last_seen_at; ages stop at Limit, where every policy     *)
(* counts them as expired, so that days may pass without end.  Scans and   *)
(* soft deletes take less than a day; a sweep may take longer.             *)
(***************************************************************************)
EXTENDS Settings, FiniteSets

CONSTANTS
    Keys,        \* user keys; each has its key in the trash
    Sweepers,    \* goroutines that run trash tasks
    Policies,    \* what the rows of the policy may say
    MaxFaults    \* bound: calls that fail and workers that die

DefaultDays == 0
Days == {CleanupPolicy(p, DefaultDays).days : p \in Policies}
Limit == 1 + CHOOSE d \in Days : \A e \in Days : e <= d

ASSUME TrashAssumption ==
    /\ Policies # {} /\ Days \subseteq Int /\ Limit \in Nat
    /\ MaxFaults \in Nat

NoRow == -1

VARIABLES
    live,       \* the keys under which users have an object
    trash,      \* the keys that have an object in the trash
    row,        \* row[k]: the age of the row of k's trash key, or NoRow
    policy,     \* the rows of platform_settings
    del,        \* del[k]: the next call of the soft delete of k
    scan,       \* the next step of the inventory scan
    listed,     \* keys it has listed and not yet upserted
    seen,       \* rows written with a time not before the scan's start
    recent,     \* soft deletes whose batch began after the scan
    swp,        \* swp[s]: the next call of sweeper s
    days,       \* days[s]: the retention it has read
    todo,       \* todo[s]: what is left of the expired rows it has read
    cur,        \* cur[s]: the key it works on
    faults,
    since,      \* history: since[k], the age of the object in the trash
    again,      \* history: objects put into the trash while the row of an
                \*   earlier deletion was there, and that row not renewed since
    redone      \* history: redone[s], keys put into the trash during s's sweep,
                \*   or that had an outdated row when s read the rows

data == <<live, trash, row>>
scanVars == <<scan, listed, seen>>
sweepVars == <<swp, days, todo, cur>>
vars == <<data, policy, del, scanVars, recent, sweepVars, faults, since, again, redone>>

Ages == 0 .. Limit

TypeOK ==
    /\ live \subseteq Keys /\ trash \subseteq Keys
    /\ row \in [Keys -> Ages \cup {NoRow}]
    /\ policy \in Policies
    /\ del \in [Keys -> {"idle", "copy", "delete", "record"}]
    /\ scan \in {"idle", "upsert"}
    /\ listed \subseteq Keys /\ seen \subseteq Keys /\ recent \subseteq Keys
    /\ swp \in [Sweepers -> {"idle", "query", "object", "row"}]
    /\ days \in [Sweepers -> Days \cup {0}]
    /\ todo \in [Sweepers -> SUBSET Keys]
    /\ cur \in [Sweepers -> SUBSET Keys]
    /\ \A s \in Sweepers : Cardinality(cur[s]) = IF swp[s] = "row" THEN 1 ELSE 0
    /\ faults \in 0 .. MaxFaults
    /\ since \in [Keys -> Ages]
    /\ again \subseteq trash /\ redone \in [Sweepers -> SUBSET Keys]

Init ==
    /\ live = Keys /\ trash = {}
    /\ row = [k \in Keys |-> NoRow]
    /\ policy \in Policies
    /\ del = [k \in Keys |-> "idle"]
    /\ scan = "idle" /\ listed = {} /\ seen = {} /\ recent = {}
    /\ swp = [s \in Sweepers |-> "idle"]
    /\ days = [s \in Sweepers |-> 0]
    /\ todo = [s \in Sweepers |-> {}]
    /\ cur = [s \in Sweepers |-> {}]
    /\ faults = 0
    /\ since = [k \in Keys |-> 0]
    /\ again = {} /\ redone = [s \in Sweepers |-> {}]

Fault == faults < MaxFaults /\ faults' = faults + 1
Older(age) == IF age \in 0 .. Limit - 1 THEN age + 1 ELSE age

-----------------------------------------------------------------------------
(* Users upload objects, and the administrator edits the policy.           *)
Upload(k) ==
    /\ k \notin live
    /\ live' = live \cup {k}
    /\ UNCHANGED <<trash, row, policy, del, scanVars, recent, sweepVars, faults, since, again, redone>>

SetPolicy ==
    /\ policy' \in Policies \ {policy}
    /\ UNCHANGED <<data, del, scanVars, recent, sweepVars, faults, since, again, redone>>

(* A day passes.                                                           *)
NextDay ==
    /\ scan = "idle" /\ \A k \in Keys : del[k] = "idle"
    /\ row' = [k \in Keys |-> Older(row[k])]
    /\ since' = [k \in Keys |-> IF k \in trash THEN Older(since[k]) ELSE since[k]]
    /\ UNCHANGED <<live, trash, policy, del, scanVars, recent, sweepVars, faults, again, redone>>

-----------------------------------------------------------------------------
(* ApplyDelete: HeadObject, CopyObject, DeleteObject, MoveKey.  The time   *)
(* it records was read when its batch began, before or after the scan.     *)
Delete(k, label) == del' = [del EXCEPT ![k] = label]

DeleteBegin(k) ==
    /\ del[k] = "idle" /\ k \in live
    /\ Delete(k, "copy")
    /\ recent' \in IF scan = "idle" THEN {recent} ELSE {recent, recent \cup {k}}
    /\ UNCHANGED <<data, policy, scanVars, sweepVars, faults, since, again, redone>>

DeleteCopy(k) ==
    /\ del[k] = "copy"
    /\ IF k \in live
         THEN /\ trash' = trash \cup {k}
              /\ since' = [since EXCEPT ![k] = 0]
              /\ redone' = [s \in Sweepers |->
                    IF swp[s] # "idle" THEN redone[s] \cup {k} ELSE redone[s]]
              /\ again' = IF row[k] # NoRow THEN again \cup {k} ELSE again \ {k}
              /\ Delete(k, "delete")
         ELSE Delete(k, "idle") /\ UNCHANGED <<trash, since, again, redone>>
    /\ UNCHANGED <<live, row, policy, scanVars, recent, sweepVars, faults>>

DeleteObject(k) ==
    /\ del[k] = "delete"
    /\ live' = live \ {k}
    /\ Delete(k, "record")
    /\ UNCHANGED <<trash, row, policy, scanVars, recent, sweepVars, faults, since, again, redone>>

(* MoveKey gives the row the time of its batch: when that is before the    *)
(* running scan, the scan's own mark on the row is lost.                   *)
DeleteRecord(k) ==
    /\ del[k] = "record"
    /\ row' = [row EXCEPT ![k] = 0]
    /\ seen' = IF k \in recent THEN seen \cup {k} ELSE seen \ {k}
    /\ again' = again \ {k}
    /\ Delete(k, "idle")
    /\ UNCHANGED <<live, trash, policy, scan, listed, recent, sweepVars, faults, since, redone>>

(* A call fails, or the worker dies.                                       *)
DeleteStops(k) ==
    /\ del[k] # "idle"
    /\ Fault
    /\ Delete(k, "idle")
    /\ UNCHANGED <<data, policy, scanVars, recent, sweepVars, since, again, redone>>

-----------------------------------------------------------------------------
(* scanBucket, as far as the trash is concerned: it lists every key of the *)
(* bucket, the trash included, and gives every row the time of its start.  *)
ScanList ==
    /\ scan = "idle"
    /\ scan' = "upsert"
    /\ listed' = trash
    /\ seen' = {} /\ recent' = {}
    /\ UNCHANGED <<data, policy, del, sweepVars, faults, since, again, redone>>

ScanUpsert(k) ==
    /\ k \in listed
    /\ row' = [row EXCEPT ![k] = 0]
    /\ listed' = listed \ {k}
    /\ seen' = seen \cup {k}
    /\ again' = again \ {k}
    /\ UNCHANGED <<live, trash, policy, del, scan, recent, sweepVars, faults, since, redone>>

(* PurgeUnseen.                                                            *)
ScanPurge ==
    /\ scan = "upsert" /\ listed = {}
    /\ row' = [k \in Keys |-> IF k \in seen THEN row[k] ELSE NoRow]
    /\ scan' = "idle" /\ seen' = {} /\ recent' = {}
    /\ UNCHANGED <<live, trash, policy, del, listed, sweepVars, faults, since, again, redone>>

ScanStops ==
    /\ scan # "idle"
    /\ Fault
    /\ scan' = "idle" /\ listed' = {} /\ seen' = {} /\ recent' = {}
    /\ UNCHANGED <<data, policy, del, sweepVars, since, again, redone>>

-----------------------------------------------------------------------------
SweepGoto(s, label) == swp' = [swp EXCEPT ![s] = label]

(* A mutation of SweepOver: the item in hand is kept.                      *)
SweepOverKeepsItem(s) ==
    /\ SweepGoto(s, "idle")
    /\ days' = [days EXCEPT ![s] = 0]
    /\ todo' = [todo EXCEPT ![s] = {}]
    /\ redone' = [redone EXCEPT ![s] = {}]
    /\ UNCHANGED cur

(* Back to waiting for a task; nothing of the sweep is left.               *)
SweepOver(s) ==
    /\ SweepGoto(s, "idle")
    /\ days' = [days EXCEPT ![s] = 0]
    /\ todo' = [todo EXCEPT ![s] = {}]
    /\ cur' = [cur EXCEPT ![s] = {}]
    /\ redone' = [redone EXCEPT ![s] = {}]

(* Settings.TrashPolicy; a policy that is off ends the job here.           *)
SweepBegin(s) ==
    LET p == CleanupPolicy(policy, DefaultDays) IN
    /\ swp[s] = "idle"
    /\ ShouldCleanup(p)
    /\ SweepGoto(s, "query")
    /\ days' = [days EXCEPT ![s] = p.days]
    /\ UNCHANGED <<data, policy, del, scanVars, recent, todo, cur, faults, since, again, redone>>

(* expiredTrash: the rows older than so many days.                         *)
Expired(d) == {k \in Keys : row[k] # NoRow /\ row[k] > d}

SweepQuery(s) ==
    /\ swp[s] = "query"
    /\ LET found == Expired(days[s]) IN
       IF found = {}
         THEN SweepOver(s)
         ELSE /\ todo' = [todo EXCEPT ![s] = found]
              /\ SweepGoto(s, "object")
              /\ redone' = [redone EXCEPT ![s] = @ \cup (again \cap found)]
              /\ UNCHANGED <<days, cur>>
    /\ UNCHANGED <<data, policy, del, scanVars, recent, faults, since, again>>

(* A mutation of AfterObject: the row goes although the object stays.      *)
AfterObjectAlways(s, k, ok) ==
    /\ cur' = [cur EXCEPT ![s] = {k}]
    /\ todo' = [todo EXCEPT ![s] = @ \ {k}]
    /\ SweepGoto(s, "row")
    /\ UNCHANGED <<days, redone>>

(* A mutation of AfterObject: the next item, and the row stays.            *)
AfterObjectKeepsRow(s, k, ok) ==
    IF todo[s] # {k}
      THEN todo' = [todo EXCEPT ![s] = @ \ {k}] /\ UNCHANGED <<swp, days, cur, redone>>
      ELSE SweepOver(s)

(* The row is deleted next when the object is gone; a failure only leads   *)
(* to the next item.                                                       *)
AfterObject(s, k, ok) ==
    IF ok
      THEN /\ cur' = [cur EXCEPT ![s] = {k}]
           /\ todo' = [todo EXCEPT ![s] = @ \ {k}]
           /\ SweepGoto(s, "row")
           /\ UNCHANGED <<days, redone>>
      ELSE IF todo[s] # {k}
      THEN todo' = [todo EXCEPT ![s] = @ \ {k}] /\ UNCHANGED <<swp, days, cur, redone>>
      ELSE SweepOver(s)

(* s3.DeleteObject of the next item.  A failed call may have taken effect. *)
SweepObject(s, k) ==
    /\ swp[s] = "object" /\ k \in todo[s]
    /\ \/ trash' = trash \ {k} /\ AfterObject(s, k, TRUE) /\ UNCHANGED faults
       \/ Fault /\ trash' \in {trash, trash \ {k}} /\ AfterObject(s, k, FALSE)
    /\ since' = [since EXCEPT ![k] = IF k \in trash' THEN @ ELSE 0]
    /\ again' = again \cap trash'
    /\ UNCHANGED <<live, row, policy, del, scanVars, recent>>

(* Objects.Delete; its failure ends the job.                               *)
SweepRow(s) ==
    /\ swp[s] = "row"
    /\ \/ /\ row' = [k \in Keys |-> IF k \in cur[s] THEN NoRow ELSE row[k]]
          /\ UNCHANGED faults
          /\ IF todo[s] = {} THEN SweepOver(s)
             ELSE /\ cur' = [cur EXCEPT ![s] = {}]
                  /\ SweepGoto(s, "object")
                  /\ UNCHANGED <<days, todo, redone>>
       \/ Fault /\ SweepOver(s) /\ UNCHANGED row
    /\ UNCHANGED <<live, trash, policy, del, scanVars, recent, since, again>>

(* A query fails, or the worker dies.                                      *)
SweepStops(s) ==
    /\ swp[s] # "idle"
    /\ Fault
    /\ SweepOver(s)
    /\ UNCHANGED <<data, policy, del, scanVars, recent, since, again>>

SweepStep(s) ==
    \/ SweepBegin(s) \/ SweepQuery(s) \/ SweepRow(s)
    \/ \E k \in Keys : SweepObject(s, k)

ScanStep == ScanPurge \/ \E k \in Keys : ScanUpsert(k)

DeleteStep(k) == DeleteCopy(k) \/ DeleteObject(k) \/ DeleteRecord(k)

Next ==
    \/ SetPolicy \/ NextDay \/ ScanList \/ ScanStep \/ ScanStops
    \/ \E k \in Keys : Upload(k) \/ DeleteBegin(k) \/ DeleteStep(k) \/ DeleteStops(k)
    \/ \E s \in Sweepers : SweepStep(s) \/ SweepStops(s)

Spec == Init /\ [][Next]_vars

(* Days pass whatever the jobs do; the scheduler starts sweeps again and   *)
(* again, and every call returns.  Nothing is assumed of when scans start. *)
FairSpec ==
    /\ Spec
    /\ SF_vars(NextDay)
    /\ WF_vars(ScanStep)
    /\ \A k \in Keys : WF_vars(DeleteStep(k))
    /\ \A s \in Sweepers : WF_vars(SweepStep(s))

(* The scheduler starts scans again and again too.                         *)
ScanFairSpec == FairSpec /\ WF_vars(ScanList)

-----------------------------------------------------------------------------
Purges(s, k) == swp[s] = "object" /\ k \in todo[s] /\ todo'[s] # todo[s]
                  /\ k \in trash /\ k \notin trash'

(* What a sweep removes from the trash has been there for longer than the  *)
(* retention, whatever the policies, scans, crashes and other sweeps do;   *)
(* unless the object was put into the trash after the sweep had begun, or  *)
(* while the row of an earlier deletion of its key was there and MoveKey   *)
(* then did not happen.                                                    *)
FirstDeletionKept ==
    [][\A s \in Sweepers, k \in Keys :
         Purges(s, k) => (since[k] >= 1 /\ since[k] > days[s]) \/ k \in redone[s]]_vars

(* A sweep deletes the row of no object that is still in the trash: the    *)
(* object would be forgotten until a scan finds it.                        *)
NoObjectForgotten ==
    [][\A s \in Sweepers, k \in Keys :
         (swp[s] = "row" /\ swp'[s] # "row" /\ row[k] # NoRow /\ row'[k] = NoRow)
            => k \notin trash \/ k \in redone[s]]_vars

On == ShouldCleanup(CleanupPolicy(policy, DefaultDays))

(* While cleanup is on an expired row does not stay: its object and the    *)
(* row are removed in the end, after any number of failures, unless a scan *)
(* or another deletion renews it.                                          *)
ExpiredRowSwept ==
    \A k \in Keys : (row[k] = Limit /\ On) ~> (row[k] < Limit \/ ~On)

(* An object that has been in the trash for longer than the retention is   *)
(* removed in the end, or else deleted again in the meantime: the promise  *)
(* of the hourly job, in a system that runs its scans as well.             *)
TrashExpires ==
    \A k \in Keys :
        (k \in trash /\ since[k] = Limit) ~> (k \notin trash \/ since[k] < Limit)
=============================================================================
