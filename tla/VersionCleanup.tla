--------------------------- MODULE VersionCleanup ---------------------------
(***************************************************************************)
(* Jobs.cleanVersions (internal/worker/jobs.go): the job that removes the  *)
(* expired versions of the objects of a bucket, over file_versions         *)
(* (internal/versions/store.go) and the objects under .versions/ in S3.    *)
(* The tenant API adds versions of an object through the same store.       *)
(*                                                                         *)
(* A version is its id, a number of the table's sequence.  The API stores  *)
(* the object of a version under a storage key of its own, before its row. *)
(* Ages are counted in days and stop at Limit, where every policy counts   *)
(* them as expired.                                                        *)
(***************************************************************************)
EXTENDS Settings, FiniteSets, FiniteSetsExt

CONSTANTS
    MaxVersions,  \* bound: versions that are added
    Writers,      \* API requests that add a version
    Sweepers,     \* goroutines that run version tasks
    Policies,     \* what the rows of the policy may say
    Stuck,        \* versions whose object S3 always refuses to delete
    RowLimit,     \* the LIMIT of expired: 5000 in the code
    MaxFaults     \* bound: calls that fail and workers that die

Versions == 1 .. MaxVersions
DefaultDays == 0
Days == {p.days : p \in {CleanupPolicy(q, DefaultDays) : q \in Policies}}
Retentions == {p.days : p \in {q \in {CleanupPolicy(r, DefaultDays) : r \in Policies} : ShouldCleanup(q)}}
Limit == 1 + CHOOSE d \in Days : \A e \in Days : e <= d
Shortest == CHOOSE d \in Retentions : \A e \in Retentions : d <= e

ASSUME VersionAssumption ==
    /\ MaxVersions \in Nat /\ RowLimit \in Nat \ {0} /\ MaxFaults \in Nat
    /\ Retentions # {} /\ Retentions \subseteq Nat /\ Shortest \in Nat /\ Limit \in Nat
    /\ \A d \in Retentions : Shortest <= d /\ d < Limit

VARIABLES
    rows,      \* ids in file_versions
    last,      \* the last id of the sequence
    no,        \* no[v]: version_no
    age,       \* age[v]: days since created_at
    objs,      \* versions whose object S3 stores
    taken,     \* taken[p]: the number NextNo gave to writer p, or 0
    policy,    \* the rows of platform_settings
    swp,       \* swp[s]: the next call of sweeper s
    days,      \* days[s]: the retention it has read
    todo,      \* todo[s]: what is left of the expired rows it has read
    faults,
    alone      \* history: writers that nobody has overtaken since NextNo

table == <<rows, last, no, age>>
writeVars == <<taken, alone>>
sweepVars == <<swp, days, todo>>
vars == <<table, objs, writeVars, policy, sweepVars, faults>>

TypeOK ==
    /\ rows \subseteq 1 .. last /\ objs \subseteq 1 .. last /\ last \in 0 .. MaxVersions
    /\ no \in [Versions -> 0 .. MaxVersions] /\ age \in [Versions -> 0 .. Limit]
    /\ taken \in [Writers -> 0 .. MaxVersions] /\ alone \subseteq Writers
    /\ policy \in Policies
    /\ swp \in [Sweepers -> {"idle", "query", "object", "row"}]
    /\ days \in [Sweepers -> Days \cup {0}]
    /\ todo \in [Sweepers -> SUBSET Versions]
    /\ \A s \in Sweepers : todo[s] # {} <=> swp[s] \in {"object", "row"}
    /\ faults \in 0 .. MaxFaults

Init ==
    /\ rows = {} /\ last = 0 /\ objs = {}
    /\ no = [v \in Versions |-> 0] /\ age = [v \in Versions |-> 0]
    /\ taken = [p \in Writers |-> 0] /\ alone = {}
    /\ policy \in Policies
    /\ swp = [s \in Sweepers |-> "idle"]
    /\ days = [s \in Sweepers |-> 0]
    /\ todo = [s \in Sweepers |-> {}]
    /\ faults = 0

Fault == faults < MaxFaults /\ faults' = faults + 1

-----------------------------------------------------------------------------
(* A mutation of NextNo: the rows are counted.                             *)
NextNoCounts == Cardinality(rows) + 1

(* Store.NextNo: COALESCE(MAX(version_no), 0) + 1 over the rows there are. *)
NextNo == Max({0} \cup {no[v] : v \in rows}) + 1

TakeNo(p) ==
    /\ taken[p] = 0 /\ last < MaxVersions
    /\ taken' = [taken EXCEPT ![p] = NextNo]
    /\ alone' = alone \cup {p}
    /\ UNCHANGED <<table, objs, policy, sweepVars, faults>>

(* Store.Insert; the sequence gives the id.  The API, which is not part of *)
(* the repository, has stored the object before; no job knows of it until  *)
(* the row names its storage key, so that it counts from here.  An object  *)
(* whose row was never inserted is not among the versions.                 *)
Insert(p) ==
    /\ taken[p] # 0 /\ last < MaxVersions
    /\ last' = last + 1
    /\ rows' = rows \cup {last'} /\ objs' = objs \cup {last'}
    /\ no' = [no EXCEPT ![last'] = taken[p]]
    /\ taken' = [taken EXCEPT ![p] = 0]
    /\ alone' = {}
    /\ UNCHANGED <<age, policy, sweepVars, faults>>

(* A day passes; the administrator edits the policy.                       *)
NextDay ==
    /\ age' = [v \in Versions |-> IF v \in rows /\ age[v] < Limit THEN age[v] + 1 ELSE age[v]]
    /\ UNCHANGED <<rows, last, no, objs, writeVars, policy, sweepVars, faults>>

SetPolicy ==
    /\ policy' \in Policies \ {policy}
    /\ UNCHANGED <<table, objs, writeVars, sweepVars, faults>>

-----------------------------------------------------------------------------
(* A mutation of GoOn: the end of the list is not noticed.                 *)
GoOnPastEnd(s, rest) ==
    /\ todo' = [todo EXCEPT ![s] = rest]
    /\ swp' = [swp EXCEPT ![s] = "object"]
    /\ days' = [days EXCEPT ![s] = IF rest = {} THEN 0 ELSE @]

(* The sweeper has these rows left.                                        *)
GoOn(s, rest) ==
    /\ todo' = [todo EXCEPT ![s] = rest]
    /\ swp' = [swp EXCEPT ![s] = IF rest = {} THEN "idle" ELSE "object"]
    /\ days' = [days EXCEPT ![s] = IF rest = {} THEN 0 ELSE @]

(* The row in hand: the loop goes through the rows in the order of ids.    *)
InHand(s, v) == v \in todo[s] /\ \A u \in todo[s] : v <= u

(* Settings.VersionPolicy; a policy that is off ends the job here.         *)
SweepBegin(s) ==
    LET p == CleanupPolicy(policy, DefaultDays) IN
    /\ swp[s] = "idle"
    /\ ShouldCleanup(p)
    /\ swp' = [swp EXCEPT ![s] = "query"]
    /\ days' = [days EXCEPT ![s] = p.days]
    /\ UNCHANGED <<table, objs, writeVars, policy, todo, faults>>

(* A mutation of Expired: the comparison includes the last day.            *)
ExpiredADayEarly(d) ==
    LET found == {v \in rows : age[v] >= d}
    IN  {v \in found : Cardinality({u \in found : u < v}) < RowLimit}

(* Store.expired: the rows older than so many days, in the order of their  *)
(* ids and no more than the limit.                                         *)
Expired(d) ==
    LET found == {v \in rows : age[v] > d}
    IN  {v \in found : Cardinality({u \in found : u < v}) < RowLimit}

SweepQuery(s) ==
    /\ swp[s] = "query"
    /\ GoOn(s, Expired(days[s]))
    /\ UNCHANGED <<table, objs, writeVars, policy, faults>>

(* A mutation of DeleteFailed: the sweep ends there.                       *)
DeleteFailedEnds(s, v) == GoOn(s, {})

(* A failing DeleteObject is logged and the next row is next.              *)
DeleteFailed(s, v) == GoOn(s, todo[s] \ {v})

(* s3.DeleteObject; a failed call may have taken effect.                   *)
SweepObject(s, v) ==
    /\ swp[s] = "object" /\ InHand(s, v)
    /\ \/ /\ v \notin Stuck
          /\ objs' = objs \ {v}
          /\ swp' = [swp EXCEPT ![s] = "row"]
          /\ UNCHANGED <<days, todo, faults>>
       \/ v \in Stuck /\ DeleteFailed(s, v) /\ UNCHANGED <<objs, faults>>
       \/ v \notin Stuck /\ Fault /\ objs' \in {objs, objs \ {v}} /\ DeleteFailed(s, v)
    /\ UNCHANGED <<table, writeVars, policy>>

(* Store.Delete by id.                                                     *)
DeleteRow(v) ==
    /\ rows' = rows \ {v}
    /\ no' = [no EXCEPT ![v] = 0]
    /\ age' = [age EXCEPT ![v] = 0]

(* Versions.Delete; its failure ends the job.                              *)
SweepRow(s, v) ==
    /\ swp[s] = "row" /\ InHand(s, v)
    /\ \/ DeleteRow(v) /\ GoOn(s, todo[s] \ {v}) /\ UNCHANGED faults
       \/ Fault /\ GoOn(s, {}) /\ UNCHANGED <<rows, no, age>>
    /\ UNCHANGED <<last, objs, writeVars, policy>>

(* A query fails, or the worker dies.                                      *)
SweepStops(s) ==
    /\ swp[s] # "idle"
    /\ Fault
    /\ GoOn(s, {})
    /\ UNCHANGED <<table, objs, writeVars, policy>>

SweepStep(s) ==
    \/ SweepBegin(s) \/ SweepQuery(s)
    \/ \E v \in Versions : SweepObject(s, v) \/ SweepRow(s, v)

Next ==
    \/ NextDay \/ SetPolicy
    \/ \E p \in Writers : TakeNo(p) \/ Insert(p)
    \/ \E s \in Sweepers : SweepStep(s) \/ SweepStops(s)

Spec == Init /\ [][Next]_vars

(* The scheduler starts sweeps again and again, and every call returns;    *)
(* days pass.                                                              *)
FairSpec == Spec /\ WF_vars(NextDay) /\ \A s \in Sweepers : WF_vars(SweepStep(s))

-----------------------------------------------------------------------------
On == ShouldCleanup(CleanupPolicy(policy, DefaultDays))

(* While cleanup is on, every version that S3 lets go of is removed in the *)
(* end, however sweeps fail and die, and although the rows of versions     *)
(* that it does not let go of come first in every query: as long as they   *)
(* are fewer than the limit.                                               *)
VersionsExpire ==
    \A v \in Versions \ Stuck : (v \in rows /\ On) ~> (v \notin rows \/ ~On)

(* A version gets a higher number than all that are left of its object,    *)
(* whatever the cleanup has removed since and before NextNo, unless        *)
(* another writer inserted one in between.                                 *)
NumbersGrow ==
    [][\A p \in alone :
         (taken[p] # 0 /\ taken'[p] = 0) => \A v \in rows : no[v] < taken[p]]_vars

-----------------------------------------------------------------------------
(* Where each version is in its life.                                      *)
Phase ==
    [v \in Versions |-> CASE v \in rows /\ v \in objs -> "kept"
                          [] v \in rows /\ v \notin objs -> "emptied"
                          [] v \notin rows /\ v \in objs -> "leaked"
                          [] v \notin rows /\ v \notin objs /\ v <= last -> "gone"
                          [] OTHER -> "none"]

Retention == INSTANCE VersionRetention WITH
    phase <- Phase, expired <- {v \in rows : age[v] > Shortest}

(* Sweeps on stale lists, that fail and die between the two deletions,     *)
(* implement the retention: nothing goes before the shortest retention     *)
(* that a policy in force ever named, the object goes before the row, and  *)
(* no object is left without one.                                          *)
ImplementsRetention == Retention!Spec
=============================================================================
