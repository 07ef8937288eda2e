--------------------------- MODULE UploadCleanup ----------------------------
(***************************************************************************)
(* Jobs.cleanMultipart (internal/worker/jobs.go): the job that aborts      *)
(* multipart uploads that nobody has finished, over the upload_tasks table *)
(* (internal/uploads/store.go) and the multipart uploads in S3.  The       *)
(* tenant API completes uploads through the same store at the same time.   *)
(*                                                                         *)
(* An upload is a natural number, its id.  S3 refuses to abort or complete *)
(* an upload that it does not have (any more).                             *)
(***************************************************************************)
EXTENDS Settings, Ordering, SequencesExt

CONSTANTS
    Uploads,      \* ids of the multipart tasks
    HasId,        \* those whose row names an S3 upload
    Sweepers,     \* goroutines that run multipart tasks
    Policies,     \* what the rows of the policy may say
    RowLimit,     \* the LIMIT of staleMultipart: 5000 in the code
    MaxFaults,    \* bound: calls that fail without effect
    MaxLosses     \* bound: uploads settled in S3 whose row is not updated

DefaultDays == 7

ASSUME UploadAssumption ==
    /\ HasId \subseteq Uploads /\ Uploads \subseteq Nat /\ IsFiniteSet(Uploads)
    /\ Policies # {} /\ RowLimit \in Nat \ {0}
    /\ MaxFaults \in Nat /\ MaxLosses \in Nat

VARIABLES
    parts,     \* uploads whose parts S3 stores
    objects,   \* uploads that S3 has made an object of
    status,    \* upload_tasks.status
    stale,     \* tasks past their age or their expired_at
    api,       \* uploads that the API has completed and not yet recorded
    policy,    \* the rows of platform_settings
    swp,       \* swp[s]: the next call of sweeper s
    todo,      \* todo[s]: the tasks it has read and not yet handled
    faults,
    lost       \* history: uploads that S3 has settled, and nobody recorded it

uploadVars == <<parts, objects, status>>
sweepVars == <<swp, todo>>
vars == <<uploadVars, stale, api, policy, sweepVars, faults, lost>>

TypeOK ==
    /\ parts \subseteq HasId /\ objects \subseteq HasId \ parts
    /\ status \in [Uploads -> {"pending", "completed", "aborted"}]
    /\ stale \subseteq Uploads /\ api \subseteq objects
    /\ policy \in Policies
    /\ swp \in [Sweepers -> {"idle", "query", "abort", "finish"}]
    /\ \A s \in Sweepers :
         /\ ToSet(todo[s]) \subseteq Uploads
         /\ todo[s] # <<>> <=> swp[s] \in {"abort", "finish"}
    /\ faults \in 0 .. MaxFaults /\ lost \subseteq HasId \ parts

Init ==
    /\ parts = HasId /\ objects = {} /\ api = {}
    /\ status = [u \in Uploads |-> "pending"]
    /\ stale = {}
    /\ policy \in Policies
    /\ swp = [s \in Sweepers |-> "idle"]
    /\ todo = [s \in Sweepers |-> <<>>]
    /\ faults = 0 /\ lost = {}

Fault == faults < MaxFaults /\ faults' = faults + 1
Loss(u) == Cardinality(lost) < MaxLosses /\ lost' = lost \cup {u}

(* Store.Finish: the status is written whatever it was.                    *)
Finish(u, to) == [status EXCEPT ![u] = to]

-----------------------------------------------------------------------------
(* Time passes; the administrator edits the policy.                        *)
AgeOut(u) ==
    /\ u \notin stale
    /\ stale' = stale \cup {u}
    /\ UNCHANGED <<uploadVars, api, policy, sweepVars, faults, lost>>

SetPolicy ==
    /\ policy' \in Policies \ {policy}
    /\ UNCHANGED <<uploadVars, stale, api, sweepVars, faults, lost>>

(* The tenant API: CompleteMultipart, and then Finish; it may die between. *)
Complete(u) ==
    /\ u \in parts
    /\ parts' = parts \ {u}
    /\ objects' = objects \cup {u}
    /\ api' = api \cup {u}
    /\ UNCHANGED <<status, stale, policy, sweepVars, faults, lost>>

RecordDone(u) ==
    /\ u \in api
    /\ status' = Finish(u, "completed")
    /\ api' = api \ {u}
    /\ UNCHANGED <<parts, objects, stale, policy, sweepVars, faults, lost>>

ApiStops(u) ==
    /\ u \in api
    /\ Loss(u)
    /\ api' = api \ {u}
    /\ UNCHANGED <<uploadVars, stale, policy, sweepVars, faults>>

-----------------------------------------------------------------------------
(* The call that handles a task: an abort, when there is an upload id.     *)
FirstCall(u) == IF u \in HasId THEN "abort" ELSE "finish"

(* A mutation of GoOn: the end of the list is not noticed.                 *)
GoOnPastEnd(s, rest) ==
    /\ todo' = [todo EXCEPT ![s] = rest]
    /\ swp' = [swp EXCEPT ![s] = IF rest = <<>> THEN "abort" ELSE FirstCall(Head(rest))]

(* The sweeper has these tasks left.                                       *)
GoOn(s, rest) ==
    /\ todo' = [todo EXCEPT ![s] = rest]
    /\ swp' = [swp EXCEPT ![s] = IF rest = <<>> THEN "idle" ELSE FirstCall(Head(rest))]

(* Settings.MultipartPolicy; a policy that is off ends the job here.       *)
SweepBegin(s) ==
    /\ swp[s] = "idle"
    /\ ShouldCleanup(CleanupPolicy(policy, DefaultDays))
    /\ swp' = [swp EXCEPT ![s] = "query"]
    /\ UNCHANGED <<uploadVars, stale, api, policy, todo, faults, lost>>

(* staleMultipart: stale tasks that are pending, in the order of their     *)
(* ids, and no more than the limit.                                        *)
StaleMultipart ==
    LET found == Sorted({u \in stale : status[u] = "pending"})
    IN  SubSeq(found, 1, IF Len(found) < RowLimit THEN Len(found) ELSE RowLimit)

SweepQuery(s) ==
    /\ swp[s] = "query"
    /\ GoOn(s, StaleMultipart)
    /\ UNCHANGED <<uploadVars, stale, api, policy, faults, lost>>

(* A mutation of AbortFailed: the row is updated all the same.             *)
AbortFailedGoesOn(s) == swp' = [swp EXCEPT ![s] = "finish"] /\ UNCHANGED todo

(* A mutation of AbortFailed: the sweep ends there.                        *)
AbortFailedEnds(s) == GoOn(s, <<>>)

(* An abort that failed is logged and the next task is next.               *)
AbortFailed(s) == GoOn(s, Tail(todo[s]))

(* AbortMultipart of the next task.                                        *)
SweepAbort(s) ==
    /\ swp[s] = "abort"
    /\ LET u == Head(todo[s]) IN
       \/ /\ u \in parts
          /\ parts' = parts \ {u}
          /\ swp' = [swp EXCEPT ![s] = "finish"]
          /\ UNCHANGED <<todo, faults, lost>>
       \/ u \notin parts /\ AbortFailed(s) /\ UNCHANGED <<parts, faults, lost>>
       \/ Fault /\ AbortFailed(s) /\ UNCHANGED <<parts, lost>>
       \/ u \in parts /\ Loss(u) /\ parts' = parts \ {u} /\ AbortFailed(s) /\ UNCHANGED faults
    /\ UNCHANGED <<objects, status, stale, api, policy>>

(* Uploads.Finish is not carried out; an upload that was aborted is lost.  *)
FinishFails(u) ==
    \/ u \in HasId /\ Loss(u) /\ UNCHANGED faults
    \/ u \notin HasId /\ Fault /\ UNCHANGED lost

(* Uploads.Finish; its failure ends the job.                               *)
SweepFinish(s) ==
    /\ swp[s] = "finish"
    /\ \/ /\ status' = Finish(Head(todo[s]), "aborted")
          /\ GoOn(s, Tail(todo[s]))
          /\ UNCHANGED <<faults, lost>>
       \/ FinishFails(Head(todo[s])) /\ GoOn(s, <<>>) /\ UNCHANGED status
    /\ UNCHANGED <<parts, objects, stale, api, policy>>

(* The worker dies, or a query fails.  A task whose abort has not been     *)
(* recorded stays as it is.                                                *)
SweepStops(s) ==
    /\ swp[s] # "idle"
    /\ IF swp[s] = "finish" THEN FinishFails(Head(todo[s])) ELSE Fault /\ UNCHANGED lost
    /\ GoOn(s, <<>>)
    /\ UNCHANGED <<uploadVars, stale, api, policy>>

SweepStep(s) == SweepBegin(s) \/ SweepQuery(s) \/ SweepAbort(s) \/ SweepFinish(s)

Next ==
    \/ SetPolicy
    \/ \E u \in Uploads : AgeOut(u) \/ Complete(u) \/ RecordDone(u) \/ ApiStops(u)
    \/ \E s \in Sweepers : SweepStep(s) \/ SweepStops(s)

Spec == Init /\ [][Next]_vars

(* The scheduler starts sweeps again and again, and every call returns;    *)
(* the API records what it has completed, or dies.                         *)
FairSpec ==
    /\ Spec
    /\ \A s \in Sweepers : WF_vars(SweepStep(s))
    /\ \A u \in Uploads : WF_vars(RecordDone(u))

-----------------------------------------------------------------------------
(* The table tells the truth about S3, although Finish never looks at the  *)
(* status it overwrites: a completed task has its object, and an aborted   *)
(* one has neither an object nor parts.  A sweep that read the task as     *)
(* pending races with the API completing it, and with other sweeps.        *)
StatusIsTrue ==
    \A u \in Uploads :
        /\ status[u] = "completed" => u \in objects
        /\ status[u] = "aborted" => u \notin objects \cup parts

On == ShouldCleanup(CleanupPolicy(policy, DefaultDays))

(* While cleanup is on a stale task is settled in the end, however sweeps  *)
(* fail and die, and although rows that no abort can settle stay in front  *)
(* of it, as long as they are fewer than the limit.  The exception is a    *)
(* task that S3 has settled and whose row was not updated (a crash, a lost *)
(* answer, a failing Finish): S3 refuses every later abort of it.          *)
StaleSettled ==
    \A u \in Uploads :
        (u \in stale /\ On) ~> (status[u] # "pending" \/ u \in lost \/ ~On)

-----------------------------------------------------------------------------
(* What S3 has made of each upload.                                        *)
Outcome ==
    [u \in Uploads |-> CASE u \in parts -> "open"
                         [] u \in objects -> "object"
                         [] OTHER -> "freed"]

Lifecycle == INSTANCE UploadLifecycle WITH outcome <- Outcome, reported <- status

(* Sweeps, which write a status without looking at it, and the API         *)
(* together implement the life of an upload: it is settled once, and the   *)
(* one report it gets says how.                                            *)
ImplementsLifecycle == Lifecycle!Spec
=============================================================================
