-------------------------- MODULE UploadLifecycle ---------------------------
(***************************************************************************)
(* What upload_tasks promises of the multipart uploads in S3: an upload is *)
(* settled at most once, as an object or by freeing its parts, and its     *)
(* status is written once, after that, and says which of the two it was.   *)
(* UploadCleanup is shown to implement this.                               *)
(***************************************************************************)
CONSTANT Uploads

VARIABLES
    outcome,    \* outcome[u]: "open", "object" or "freed"
    reported    \* reported[u]: "pending", "completed" or "aborted"

vars == <<outcome, reported>>

(* A task without an upload in S3 has no parts to free.                    *)
Init ==
    /\ outcome \in [Uploads -> {"open", "freed"}]
    /\ reported = [u \in Uploads |-> "pending"]

Settle(u) ==
    /\ outcome[u] = "open"
    /\ \E o \in {"object", "freed"} : outcome' = [outcome EXCEPT ![u] = o]
    /\ UNCHANGED reported

Report(u) ==
    /\ outcome[u] # "open" /\ reported[u] = "pending"
    /\ reported' = [reported EXCEPT
           ![u] = IF outcome[u] = "object" THEN "completed" ELSE "aborted"]
    /\ UNCHANGED outcome

Next == \E u \in Uploads : Settle(u) \/ Report(u)

Spec == Init /\ [][Next]_vars
=============================================================================
