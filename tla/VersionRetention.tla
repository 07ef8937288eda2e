-------------------------- MODULE VersionRetention --------------------------
(***************************************************************************)
(* What file_versions promises: a version is kept until it has expired;    *)
(* then its object goes, and only after that its row, so that no object is *)
(* ever left in S3 that no row names.  VersionCleanup is shown to          *)
(* implement this.                                                         *)
(***************************************************************************)
CONSTANT Versions

VARIABLES
    phase,      \* phase[v]: "none", "kept", "emptied" or "gone"
    expired     \* versions in the table that may be removed

vars == <<phase, expired>>

Init == phase = [v \in Versions |-> "none"] /\ expired = {}

Become(v, from, to) == phase[v] = from /\ phase' = [phase EXCEPT ![v] = to]

Add(v) == Become(v, "none", "kept") /\ UNCHANGED expired
Empty(v) == v \in expired /\ Become(v, "kept", "emptied") /\ UNCHANGED expired
Drop(v) == Become(v, "emptied", "gone") /\ expired' = expired \ {v}

Expire ==
    /\ expired \subseteq expired'
    /\ \A v \in expired' : phase[v] # "none"
    /\ UNCHANGED phase

Next == Expire \/ \E v \in Versions : Add(v) \/ Empty(v) \/ Drop(v)

Spec == Init /\ [][Next]_vars
=============================================================================
