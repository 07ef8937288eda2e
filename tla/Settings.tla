------------------------------ MODULE Settings ------------------------------
(***************************************************************************)
(* The cleanup policies in platform_settings (internal/platform/store.go)  *)
(* and the guard of the cleanup jobs (internal/worker/jobs.go).            *)
(*                                                                         *)
(* The rows of one policy are [enabled, days].  "enabled" is "on" or "off" *)
(* when its text is one of the accepted words, and anything else           *)
(* otherwise.  "days" is <<n>> when its text is a number, and <<>> when    *)
(* the row is missing, blank or not a number.                              *)
(***************************************************************************)
EXTENDS Integers, Sequences

PickInt(v, fallback) == IF v = <<>> THEN fallback ELSE Head(v)

PickBool(v, fallback) ==
    CASE v = "on" -> TRUE
      [] v = "off" -> FALSE
      [] OTHER -> fallback

CleanupPolicy(rows, defaultDays) ==
    [days |-> PickInt(rows.days, defaultDays), enabled |-> PickBool(rows.enabled, FALSE)]

(* A mutation of ShouldCleanup: no lower bound on the days.                *)
ShouldCleanupAnyDays(p) == p.enabled

(* shouldCleanupTrash.                                                     *)
ShouldCleanup(p) == p.enabled /\ p.days >= 1
=============================================================================
