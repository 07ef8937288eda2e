-------------------------- MODULE MCVersionCleanup --------------------------
(* Small instances of the version cleanup for TLC.                         *)
EXTENDS VersionCleanup

PolicyRows(enabled, d) == [enabled |-> enabled, days |-> d]

AnyPolicy == {PolicyRows("on", <<1>>), PolicyRows("on", <<>>)}
=============================================================================
