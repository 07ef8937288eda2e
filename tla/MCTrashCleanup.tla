--------------------------- MODULE MCTrashCleanup ---------------------------
(* Small instances of the trash cleanup for TLC.                           *)
EXTENDS TrashCleanup

Rows(enabled, d) == [enabled |-> enabled, days |-> d]

(* Policies that are on, off, not set, and senseless.                      *)
AnyPolicy == {Rows("on", <<1>>), Rows("", <<1>>), Rows("on", <<>>), Rows("on", <<-1>>)}
OneDay == {Rows("on", <<1>>)}

=============================================================================
