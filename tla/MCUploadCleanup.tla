-------------------------- MODULE MCUploadCleanup ---------------------------
(* A small instance of the multipart cleanup for TLC.                      *)
EXTENDS UploadCleanup

Rows(enabled, d) == [enabled |-> enabled, days |-> d]

AnyPolicy == {Rows("on", <<>>), Rows("off", <<7>>), Rows("on", <<0>>)}
=============================================================================
