------------------------------ MODULE MCListing -----------------------------
(* A small instance of the folded listing for TLC: the prefix itself, a    *)
(* folder that fills a scan, an item, a hidden key and another folder.     *)
EXTENDS Listing

FolderDef == <<"", "a/", "a/", "a/", "", "", "b/">>
=============================================================================
