---------------------------- MODULE MCStatsTables ---------------------------
(* A small instance of the request statistics for TLC.                     *)
EXTENDS StatsTables, TLC

Log(id, at, class, ok, actor, account, key) ==
    [id |-> id, at |-> at, class |-> class, ok |-> ok, actor |-> actor, account |-> account,
     bucket |-> {1}, key |-> key, size |-> 0]

(* Two units are a day, the longest period is two days.                    *)
HoursDef == [day |-> 2, month |-> 4]
PrefixDef == [readme |-> "", docs_a |-> "docs/"]
SizeDef == <<1, "docs_a">> :> 3
OldLogsDef ==
    << Log(1, -4, "put", TRUE, {5}, {1}, {"docs_a"}),
       Log(2, -2, "get", FALSE, {}, {}, {"readme"}),
       Log(3, -2, "skipped", TRUE, {6}, {1}, {}),
       Log(4, -1, "get", TRUE, {6}, {2}, {"docs_a"}) >>
NewLogsDef == << Log(0, 0, "delete", TRUE, {5}, {1}, {"docs_a"}) >>
Alike == Permutations(Aggregators)
=============================================================================
