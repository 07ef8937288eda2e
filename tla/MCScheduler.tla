---------------------------- MODULE MCScheduler -----------------------------
(* Small instances of the scheduler group for TLC.                         *)
EXTENDS Scheduler

OneBucket == <<1>>
TwoBuckets == <<1, 2>>
NoKinds == <<>>
OneKind == <<"inventory">>

InStep == [h \in Hosts |-> 0]
OneAhead == [h \in Hosts |-> IF h = 1 THEN 1 ELSE 0]

Two == [k \in Kinds |-> 2]
Three == [k \in Kinds |-> 3]
=============================================================================
