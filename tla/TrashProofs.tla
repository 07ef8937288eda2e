---------------------------- MODULE TrashProofs -----------------------------
(***************************************************************************)
(* For any number of keys, sweepers and policies: the trash job removes    *)
(* nothing before its time and forgets nothing.                            *)
(***************************************************************************)
EXTENDS TrashCleanup, FiniteSetTheorems, TLAPS

(* The row of an object in the trash is not older than the object, unless  *)
(* it is the row of an earlier deletion.                                   *)
RowsYounger == \A k \in trash \ again : row[k] # NoRow => since[k] >= row[k]

(* A sweep has read a retention of a day or more.                          *)
RetentionRead == \A s \in Sweepers : swp[s] # "idle" => days[s] >= 1

(* What it has yet to remove is old enough, or was deleted again.          *)
Ripe ==
    \A s \in Sweepers : swp[s] \in {"object", "row"} =>
        \A k \in todo[s] \cap trash : (since[k] >= 1 /\ since[k] > days[s]) \/ k \in redone[s]

(* The object whose row goes next is gone, or was deleted again.           *)
ObjectGone ==
    \A s \in Sweepers : swp[s] = "row" => \A k \in cur[s] : k \notin trash \/ k \in redone[s]

TrashInv == TypeOK /\ RowsYounger /\ RetentionRead /\ Ripe /\ ObjectGone

-----------------------------------------------------------------------------
(* Ages grow and keep their order; a row that is not there does not age.   *)
LEMMA OlderAge ==
    ASSUME NEW a \in Ages \cup {NoRow}, NEW b \in Ages, b >= a
    PROVE  /\ Older(a) \in Ages \cup {NoRow} /\ Older(b) \in Ages
           /\ Older(b) >= Older(a) /\ Older(b) >= b
           /\ Older(a) = NoRow <=> a = NoRow
BY TrashAssumption DEF Older, Ages, NoRow

(* Retentions are numbers.                                                 *)
LEMMA DaysAreInt == \A d \in Days \cup {0} : d \in Int
BY TrashAssumption

(* Ages are numbers.                                                       *)
LEMMA AgesAreInt == \A a \in Ages : a \in Int
BY TrashAssumption DEF Ages

(* A policy names one of the retentions.                                   *)
LEMMA PolicyDays ==
    ASSUME NEW p \in Policies
    PROVE  CleanupPolicy(p, DefaultDays).days \in Days
BY DEF Days

(* The labels and the counts of the items in hand.                         *)
Labels == {"idle", "query", "object", "row"}
HandOK == \A s \in Sweepers : Cardinality(cur[s]) = IF swp[s] = "row" THEN 1 ELSE 0

(* A sweep has an object in hand between its two deletions only.           *)
LEMMA HandOver ==
    ASSUME TypeOK, NEW s \in Sweepers, NEW label \in Labels, NEW hand,
           IF label = "row" THEN \E k \in Keys : hand = {k} ELSE hand = {},
           SweepGoto(s, label), cur' = [cur EXCEPT ![s] = hand]
    PROVE  /\ swp' \in [Sweepers -> Labels]
           /\ cur' \in [Sweepers -> SUBSET Keys]
           /\ HandOK'
<1>1. hand \subseteq Keys /\ Cardinality(hand) = IF label = "row" THEN 1 ELSE 0
  BY FS_Singleton, FS_EmptySet
<1>2. swp \in [Sweepers -> Labels] /\ cur \in [Sweepers -> SUBSET Keys]
      /\ \A r \in Sweepers : Cardinality(cur[r]) = IF swp[r] = "row" THEN 1 ELSE 0
  BY DEF TypeOK, Labels
<1>3. /\ swp'[s] = label /\ cur'[s] = hand
      /\ \A r \in Sweepers \ {s} : swp'[r] = swp[r] /\ cur'[r] = cur[r]
  BY <1>2 DEF SweepGoto
<1>4. HandOK'
  BY <1>1, <1>2, <1>3 DEF HandOK
<1> QED
  BY <1>1, <1>2, <1>4 DEF SweepGoto

(* A fault is counted.                                                     *)
LEMMA FaultCounts == TypeOK /\ Fault => faults' \in 0 .. MaxFaults
BY TrashAssumption DEF TypeOK, Fault

(* The types, in two parts.                                                *)
DataOK ==
    /\ live \subseteq Keys /\ trash \subseteq Keys
    /\ row \in [Keys -> Ages \cup {NoRow}]
    /\ policy \in Policies
    /\ del \in [Keys -> {"idle", "copy", "delete", "record"}]
    /\ scan \in {"idle", "upsert"}
    /\ listed \subseteq Keys /\ seen \subseteq Keys /\ recent \subseteq Keys
    /\ faults \in 0 .. MaxFaults
    /\ since \in [Keys -> Ages]
    /\ again \subseteq trash

SweepOK ==
    /\ swp \in [Sweepers -> Labels]
    /\ days \in [Sweepers -> Days \cup {0}]
    /\ todo \in [Sweepers -> SUBSET Keys]
    /\ cur \in [Sweepers -> SUBSET Keys]
    /\ redone \in [Sweepers -> SUBSET Keys]
    /\ HandOK

(* TypeOK by its parts, before and after a step.                           *)
LEMMA TypeParts == (TypeOK <=> DataOK /\ SweepOK) /\ (TypeOK' <=> DataOK' /\ SweepOK')
BY DEF TypeOK, DataOK, SweepOK, HandOK, Labels

(* Steps that leave the trash and the sweeps alone; objects grow older.    *)
LEMMA SweepsApart ==
    ASSUME TrashInv, UNCHANGED <<sweepVars, redone, trash>>,
           since' \in [Keys -> Ages], \A k \in trash : since'[k] >= since[k]
    PROVE  SweepOK' /\ RetentionRead' /\ Ripe' /\ ObjectGone'
<1> USE DEF TrashInv, sweepVars
<1>1. SweepOK'
  BY TypeParts DEF SweepOK, HandOK
<1>2. RetentionRead' /\ ObjectGone'
  BY DEF RetentionRead, ObjectGone
<1>3. Ripe'
  <2> SUFFICES ASSUME NEW s \in Sweepers, swp[s] \in {"object", "row"},
                      NEW k \in todo[s] \cap trash, k \notin redone[s]
               PROVE  since'[k] >= 1 /\ since'[k] > days[s]
    BY DEF Ripe
  <2>1. since[k] >= 1 /\ since[k] > days[s]
    BY DEF Ripe
  <2>2. k \in Keys /\ since \in [Keys -> Ages] /\ days[s] \in Days \cup {0}
    BY TypeParts DEF DataOK, SweepOK
  <2>3. since[k] \in Int /\ since'[k] \in Int /\ days[s] \in Int
    BY <2>2, DaysAreInt, AgesAreInt
  <2> QED
    BY <2>1, <2>3
<1> QED
  BY <1>1, <1>2, <1>3

(* Users, scans, days and policies.                                        *)
LEMMA OtherSteps ==
    ASSUME TrashInv,
           \/ SetPolicy \/ NextDay \/ ScanList \/ ScanStep \/ ScanStops
           \/ \E k \in Keys : \/ Upload(k) \/ DeleteBegin(k) \/ DeleteObject(k)
                              \/ DeleteRecord(k) \/ DeleteStops(k)
    PROVE  TrashInv'
<1> USE TypeParts
<1>0. DataOK /\ SweepOK /\ RowsYounger
  BY DEF TrashInv
<1>a. UNCHANGED <<sweepVars, redone, trash>>
  BY DEF SetPolicy, NextDay, ScanList, ScanStep, ScanUpsert, ScanPurge, ScanStops, Upload, DeleteBegin,
     DeleteObject, DeleteRecord, DeleteStops, data
<1>b. ASSUME since' = since, DataOK', RowsYounger'
      PROVE  TrashInv'
  <2>1. since' \in [Keys -> Ages] /\ \A k \in trash : since'[k] >= since[k]
    BY <1>0, <1>b, TrashAssumption DEF DataOK, Ages
  <2> QED
    BY <1>a, <1>b, <2>1, SweepsApart DEF TrashInv
<1>1. CASE SetPolicy
  BY <1>0, <1>1, <1>b DEF SetPolicy, DataOK, RowsYounger, data, scanVars
<1>2. CASE NextDay
  <2>1. row' = [k \in Keys |-> Older(row[k])]
        /\ since' = [k \in Keys |-> IF k \in trash THEN Older(since[k]) ELSE since[k]]
        /\ UNCHANGED <<live, trash, policy, del, scanVars, recent, faults, again>>
    BY <1>2 DEF NextDay
  <2>2. \A k \in Keys : row[k] \in Ages \cup {NoRow} /\ since[k] \in Ages
    BY <1>0 DEF DataOK
  <2>3. \A k \in Keys : Older(row[k]) \in Ages \cup {NoRow} /\ (Older(row[k]) = NoRow <=> row[k] = NoRow)
    BY <2>2, TrashAssumption DEF Older, Ages, NoRow
  <2>4. \A k \in Keys : Older(since[k]) \in Ages /\ Older(since[k]) >= since[k]
    BY <2>2, TrashAssumption DEF Older, Ages, NoRow
  <2>5. DataOK'
    BY <1>0, <2>1, <2>3, <2>4 DEF DataOK, scanVars
  <2>6. RowsYounger'
    <3> SUFFICES ASSUME NEW k \in trash \ again, row'[k] # NoRow
                 PROVE  since'[k] >= row'[k]
      BY <2>1 DEF RowsYounger
    <3>1. k \in Keys /\ row'[k] = Older(row[k]) /\ since'[k] = Older(since[k])
      BY <1>0, <2>1 DEF DataOK
    <3>2. since[k] >= row[k]
      BY <1>0, <2>3, <3>1 DEF RowsYounger
    <3> QED
      BY <2>2, <3>1, <3>2, OlderAge
  <2>7. since' \in [Keys -> Ages] /\ \A k \in trash : since'[k] >= since[k]
    BY <1>0, <2>1, <2>4, <2>5 DEF DataOK
  <2> QED
    BY <1>a, <2>5, <2>6, <2>7, SweepsApart DEF TrashInv
<1>3. CASE ScanList
  BY <1>0, <1>3, <1>b DEF ScanList, DataOK, RowsYounger, data
<1>4. ASSUME NEW k \in Keys, ScanUpsert(k)
      PROVE  TrashInv'
  <2>1. /\ row' = [row EXCEPT ![k] = 0] /\ again' = again \ {k}
        /\ listed' = listed \ {k} /\ seen' = seen \cup {k}
        /\ UNCHANGED <<live, trash, policy, del, scan, recent, faults, since>>
    BY <1>4 DEF ScanUpsert
  <2>2. DataOK'
    BY <1>0, <2>1, TrashAssumption DEF DataOK, Ages
  <2>3. RowsYounger'
    BY <1>0, <2>1, TrashAssumption DEF RowsYounger, DataOK, Ages
  <2> QED
    BY <1>b, <2>1, <2>2, <2>3
<1>5. CASE ScanPurge
  <2>1. /\ row' = [k \in Keys |-> IF k \in seen THEN row[k] ELSE NoRow]
        /\ scan' = "idle" /\ seen' = {} /\ recent' = {}
        /\ UNCHANGED <<live, trash, policy, del, listed, faults, since, again>>
    BY <1>5 DEF ScanPurge
  <2>2. DataOK'
    BY <1>0, <2>1 DEF DataOK
  <2>3. RowsYounger'
    BY <1>0, <2>1 DEF RowsYounger, DataOK
  <2> QED
    BY <1>b, <2>1, <2>2, <2>3
<1>6. CASE ScanStops
  BY <1>0, <1>6, <1>b, FaultCounts DEF ScanStops, DataOK, RowsYounger, data
<1>7. ASSUME NEW k \in Keys, Upload(k)
      PROVE  TrashInv'
  BY <1>0, <1>7, <1>b DEF Upload, DataOK, RowsYounger, scanVars
<1>8. ASSUME NEW k \in Keys, DeleteBegin(k)
      PROVE  TrashInv'
  BY <1>0, <1>8, <1>b DEF DeleteBegin, Delete, DataOK, RowsYounger, data, scanVars
<1>9. ASSUME NEW k \in Keys, DeleteObject(k)
      PROVE  TrashInv'
  BY <1>0, <1>9, <1>b DEF DeleteObject, Delete, DataOK, RowsYounger, scanVars
<1>10. ASSUME NEW k \in Keys, DeleteRecord(k)
       PROVE  TrashInv'
  <2>1. /\ row' = [row EXCEPT ![k] = 0] /\ again' = again \ {k} /\ del' = [del EXCEPT ![k] = "idle"]
        /\ seen' \subseteq seen \cup {k}
        /\ UNCHANGED <<live, trash, policy, scan, listed, recent, faults, since>>
    BY <1>10 DEF DeleteRecord, Delete
  <2>2. DataOK'
    BY <1>0, <2>1, TrashAssumption DEF DataOK, Ages
  <2>3. RowsYounger'
    BY <1>0, <2>1, TrashAssumption DEF RowsYounger, DataOK, Ages
  <2> QED
    BY <1>b, <2>1, <2>2, <2>3
<1>11. ASSUME NEW k \in Keys, DeleteStops(k)
       PROVE  TrashInv'
  BY <1>0, <1>11, <1>b, FaultCounts DEF DeleteStops, Delete, DataOK, RowsYounger, data, scanVars
<1> QED
  BY <1>1, <1>2, <1>3, <1>4, <1>5, <1>6, <1>7, <1>8, <1>9, <1>10, <1>11 DEF ScanStep

(* A soft delete puts its copy into the trash.                             *)
LEMMA DeleteCopyStep ==
    ASSUME TrashInv, NEW k \in Keys, DeleteCopy(k)
    PROVE  TrashInv'
<1> USE TypeParts
<1>0. DataOK /\ SweepOK /\ RowsYounger
  BY DEF TrashInv
<1>1. UNCHANGED <<live, row, policy, scan, listed, seen, recent, swp, days, todo, cur, faults>>
  BY DEF DeleteCopy, scanVars, sweepVars
<1>2. CASE k \in live
  <2>1. /\ trash' = trash \cup {k} /\ since' = [since EXCEPT ![k] = 0]
        /\ redone' = [s \in Sweepers |-> IF swp[s] # "idle" THEN redone[s] \cup {k} ELSE redone[s]]
        /\ again' = (IF row[k] # NoRow THEN again \cup {k} ELSE again \ {k})
        /\ del' = [del EXCEPT ![k] = "delete"]
    BY <1>2 DEF DeleteCopy, Delete
  <2>2. DataOK'
    BY <1>0, <1>1, <2>1, TrashAssumption DEF DataOK, Ages
  <2>3. SweepOK'
    BY <1>0, <1>1, <2>1 DEF SweepOK, HandOK
  <2>4. \A j \in Keys \ {k} : since'[j] = since[j]
    BY <1>0, <2>1 DEF DataOK
  <2>5. RowsYounger'
    BY <1>0, <1>1, <2>1, <2>4 DEF RowsYounger, DataOK
  <2>6. \A s \in Sweepers : swp[s] # "idle" => redone'[s] = redone[s] \cup {k}
    BY <2>1
  <2>7. Ripe'
    BY <1>0, <1>1, <2>1, <2>4, <2>6 DEF TrashInv, Ripe, DataOK
  <2>8. ObjectGone' /\ RetentionRead'
    BY <1>0, <1>1, <2>1, <2>6 DEF TrashInv, ObjectGone, RetentionRead
  <2> QED
    BY <2>2, <2>3, <2>5, <2>7, <2>8 DEF TrashInv
<1>3. CASE k \notin live
  <2>1. UNCHANGED <<trash, since, again, redone>> /\ del' = [del EXCEPT ![k] = "idle"]
    BY <1>3 DEF DeleteCopy, Delete
  <2> QED
    BY <1>0, <1>1, <2>1 DEF TrashInv, DataOK, SweepOK, HandOK, RowsYounger, RetentionRead, Ripe, ObjectGone
<1> QED
  BY <1>2, <1>3

-----------------------------------------------------------------------------
(* The sweeps.                                                             *)
LEMMA OverOK ==
    ASSUME SweepOK, NEW s \in Sweepers, SweepOver(s)
    PROVE  /\ SweepOK' /\ swp'[s] = "idle"
           /\ \A r \in Sweepers \ {s} : swp'[r] = swp[r] /\ days'[r] = days[r] /\ todo'[r] = todo[r]
                                         /\ cur'[r] = cur[r] /\ redone'[r] = redone[r]
<1>1. /\ swp' \in [Sweepers -> Labels] /\ days' \in [Sweepers -> Days \cup {0}]
      /\ todo' \in [Sweepers -> SUBSET Keys] /\ cur' \in [Sweepers -> SUBSET Keys]
      /\ redone' \in [Sweepers -> SUBSET Keys]
  BY DEF SweepOK, SweepOver, SweepGoto, Labels
<1>2. /\ swp'[s] = "idle" /\ cur'[s] = {}
      /\ \A r \in Sweepers \ {s} : swp'[r] = swp[r] /\ days'[r] = days[r] /\ todo'[r] = todo[r]
                                    /\ cur'[r] = cur[r] /\ redone'[r] = redone[r]
  BY DEF SweepOK, SweepOver, SweepGoto
<1>3. HandOK'
  BY <1>2, FS_EmptySet DEF SweepOK, HandOK
<1> QED
  BY <1>1, <1>2, <1>3 DEF SweepOK

(* A sweep that goes on with fewer items, an empty hand or none at all.    *)
LEMMA SweepGoesOn ==
    ASSUME TrashInv, SweepOK', NEW s \in Sweepers,
           \A r \in Sweepers \ {s} : swp'[r] = swp[r] /\ days'[r] = days[r] /\ todo'[r] = todo[r]
                                      /\ cur'[r] = cur[r] /\ redone'[r] = redone[r],
           swp'[s] # "idle" => swp[s] # "idle" /\ days'[s] = days[s] /\ redone[s] \subseteq redone'[s],
           swp'[s] \in {"object", "row"} => swp[s] \in {"object", "row"} /\ todo'[s] \subseteq todo[s],
           swp'[s] = "row" => \A k \in cur'[s] : k \notin trash',
           trash' \subseteq trash, \A k \in trash' : since'[k] = since[k]
    PROVE  RetentionRead' /\ Ripe' /\ ObjectGone'
<1> USE DEF TrashInv
<1>1. RetentionRead'
  BY DEF RetentionRead
<1>2. ASSUME NEW r \in Sweepers, swp'[r] \in {"object", "row"}, NEW k \in todo'[r] \cap trash'
      PROVE  (since'[k] >= 1 /\ since'[k] > days'[r]) \/ k \in redone'[r]
  <2>1. CASE r = s
    BY <1>2, <2>1 DEF Ripe
  <2>2. CASE r # s
    BY <1>2, <2>2 DEF Ripe
  <2> QED
    BY <2>1, <2>2
<1>3. ASSUME NEW r \in Sweepers, swp'[r] = "row", NEW k \in cur'[r]
      PROVE  k \notin trash' \/ k \in redone'[r]
  BY <1>3 DEF ObjectGone
<1> QED
  BY <1>1, <1>2, <1>3 DEF Ripe, ObjectGone

(* A sweep reads its policy.                                               *)
LEMMA SweepBeginStep ==
    ASSUME TrashInv, NEW s \in Sweepers, SweepBegin(s)
    PROVE  TrashInv'
<1> USE TypeParts
<1>0. DataOK /\ SweepOK
  BY DEF TrashInv
<1>1. /\ swp[s] = "idle" /\ CleanupPolicy(policy, DefaultDays).days >= 1
      /\ SweepGoto(s, "query") /\ days' = [days EXCEPT ![s] = CleanupPolicy(policy, DefaultDays).days]
      /\ UNCHANGED <<data, policy, del, scanVars, recent, todo, cur, faults, since, again, redone>>
  BY DEF SweepBegin, ShouldCleanup
<1>2. DataOK' /\ RowsYounger'
  BY <1>0, <1>1 DEF TrashInv, DataOK, RowsYounger, data, scanVars
<1>3. CleanupPolicy(policy, DefaultDays).days \in Days
  BY <1>0, PolicyDays DEF DataOK
<1>4. /\ swp'[s] = "query" /\ days'[s] = CleanupPolicy(policy, DefaultDays).days
      /\ \A r \in Sweepers \ {s} : swp'[r] = swp[r] /\ days'[r] = days[r]
      /\ swp' \in [Sweepers -> Labels] /\ days' \in [Sweepers -> Days \cup {0}]
  BY <1>0, <1>1, <1>3 DEF SweepOK, SweepGoto, Labels
<1>5. HandOK'
  BY <1>0, <1>1, <1>4 DEF SweepOK, HandOK
<1>6. SweepOK'
  BY <1>0, <1>1, <1>4, <1>5 DEF SweepOK
<1>7. RetentionRead' /\ Ripe' /\ ObjectGone'
  BY <1>1, <1>4 DEF TrashInv, RetentionRead, Ripe, ObjectGone, data
<1> QED
  BY <1>2, <1>6, <1>7 DEF TrashInv

(* A sweep reads the expired rows.                                         *)
LEMMA SweepQueryStep ==
    ASSUME TrashInv, NEW s \in Sweepers, SweepQuery(s)
    PROVE  TrashInv'
<1> USE TypeParts
<1>0. DataOK /\ SweepOK
  BY DEF TrashInv
<1>1. swp[s] = "query" /\ UNCHANGED <<data, policy, del, scanVars, recent, faults, since, again>>
  BY DEF SweepQuery
<1>2. DataOK' /\ RowsYounger'
  BY <1>0, <1>1 DEF TrashInv, DataOK, RowsYounger, data, scanVars
<1>3. CASE SweepOver(s)
  <2>1. RetentionRead' /\ Ripe' /\ ObjectGone' /\ SweepOK'
    BY <1>0, <1>1, <1>3, OverOK, SweepGoesOn DEF data
  <2> QED
    BY <1>2, <2>1 DEF TrashInv
<1>4. CASE /\ todo' = [todo EXCEPT ![s] = Expired(days[s])] /\ SweepGoto(s, "object")
           /\ redone' = [redone EXCEPT ![s] = @ \cup (again \cap Expired(days[s]))]
           /\ UNCHANGED <<days, cur>>
  <2>1. Expired(days[s]) \subseteq Keys
    BY DEF Expired
  <2>2. /\ swp'[s] = "object" /\ todo'[s] = Expired(days[s])
        /\ redone'[s] = redone[s] \cup (again \cap Expired(days[s]))
        /\ \A r \in Sweepers \ {s} : swp'[r] = swp[r] /\ todo'[r] = todo[r] /\ redone'[r] = redone[r]
        /\ swp' \in [Sweepers -> Labels] /\ todo' \in [Sweepers -> SUBSET Keys]
        /\ redone' \in [Sweepers -> SUBSET Keys]
    BY <1>0, <1>4, <2>1 DEF SweepOK, SweepGoto, Labels
  <2>3. HandOK'
    BY <1>0, <1>1, <1>4, <2>2 DEF SweepOK, HandOK
  <2>4. SweepOK'
    BY <1>0, <1>4, <2>2, <2>3 DEF SweepOK
  <2>5. days[s] \in Int /\ days[s] >= 1
    <3>1. days[s] \in Days \cup {0} /\ days[s] >= 1
      BY <1>0, <1>1 DEF TrashInv, SweepOK, RetentionRead
    <3> QED
      BY <3>1, DaysAreInt
  <2>6. ASSUME NEW k \in Expired(days[s]) \cap trash, k \notin again
        PROVE  since[k] >= 1 /\ since[k] > days[s]
    <3>1. row[k] # NoRow /\ row[k] > days[s] /\ k \in Keys
      BY DEF Expired
    <3>2. since[k] >= row[k]
      BY <2>6, <3>1 DEF TrashInv, RowsYounger
    <3>3. since[k] \in Int /\ row[k] \in Int
      BY <1>0, <3>1, TrashAssumption DEF DataOK, Ages, NoRow
    <3> QED
      BY <2>5, <3>1, <3>2, <3>3
  <2>7. Ripe'
    <3> SUFFICES ASSUME NEW r \in Sweepers, swp'[r] \in {"object", "row"}, NEW k \in todo'[r] \cap trash
                 PROVE  (since[k] >= 1 /\ since[k] > days[r]) \/ k \in redone'[r]
      BY <1>1, <1>4 DEF Ripe, data
    <3>1. CASE r = s
      BY <2>2, <2>6, <3>1
    <3>2. CASE r # s
      BY <2>2, <3>2 DEF TrashInv, Ripe
    <3> QED
      BY <3>1, <3>2
  <2>8. RetentionRead' /\ ObjectGone'
    BY <1>1, <1>4, <2>2 DEF TrashInv, RetentionRead, ObjectGone, data
  <2> QED
    BY <1>2, <2>4, <2>7, <2>8 DEF TrashInv
<1> QED
  BY <1>3, <1>4 DEF SweepQuery

(* A sweep deletes an object.                                              *)
LEMMA SweepObjectStep ==
    ASSUME TrashInv, NEW s \in Sweepers, NEW k \in Keys, SweepObject(s, k)
    PROVE  TrashInv'
<1> USE TypeParts
<1>0. DataOK /\ SweepOK
  BY DEF TrashInv
<1>1. /\ swp[s] = "object" /\ k \in todo[s]
      /\ trash' \in {trash, trash \ {k}}
      /\ since' = [since EXCEPT ![k] = IF k \in trash' THEN @ ELSE 0] /\ again' = again \cap trash'
      /\ Fault \/ UNCHANGED faults
      /\ UNCHANGED <<live, row, policy, del, scan, listed, seen, recent>>
      /\ \/ AfterObject(s, k, TRUE) /\ k \notin trash'
         \/ AfterObject(s, k, FALSE)
  BY DEF SweepObject, scanVars
<1>2. since' \in [Keys -> Ages] /\ \A j \in trash' : since'[j] = since[j]
  BY <1>0, <1>1, TrashAssumption DEF DataOK, Ages
<1>3. faults' \in 0 .. MaxFaults
  BY <1>0, <1>1, FaultCounts DEF TrashInv, DataOK
<1>4. DataOK'
  BY <1>0, <1>1, <1>2, <1>3 DEF DataOK
<1>5. RowsYounger'
  <2> SUFFICES ASSUME NEW j \in trash' \ again', row[j] # NoRow
               PROVE  since'[j] >= row[j]
    BY <1>1 DEF RowsYounger
  <2>1. j \in trash \ again /\ since'[j] = since[j]
    BY <1>1, <1>2
  <2> QED
    BY <2>1 DEF TrashInv, RowsYounger
<1>6. trash' \subseteq trash
  BY <1>1
<1>7. CASE SweepOver(s)
  <2>1. RetentionRead' /\ Ripe' /\ ObjectGone' /\ SweepOK'
    BY <1>0, <1>2, <1>6, <1>7, OverOK, SweepGoesOn
  <2> QED
    BY <1>4, <1>5, <2>1 DEF TrashInv
<1>8. CASE todo' = [todo EXCEPT ![s] = @ \ {k}] /\ UNCHANGED <<swp, days, cur, redone>>
  <2>1. /\ todo' \in [Sweepers -> SUBSET Keys] /\ todo'[s] \subseteq todo[s]
        /\ \A r \in Sweepers \ {s} : todo'[r] = todo[r]
    BY <1>0, <1>8 DEF SweepOK
  <2>2. SweepOK'
    BY <1>0, <1>8, <2>1 DEF SweepOK, HandOK
  <2>3. RetentionRead' /\ Ripe' /\ ObjectGone'
    BY <1>1, <1>2, <1>6, <1>8, <2>1, <2>2, SweepGoesOn
  <2> QED
    BY <1>4, <1>5, <2>2, <2>3 DEF TrashInv
<1>9. CASE /\ k \notin trash' /\ cur' = [cur EXCEPT ![s] = {k}] /\ todo' = [todo EXCEPT ![s] = @ \ {k}]
           /\ SweepGoto(s, "row") /\ UNCHANGED <<days, redone>>
  <2>1. /\ todo' \in [Sweepers -> SUBSET Keys] /\ todo'[s] \subseteq todo[s]
        /\ cur'[s] = {k} /\ swp'[s] = "row"
        /\ \A r \in Sweepers \ {s} : todo'[r] = todo[r] /\ cur'[r] = cur[r] /\ swp'[r] = swp[r]
    BY <1>0, <1>9 DEF SweepOK, SweepGoto
  <2>2. swp' \in [Sweepers -> Labels] /\ cur' \in [Sweepers -> SUBSET Keys] /\ HandOK'
    BY <1>9, HandOver DEF TrashInv, Labels
  <2>3. SweepOK'
    BY <1>0, <1>9, <2>1, <2>2 DEF SweepOK
  <2>4. RetentionRead' /\ Ripe' /\ ObjectGone'
    BY <1>1, <1>2, <1>6, <1>9, <2>1, <2>3, SweepGoesOn
  <2> QED
    BY <1>4, <1>5, <2>3, <2>4 DEF TrashInv
<1> QED
  BY <1>1, <1>7, <1>8, <1>9 DEF AfterObject

(* A sweep deletes a row, or stops.                                        *)
LEMMA SweepRowStep ==
    ASSUME TrashInv, NEW s \in Sweepers, SweepRow(s) \/ SweepStops(s)
    PROVE  TrashInv'
<1> USE TypeParts
<1>0. DataOK /\ SweepOK
  BY DEF TrashInv
<1>1. /\ row' \in {row, [k \in Keys |-> IF k \in cur[s] THEN NoRow ELSE row[k]]}
      /\ Fault \/ UNCHANGED faults
      /\ UNCHANGED <<live, trash, policy, del, scan, listed, seen, recent, since, again>>
      /\ \/ SweepOver(s)
         \/ /\ swp[s] = "row" /\ cur' = [cur EXCEPT ![s] = {}]
            /\ SweepGoto(s, "object") /\ UNCHANGED <<days, todo, redone>>
  BY DEF SweepRow, SweepStops, scanVars, data
<1>2. faults' \in 0 .. MaxFaults
  BY <1>0, <1>1, FaultCounts DEF TrashInv, DataOK
<1>3. DataOK'
  BY <1>0, <1>1, <1>2 DEF DataOK
<1>4. RowsYounger'
  BY <1>0, <1>1 DEF TrashInv, RowsYounger, DataOK
<1>5. CASE SweepOver(s)
  <2>1. RetentionRead' /\ Ripe' /\ ObjectGone' /\ SweepOK'
    BY <1>0, <1>1, <1>5, OverOK, SweepGoesOn
  <2> QED
    BY <1>3, <1>4, <2>1 DEF TrashInv
<1>6. CASE /\ swp[s] = "row" /\ cur' = [cur EXCEPT ![s] = {}]
           /\ SweepGoto(s, "object") /\ UNCHANGED <<days, todo, redone>>
  <2>1. /\ cur'[s] = {} /\ swp'[s] = "object"
        /\ \A r \in Sweepers \ {s} : cur'[r] = cur[r] /\ swp'[r] = swp[r]
    BY <1>0, <1>6 DEF SweepOK, SweepGoto
  <2>2. swp' \in [Sweepers -> Labels] /\ cur' \in [Sweepers -> SUBSET Keys] /\ HandOK'
    BY <1>6, HandOver DEF TrashInv, Labels
  <2>3. SweepOK'
    BY <1>0, <1>6, <2>2 DEF SweepOK
  <2>4. RetentionRead' /\ Ripe' /\ ObjectGone'
    BY <1>1, <1>6, <2>1, <2>3, SweepGoesOn
  <2> QED
    BY <1>3, <1>4, <2>3, <2>4 DEF TrashInv
<1> QED
  BY <1>1, <1>5, <1>6

-----------------------------------------------------------------------------
(* The invariant holds at the start.                                       *)
LEMMA TrashInvInit == Init => TrashInv
<1> SUFFICES ASSUME Init
             PROVE  TrashInv
  OBVIOUS
<1> USE DEF Init
<1>1. DataOK
  BY TrashAssumption DEF DataOK, Ages
<1>2. SweepOK
  BY FS_EmptySet DEF SweepOK, HandOK, Labels
<1>3. RowsYounger /\ RetentionRead /\ Ripe /\ ObjectGone
  BY DEF RowsYounger, RetentionRead, Ripe, ObjectGone
<1> QED
  BY <1>1, <1>2, <1>3, TypeParts DEF TrashInv

(* Every step keeps it.                                                    *)
LEMMA TrashInvStep == TrashInv /\ [Next]_vars => TrashInv'
<1> SUFFICES ASSUME TrashInv, [Next]_vars
             PROVE  TrashInv'
  OBVIOUS
<1>1. CASE \/ SetPolicy \/ NextDay \/ ScanList \/ ScanStep \/ ScanStops
           \/ \E k \in Keys : \/ Upload(k) \/ DeleteBegin(k) \/ DeleteObject(k)
                              \/ DeleteRecord(k) \/ DeleteStops(k)
  BY <1>1, OtherSteps
<1>2. CASE \E k \in Keys : DeleteCopy(k)
  BY <1>2, DeleteCopyStep
<1>3. CASE \E s \in Sweepers : SweepStep(s) \/ SweepStops(s)
  BY <1>3, SweepBeginStep, SweepQueryStep, SweepObjectStep, SweepRowStep DEF SweepStep
<1>4. CASE UNCHANGED vars
  BY <1>4 DEF vars, data, scanVars, sweepVars, TrashInv, TypeOK, RowsYounger, RetentionRead, Ripe, ObjectGone
<1> QED
  BY <1>1, <1>2, <1>3, <1>4 DEF Next, DeleteStep

(* The invariant holds.                                                    *)
LEMMA TrashInvHolds == Spec => []TrashInv
BY TrashInvInit, TrashInvStep, PTL DEF Spec

(* The types of the trash, its rows and the sweeps; a sweep has an item in *)
(* hand exactly between the deletion of the object and of its row.         *)
THEOREM TrashTypeCorrect == Spec => []TypeOK
<1>1. TrashInv => TypeOK
  BY DEF TrashInv
<1> QED
  BY <1>1, TrashInvHolds, PTL

(* No sweep removes an object before its retention is over, unless it was  *)
(* put into the trash after the sweep began or over an outdated row: the   *)
(* row that expiredTrash looks at is never older than the object.          *)
THEOREM TrashKeepsRetention == Spec => FirstDeletionKept
<1>1. TrashInv /\ [Next]_vars =>
        [\A s \in Sweepers, k \in Keys :
           Purges(s, k) => (since[k] >= 1 /\ since[k] > days[s]) \/ k \in redone[s]]_vars
  BY DEF TrashInv, Ripe, Purges
<1> QED
  BY <1>1, TrashInvHolds, PTL DEF Spec, FirstDeletionKept

(* A sweep deletes a row only when the object is gone, or was put into the *)
(* trash again meanwhile: the row goes after the object, never before it.  *)
THEOREM TrashForgetsNothing == Spec => NoObjectForgotten
<1>1. TrashInv /\ [Next]_vars =>
        [\A s \in Sweepers, k \in Keys :
           (swp[s] = "row" /\ swp'[s] # "row" /\ row[k] # NoRow /\ row'[k] = NoRow)
              => k \notin trash \/ k \in redone[s]]_vars
  <2> SUFFICES ASSUME TrashInv, Next, NEW s \in Sweepers, NEW k \in Keys,
                      swp[s] = "row", swp'[s] # "row", row[k] # NoRow, row'[k] = NoRow
               PROVE  k \notin trash \/ k \in redone[s]
    BY DEF vars, sweepVars
  <2>1. PICK r \in Sweepers : SweepStep(r) \/ SweepStops(r)
    BY DEF Next, SetPolicy, NextDay, ScanList, ScanStep, ScanUpsert, ScanPurge, ScanStops, Upload, DeleteBegin,
       DeleteStep, DeleteCopy, DeleteObject, DeleteRecord, DeleteStops, sweepVars
  <2>2. r = s
    BY <2>1 DEF SweepStep, SweepStops, SweepBegin, SweepQuery, SweepObject, SweepRow, SweepOver, SweepGoto,
       AfterObject, TrashInv, TypeOK
  <2>3. SweepRow(s)
    BY <2>1, <2>2 DEF SweepStep, SweepStops, SweepBegin, SweepQuery, SweepObject, data
  <2>4. k \in cur[s]
    BY <2>3 DEF SweepRow
  <2> QED
    BY <2>4 DEF TrashInv, ObjectGone
<1> QED
  BY <1>1, TrashInvHolds, PTL DEF Spec, NoObjectForgotten
=============================================================================
