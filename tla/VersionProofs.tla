---------------------------- MODULE VersionProofs ---------------------------
(***************************************************************************)
(* For any number of versions, sweeps, writers, policies and failures:     *)
(* VersionCleanup implements VersionRetention.                             *)
(***************************************************************************)
EXTENDS VersionCleanup, OrderProofs

(* The table, and no object without its row.                               *)
Stored ==
    /\ last \in Nat /\ rows \subseteq 1 .. last /\ objs \subseteq rows
    /\ rows \subseteq Versions
    /\ age \in [Versions -> Nat] /\ \A v \in Versions \ rows : age[v] = 0
    /\ policy \in Policies

(* What a sweep has read and not yet handled are ids of the sequence, and  *)
(* those still in the table have expired.                                  *)
Listed ==
    /\ swp = [s \in Sweepers |-> swp[s]] /\ days = [s \in Sweepers |-> days[s]]
    /\ todo \in [Sweepers -> SUBSET Versions]
    /\ \A s \in Sweepers : \A v \in todo[s] :
          v <= last /\ (v \in rows => age[v] > Shortest)

(* A sweep about to delete a row has the version in hand whose object is   *)
(* gone; one about to read the rows has a retention of a policy in force.  *)
ObjectFirst ==
    \A s \in Sweepers :
        /\ swp[s] = "row" => \A v \in todo[s] : InHand(s, v) => v \notin objs
        /\ swp[s] = "query" => days[s] \in Retentions

(* The inductive invariant.                                                *)
RetentionInv == Stored /\ Listed /\ ObjectFirst

(* Facts about the ids, the shortest retention and the policy in force.    *)
LEMMA RetentionFacts ==
    /\ Versions \subseteq Nat /\ Shortest \in Nat
    /\ \A d \in Retentions : d \in Nat /\ Shortest <= d
    /\ \A q \in Policies : ShouldCleanup(CleanupPolicy(q, DefaultDays))
                            => CleanupPolicy(q, DefaultDays).days \in Retentions
BY VersionAssumption DEF Versions, Retentions

(* A sweep that goes on to rows it has already read keeps its invariants.  *)
LEMMA GoOnFacts ==
    ASSUME Listed, ObjectFirst, NEW s \in Sweepers, NEW rest, GoOn(s, rest),
           last \in Nat, rest \subseteq Versions,
           \A v \in rest : v <= last /\ (v \in rows => age[v] > Shortest),
           UNCHANGED last, rows' \subseteq rows, objs' \subseteq objs,
           \A v \in rows' : age'[v] = age[v]
    PROVE  Listed' /\ ObjectFirst'
<1>1. /\ swp' = [t \in Sweepers |-> swp'[t]] /\ days' = [t \in Sweepers |-> days'[t]]
      /\ todo' \in [Sweepers -> SUBSET Versions]
      /\ todo'[s] = rest /\ swp'[s] \in {"idle", "object"}
      /\ \A t \in Sweepers \ {s} :
            todo'[t] = todo[t] /\ swp'[t] = swp[t] /\ days'[t] = days[t]
  BY DEF GoOn, Listed
<1>2. ASSUME NEW t \in Sweepers, NEW v \in todo'[t]
      PROVE  v <= last' /\ (v \in rows' => age'[v] > Shortest)
  <2>1. CASE t = s
    BY <1>1, <1>2, <2>1
  <2>2. CASE t # s
    BY <1>1, <1>2, <2>2 DEF Listed
  <2> QED
    BY <2>1, <2>2
<1>3. ASSUME NEW t \in Sweepers
      PROVE  /\ swp'[t] = "row" => \A v \in todo'[t] : InHand(t, v)' => v \notin objs'
             /\ swp'[t] = "query" => days'[t] \in Retentions
  <2>1. CASE t = s
    BY <1>1, <2>1
  <2>2. CASE t # s
    BY <1>1, <1>3, <2>2 DEF ObjectFirst, InHand
  <2> QED
    BY <2>1, <2>2
<1> QED
  BY <1>1, <1>2, <1>3 DEF Listed, ObjectFirst

(* The invariant holds at the start.                                       *)
LEMMA RetentionInvInit == Init => RetentionInv
BY RetentionFacts, VersionAssumption
   DEF Init, RetentionInv, Stored, Listed, ObjectFirst, Versions

(* Every step keeps it.                                                    *)
LEMMA RetentionInvStep == RetentionInv /\ [Next]_vars => RetentionInv'
<1> SUFFICES ASSUME RetentionInv, [Next]_vars
             PROVE  RetentionInv'
  OBVIOUS
<1> USE DEF RetentionInv, table, writeVars, sweepVars
<1>1. CASE UNCHANGED vars
  BY <1>1 DEF vars, Stored, Listed, ObjectFirst, InHand
<1>2. CASE NextDay
  <2>1. age' \in [Versions -> Nat] /\ \A v \in Versions : age'[v] >= age[v]
    BY <1>2, VersionAssumption DEF NextDay, Stored
  <2>2. Stored'
    BY <1>2, <2>1 DEF NextDay, Stored
  <2>3. Listed'
    BY <1>2, <2>1, RetentionFacts DEF NextDay, Listed, Stored
  <2>4. ObjectFirst'
    BY <1>2 DEF NextDay, ObjectFirst, InHand
  <2> QED
    BY <2>2, <2>3, <2>4
<1>3. CASE SetPolicy
  BY <1>3 DEF SetPolicy, Stored, Listed, ObjectFirst, InHand
<1>4. ASSUME NEW p \in Writers, TakeNo(p)
      PROVE  RetentionInv'
  BY <1>4 DEF TakeNo, Stored, Listed, ObjectFirst, InHand
<1>5. ASSUME NEW p \in Writers, Insert(p)
      PROVE  RetentionInv'
  <2>1. last' = last + 1 /\ last' \in Nat /\ last' \notin rows /\ last' \in Versions
    BY <1>5, VersionAssumption DEF Insert, Stored, Versions
  <2>2. rows' = rows \cup {last'} /\ objs' = objs \cup {last'}
        /\ UNCHANGED <<age, policy, swp, days, todo>>
    BY <1>5 DEF Insert
  <2>3. Stored'
    BY <2>1, <2>2 DEF Stored
  <2>4. \A s \in Sweepers : \A v \in todo[s] : v # last' /\ v <= last'
    BY <2>1, RetentionFacts DEF Listed, Stored
  <2>5. Listed'
    BY <2>2, <2>4 DEF Listed
  <2>6. ObjectFirst'
    BY <2>2, <2>4 DEF ObjectFirst, InHand
  <2> QED
    BY <2>3, <2>5, <2>6
<1>6. ASSUME NEW s \in Sweepers, SweepBegin(s)
      PROVE  RetentionInv'
  <2>1. Stored'
    BY <1>6 DEF SweepBegin, Stored
  <2>2. Listed'
    BY <1>6 DEF SweepBegin, Listed
  <2>3. CleanupPolicy(policy, DefaultDays).days \in Retentions
    BY <1>6, RetentionFacts DEF SweepBegin, Stored
  <2>4. ObjectFirst'
    BY <1>6, <2>3 DEF SweepBegin, ObjectFirst, InHand, Listed
  <2> QED
    BY <2>1, <2>2, <2>4
<1>7. ASSUME NEW s \in Sweepers, SweepQuery(s)
      PROVE  RetentionInv'
  <2>1. GoOn(s, Expired(days[s])) /\ UNCHANGED <<rows, last, age, objs, policy>>
        /\ days[s] \in Retentions
    BY <1>7 DEF SweepQuery, ObjectFirst
  <2>2. Expired(days[s]) \subseteq {v \in rows : age[v] > days[s]}
    BY DEF Expired
  <2>3. \A v \in Expired(days[s]) : v \in Versions /\ v <= last /\ age[v] > Shortest
    <3> SUFFICES ASSUME NEW v \in Expired(days[s])
                 PROVE  v \in Versions /\ v <= last /\ age[v] > Shortest
      OBVIOUS
    <3>1. v \in rows /\ age[v] > days[s]
      BY <2>2
    <3>2. v \in 1 .. last /\ v \in Versions /\ age[v] \in Nat /\ last \in Nat
      BY <3>1 DEF Stored
    <3>3. days[s] \in Nat /\ Shortest \in Nat /\ Shortest <= days[s]
      BY <2>1, RetentionFacts
    <3> QED
      BY <3>1, <3>2, <3>3
  <2>4. Listed' /\ ObjectFirst'
    BY <2>1, <2>3, GoOnFacts DEF Stored
  <2> QED
    BY <2>1, <2>4 DEF Stored
<1>8. ASSUME NEW s \in Sweepers, NEW v \in Versions, SweepObject(s, v)
      PROVE  RetentionInv'
  <2>1. UNCHANGED <<rows, last, age, policy>> /\ objs' \subseteq objs
    BY <1>8 DEF SweepObject
  <2>2. Stored'
    BY <2>1 DEF Stored
  <2>3. CASE GoOn(s, todo[s] \ {v})
    <3>1. \A u \in todo[s] \ {v} : u \in Versions /\ u <= last /\ (u \in rows => age[u] > Shortest)
      BY DEF Listed
    <3> QED
      BY <2>1, <2>2, <2>3, <3>1, GoOnFacts DEF Stored
  <2>4. CASE objs' = objs \ {v} /\ swp' = [swp EXCEPT ![s] = "row"] /\ UNCHANGED <<days, todo>>
    <3>1. Listed'
      BY <2>1, <2>4 DEF Listed
    <3>2. \A u \in todo[s] : InHand(s, u) => u = v
      BY <1>8, RetentionFacts DEF SweepObject, InHand, Listed
    <3>3. ObjectFirst'
      BY <2>4, <3>2 DEF ObjectFirst, InHand, Listed
    <3> QED
      BY <2>2, <3>1, <3>3
  <2> QED
    BY <1>8, <2>3, <2>4 DEF SweepObject, DeleteFailed
<1>9. ASSUME NEW s \in Sweepers, NEW v \in Versions, SweepRow(s, v)
      PROVE  RetentionInv'
  <2>1. \A u \in todo[s] : u \in Versions /\ u <= last /\ (u \in rows => age[u] > Shortest)
    BY DEF Listed
  <2>2. UNCHANGED <<last, objs, policy>> /\ v \notin objs
    BY <1>9 DEF SweepRow, ObjectFirst, InHand
  <2>3. CASE DeleteRow(v) /\ GoOn(s, todo[s] \ {v})
    <3>1. rows' = rows \ {v} /\ age' = [age EXCEPT ![v] = 0]
      BY <2>3 DEF DeleteRow
    <3>2. Stored'
      BY <2>2, <3>1 DEF Stored
    <3>3. \A u \in rows' : age'[u] = age[u]
      BY <3>1 DEF Stored
    <3> QED
      BY <2>1, <2>2, <2>3, <3>1, <3>2, <3>3, GoOnFacts DEF Stored
  <2>4. CASE GoOn(s, {}) /\ UNCHANGED <<rows, no, age>>
    BY <2>2, <2>4, GoOnFacts DEF Stored
  <2> QED
    BY <1>9, <2>3, <2>4 DEF SweepRow
<1>10. ASSUME NEW s \in Sweepers, SweepStops(s)
       PROVE  RetentionInv'
  <2>1. GoOn(s, {}) /\ UNCHANGED <<rows, last, age, objs, policy>>
    BY <1>10 DEF SweepStops
  <2> QED
    BY <2>1, GoOnFacts DEF Stored
<1> QED
  BY <1>1, <1>2, <1>3, <1>4, <1>5, <1>6, <1>7, <1>8, <1>9, <1>10 DEF Next, SweepStep

-----------------------------------------------------------------------------
(* The versions that may be removed, as the mapping has it.                *)
MayGo == {v \in rows : age[v] > Shortest}

(* A step that leaves table, ages and S3 alone is a stutter.               *)
LEMMA Stutter ==
    ASSUME UNCHANGED <<rows, last, age, objs>>
    PROVE  UNCHANGED <<Phase, MayGo>>
BY DEF Phase, MayGo

(* Phase of a version that a step does not touch.                          *)
LEMMA PhaseOf ==
    ASSUME NEW v \in Versions, NEW to, Phase'[v] = to,
           \A u \in Versions \ {v} : Phase'[u] = Phase[u]
    PROVE  Phase' = [Phase EXCEPT ![v] = to]
<1>1. Phase' = [u \in Versions |-> IF u = v THEN to ELSE Phase[u]]
  BY DEF Phase
<1> QED
  BY <1>1 DEF Phase

(* Every step of the sweeps, the API, the clock and the administrator is a *)
(* step of the retention or a stutter.                                     *)
LEMMA RetentionStep ==
    ASSUME RetentionInv, [Next]_vars
    PROVE  Retention!Next \/ UNCHANGED <<Phase, MayGo>>
<1> USE DEF RetentionInv, table, writeVars, sweepVars
<1>1. CASE NextDay
  <2>1. UNCHANGED <<rows, last, objs>> /\ UNCHANGED Phase
    BY <1>1 DEF NextDay, Phase
  <2>2. \A v \in Versions : age'[v] >= age[v] /\ age'[v] \in Nat
    BY <1>1, VersionAssumption DEF NextDay, Stored
  <2>3. MayGo \subseteq MayGo'
    <3> SUFFICES ASSUME NEW v \in rows, age[v] > Shortest
                 PROVE  age'[v] > Shortest
      BY <2>1 DEF MayGo
    <3>1. v \in Versions /\ age[v] \in Nat
      BY DEF Stored
    <3> QED
      BY <2>2, <3>1, RetentionFacts
  <2>4. \A v \in MayGo' : Phase[v] # "none"
    BY <2>1 DEF MayGo, Phase, Stored
  <2>5. Retention!Expire
    BY <2>1, <2>3, <2>4 DEF Retention!Expire, MayGo
  <2> QED
    BY <2>5 DEF Retention!Next
<1>2. ASSUME NEW p \in Writers, Insert(p)
      PROVE  Retention!Next
  <2> DEFINE v == last + 1
  <2>1. /\ last' = v /\ v \in Versions /\ v \notin rows /\ v \notin objs /\ ~(v <= last)
        /\ rows' = rows \cup {v} /\ objs' = objs \cup {v} /\ UNCHANGED age /\ age[v] = 0
    BY <1>2, VersionAssumption DEF Insert, Stored, Versions
  <2>2. Phase[v] = "none" /\ Phase'[v] = "kept"
    BY <2>1 DEF Phase
  <2>3. \A u \in Versions \ {v} : Phase'[u] = Phase[u]
    <3>1. \A u \in Versions \ {v} : u <= last' <=> u <= last
      BY <2>1, RetentionFacts DEF Stored
    <3> QED
      BY <2>1, <3>1 DEF Phase
  <2>4. UNCHANGED MayGo
    BY <2>1, RetentionFacts DEF MayGo
  <2>5. Retention!Add(v)
    BY <2>1, <2>2, <2>3, <2>4, PhaseOf DEF Retention!Add, Retention!Become, MayGo
  <2> QED
    BY <2>1, <2>5 DEF Retention!Next
<1>3. ASSUME NEW s \in Sweepers, NEW v \in Versions, SweepObject(s, v)
      PROVE  Retention!Next \/ UNCHANGED <<Phase, MayGo>>
  <2>1. UNCHANGED <<rows, last, age>> /\ (objs' = objs \/ objs' = objs \ {v}) /\ v \in todo[s]
    BY <1>3 DEF SweepObject, InHand
  <2>2. CASE objs' = objs
    BY <2>1, <2>2, Stutter
  <2>3. CASE v \in objs /\ objs' = objs \ {v}
    <3>1. v \in rows /\ v \in MayGo /\ UNCHANGED MayGo
      BY <2>1, <2>3 DEF Stored, Listed, MayGo
    <3>2. Phase[v] = "kept" /\ Phase'[v] = "emptied"
      BY <2>1, <2>3, <3>1 DEF Phase
    <3>3. \A u \in Versions \ {v} : Phase'[u] = Phase[u]
      BY <2>1, <2>3 DEF Phase
    <3>4. Retention!Empty(v)
      BY <3>1, <3>2, <3>3, PhaseOf DEF Retention!Empty, Retention!Become, MayGo
    <3> QED
      BY <3>4 DEF Retention!Next
  <2> QED
    BY <2>1, <2>2, <2>3
<1>4. ASSUME NEW s \in Sweepers, NEW v \in Versions, SweepRow(s, v)
      PROVE  Retention!Next \/ UNCHANGED <<Phase, MayGo>>
  <2>1. UNCHANGED <<last, objs>> /\ v \notin objs /\ v <= last
    BY <1>4 DEF SweepRow, ObjectFirst, Listed, InHand
  <2>2. CASE UNCHANGED <<rows, age>>
    BY <2>1, <2>2, Stutter
  <2>3. CASE rows' = rows \ {v} /\ age' = [age EXCEPT ![v] = 0]
    <3>1. CASE v \notin rows
      <4>1. age' = age
        BY <2>3, <3>1 DEF Stored
      <4> QED
        BY <2>1, <2>3, <3>1, <4>1, Stutter
    <3>2. CASE v \in rows
      <4>1. Phase[v] = "emptied" /\ Phase'[v] = "gone"
        BY <2>1, <2>3, <3>2 DEF Phase
      <4>2. \A u \in Versions \ {v} : Phase'[u] = Phase[u]
        BY <2>1, <2>3 DEF Phase
      <4>3. MayGo' = MayGo \ {v}
        BY <2>3 DEF MayGo, Stored
      <4>4. Retention!Drop(v)
        BY <4>1, <4>2, <4>3, PhaseOf DEF Retention!Drop, Retention!Become, MayGo
      <4> QED
        BY <4>4 DEF Retention!Next
    <3> QED
      BY <3>1, <3>2
  <2> QED
    BY <1>4, <2>2, <2>3 DEF SweepRow, DeleteRow
<1>5. CASE UNCHANGED <<rows, last, age, objs>>
  BY <1>5, Stutter
<1> QED
  BY <1>1, <1>2, <1>3, <1>4, <1>5 DEF Next, SweepStep, SetPolicy, TakeNo, SweepBegin,
     SweepQuery, SweepStops, vars

(* For any number of versions, sweeps, writers, policies and failures, the *)
(* version cleanup implements the retention: no version goes before the    *)
(* shortest retention of a policy in force, its object goes before its     *)
(* row, and no object is left in S3 without a row.                         *)
THEOREM CleanupImplementsRetention == Spec => ImplementsRetention
<1>1. Init => Retention!Init
  <2> SUFFICES ASSUME Init
               PROVE  Retention!Init
    OBVIOUS
  <2>1. Phase = [v \in Versions |-> "none"]
    BY VersionAssumption DEF Init, Phase, Versions
  <2> QED
    BY <2>1 DEF Init, Retention!Init
<1>2. RetentionInv /\ [Next]_vars => [Retention!Next]_(Retention!vars)
  BY RetentionStep DEF Retention!vars, MayGo
<1> QED
  BY RetentionInvInit, RetentionInvStep, <1>1, <1>2, PTL
     DEF Spec, ImplementsRetention, Retention!Spec


-----------------------------------------------------------------------------
(* The numbers of the versions: none is larger than the last id, none that *)
(* a writer has taken is more than one larger, and what a writer whom      *)
(* nobody has overtaken has taken is larger than all that are left.        *)
Numbered ==
    /\ last <= MaxVersions
    /\ no \in [Versions -> Nat] /\ \A v \in Versions : no[v] <= last
    /\ taken \in [Writers -> 0 .. MaxVersions] /\ \A p \in Writers : taken[p] <= last + 1
    /\ alone \subseteq Writers
    /\ \A p \in alone : taken[p] # 0 => \A v \in rows : no[v] < taken[p]

(* The rest of the types: a sweep has rows left exactly while it is at     *)
(* work on one.                                                            *)
Working ==
    /\ age \in [Versions -> 0 .. Limit]
    /\ swp \in [Sweepers -> {"idle", "query", "object", "row"}]
    /\ days \in [Sweepers -> Days \cup {0}]
    /\ \A s \in Sweepers : todo[s] # {} <=> swp[s] \in {"object", "row"}
    /\ faults \in 0 .. MaxFaults

(* NextNo is larger than the number of every row, by one at most.          *)
LEMMA NextNoFacts ==
    ASSUME Stored, Numbered
    PROVE  /\ NextNo \in Nat \ {0} /\ NextNo <= last + 1
           /\ \A v \in rows : no[v] < NextNo
<1> DEFINE S == {0} \cup {no[v] : v \in rows}
<1>1. last \in Nat
  BY DEF Stored
<1>2. \A v \in rows : no[v] \in 0 .. last
  BY <1>1 DEF Stored, Numbered
<1>3. S \in SUBSET (0 .. last) /\ S # {}
  BY <1>1, <1>2
<1>4. NextNo = Max(S) + 1
  BY DEF NextNo
<1>5. \A v \in rows : no[v] \in S
  OBVIOUS
<1> HIDE DEF S
<1>6. Max(S) \in S /\ \A x \in S : x <= Max(S)
  BY <1>1, <1>3, MaxIsGreatest
<1>7. Max(S) \in 0 .. last
  BY <1>3, <1>6
<1>8. \A v \in rows : no[v] <= Max(S)
  BY <1>5, <1>6
<1> QED
  BY <1>1, <1>2, <1>4, <1>7, <1>8

(* Every step keeps the numbers.                                           *)
LEMMA NumberedStep ==
    ASSUME RetentionInv, Numbered, [Next]_vars
    PROVE  Numbered'
<1> USE DEF table, writeVars, sweepVars
<1>1. last \in Nat /\ MaxVersions \in Nat /\ Stored
  BY VersionAssumption DEF RetentionInv, Stored
<1>2. ASSUME NEW p \in Writers, TakeNo(p)
      PROVE  Numbered'
  <2>1. NextNo \in Nat /\ NextNo <= last + 1 /\ \A v \in rows : no[v] < NextNo
    BY <1>1, NextNoFacts
  <2>2. NextNo \in 0 .. MaxVersions
    BY <1>1, <1>2, <2>1 DEF TakeNo
  <2>3. taken' = [taken EXCEPT ![p] = NextNo] /\ alone' = alone \cup {p}
        /\ UNCHANGED <<rows, last, no>>
    BY <1>2 DEF TakeNo
  <2> QED
    BY <2>1, <2>2, <2>3 DEF Numbered
<1>3. ASSUME NEW p \in Writers, Insert(p)
      PROVE  Numbered'
  <2>1. /\ last' = last + 1 /\ last' <= MaxVersions /\ alone' = {}
        /\ no' = [no EXCEPT ![last'] = taken[p]]
        /\ taken' = [taken EXCEPT ![p] = 0]
    BY <1>1, <1>3 DEF Insert
  <2>2. taken[p] \in Nat /\ taken[p] <= last'
    BY <1>1, <2>1 DEF Numbered
  <2>3. no' \in [Versions -> Nat] /\ \A v \in Versions : no'[v] <= last'
    <3>1. \A v \in Versions : no[v] \in Nat /\ no[v] <= last'
      BY <1>1, <2>1 DEF Numbered
    <3> QED
      BY <2>1, <2>2, <3>1 DEF Numbered
  <2>4. taken' \in [Writers -> 0 .. MaxVersions]
    BY <1>1, <2>1 DEF Numbered
  <2>5. \A q \in Writers : taken'[q] <= last' + 1
    BY <1>1, <2>1 DEF Numbered
  <2> QED
    BY <2>1, <2>3, <2>4, <2>5 DEF Numbered
<1>4. ASSUME NEW s \in Sweepers, NEW v \in Versions, SweepRow(s, v)
      PROVE  Numbered'
  <2>1. UNCHANGED <<last, taken, alone>>
    BY <1>4 DEF SweepRow
  <2>2. CASE DeleteRow(v)
    <3>1. rows' \subseteq rows /\ no' = [no EXCEPT ![v] = 0] /\ v \notin rows'
      BY <2>2 DEF DeleteRow
    <3>2. \A u \in rows' : u \in Versions /\ no'[u] = no[u]
      BY <1>1, <3>1 DEF Numbered, Stored
    <3> QED
      BY <1>1, <2>1, <3>1, <3>2 DEF Numbered
  <2>3. CASE UNCHANGED <<rows, no>>
    BY <2>1, <2>3 DEF Numbered
  <2> QED
    BY <1>4, <2>2, <2>3 DEF SweepRow
<1>5. CASE UNCHANGED <<rows, last, no, taken, alone>>
  BY <1>5 DEF Numbered
<1> QED
  BY <1>2, <1>3, <1>4, <1>5 DEF Next, SweepStep, SetPolicy, NextDay, SweepBegin, SweepQuery,
     SweepObject, SweepStops, vars

(* A sweep that goes on has the rows it was given.                         *)
LEMMA GoOnTyped ==
    ASSUME Listed, Working, NEW s \in Sweepers, NEW rest, GoOn(s, rest)
    PROVE  /\ swp' \in [Sweepers -> {"idle", "query", "object", "row"}]
           /\ days' \in [Sweepers -> Days \cup {0}]
           /\ \A t \in Sweepers : todo'[t] # {} <=> swp'[t] \in {"object", "row"}
BY DEF GoOn, Listed, Working

(* Every step keeps the types.                                             *)
LEMMA WorkingStep ==
    ASSUME RetentionInv, Working, [Next]_vars
    PROVE  Working'
<1> USE DEF table, writeVars, sweepVars
<1>1. MaxFaults \in Nat /\ Limit \in Nat /\ Listed
  BY VersionAssumption DEF RetentionInv
<1>2. Fault => faults' \in 0 .. MaxFaults
  BY <1>1 DEF Fault, Working
<1>3. CASE NextDay
  <2>1. \A v \in Versions : age[v] \in 0 .. Limit
    BY DEF Working
  <2>2. age' \in [Versions -> 0 .. Limit]
    BY <1>1, <1>3, <2>1 DEF NextDay
  <2> QED
    BY <1>3, <2>2 DEF NextDay, Working
<1>4. ASSUME NEW s \in Sweepers, SweepBegin(s)
      PROVE  Working'
  <2>1. CleanupPolicy(policy, DefaultDays).days \in Days
    BY DEF Days, RetentionInv, Stored
  <2> QED
    BY <1>1, <1>4, <2>1 DEF SweepBegin, Working, Listed
<1>5. ASSUME NEW s \in Sweepers, SweepQuery(s) \/ SweepStops(s)
      PROVE  Working'
  <2>1. faults' \in 0 .. MaxFaults /\ UNCHANGED age
    BY <1>2, <1>5 DEF SweepQuery, SweepStops, Working
  <2>2. PICK rest : GoOn(s, rest)
    BY <1>5 DEF SweepQuery, SweepStops
  <2> QED
    BY <1>1, <2>1, <2>2, GoOnTyped DEF Working
<1>6. ASSUME NEW s \in Sweepers, NEW v \in Versions, SweepObject(s, v)
      PROVE  Working'
  <2>1. faults' \in 0 .. MaxFaults /\ UNCHANGED age
    BY <1>2, <1>6 DEF SweepObject, Working
  <2>2. CASE GoOn(s, todo[s] \ {v})
    BY <1>1, <2>1, <2>2, GoOnTyped DEF Working
  <2>3. CASE swp' = [swp EXCEPT ![s] = "row"] /\ UNCHANGED <<days, todo>>
    BY <1>6, <2>1, <2>3 DEF Working, SweepObject
  <2> QED
    BY <1>6, <2>2, <2>3 DEF SweepObject, DeleteFailed
<1>7. ASSUME NEW s \in Sweepers, NEW v \in Versions, SweepRow(s, v)
      PROVE  Working'
  <2>1. faults' \in 0 .. MaxFaults
    BY <1>2, <1>7 DEF SweepRow, Working
  <2>2. age' \in [Versions -> 0 .. Limit]
    BY <1>1, <1>7 DEF SweepRow, DeleteRow, Working
  <2>3. PICK rest : GoOn(s, rest)
    BY <1>7 DEF SweepRow
  <2> QED
    BY <1>1, <2>1, <2>2, <2>3, GoOnTyped DEF Working
<1>8. CASE UNCHANGED <<age, sweepVars, faults>>
  BY <1>8 DEF Working
<1> QED
  BY <1>3, <1>4, <1>5, <1>6, <1>7, <1>8 DEF Next, SweepStep, SetPolicy, TakeNo, Insert, vars

(* The three invariants together.                                          *)
LEMMA VersionInvariant == Spec => [](RetentionInv /\ Numbered /\ Working)
<1>1. Init => RetentionInv /\ Numbered /\ Working
  <2> SUFFICES ASSUME Init PROVE Numbered /\ Working
    BY RetentionInvInit
  <2>1. MaxVersions \in Nat /\ MaxFaults \in Nat /\ Limit \in Nat
    BY VersionAssumption
  <2> QED
    BY <2>1 DEF Init, Numbered, Working
<1>2. RetentionInv /\ Numbered /\ Working /\ [Next]_vars
        => RetentionInv' /\ Numbered' /\ Working'
  BY RetentionInvStep, NumberedStep, WorkingStep
<1> QED
  BY <1>1, <1>2, PTL DEF Spec

(* The variables keep their types in every behaviour; the version numbers  *)
(* never exceed the bound, although NextNo and Insert of several writers   *)
(* interleave.                                                             *)
THEOREM VersionTypeCorrect == Spec => []TypeOK
<1>1. RetentionInv /\ Numbered /\ Working => TypeOK
  <2> SUFFICES ASSUME RetentionInv, Numbered, Working PROVE TypeOK
    OBVIOUS
  <2>1. last \in 0 .. MaxVersions /\ rows \subseteq 1 .. last /\ objs \subseteq 1 .. last
    BY VersionAssumption DEF RetentionInv, Stored, Numbered
  <2>2. no \in [Versions -> 0 .. MaxVersions]
    <3>1. \A v \in Versions : no[v] \in Nat /\ no[v] <= last
      BY DEF Numbered
    <3>2. \A v \in Versions : no[v] \in 0 .. MaxVersions
      BY <2>1, <3>1, VersionAssumption
    <3> QED
      BY <3>2 DEF Numbered
  <2> QED
    BY <2>1, <2>2 DEF TypeOK, RetentionInv, Stored, Listed, Numbered, Working
<1> QED
  BY <1>1, VersionInvariant, PTL

(* A version gets a higher number than all that are left of its object,    *)
(* whatever sweeps remove and however many writers there are, unless       *)
(* another writer inserted one since its NextNo.                           *)
THEOREM VersionNumbersGrow == Spec => NumbersGrow
<1>1. Numbered => [\A p \in alone :
         (taken[p] # 0 /\ taken'[p] = 0) => \A v \in rows : no[v] < taken[p]]_vars
  BY DEF Numbered
<1> QED
  BY <1>1, VersionInvariant, PTL DEF NumbersGrow
=============================================================================
