---------------------------- MODULE UploadProofs ----------------------------
(***************************************************************************)
(* For any number of uploads, sweeps and failures: the statuses in         *)
(* upload_tasks are true of S3.                                            *)
(***************************************************************************)
EXTENDS UploadCleanup, OrderProofs

States == {"pending", "completed", "aborted"}

(* S3 has parts or an object of an upload, and never both; the API is      *)
(* about to record only what S3 has completed.                             *)
Storage ==
    /\ parts \subseteq HasId /\ objects \subseteq HasId \ parts
    /\ api \subseteq objects

(* The variables are functions.                                            *)
Shapes ==
    /\ status \in [Uploads -> States]
    /\ swp \in [Sweepers -> {"idle", "query", "abort", "finish"}]
    /\ todo = [s \in Sweepers |-> todo[s]]

(* A sweep that is about to write "aborted" has an upload in hand that S3  *)
(* no longer has, and that can therefore not be completed any more.        *)
AbortedFirst ==
    \A s \in Sweepers : swp[s] = "finish" => Head(todo[s]) \notin parts \cup objects

(* The inductive invariant.                                                *)
UploadInv == Storage /\ Shapes /\ AbortedFirst /\ StatusIsTrue

(* A sweep that goes on to its next tasks is about to write "aborted" only *)
(* when the next one never had an upload in S3.                            *)
LEMMA GoOnFacts ==
    ASSUME Storage, Shapes, AbortedFirst,
           NEW s \in Sweepers, NEW rest, GoOn(s, rest),
           parts' \subseteq parts, UNCHANGED objects
    PROVE  /\ swp' \in [Sweepers -> {"idle", "query", "abort", "finish"}]
           /\ todo' = [r \in Sweepers |-> todo'[r]]
           /\ AbortedFirst'
<1>1. swp' \in [Sweepers -> {"idle", "query", "abort", "finish"}]
  BY DEF GoOn, FirstCall, Shapes
<1>2. todo' = [r \in Sweepers |-> todo'[r]]
  BY DEF GoOn, Shapes
<1>3. ASSUME NEW r \in Sweepers, swp'[r] = "finish"
      PROVE  Head(todo'[r]) \notin parts' \cup objects'
  <2>1. CASE r = s
    <3>1. rest # <<>> /\ Head(rest) \notin HasId
      BY <1>3, <2>1 DEF GoOn, FirstCall, Shapes
    <3>2. todo'[r] = rest
      BY <2>1 DEF GoOn, Shapes
    <3> QED
      BY <3>1, <3>2 DEF Storage
  <2>2. CASE r # s
    <3>1. swp'[r] = swp[r] /\ todo'[r] = todo[r]
      BY <2>2 DEF GoOn, Shapes
    <3> QED
      BY <1>3, <3>1 DEF AbortedFirst
  <2> QED
    BY <2>1, <2>2
<1> QED
  BY <1>1, <1>2, <1>3 DEF AbortedFirst

(* The invariant holds at the start.                                       *)
LEMMA InvInit == Init => UploadInv
BY UploadAssumption DEF Init, UploadInv, Storage, Shapes, States, AbortedFirst, StatusIsTrue

(* Every step keeps it.                                                    *)
LEMMA InvStep == UploadInv /\ [Next]_vars => UploadInv'
<1> SUFFICES ASSUME UploadInv, [Next]_vars
             PROVE  UploadInv'
  OBVIOUS
<1> USE DEF UploadInv
<1>1. CASE UNCHANGED vars
  BY <1>1 DEF vars, uploadVars, sweepVars, Storage, Shapes, AbortedFirst, StatusIsTrue
<1>2. CASE SetPolicy
  BY <1>2 DEF SetPolicy, uploadVars, sweepVars, Storage, Shapes, AbortedFirst, StatusIsTrue
<1>3. ASSUME NEW u \in Uploads, AgeOut(u)
      PROVE  UploadInv'
  BY <1>3 DEF AgeOut, uploadVars, sweepVars, Storage, Shapes, AbortedFirst, StatusIsTrue
<1>4. ASSUME NEW u \in Uploads, Complete(u)
      PROVE  UploadInv'
  <2>1. Storage' /\ Shapes'
    BY <1>4 DEF Complete, sweepVars, Storage, Shapes
  <2>2. AbortedFirst'
    BY <1>4 DEF Complete, sweepVars, AbortedFirst
  <2>3. StatusIsTrue'
    BY <1>4 DEF Complete, StatusIsTrue
  <2> QED
    BY <2>1, <2>2, <2>3
<1>5. ASSUME NEW u \in Uploads, RecordDone(u)
      PROVE  UploadInv'
  <2>1. Storage' /\ Shapes'
    BY <1>5 DEF RecordDone, Finish, sweepVars, Storage, Shapes, States
  <2>2. AbortedFirst'
    BY <1>5 DEF RecordDone, sweepVars, AbortedFirst
  <2>3. StatusIsTrue'
    BY <1>5 DEF RecordDone, Finish, StatusIsTrue, Storage, Shapes
  <2> QED
    BY <2>1, <2>2, <2>3
<1>6. ASSUME NEW u \in Uploads, ApiStops(u)
      PROVE  UploadInv'
  BY <1>6 DEF ApiStops, uploadVars, sweepVars, Storage, Shapes, AbortedFirst, StatusIsTrue
<1>7. ASSUME NEW s \in Sweepers, SweepBegin(s)
      PROVE  UploadInv'
  BY <1>7 DEF SweepBegin, uploadVars, Storage, Shapes, AbortedFirst, StatusIsTrue
<1>8. ASSUME NEW s \in Sweepers, SweepQuery(s)
      PROVE  UploadInv'
  <2>1. GoOn(s, StaleMultipart) /\ UNCHANGED <<parts, objects, status, api>>
    BY <1>8 DEF SweepQuery, uploadVars
  <2> QED
    BY <2>1, GoOnFacts DEF Storage, Shapes, StatusIsTrue
<1>9. ASSUME NEW s \in Sweepers, SweepAbort(s)
      PROVE  UploadInv'
  <2>1. UNCHANGED <<objects, status, api>> /\ parts' \subseteq parts
    BY <1>9 DEF SweepAbort
  <2>2. Storage' /\ StatusIsTrue'
    BY <2>1 DEF Storage, StatusIsTrue
  <2>3. CASE GoOn(s, Tail(todo[s]))
    BY <2>1, <2>2, <2>3, GoOnFacts DEF Shapes
  <2>4. CASE /\ Head(todo[s]) \in parts
             /\ parts' = parts \ {Head(todo[s])}
             /\ swp' = [swp EXCEPT ![s] = "finish"]
             /\ todo' = todo
    <3>1. Shapes'
      BY <2>1, <2>4 DEF Shapes
    <3>2. AbortedFirst'
      BY <2>1, <2>4 DEF AbortedFirst, Storage, Shapes
    <3> QED
      BY <2>2, <3>1, <3>2
  <2> QED
    BY <1>9, <2>3, <2>4 DEF SweepAbort, AbortFailed
<1>10. ASSUME NEW s \in Sweepers, SweepFinish(s)
       PROVE  UploadInv'
  <2>1. UNCHANGED <<parts, objects, api>> /\ Storage'
    BY <1>10 DEF SweepFinish, Storage
  <2>2. PICK rest : GoOn(s, rest)
    BY <1>10 DEF SweepFinish
  <2>3. AbortedFirst' /\ swp' \in [Sweepers -> {"idle", "query", "abort", "finish"}]
        /\ todo' = [r \in Sweepers |-> todo'[r]]
    BY <2>1, <2>2, GoOnFacts
  <2>4. Head(todo[s]) \notin parts \cup objects
    BY <1>10 DEF SweepFinish, AbortedFirst
  <2>5. CASE UNCHANGED status
    BY <2>1, <2>3, <2>5 DEF Shapes, StatusIsTrue
  <2>6. CASE status' = Finish(Head(todo[s]), "aborted")
    <3>1. status' \in [Uploads -> States]
      BY <2>6 DEF Finish, Shapes, States
    <3>2. StatusIsTrue'
      BY <2>1, <2>4, <2>6 DEF Finish, StatusIsTrue, Shapes
    <3> QED
      BY <2>1, <2>3, <3>1, <3>2 DEF Shapes
  <2> QED
    BY <1>10, <2>5, <2>6 DEF SweepFinish
<1>11. ASSUME NEW s \in Sweepers, SweepStops(s)
       PROVE  UploadInv'
  <2>1. GoOn(s, <<>>) /\ UNCHANGED <<parts, objects, status, api>>
    BY <1>11 DEF SweepStops, uploadVars
  <2> QED
    BY <2>1, GoOnFacts DEF Storage, Shapes, StatusIsTrue
<1> QED
  BY <1>1, <1>2, <1>3, <1>4, <1>5, <1>6, <1>7, <1>8, <1>9, <1>10, <1>11 DEF Next, SweepStep

(* Whatever sweeps, the API and failures do, in any number: a task that    *)
(* upload_tasks calls completed has its object, and one that it calls      *)
(* aborted has neither an object nor parts in S3.                          *)
THEOREM StatusesAreTrue == Spec => []StatusIsTrue
<1>1. UploadInv => StatusIsTrue
  BY DEF UploadInv
<1> QED
  BY InvInit, InvStep, <1>1, PTL DEF Spec

-----------------------------------------------------------------------------
(* What the API is about to record has not been reported yet.  Together    *)
(* with UploadInv it lets the implementation be mapped to UploadLifecycle. *)
Unreported == \A u \in api : status[u] = "pending"

(* What a step may do to the table and to S3, in terms of the uploads.     *)
Touches(u) ==
    \/ /\ u \in parts /\ parts' = parts \ {u}
       /\ (objects' = objects \/ objects' = objects \cup {u})
       /\ UNCHANGED status
    \/ /\ u \in objects /\ status[u] = "pending"
       /\ status' = [status EXCEPT ![u] = "completed"]
       /\ UNCHANGED <<parts, objects>>
    \/ /\ u \notin parts \cup objects /\ status[u] # "completed"
       /\ status' = [status EXCEPT ![u] = "aborted"]
       /\ UNCHANGED <<parts, objects>>

(* Every step leaves table and S3 alone or touches them for one upload.    *)
LEMMA OneAtATime ==
    ASSUME UploadInv, Unreported, [Next]_vars
    PROVE  UNCHANGED uploadVars \/ \E u \in Uploads : Touches(u)
<1> USE DEF uploadVars
<1>1. ASSUME NEW u \in Uploads, Complete(u)
      PROVE  Touches(u)
  BY <1>1 DEF Complete, Touches
<1>2. ASSUME NEW u \in Uploads, RecordDone(u)
      PROVE  Touches(u)
  BY <1>2 DEF RecordDone, Finish, Touches, UploadInv, Storage, Unreported
<1>3. ASSUME NEW s \in Sweepers, SweepAbort(s)
      PROVE  UNCHANGED uploadVars \/ \E u \in Uploads : Touches(u)
  <2>1. CASE UNCHANGED parts
    BY <1>3, <2>1 DEF SweepAbort
  <2>2. CASE Head(todo[s]) \in parts /\ parts' = parts \ {Head(todo[s])}
    <3>1. Head(todo[s]) \in Uploads
      BY <2>2, UploadAssumption DEF UploadInv, Storage
    <3>2. Touches(Head(todo[s]))
      BY <1>3, <2>2 DEF SweepAbort, Touches
    <3> QED
      BY <3>1, <3>2
  <2> QED
    BY <1>3, <2>1, <2>2 DEF SweepAbort
<1>4. ASSUME NEW s \in Sweepers, SweepFinish(s)
      PROVE  UNCHANGED uploadVars \/ \E u \in Uploads : Touches(u)
  <2> DEFINE u == Head(todo[s])
  <2>1. CASE UNCHANGED status
    BY <1>4, <2>1 DEF SweepFinish
  <2>2. CASE status' = [status EXCEPT ![u] = "aborted"]
    <3>1. u \notin parts \cup objects /\ UNCHANGED <<parts, objects>>
      BY <1>4 DEF SweepFinish, UploadInv, AbortedFirst
    <3>2. CASE u \in Uploads
      <4>1. status[u] # "completed"
        BY <3>1, <3>2 DEF UploadInv, StatusIsTrue
      <4>2. Touches(u)
        BY <2>2, <3>1, <4>1 DEF Touches
      <4> QED
        BY <3>2, <4>2
    <3>3. CASE u \notin Uploads
      <4>1. status' = status
        BY <2>2, <3>3 DEF UploadInv, Shapes
      <4> QED
        BY <3>1, <4>1
    <3> QED
      BY <3>2, <3>3
  <2> QED
    BY <1>4, <2>1, <2>2 DEF SweepFinish, Finish
<1> QED
  BY <1>1, <1>2, <1>3, <1>4 DEF Next, SweepStep, SetPolicy, AgeOut, ApiStops, SweepBegin,
     SweepQuery, SweepStops, vars

(* Unreported is kept: what is completed was open, and so not reported.    *)
LEMMA UnreportedStep ==
    UploadInv /\ Unreported /\ [Next]_vars => Unreported'
<1> SUFFICES ASSUME UploadInv, Unreported, [Next]_vars,
                    NEW u \in api', status'[u] # "pending"
             PROVE  FALSE
  BY DEF Unreported
<1>0. HasId \subseteq Uploads /\ api \subseteq Uploads
  BY UploadAssumption DEF UploadInv, Storage
<1>1. CASE u \notin api
  <2>1. u \in Uploads /\ Complete(u)
    BY <1>0, <1>1 DEF Next, vars, SetPolicy, AgeOut, Complete, RecordDone, ApiStops, SweepStep,
       SweepBegin, SweepQuery, SweepAbort, SweepFinish, SweepStops
  <2>2. u \in parts /\ status'[u] = status[u]
    BY <2>1 DEF Complete
  <2> QED
    BY <2>1, <2>2 DEF UploadInv, StatusIsTrue, Storage, Shapes, States
<1>2. CASE u \in api
  <2>1. status[u] = "pending" /\ u \in objects /\ u \notin parts /\ u \in Uploads
    BY <1>0, <1>2 DEF Unreported, UploadInv, Storage
  <2>2. ASSUME NEW v \in Uploads, RecordDone(v)
        PROVE  FALSE
    BY <1>2, <2>1, <2>2 DEF RecordDone, Finish, UploadInv, Shapes
  <2>3. ASSUME NEW s \in Sweepers, SweepFinish(s)
        PROVE  FALSE
    <3>1. Head(todo[s]) # u
      BY <2>1, <2>3 DEF SweepFinish, UploadInv, AbortedFirst
    <3> QED
      BY <2>1, <2>3, <3>1 DEF SweepFinish, Finish, UploadInv, Shapes
  <2> QED
    BY <2>1, <2>2, <2>3 DEF Next, vars, uploadVars, SetPolicy, AgeOut, Complete, ApiStops,
       SweepStep, SweepBegin, SweepQuery, SweepAbort, SweepStops
<1> QED
  BY <1>1, <1>2

(* A step that touches one upload settles it or reports it.                *)
LEMMA TouchIsALifeStep ==
    ASSUME UploadInv, NEW u \in Uploads, Touches(u)
    PROVE  Lifecycle!Next \/ UNCHANGED <<Outcome, status>>
<1>1. CASE u \in parts
  <2>1. Outcome[u] = "open" /\ UNCHANGED status /\ parts' = parts \ {u} /\ u \notin objects
        /\ (objects' = objects \/ objects' = objects \cup {u})
    BY <1>1 DEF Outcome, Touches, UploadInv, Storage
  <2> DEFINE o == IF u \in objects' THEN "object" ELSE "freed"
  <2>2. Outcome' = [Outcome EXCEPT ![u] = o]
    <3>1. Outcome'[u] = o
      BY <2>1 DEF Outcome
    <3>2. ASSUME NEW v \in Uploads, v # u
          PROVE  Outcome'[v] = Outcome[v]
      BY <2>1, <3>2 DEF Outcome
    <3>3. Outcome' = [v \in Uploads |-> IF v = u THEN o ELSE Outcome[v]]
      BY <3>1, <3>2 DEF Outcome
    <3> QED
      BY <3>3 DEF Outcome
  <2>3. Lifecycle!Settle(u)
    BY <2>1, <2>2 DEF Lifecycle!Settle
  <2> QED
    BY <2>3 DEF Lifecycle!Next
<1>2. CASE u \notin parts
  <2>1. UNCHANGED Outcome
    BY <1>2 DEF Touches, Outcome
  <2>2. CASE status[u] = "pending"
    <3>1. Outcome[u] # "open"
      BY <1>2 DEF Outcome
    <3>2. status' = [status EXCEPT ![u] = IF Outcome[u] = "object" THEN "completed" ELSE "aborted"]
      BY <1>2 DEF Touches, Outcome
    <3>3. Lifecycle!Report(u)
      BY <2>1, <2>2, <3>1, <3>2 DEF Lifecycle!Report
    <3> QED
      BY <3>3 DEF Lifecycle!Next
  <2>3. CASE status[u] # "pending"
    <3>1. status[u] = "aborted" /\ status' = [status EXCEPT ![u] = "aborted"]
      BY <1>2, <2>3 DEF Touches, UploadInv, Shapes, States
    <3>2. status' = status
      BY <3>1 DEF UploadInv, Shapes
    <3> QED
      BY <2>1, <3>2
  <2> QED
    BY <2>2, <2>3
<1> QED
  BY <1>1, <1>2

(* For any number of uploads, sweeps and failures, sweeps and the API      *)
(* implement UploadLifecycle: S3 settles an upload once, and the one       *)
(* report upload_tasks gives of it is true and final, although Finish      *)
(* overwrites the status without looking at it.                            *)
THEOREM SweepsImplementLifecycle == Spec => ImplementsLifecycle
<1>1. Init => Lifecycle!Init
  <2> SUFFICES ASSUME Init
               PROVE  Lifecycle!Init
    OBVIOUS
  <2>1. Outcome \in [Uploads -> {"open", "freed"}]
    BY DEF Init, Outcome
  <2> QED
    BY <2>1 DEF Init, Lifecycle!Init
<1>2. Init => UploadInv /\ Unreported
  BY InvInit DEF Init, Unreported
<1>3. UploadInv /\ Unreported /\ [Next]_vars => UploadInv' /\ Unreported'
  BY InvStep, UnreportedStep
<1>4. UploadInv /\ Unreported /\ [Next]_vars => [Lifecycle!Next]_(Lifecycle!vars)
  <2> SUFFICES ASSUME UploadInv, Unreported, [Next]_vars
               PROVE  Lifecycle!Next \/ UNCHANGED <<Outcome, status>>
    BY DEF Lifecycle!vars
  <2>1. CASE UNCHANGED uploadVars
    BY <2>1 DEF uploadVars, Outcome
  <2>2. ASSUME NEW u \in Uploads, Touches(u)
        PROVE  Lifecycle!Next \/ UNCHANGED <<Outcome, status>>
    BY <2>2, TouchIsALifeStep
  <2> QED
    BY <2>1, <2>2, OneAtATime
<1> QED
  BY <1>1, <1>2, <1>3, <1>4, PTL DEF Spec, ImplementsLifecycle, Lifecycle!Spec


-----------------------------------------------------------------------------
(* What a sweep has read are tasks, and it has some left exactly while it  *)
(* is at work on one.                                                      *)
Working ==
    /\ todo \in [Sweepers -> Seq(Uploads)]
    /\ \A s \in Sweepers : todo[s] # <<>> <=> swp[s] \in {"abort", "finish"}

(* The rest of the types; what nobody recorded, S3 has settled.            *)
Counted ==
    /\ stale \subseteq Uploads /\ policy \in Policies
    /\ faults \in 0 .. MaxFaults /\ lost \subseteq HasId \ parts

(* staleMultipart returns a list of tasks.                                 *)
LEMMA StaleMultipartTyped ==
    ASSUME stale \subseteq Uploads
    PROVE  StaleMultipart \in Seq(Uploads)
<1> DEFINE S == {u \in stale : status[u] = "pending"}
           found == Sorted(S)
           n == IF Len(found) < RowLimit THEN Len(found) ELSE RowLimit
<1>1. Uploads \in SUBSET Nat /\ IsFiniteSet(Uploads) /\ RowLimit \in Nat
  BY UploadAssumption
<1>2. S \in SUBSET Uploads
  OBVIOUS
<1>3. IsFiniteSet(S) /\ S \in SUBSET Int
  <2>1. IsFiniteSet(S)
    BY <1>1, <1>2, FS_Subset
  <2>2. S \in SUBSET Nat
    BY <1>1, <1>2
  <2> QED
    BY <2>1, <2>2
<1>4. StaleMultipart = SubSeq(found, 1, n)
  BY DEF StaleMultipart
<1> HIDE DEF S
<1>5. found \in Seq(S)
  BY <1>3, SortedLists
<1> HIDE DEF found
<1>6. Len(found) \in Nat /\ \A i \in 1 .. Len(found) : found[i] \in Uploads
  BY <1>2, <1>5
<1>7. n \in Nat /\ n <= Len(found)
  BY <1>1, <1>6
<1> HIDE DEF n
<1>8. \A i \in 1 .. n : found[i] \in Uploads
  BY <1>6, <1>7
<1>9. SubSeq(found, 1, n) \in Seq(Uploads)
  BY <1>7, <1>8, SubSeqProperties
<1> QED
  BY <1>4, <1>9

(* A sweep that goes on has the tasks it was given.                        *)
LEMMA GoOnTyped ==
    ASSUME Shapes, Working, NEW s \in Sweepers, NEW rest \in Seq(Uploads), GoOn(s, rest)
    PROVE  Working'
<1>1. todo' = [todo EXCEPT ![s] = rest] /\ todo' \in [Sweepers -> Seq(Uploads)]
  BY DEF GoOn, Working
<1>2. swp'[s] = IF rest = <<>> THEN "idle" ELSE FirstCall(Head(rest))
  BY DEF GoOn, Shapes
<1>3. todo'[s] # <<>> <=> swp'[s] \in {"abort", "finish"}
  BY <1>1, <1>2 DEF Working, FirstCall
<1>4. \A r \in Sweepers \ {s} : swp'[r] = swp[r] /\ todo'[r] = todo[r]
  BY <1>1 DEF GoOn, Shapes, Working
<1> QED
  BY <1>1, <1>3, <1>4 DEF Working

(* A task that a sweep is at work on; when it is about to be recorded, its *)
(* parts are gone.                                                         *)
LEMMA TaskInHand ==
    ASSUME UploadInv, Working, NEW s \in Sweepers, swp[s] \in {"abort", "finish"}
    PROVE  /\ Head(todo[s]) \in Uploads /\ Tail(todo[s]) \in Seq(Uploads)
           /\ swp[s] = "finish" => Head(todo[s]) \notin parts
<1>1. todo[s] \in Seq(Uploads) /\ todo[s] # <<>>
  BY DEF Working
<1>2. Head(todo[s]) \in Uploads /\ Tail(todo[s]) \in Seq(Uploads)
  BY <1>1
<1> QED
  BY <1>2 DEF UploadInv, AbortedFirst

(* Every step keeps the types, given the invariant of the statuses.        *)
LEMMA TypedStep ==
    ASSUME UploadInv, Working, Counted, [Next]_vars
    PROVE  Working' /\ Counted'
<1> USE DEF uploadVars, sweepVars
<1>1. MaxFaults \in Nat /\ HasId \subseteq Uploads /\ <<>> \in Seq(Uploads)
  BY UploadAssumption
<1>2. Fault => faults' \in 0 .. MaxFaults
  BY <1>1 DEF Fault, Counted
<1>3. CASE UNCHANGED vars \/ SetPolicy
  BY <1>3 DEF vars, SetPolicy, Working, Counted
<1>4. ASSUME NEW u \in Uploads, AgeOut(u) \/ Complete(u) \/ RecordDone(u)
      PROVE  Working' /\ Counted'
  BY <1>4 DEF AgeOut, Complete, RecordDone, Working, Counted
<1>5. ASSUME NEW u \in Uploads, ApiStops(u)
      PROVE  Working' /\ Counted'
  BY <1>5 DEF ApiStops, Loss, Working, Counted, UploadInv, Storage
<1>6. ASSUME NEW s \in Sweepers, SweepBegin(s)
      PROVE  Working' /\ Counted'
  BY <1>6 DEF SweepBegin, Working, Counted, UploadInv, Shapes
<1>7. ASSUME NEW s \in Sweepers, SweepQuery(s)
      PROVE  Working' /\ Counted'
  <2>1. StaleMultipart \in Seq(Uploads)
    BY StaleMultipartTyped DEF Counted
  <2> QED
    BY <1>7, <2>1, GoOnTyped DEF SweepQuery, UploadInv, Counted
<1>8. ASSUME NEW s \in Sweepers, SweepAbort(s)
      PROVE  Working' /\ Counted'
  <2> DEFINE u == Head(todo[s])
  <2>1. u \in Uploads /\ Tail(todo[s]) \in Seq(Uploads) /\ swp[s] = "abort"
    BY <1>8, TaskInHand DEF SweepAbort
  <2> HIDE DEF u
  <2>2. Working'
    <3>1. CASE AbortFailed(s)
      BY <2>1, <3>1, GoOnTyped DEF AbortFailed, UploadInv
    <3>2. CASE swp' = [swp EXCEPT ![s] = "finish"] /\ UNCHANGED todo
      BY <2>1, <3>2 DEF Working, UploadInv, Shapes
    <3> QED
      BY <1>8, <3>1, <3>2 DEF SweepAbort
  <2>3. lost' \subseteq HasId \ parts'
    BY <1>8 DEF SweepAbort, Loss, Counted, UploadInv, Storage, u
  <2>4. faults' \in 0 .. MaxFaults
    BY <1>2, <1>8 DEF SweepAbort, Counted
  <2> QED
    BY <1>8, <2>2, <2>3, <2>4 DEF SweepAbort, Counted
<1>9. ASSUME NEW s \in Sweepers, swp[s] = "finish", FinishFails(Head(todo[s])), UNCHANGED parts
      PROVE  faults' \in 0 .. MaxFaults /\ lost' \subseteq HasId \ parts'
  BY <1>2, <1>9, TaskInHand DEF FinishFails, Loss, Counted
<1>10. ASSUME NEW s \in Sweepers, SweepFinish(s)
       PROVE  Working' /\ Counted'
  <2>1. Tail(todo[s]) \in Seq(Uploads) /\ swp[s] = "finish"
    BY <1>10, TaskInHand DEF SweepFinish
  <2>2. Working'
    BY <1>1, <1>10, <2>1, GoOnTyped DEF SweepFinish, UploadInv
  <2>3. faults' \in 0 .. MaxFaults /\ lost' \subseteq HasId \ parts'
    BY <1>9, <1>10, <2>1 DEF SweepFinish, Counted
  <2> QED
    BY <1>10, <2>2, <2>3 DEF SweepFinish, Counted
<1>11. ASSUME NEW s \in Sweepers, SweepStops(s)
       PROVE  Working' /\ Counted'
  <2>1. Working'
    BY <1>1, <1>11, GoOnTyped DEF SweepStops, UploadInv
  <2>2. faults' \in 0 .. MaxFaults /\ lost' \subseteq HasId \ parts'
    BY <1>2, <1>9, <1>11 DEF SweepStops, Counted
  <2> QED
    BY <1>11, <2>1, <2>2 DEF SweepStops, Counted
<1> QED
  BY <1>3, <1>4, <1>5, <1>6, <1>7, <1>8, <1>10, <1>11 DEF Next, SweepStep

(* The variables keep their types in every behaviour; an upload that S3    *)
(* has settled without a record has no parts left, and a sweep is at work  *)
(* exactly while it has tasks left.                                        *)
THEOREM UploadTypeCorrect == Spec => []TypeOK
<1>1. Init => UploadInv /\ Working /\ Counted
  BY InvInit, UploadAssumption DEF Init, Working, Counted
<1>2. UploadInv /\ Working /\ Counted /\ [Next]_vars => UploadInv' /\ Working' /\ Counted'
  BY InvStep, TypedStep
<1>3. UploadInv /\ Working /\ Counted => TypeOK
  <2> SUFFICES ASSUME UploadInv, Working, Counted
               PROVE  TypeOK
    OBVIOUS
  <2>1. \A s \in Sweepers : todo[s] \in Seq(Uploads) /\ ToSet(todo[s]) \subseteq Uploads
    BY ToSetFinite DEF Working
  <2> QED
    BY <2>1 DEF TypeOK, UploadInv, Storage, Shapes, States, Working, Counted
<1> QED
  BY <1>1, <1>2, <1>3, PTL DEF Spec
=============================================================================
