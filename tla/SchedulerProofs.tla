-------------------------- MODULE SchedulerProofs ---------------------------
(***************************************************************************)
(* For every group of schedulers, every list of buckets and kinds and all  *)
(* slot lengths: the scheduler's types, and that no task is enqueued twice *)
(* in its slot except in the two ways AtMostOncePerSlot names.             *)
(***************************************************************************)
EXTENDS Scheduler, OrderProofs

(* In an ascending list SearchStrings finds a member at its own index.     *)
LEMMA SearchFindsMember ==
    ASSUME NEW members, Ascending(members), NEW k \in 1 .. Len(members)
    PROVE  SearchStrings(members, members[k]) = k - 1
<1> DEFINE P(i) == /\ \A j \in 1 .. i : members[j] < members[k]
                   /\ i < Len(members) => members[i + 1] >= members[k]
<1>1. members \in Seq(Nat) /\ Len(members) \in Nat
  BY DEF Ascending
<1>2. k - 1 \in 0 .. Len(members) /\ P(k - 1)
  BY <1>1 DEF Ascending
<1>3. ASSUME NEW i \in 0 .. Len(members), P(i)
      PROVE  i = k - 1
  <2>1. CASE i < k - 1
    BY <1>1, <1>3, <2>1 DEF Ascending
  <2>2. CASE i > k - 1
    <3>1. k \in 1 .. i
      BY <1>1, <2>2
    <3> QED
      BY <1>1, <1>3, <3>1
  <2> QED
    BY <1>1, <2>1, <2>2
<1>4. SearchStrings(members, members[k]) \in 0 .. Len(members)
      /\ P(SearchStrings(members, members[k]))
  BY <1>2 DEF SearchStrings
<1> HIDE DEF P
<1> QED
  BY <1>3, <1>4

(* sched.Mine assigns every bucket id to exactly one member of an          *)
(* ascending, non-empty list: the one at index id modulo the length.       *)
THEOREM MineAssignsOneOwner ==
    ASSUME NEW members, Ascending(members), Len(members) > 0, NEW id \in Nat
    PROVE  OneOwner(members, id)
<1> DEFINE n == Len(members)
           i == (id % n) + 1
<1>1. members \in Seq(Nat) /\ n \in Nat /\ n > 0
  BY DEF Ascending
<1>2. id % n \in 0 .. n - 1
  BY <1>1
<1>3. i \in 1 .. n
  BY <1>1, <1>2
<1>4. ASSUME NEW j \in 1 .. n
      PROVE  Mine(id, members, members[j]) <=> j = i
  <2>1. SearchStrings(members, members[j]) = j - 1
    BY <1>4, SearchFindsMember
  <2>2. j - 1 < n /\ (j - 1) + 1 = j
    BY <1>1, <1>4
  <2> QED
    BY <1>1, <1>2, <1>4, <2>1, <2>2 DEF Mine
<1> HIDE DEF i
<1> QED
  BY <1>3, <1>4 DEF OneOwner

(* Slot: the slot starts at or before the time it is computed from.        *)
LEMMA SlotStartType ==
    ASSUME NEW time \in Nat, NEW interval \in Nat \ {0}
    PROVE  SlotStart(time, interval) \in 0 .. time
<1>1. time % interval \in 0 .. interval - 1
  OBVIOUS
<1>2. time % interval <= time
  <2>1. time = interval * (time \div interval) + (time % interval)
    BY SMTT(30)
  <2>2. time \div interval \in Nat
    OBVIOUS
  <2>3. interval * (time \div interval) \in Nat
    BY <2>2
  <2> QED
    BY <1>1, <2>1, <2>3
<1> QED
  BY <1>1, <1>2 DEF SlotStart

(* Claim: applied at any time not before the one the TTL was computed      *)
(* from, the TTL lasts to the end of the slot and is never zero.           *)
LEMMA SlotTTLCovers ==
    ASSUME NEW read \in Nat, NEW time \in Nat, read <= time,
           NEW interval \in Nat \ {0}, NEW minTTL \in Nat \ {0}
    PROVE  /\ SlotTTL(read, interval, minTTL) \in Nat \ {0}
           /\ time + SlotTTL(read, interval, minTTL) >= SlotStart(read, interval) + interval
<1>1. SlotStart(read, interval) \in 0 .. read
  BY SlotStartType
<1> QED
  BY <1>1 DEF SlotTTL

-----------------------------------------------------------------------------
(* The names and intervals the loops use are those of the configuration.   *)
LEMMA PositionFacts ==
    ASSUME NEW p \in Positions
    PROVE  /\ KindAt(p) \in Kinds
           /\ Interval[KindAt(p)] \in Nat \ {0}
           /\ IdAt(p) \in ToSet(BucketIds) \cup {0}
<1>1. BucketKinds \in Seq(STRING) /\ BucketIds \in Seq(Nat \ {0})
  BY SchedulerAssumption
<1>2. KindAt(p) \in Kinds
  <2>1. CASE p = StatsPos
    BY <2>1 DEF KindAt, Kinds
  <2>2. CASE p # StatsPos
    <3>1. p[1] \in DOMAIN BucketKinds
      BY <1>1, <2>2 DEF Positions
    <3> QED
      BY <2>2, <3>1 DEF KindAt, Kinds, ToSet
  <2> QED
    BY <2>1, <2>2
<1>3. Interval[KindAt(p)] \in Nat \ {0}
  BY <1>2, SchedulerAssumption
<1>4. IdAt(p) \in ToSet(BucketIds) \cup {0}
  <2>1. CASE p = StatsPos
    BY <2>1 DEF IdAt
  <2>2. CASE p # StatsPos
    <3>1. p[2] \in DOMAIN BucketIds
      BY <1>1, <2>2 DEF Positions
    <3> QED
      BY <2>2, <3>1 DEF IdAt, ToSet
  <2> QED
    BY <2>1, <2>2
<1> QED
  BY <1>2, <1>3, <1>4

(* The bounds are natural numbers, and the skew of a clock is within its.  *)
LEMMA BoundFacts ==
    /\ BeatTTL \in Nat \ {0} /\ MinTTL \in Nat \ {0} /\ MaxTime \in Nat
    /\ MaxCrashes \in Nat /\ MaxStops \in Nat /\ MaxFaults \in Nat
    /\ MaxSkew \in Nat /\ \A h \in Hosts : Skew[h] \in 0 .. MaxSkew /\ Skew[h] \in Nat
BY SchedulerAssumption

(* A task's slot ends at an integer, less than zero when the clocks differ *)
(* by more than the slot is long.                                          *)
LEMMA EndType ==
    ASSUME NEW t \in Tasks
    PROVE  End(t) \in Int
BY SchedulerAssumption DEF Tasks, End

(* ClaimKey names a task, and the claim made for it now reaches the end of *)
(* its slot.                                                               *)
LEMMA ClaimKeyFacts ==
    ASSUME TypeOK, NEW h \in Hosts, NEW p \in Positions
    PROVE  /\ ClaimKey(p, at[h]) \in Tasks
           /\ ClaimExpiry(h, p) \in Nat
           /\ at[h] <= now + Skew[h] =>
                /\ ClaimExpiry(h, p) > now
                /\ ClaimExpiry(h, p) >= End(ClaimKey(p, at[h]))
<1> DEFINE I == Interval[KindAt(p)]
<1>1. I \in Nat \ {0} /\ KindAt(p) \in Kinds /\ IdAt(p) \in ToSet(BucketIds) \cup {0}
  BY PositionFacts
<1>2. /\ at[h] \in 0 .. MaxTime + MaxSkew /\ at[h] \in Nat /\ now \in Nat
      /\ MaxTime \in Nat /\ MinTTL \in Nat \ {0}
      /\ MaxSkew \in Nat /\ Skew[h] \in Nat /\ Skew[h] <= MaxSkew
  BY BoundFacts DEF TypeOK, PassOK
<1> HIDE DEF I
<1>3. SlotStart(at[h], I) \in 0 .. at[h]
  BY <1>1, <1>2, SlotStartType
<1>4. ClaimKey(p, at[h]) \in Tasks
  BY <1>1, <1>2, <1>3 DEF ClaimKey, Tasks, I
<1>5. SlotTTL(at[h], I, MinTTL) \in Nat \ {0}
  <2>1. at[h] <= at[h]
    BY <1>2
  <2> QED
    BY <1>1, <1>2, <2>1, SlotTTLCovers, Zenon
<1>6. ASSUME at[h] <= now + Skew[h]
      PROVE  now + Skew[h] + SlotTTL(at[h], I, MinTTL) >= SlotStart(at[h], I) + I
  <2>1. now + Skew[h] \in Nat
    BY <1>2
  <2> QED
    BY <1>1, <1>2, <1>6, <2>1, SlotTTLCovers, Zenon
<1>7. End(ClaimKey(p, at[h])) = SlotStart(at[h], I) + I - MaxSkew
  BY DEF End, ClaimKey, I
<1>8. ClaimExpiry(h, p) = now + SlotTTL(at[h], I, MinTTL)
  BY DEF ClaimExpiry, I
<1> QED
  BY <1>1, <1>2, <1>3, <1>4, <1>5, <1>6, <1>7, <1>8

(* NoTask is not a task.                                                   *)
LEMMA NoTaskIsNone == NoTask \notin Tasks
BY BoundFacts DEF NoTask, Tasks

-----------------------------------------------------------------------------
(* The count of failed commands stays within its bound.                    *)
LEMMA FaultsType ==
    ASSUME TypeOK, NEW h \in Hosts, Works(h) \/ Fails(h)
    PROVE  faults' \in 0 .. MaxFaults
BY BoundFacts DEF TypeOK, Works, Fails

(* Ending the pass keeps the types of its local variables.                 *)
LEMMA GiveUpType ==
    ASSUME TypeOK, NEW h \in Hosts, NEW label \in {"idle", "down"}, GiveUp(h, label)
    PROVE  PassOK' /\ pc'[h] = label /\ \A g \in Hosts \ {h} : pc'[g] = pc[g]
<1>1. 0 \in 0 .. MaxTime + MaxSkew
  BY BoundFacts
<1> QED
  BY <1>1 DEF TypeOK, PassOK, GiveUp, Goto

(* So does settling a position, after which the process holds nothing.     *)
LEMMA SettleType ==
    ASSUME TypeOK, NEW h \in Hosts, NEW p, Settle(h, p)
    PROVE  PassOK' /\ HeldOK'
<1>1. NoTask \notin Tasks
  BY NoTaskIsNone
<1>2. CASE todo[h] = {p}
  <2>1. GiveUp(h, "idle")
    BY <1>2 DEF Settle
  <2> QED
    BY <1>1, <2>1, GiveUpType DEF TypeOK, HeldOK, Settle
<1>3. CASE todo[h] # {p}
  BY <1>1, <1>3 DEF TypeOK, PassOK, HeldOK, Settle, Goto
<1> QED
  BY <1>2, <1>3

(* The queue accepts tasks only.                                           *)
LEMMA AcceptType ==
    ASSUME TypeOK, NEW t \in Tasks, Accept(t)
    PROVE  queue' \subseteq Tasks /\ accepted' \in [Tasks -> Nat]
BY DEF TypeOK, RedisOK, HistoryOK, Accept

(* A process that is about to enqueue or to drop holds a task.             *)
LEMMA HolderHasTask ==
    ASSUME TypeOK, NEW h \in Hosts, pc[h] \in {"enqueue", "drop"}
    PROVE  held[h] \in Tasks
BY DEF TypeOK, HeldOK

(* Every step of the scheduler group preserves the types.                  *)
LEMMA TypeStep == TypeOK /\ [Next]_vars => TypeOK'
<1> SUFFICES ASSUME TypeOK, [Next]_vars PROVE TypeOK'
  OBVIOUS
<1>1. ASSUME NEW h \in Hosts, Start(h) PROVE TypeOK'
  BY <1>1 DEF TypeOK, RedisOK, PassOK, HeldOK, HistoryOK, Start, Goto,
              redis, bounds, history
<1>2. ASSUME NEW h \in Hosts, Exit(h) PROVE TypeOK'
  BY <1>2 DEF TypeOK, RedisOK, PassOK, HeldOK, HistoryOK, Exit, Goto,
              redis, local, bounds, history
<1>3. ASSUME NEW h \in Hosts, Beat(h) PROVE TypeOK'
  <2>1. faults' \in 0 .. MaxFaults
    BY <1>3, FaultsType DEF Beat
  <2>2. BeatExpiry \in Nat
    BY BoundFacts DEF TypeOK, BeatExpiry
  <2>3. RedisOK'
    BY <1>3, <2>2 DEF TypeOK, RedisOK, Beat
  <2>4. PassOK' /\ HeldOK'
    <3>1. CASE GiveUp(h, "idle")
      BY <1>3, <3>1, GiveUpType DEF TypeOK, HeldOK, Beat
    <3>2. CASE Goto(h, "members") /\ UNCHANGED <<view, at, todo>>
      BY <1>3, <3>2 DEF TypeOK, PassOK, HeldOK, Beat, Goto
    <3> QED
      BY <1>3, <3>1, <3>2 DEF Beat
  <2> QED
    BY <1>3, <2>1, <2>3, <2>4 DEF TypeOK, HistoryOK, Beat, history
<1>4. ASSUME NEW h \in Hosts, ReadMembers(h) PROVE TypeOK'
  <2>1. faults' \in 0 .. MaxFaults
    BY <1>4, FaultsType DEF ReadMembers
  <2>2. PassOK' /\ HeldOK'
    <3>1. CASE GiveUp(h, "idle")
      BY <1>4, <3>1, GiveUpType DEF TypeOK, HeldOK, ReadMembers
    <3>2. CASE ~GiveUp(h, "idle")
      BY <1>4, <3>2 DEF TypeOK, PassOK, HeldOK, ReadMembers, Goto
    <3> QED
      BY <3>1, <3>2
  <2> QED
    BY <1>4, <2>1, <2>2 DEF TypeOK, RedisOK, HistoryOK, ReadMembers, redis, history
<1>5. ASSUME NEW h \in Hosts, Plan(h) PROVE TypeOK'
  <2>1. faults' \in 0 .. MaxFaults
    BY <1>5, FaultsType DEF Plan
  <2>2. StatsPos \in Positions
    BY DEF Positions
  <2>3. now + Skew[h] \in 0 .. MaxTime + MaxSkew
    BY BoundFacts DEF TypeOK
  <2>4. PassOK' /\ HeldOK'
    <3>1. at' = [at EXCEPT ![h] = now + Skew[h]] /\ at \in [Hosts -> 0 .. MaxTime + MaxSkew]
      BY <1>5 DEF TypeOK, PassOK, Plan
    <3>2. at' \in [Hosts -> 0 .. MaxTime + MaxSkew]
      BY <2>3, <3>1, Zenon
    <3>3. todo' \in [Hosts -> SUBSET Positions]
      BY <1>5, <2>2 DEF TypeOK, PassOK, Plan
    <3> QED
      BY <1>5, <3>2, <3>3 DEF TypeOK, PassOK, HeldOK, Plan, Goto
  <2> QED
    BY <1>5, <2>1, <2>4 DEF TypeOK, RedisOK, HistoryOK, Plan, redis, history
<1>6. ASSUME NEW h \in Hosts, Claim(h) PROVE TypeOK'
  <2>1. faults' \in 0 .. MaxFaults
    BY <1>6, FaultsType DEF Claim
  <2>2. PICK p \in Positions : Claim(h)!2!(p)
    BY <1>6 DEF Claim
  <2> DEFINE t == ClaimKey(p, at[h])
  <2>3. t \in Tasks /\ ClaimExpiry(h, p) \in Nat
    BY ClaimKeyFacts
  <2> HIDE DEF t
  <2>4. RedisOK' /\ HistoryOK'
    BY <1>6, <2>2, <2>3 DEF TypeOK, RedisOK, HistoryOK, Claim, SetClaim, t
  <2>5. PassOK' /\ HeldOK'
    <3>1. CASE Settle(h, p)
      BY <3>1, SettleType
    <3>2. CASE /\ held' = [held EXCEPT ![h] = t]
               /\ Goto(h, "enqueue")
               /\ UNCHANGED <<view, at, todo>>
      BY <3>2, <2>3, NoTaskIsNone DEF TypeOK, PassOK, HeldOK, Goto
    <3> QED
      BY <2>2, <3>1, <3>2 DEF t
  <2> QED
    BY <1>6, <2>1, <2>4, <2>5 DEF TypeOK, Claim
<1>7. ASSUME NEW h \in Hosts, Enqueue(h) PROVE TypeOK'
  <2>1. faults' \in 0 .. MaxFaults
    BY <1>7, FaultsType DEF Enqueue
  <2>2. held[h] \in Tasks
    BY <1>7, HolderHasTask DEF Enqueue
  <2>3. PICK p \in Positions : Enqueue(h)!2!(p)
    BY <1>7 DEF Enqueue
  <2>4. RedisOK' /\ HistoryOK'
    BY <1>7, <2>2, <2>3, AcceptType DEF TypeOK, RedisOK, HistoryOK, Enqueue
  <2>5. PassOK' /\ HeldOK'
    <3>1. CASE Settle(h, p)
      BY <3>1, SettleType
    <3>2. CASE Goto(h, "drop") /\ UNCHANGED <<view, at, held, todo>>
      BY <1>7, <3>2 DEF TypeOK, PassOK, HeldOK, Goto, Enqueue
    <3> QED
      BY <2>3, <3>1, <3>2
  <2> QED
    BY <1>7, <2>1, <2>4, <2>5 DEF TypeOK, Enqueue
<1>8. ASSUME NEW h \in Hosts, DropClaim(h) PROVE TypeOK'
  <2>1. faults' \in 0 .. MaxFaults
    BY <1>8, BoundFacts DEF DropClaim, TypeOK
  <2>2. PassOK' /\ HeldOK'
    BY <1>8, SettleType DEF DropClaim
  <2>3. RedisOK'
    BY <1>8, HolderHasTask DEF TypeOK, RedisOK, DropClaim
  <2> QED
    BY <1>8, <2>1, <2>2, <2>3 DEF TypeOK, HistoryOK, DropClaim, history
<1>9. ASSUME NEW h \in Hosts, Crash(h) PROVE TypeOK'
  <2>1. crashes' \in 0 .. MaxCrashes
    BY <1>9, BoundFacts DEF Crash, TypeOK
  <2>2. PassOK' /\ HeldOK'
    BY <1>9, GiveUpType, NoTaskIsNone DEF Crash, TypeOK, HeldOK
  <2> QED
    BY <1>9, <2>1, <2>2 DEF TypeOK, RedisOK, HistoryOK, Crash, redis, history
<1>10. ASSUME NEW h \in Hosts, Sigterm(h) PROVE TypeOK'
  BY <1>10, BoundFacts DEF TypeOK, RedisOK, PassOK, HeldOK, HistoryOK, Sigterm,
                           redis, history
<1>11. ASSUME NEW t \in Tasks, TaskDone(t) PROVE TypeOK'
  BY <1>11 DEF TypeOK, RedisOK, PassOK, HeldOK, HistoryOK, TaskDone,
               local, bounds, history
<1>12. CASE Tick
  BY <1>12, BoundFacts DEF TypeOK, RedisOK, PassOK, HeldOK, HistoryOK, Tick,
                           bounds, history
<1>13. CASE UNCHANGED vars
  BY <1>13 DEF TypeOK, RedisOK, PassOK, HeldOK, HistoryOK, vars, redis, local,
               bounds, history
<1> QED
  BY <1>1, <1>2, <1>3, <1>4, <1>5, <1>6, <1>7, <1>8, <1>9, <1>10, <1>11,
     <1>12, <1>13 DEF Next, Step

(* Every variable keeps its type in every behaviour of the group, and a    *)
(* process holds a task exactly between winning and settling its claim.    *)
THEOREM TypeCorrect == Spec => []TypeOK
<1>1. Init => TypeOK
  BY BoundFacts DEF Init, TypeOK, RedisOK, PassOK, HeldOK, HistoryOK
<1> QED
  BY <1>1, TypeStep, PTL DEF Spec

-----------------------------------------------------------------------------
(* Winning or storing a claim for task t, seen by the invariant: the claim *)
(* covers the slot, and t had neither a holder nor, unless its enqueue     *)
(* went wrong before, been accepted; or the slot is over.                  *)
LEMMA SetClaimFacts ==
    ASSUME TypeOK, ClaimInv, NEW h \in Hosts, NEW p \in Positions,
           NEW t \in Tasks, t = ClaimKey(p, at[h]), SetClaim(h, p, t)
    PROVE  /\ claims' = [claims EXCEPT ![t] = ClaimExpiry(h, p)]
           /\ ClaimExpiry(h, p) >= End(t) /\ ClaimExpiry(h, p) > now
           /\ ClaimExpiry(h, p) # 0
           /\ t \notin late' => now < End(t)
           /\ late \subseteq late' /\ late' \subseteq late \cup {t}
           /\ t \in late' => t \in late \/ now >= End(t)
           /\ t \notin late' => \A g \in Hosts : held[g] # t
           /\ t \notin late' \cup lost => accepted[t] = 0
<1>1. at[h] <= now + Skew[h] /\ now \in Nat /\ End(t) \in Int
  BY EndType DEF ClaimInv, ReadsThePast, TypeOK
<1>2. ClaimExpiry(h, p) \in Nat /\ ClaimExpiry(h, p) > now /\ ClaimExpiry(h, p) >= End(t)
  BY <1>1, ClaimKeyFacts
<1>3. claims[t] = 0 /\ late' = IF now >= End(t) THEN late \cup {t} ELSE late
  BY DEF SetClaim
<1>4. t \notin late' => now < End(t)
  BY <1>1, <1>3
<1>5. t \notin late' => \A g \in Hosts : held[g] # t
  BY <1>3, <1>4 DEF ClaimInv, HolderHasClaim
<1>6. t \notin late' \cup lost => accepted[t] = 0
  <2>1. accepted[t] \in Nat
    BY DEF TypeOK, HistoryOK
  <2> QED
    BY <1>3, <1>4, <2>1 DEF ClaimInv, AcceptedHasClaim
<1> QED
  BY <1>1, <1>2, <1>3, <1>4, <1>5, <1>6 DEF SetClaim

(* A step that touches neither the clock, the claims, the holders nor the  *)
(* queue's history preserves the invariant.                                *)
LEMMA ClaimInvFrame ==
    ASSUME ClaimInv, UNCHANGED <<now, claims, held, accepted, lost, late>>,
           ReadsThePast'
    PROVE  ClaimInv'
BY DEF ClaimInv, ReadsThePast, ClaimCoversSlot, LateIsOver, OneHolder,
       HolderHasClaim, AcceptedHasClaim, HolderNotAccepted, AtMostOncePerSlot, End

(* Ending a pass, or settling a position, leaves no time from the future.  *)
LEMMA GiveUpReadsThePast ==
    ASSUME TypeOK, ReadsThePast, NEW h \in Hosts, NEW label, GiveUp(h, label),
           UNCHANGED now
    PROVE  ReadsThePast'
BY BoundFacts DEF TypeOK, PassOK, ReadsThePast, GiveUp

(* A settled position is no longer held.                                   *)
LEMMA SettleFacts ==
    ASSUME TypeOK, ReadsThePast, NEW h \in Hosts, NEW p, Settle(h, p), UNCHANGED now
    PROVE  /\ ReadsThePast'
           /\ \A g \in Hosts, t \in Tasks : held'[g] = t <=> g # h /\ held[g] = t
<1>1. ReadsThePast'
  BY GiveUpReadsThePast DEF Settle, ReadsThePast
<1> QED
  BY <1>1, NoTaskIsNone DEF Settle, TypeOK, HeldOK

(* What the arithmetic of the invariant needs to know of the types.        *)
LEMMA ClaimTypes ==
    ASSUME TypeOK
    PROVE  /\ now \in Nat
           /\ \A u \in Tasks : End(u) \in Int /\ claims[u] \in Nat /\ accepted[u] \in Nat
           /\ lost \subseteq Tasks /\ late \subseteq Tasks
           /\ claims \in [Tasks -> Nat] /\ accepted \in [Tasks -> Nat]
BY EndType DEF TypeOK, RedisOK, HistoryOK

(* Claim: won, stored with the reply lost, or not stored.                  *)
LEMMA ClaimStep ==
    ASSUME TypeOK, ClaimInv, NEW h \in Hosts, Claim(h)
    PROVE  ClaimInv'
<1>1. PICK p \in Positions : Claim(h)!2!(p)
  BY DEF Claim
<1> DEFINE t == ClaimKey(p, at[h])
<1>2. t \in Tasks
  BY ClaimKeyFacts
<1>3. UNCHANGED <<now, accepted, lost>>
  BY DEF Claim
<1>4. held[h] = NoTask
  BY DEF Claim, TypeOK, HeldOK
<1>5. \A u \in Tasks : held'[h] = u => u = t /\ SetClaim(h, p, t)
  BY <1>1, NoTaskIsNone DEF Settle, TypeOK, HeldOK
<1>6. \A g \in Hosts \ {h} : held'[g] = held[g]
  BY <1>1 DEF Settle, TypeOK, HeldOK
<1>7. ReadsThePast'
  BY <1>1, <1>3, SettleFacts DEF ClaimInv, ReadsThePast
<1> HIDE DEF t
<1>8. CASE SetClaim(h, p, t)
  <2>1. /\ claims' = [claims EXCEPT ![t] = ClaimExpiry(h, p)]
        /\ ClaimExpiry(h, p) >= End(t) /\ ClaimExpiry(h, p) > now
        /\ ClaimExpiry(h, p) # 0
        /\ t \notin late' => now < End(t)
        /\ late \subseteq late' /\ late' \subseteq late \cup {t}
        /\ t \in late' => t \in late \/ now >= End(t)
        /\ t \notin late' => \A g \in Hosts : held[g] # t
        /\ t \notin late' \cup lost => accepted[t] = 0
    BY <1>2, <1>8, SetClaimFacts DEF t
  <2>2. ClaimCoversSlot'
    BY <1>3, <2>1, ClaimTypes DEF ClaimInv, ClaimCoversSlot, End
  <2>3. LateIsOver'
    BY <1>3, <2>1 DEF ClaimInv, LateIsOver, End
  <2>4. OneHolder'
    BY <1>2, <1>5, <1>6, <2>1 DEF ClaimInv, OneHolder
  <2>5. HolderHasClaim'
    BY <1>2, <1>3, <1>5, <1>6, <2>1, ClaimTypes DEF ClaimInv, HolderHasClaim, End
  <2>6. AcceptedHasClaim'
    BY <1>2, <1>3, <2>1, ClaimTypes DEF ClaimInv, AcceptedHasClaim, End
  <2>7. HolderNotAccepted'
    BY <1>2, <1>3, <1>5, <1>6, <2>1 DEF ClaimInv, HolderNotAccepted
  <2>8. AtMostOncePerSlot'
    BY <1>3, <2>1 DEF ClaimInv, AtMostOncePerSlot
  <2> QED
    BY <1>7, <2>2, <2>3, <2>4, <2>5, <2>6, <2>7, <2>8 DEF ClaimInv
<1>9. CASE UNCHANGED <<claims, late>> /\ ~SetClaim(h, p, t)
  <2>1. UNCHANGED held
    BY <1>1, <1>4, <1>9 DEF Settle, TypeOK, HeldOK, t
  <2> QED
    BY <1>3, <1>7, <1>9, <2>1, ClaimInvFrame
<1> QED
  BY <1>1, <1>8, <1>9 DEF t

(* Letting go of a task without touching its claim preserves everything.   *)
LEMMA LetGo ==
    ASSUME ClaimInv, ReadsThePast', UNCHANGED <<now, claims, accepted, lost, late>>,
           \A g \in Hosts, t \in Tasks : held'[g] = t => held[g] = t
    PROVE  ClaimInv'
BY DEF ClaimInv, ReadsThePast, ClaimCoversSlot, LateIsOver, OneHolder,
       HolderHasClaim, AcceptedHasClaim, HolderNotAccepted, AtMostOncePerSlot, End

(* Enqueue: accepted, in conflict, or failed; the failure may hide that    *)
(* the queue took the task.                                                *)
LEMMA EnqueueStep ==
    ASSUME TypeOK, ClaimInv, NEW h \in Hosts, Enqueue(h)
    PROVE  ClaimInv'
<1>1. PICK p \in Positions : Enqueue(h)!2!(p)
  BY DEF Enqueue
<1>2. PICK t \in Tasks : t = held[h]
  BY HolderHasTask DEF Enqueue
<1>3. UNCHANGED <<now, claims, late>>
  BY DEF Enqueue
<1>4. ReadsThePast'
  BY <1>1, <1>3, SettleFacts DEF ClaimInv, ReadsThePast
<1>5. \A g \in Hosts, u \in Tasks : held'[g] = u => held[g] = u
  BY <1>1, SettleFacts, <1>3 DEF ClaimInv
<1>6. CASE UNCHANGED <<accepted, lost>>
  BY <1>3, <1>4, <1>5, <1>6, LetGo
<1>7. CASE /\ Accept(t)
           /\ lost \subseteq lost' /\ lost' \subseteq lost \cup {t}
           /\ t \in lost' \/ held'[h] # t
  <2>1. accepted' = [accepted EXCEPT ![t] = @ + 1]
    BY <1>7 DEF Accept
  <2>2. t \notin lost \cup late => accepted[t] = 0
    BY <1>2 DEF ClaimInv, HolderNotAccepted
  <2>3. ClaimCoversSlot' /\ LateIsOver' /\ OneHolder' /\ HolderHasClaim'
    BY <1>3, <1>5 DEF ClaimInv, ClaimCoversSlot, LateIsOver, OneHolder,
                      HolderHasClaim, End
  <2>4. AcceptedHasClaim'
    BY <1>2, <1>3, <1>7, <2>1, ClaimTypes DEF ClaimInv, AcceptedHasClaim, HolderHasClaim, End
  <2>5. HolderNotAccepted'
    <3> SUFFICES ASSUME NEW u \in Tasks, u \notin lost' \cup late', NEW g \in Hosts,
                        held'[g] = u
                 PROVE  accepted'[u] = 0
      BY DEF HolderNotAccepted
    <3>1. held[g] = u /\ u \notin lost \cup late
      BY <1>3, <1>5, <1>7
    <3>2. u # t
      BY <1>2, <1>3, <1>7, <3>1 DEF ClaimInv, OneHolder
    <3> QED
      BY <2>1, <3>1, <3>2, ClaimTypes DEF ClaimInv, HolderNotAccepted
  <2>6. AtMostOncePerSlot'
    BY <1>3, <1>7, <2>1, <2>2, ClaimTypes DEF ClaimInv, AtMostOncePerSlot
  <2> QED
    BY <1>4, <2>3, <2>4, <2>5, <2>6 DEF ClaimInv
<1>8. Settle(h, p) => held'[h] # t
  BY <1>3, SettleFacts DEF ClaimInv
<1> QED
  BY <1>1, <1>2, <1>6, <1>7, <1>8

(* DropClaim deletes the claim of the only holder, who then lets it go.    *)
LEMMA DropStep ==
    ASSUME TypeOK, ClaimInv, NEW h \in Hosts, DropClaim(h)
    PROVE  ClaimInv'
<1>1. PICK t \in Tasks : t = held[h]
  BY HolderHasTask DEF DropClaim
<1>2. UNCHANGED <<now, accepted, lost, late>>
  BY DEF DropClaim, history
<1>3. /\ ReadsThePast'
      /\ \A g \in Hosts, u \in Tasks : held'[g] = u <=> g # h /\ held[g] = u
  BY <1>2, SettleFacts DEF DropClaim, ClaimInv
<1>4. CASE UNCHANGED claims
  BY <1>2, <1>3, <1>4, LetGo
<1>5. CASE claims' = [claims EXCEPT ![t] = 0]
  <2>1. \A u \in Tasks : claims'[u] = IF u = t THEN 0 ELSE claims[u]
    BY <1>5, ClaimTypes
  <2>2. ClaimCoversSlot' /\ LateIsOver' /\ OneHolder' /\ AtMostOncePerSlot'
        /\ HolderNotAccepted'
    BY <1>2, <1>3, <2>1 DEF ClaimInv, ClaimCoversSlot, LateIsOver, OneHolder,
                            AtMostOncePerSlot, HolderNotAccepted, End
  <2>3. t \in late => ~(now < End(t))
    BY ClaimTypes DEF ClaimInv, LateIsOver
  <2>4. HolderHasClaim'
    BY <1>1, <1>2, <1>3, <2>1, <2>3 DEF ClaimInv, HolderHasClaim, OneHolder, End
  <2>5. AcceptedHasClaim'
    BY <1>1, <1>2, <2>1, <2>3, ClaimTypes
       DEF ClaimInv, AcceptedHasClaim, HolderNotAccepted, End
  <2> QED
    BY <1>3, <2>2, <2>4, <2>5 DEF ClaimInv
<1> QED
  BY <1>1, <1>4, <1>5 DEF DropClaim

(* Tick: a claim that disappears has covered its slot.                     *)
LEMMA TickStep ==
    ASSUME TypeOK, ClaimInv, Tick
    PROVE  ClaimInv'
<1>1. UNCHANGED <<at, held, accepted, lost, late>> /\ now' \in Nat /\ now <= now'
  BY ClaimTypes DEF Tick, history
<1>2. \A u \in Tasks : claims'[u] = IF claims[u] <= now' THEN 0 ELSE claims[u]
  BY DEF Tick
<1>3. \A u \in Tasks : claims[u] # 0 /\ now' < End(u) => claims'[u] # 0
  BY <1>1, <1>2, ClaimTypes DEF ClaimInv, ClaimCoversSlot
<1>4. ReadsThePast'
  BY <1>1, BoundFacts, ClaimTypes DEF ClaimInv, ReadsThePast, TypeOK, PassOK
<1>5. ClaimCoversSlot'
  BY <1>1, <1>2, ClaimTypes DEF ClaimInv, ClaimCoversSlot, End
<1>6. LateIsOver'
  BY <1>1, ClaimTypes DEF ClaimInv, LateIsOver, End
<1>7. OneHolder' /\ HolderNotAccepted' /\ AtMostOncePerSlot'
  BY <1>1 DEF ClaimInv, OneHolder, HolderNotAccepted, AtMostOncePerSlot
<1>8. HolderHasClaim' /\ AcceptedHasClaim'
  BY <1>1, <1>3, ClaimTypes DEF ClaimInv, HolderHasClaim, AcceptedHasClaim, End
<1> QED
  BY <1>4, <1>5, <1>6, <1>7, <1>8 DEF ClaimInv

(* Every step of the scheduler group preserves the claim invariant.        *)
LEMMA ClaimInvStep == TypeOK /\ ClaimInv /\ [Next]_vars => ClaimInv'
<1> SUFFICES ASSUME TypeOK, ClaimInv, [Next]_vars PROVE ClaimInv'
  OBVIOUS
<1>1. ASSUME NEW h \in Hosts, Start(h) \/ Exit(h) \/ Sigterm(h) PROVE ClaimInv'
  BY <1>1, ClaimInvFrame DEF Start, Exit, Sigterm, redis, local, history,
                             ClaimInv, ReadsThePast
<1>2. ASSUME NEW h \in Hosts, Beat(h) \/ ReadMembers(h) PROVE ClaimInv'
  <2>1. ReadsThePast'
    BY <1>2, GiveUpReadsThePast DEF Beat, ReadMembers, ClaimInv, ReadsThePast
  <2> QED
    BY <1>2, <2>1, ClaimInvFrame DEF Beat, ReadMembers, redis, history
<1>3. ASSUME NEW h \in Hosts, Plan(h) PROVE ClaimInv'
  <2>1. ReadsThePast'
    BY <1>3, BoundFacts, ClaimTypes DEF Plan, ClaimInv, ReadsThePast, TypeOK, PassOK
  <2> QED
    BY <1>3, <2>1, ClaimInvFrame DEF Plan, redis, history
<1>4. ASSUME NEW h \in Hosts, Crash(h) PROVE ClaimInv'
  <2>1. ReadsThePast'
    BY <1>4, GiveUpReadsThePast DEF Crash, ClaimInv
  <2>2. \A g \in Hosts, t \in Tasks : held'[g] = t => held[g] = t
    BY <1>4, NoTaskIsNone DEF Crash, TypeOK, HeldOK
  <2> QED
    BY <1>4, <2>1, <2>2, LetGo DEF Crash, redis, history
<1>5. ASSUME NEW t \in Tasks, TaskDone(t) PROVE ClaimInv'
  BY <1>5, ClaimInvFrame DEF TaskDone, local, history, ClaimInv, ReadsThePast
<1>6. CASE UNCHANGED vars
  BY <1>6, ClaimInvFrame DEF vars, redis, local, history, ClaimInv, ReadsThePast
<1> QED
  BY <1>1, <1>2, <1>3, <1>4, <1>5, <1>6, ClaimStep, EnqueueStep, DropStep,
     TickStep DEF Next, Step

(* In every behaviour the claim covers its slot, has one holder, and       *)
(* guards the task against a second enqueue (the whole inductive argument, *)
(* with AtMostOncePerSlot as its last conjunct).                           *)
THEOREM ClaimsGuardTasks == Spec => []ClaimInv
<1>1. Init => ClaimInv
  <2> SUFFICES ASSUME Init PROVE ClaimInv
    OBVIOUS
  <2>1. \A h \in Hosts, t \in Tasks : held[h] # t
    BY NoTaskIsNone DEF Init
  <2>2. \A t \in Tasks : accepted[t] = 0 /\ claims[t] = 0
    BY DEF Init
  <2>3. ReadsThePast /\ LateIsOver
    BY BoundFacts DEF Init, ReadsThePast, LateIsOver
  <2> QED
    BY <2>1, <2>2, <2>3 DEF ClaimInv, ClaimCoversSlot, OneHolder,
       HolderHasClaim, AcceptedHasClaim, HolderNotAccepted, AtMostOncePerSlot
<1> QED
  BY <1>1, TypeCorrect, ClaimInvStep, PTL DEF Spec

(* No task is enqueued twice in its slot, whatever the members' views, the *)
(* crashes, the stops and the failing commands, except through an enqueue  *)
(* whose success was reported as an error or a claim made after the slot.  *)
THEOREM NoTaskTwice == Spec => []AtMostOncePerSlot
<1>1. ClaimInv => AtMostOncePerSlot
  BY DEF ClaimInv
<1> QED
  BY <1>1, ClaimsGuardTasks, PTL

(* While a slot lasts nobody but its only holder deletes a claim, and then *)
(* the queue has not accepted the task unless the acceptance was reported  *)
(* as an error: OneHolder and HolderNotAccepted say so of a task that is   *)
(* held and not late, and LateIsOver that no task is late in its slot.     *)
THEOREM ClaimsDroppedByHolder == Spec => OnlyHolderDrops
<1>1. TypeOK /\ ClaimInv /\ [Next]_vars => [DropsOwnClaim]_vars
  <2> SUFFICES ASSUME TypeOK, ClaimInv, Next, NEW t \in Tasks,
                      claims[t] # 0, claims'[t] = 0, now' < End(t)
               PROVE  /\ \E h \in Hosts : {g \in Hosts : held[g] = t} = {h}
                      /\ t \notin lost => accepted[t] = 0
    BY DEF DropsOwnClaim
  <2>1. claims' # claims
    OBVIOUS
  <2>2. ASSUME NEW h \in Hosts, Claim(h) PROVE FALSE
    <3>1. PICK p \in Positions : Claim(h)!2!(p)
      BY <2>2 DEF Claim
    <3>2. SetClaim(h, p, ClaimKey(p, at[h]))
      BY <2>1, <3>1
    <3>3. claims[ClaimKey(p, at[h])] = 0 /\ ClaimKey(p, at[h]) \in Tasks
      BY <3>2, ClaimKeyFacts DEF SetClaim
    <3> QED
      BY <3>2, <3>3, ClaimTypes DEF SetClaim
  <2>3. ASSUME NEW h \in Hosts, DropClaim(h)
        PROVE  /\ {g \in Hosts : held[g] = t} = {h}
               /\ t \notin lost => accepted[t] = 0
    <3>1. held[h] = t /\ now' = now
      BY <2>1, <2>3, ClaimTypes DEF DropClaim
    <3>2. t \notin late
      BY <3>1, ClaimTypes DEF ClaimInv, LateIsOver
    <3> QED
      BY <3>1, <3>2 DEF ClaimInv, OneHolder, HolderNotAccepted
  <2>4. ASSUME Tick PROVE FALSE
    BY <2>4, ClaimTypes DEF Tick, ClaimInv, ClaimCoversSlot
  <2>5. \/ Tick
        \/ \E h \in Hosts : Claim(h) \/ DropClaim(h)
    BY <2>1 DEF Next, Step, Start, Exit, Beat, ReadMembers, Plan, Enqueue, Crash,
                Sigterm, TaskDone, redis
  <2> QED
    BY <2>2, <2>3, <2>4, <2>5
<1> QED
  BY <1>1, TypeCorrect, ClaimsGuardTasks, PTL DEF Spec, OnlyHolderDrops


-----------------------------------------------------------------------------
(* A task that is in the queue was accepted there.                         *)
QueueAccepted == \A t \in queue : accepted[t] > 0

(* A claim that a graceful stop must not leave behind: with QueueAccepted, *)
(* which settles the conflict branch of Enqueue, it is inductive.          *)
StopInv == QueueAccepted /\ GracefulStopReleases

(* A step that adds to neither the claims nor the queue and lets go of no  *)
(* task, or that uses up a crash or a fault, leaves no claim behind.       *)
LEMMA StopFrame ==
    ASSUME TypeOK, StopInv, UNCHANGED accepted, queue' \subseteq queue,
           \A t \in Tasks : claims'[t] # 0 => claims[t] # 0,
           crashes' = 0 /\ faults' = 0 =>
               /\ crashes = 0 /\ faults = 0
               /\ \A t \in Tasks, h \in Hosts :
                      held[h] = t => held'[h] = t \/ claims'[t] = 0
    PROVE  StopInv'
BY DEF StopInv, QueueAccepted, GracefulStopReleases, Orphan

(* Claim: the winner holds the task; nobody else's claim is touched.       *)
LEMMA StopClaim ==
    ASSUME TypeOK, StopInv, NEW h \in Hosts, Claim(h)
    PROVE  StopInv'
<1>1. PICK p \in Positions : Claim(h)!2!(p)
  BY DEF Claim
<1>2. PICK t \in Tasks : t = ClaimKey(p, at[h])
  BY ClaimKeyFacts
<1>3. UNCHANGED <<queue, accepted, crashes>> /\ held[h] = NoTask
  BY DEF Claim, TypeOK, HeldOK
<1>4. faults \in Nat /\ (faults' = faults \/ faults' = faults + 1)
  BY <1>1, BoundFacts DEF TypeOK, Works, Fails
<1>5. \A g \in Hosts \ {h} : held'[g] = held[g]
  BY <1>1 DEF Settle, TypeOK, HeldOK
<1>6. QueueAccepted'
  BY <1>3 DEF StopInv, QueueAccepted
<1>7. CASE held' = [held EXCEPT ![h] = t] /\ SetClaim(h, p, t) /\ UNCHANGED faults
  <2>1. \A u \in Tasks : u # t => claims'[u] = claims[u]
    BY <1>7, ClaimTypes DEF SetClaim
  <2>2. held'[h] = t
    BY <1>7 DEF TypeOK, HeldOK
  <2> QED
    BY <1>3, <1>5, <1>6, <1>7, <2>1, <2>2, NoTaskIsNone
       DEF StopInv, GracefulStopReleases, Orphan
<1>8. CASE UNCHANGED claims /\ Settle(h, p)
  <2>1. \A u \in Tasks, g \in Hosts : held[g] = u => held'[g] = u
    BY <1>3, <1>5, NoTaskIsNone
  <2>2. faults' = 0 => faults = 0
    BY <1>4
  <2> QED
    BY <1>3, <1>8, <2>1, <2>2, StopFrame
<1>9. CASE faults' # 0
  BY <1>6, <1>9 DEF StopInv, GracefulStopReleases
<1>10. faults' = faults + 1 => faults' # 0
  BY <1>4
<1> QED
  BY <1>1, <1>2, <1>7, <1>8, <1>9, <1>10 DEF Works, Fails

(* Enqueue: the task let go of is in the queue or was already there; a     *)
(* failed enqueue keeps hold of it for DropClaim.                          *)
LEMMA StopEnqueue ==
    ASSUME TypeOK, StopInv, NEW h \in Hosts, Enqueue(h)
    PROVE  StopInv'
<1>1. PICK p \in Positions : Enqueue(h)!2!(p)
  BY DEF Enqueue
<1>2. PICK t \in Tasks : t = held[h]
  BY HolderHasTask DEF Enqueue
<1>3. UNCHANGED <<claims, crashes>>
  BY DEF Enqueue
<1>4. faults \in Nat /\ (faults' = faults \/ faults' = faults + 1)
  BY <1>1, BoundFacts DEF TypeOK, Works, Fails
<1>5. faults' = 0 => faults = 0
  BY <1>4
<1>6. \A g \in Hosts \ {h} : held'[g] = held[g]
  BY <1>1 DEF Settle, TypeOK, HeldOK
<1>7. /\ \A u \in Tasks : accepted[u] > 0 => accepted'[u] > 0
      /\ \A u \in queue' : accepted'[u] > 0
      /\ held'[h] = t \/ accepted'[t] > 0
  <2>1. CASE Accept(t)
    <3>1. \A u \in Tasks : accepted'[u] = IF u = t THEN accepted[u] + 1 ELSE accepted[u]
      BY <2>1, ClaimTypes DEF Accept
    <3>2. accepted'[t] > 0 /\ \A u \in Tasks : accepted[u] > 0 => accepted'[u] > 0
      BY <3>1, ClaimTypes
    <3>3. queue \subseteq Tasks /\ queue' = queue \cup {t}
      BY <2>1 DEF Accept, TypeOK, RedisOK
    <3> QED
      BY <3>2, <3>3 DEF StopInv, QueueAccepted
  <2>2. CASE UNCHANGED <<queue, accepted>> /\ t \in queue
    BY <2>2 DEF StopInv, QueueAccepted
  <2>3. CASE UNCHANGED <<queue, accepted, held>>
    BY <1>2, <2>3 DEF StopInv, QueueAccepted
  <2> QED
    BY <1>1, <1>2, <2>1, <2>2, <2>3
<1>8. QueueAccepted'
  BY <1>7 DEF QueueAccepted
<1>9. GracefulStopReleases'
  <2> SUFFICES ASSUME crashes' = 0, faults' = 0, NEW u \in Tasks, Orphan(u)'
               PROVE  FALSE
    BY DEF GracefulStopReleases
  <2>1. ~Orphan(u)
    BY <1>3, <1>5 DEF StopInv, GracefulStopReleases
  <2>2. accepted[u] \in Nat /\ ~(accepted'[u] > 0)
    BY ClaimTypes DEF Orphan
  <2>3. accepted[u] = 0
    BY <1>7, <2>2
  <2>4. PICK g \in Hosts : held[g] = u
    BY <1>3, <2>1, <2>3 DEF Orphan
  <2>5. CASE g = h
    BY <1>2, <1>7, <2>2, <2>4, <2>5 DEF Orphan
  <2>6. CASE g # h
    BY <1>6, <2>4, <2>6 DEF Orphan
  <2> QED
    BY <2>5, <2>6
<1> QED
  BY <1>8, <1>9 DEF StopInv

(* DropClaim: the claim of the task let go of is deleted, unless Redis     *)
(* reports an error, which counts as a fault.                              *)
LEMMA StopDrop ==
    ASSUME TypeOK, StopInv, NEW h \in Hosts, DropClaim(h)
    PROVE  StopInv'
<1>1. PICK t \in Tasks : t = held[h]
  BY HolderHasTask DEF DropClaim
<1>2. UNCHANGED <<queue, accepted, crashes>>
  BY DEF DropClaim, history
<1>3. PICK p \in Positions : Settle(h, p)
  BY DEF DropClaim
<1>4. \A g \in Hosts \ {h} : held'[g] = held[g]
  BY <1>3 DEF Settle, TypeOK, HeldOK
<1>5. CASE claims' = [claims EXCEPT ![t] = 0] /\ UNCHANGED faults
  <2>1. \A u \in Tasks : claims'[u] = IF u = t THEN 0 ELSE claims[u]
    BY <1>5, ClaimTypes
  <2>2. \A u \in Tasks, g \in Hosts : held[g] = u => held'[g] = u \/ claims'[u] = 0
    BY <1>1, <1>4, <2>1
  <2> QED
    BY <1>2, <1>5, <2>1, <2>2, StopFrame
<1>6. CASE faults' # 0 /\ UNCHANGED claims
  BY <1>2, <1>6, StopFrame
<1>7. faults' = faults + 1 => faults' # 0
  BY BoundFacts DEF TypeOK
<1> QED
  BY <1>1, <1>5, <1>6, <1>7 DEF DropClaim

(* Every step of the scheduler group preserves the invariant.              *)
LEMMA StopStep == TypeOK /\ StopInv /\ [Next]_vars => StopInv'
<1> SUFFICES ASSUME TypeOK, StopInv, [Next]_vars PROVE StopInv'
  OBVIOUS
<1>1. faults \in Nat /\ crashes \in Nat
  BY BoundFacts DEF TypeOK
<1>2. ASSUME NEW h \in Hosts, Start(h) \/ Exit(h) \/ Sigterm(h) PROVE StopInv'
  BY <1>2, StopFrame DEF Start, Exit, Sigterm, redis, local, bounds, history
<1>3. ASSUME NEW h \in Hosts, Beat(h) \/ ReadMembers(h) \/ Plan(h) PROVE StopInv'
  <2>1. UNCHANGED <<claims, queue, held, crashes, accepted>>
    BY <1>3 DEF Beat, ReadMembers, Plan, redis, history
  <2>2. faults' = faults \/ faults' = faults + 1
    BY <1>3 DEF Beat, ReadMembers, Plan, Works, Fails
  <2>3. faults' = 0 => faults = 0
    BY <1>1, <2>2
  <2> QED
    BY <2>1, <2>3, StopFrame
<1>4. ASSUME NEW h \in Hosts, Crash(h) PROVE StopInv'
  <2>1. UNCHANGED <<claims, queue, accepted>> /\ crashes' # 0
    BY <1>1, <1>4 DEF Crash, redis, history
  <2> QED
    BY <2>1, StopFrame
<1>5. ASSUME NEW t \in Tasks, TaskDone(t) PROVE StopInv'
  BY <1>5, StopFrame DEF TaskDone, local, bounds, history
<1>6. CASE Tick
  <2>1. \A t \in Tasks : claims'[t] # 0 => claims[t] # 0
    BY <1>6 DEF Tick
  <2> QED
    BY <1>6, <2>1, StopFrame DEF Tick, bounds, history
<1>7. CASE UNCHANGED vars
  BY <1>7, StopFrame DEF vars, redis, local, bounds, history
<1> QED
  BY <1>2, <1>3, <1>4, <1>5, <1>6, <1>7, StopClaim, StopEnqueue, StopDrop
     DEF Next, Step

(* While no process crashes and no command fails, a claim without its task *)
(* is in the hands of a process that will still enqueue it or delete it: a *)
(* stop by signal at any point leaves no slot blocked.                     *)
THEOREM StopLeavesNoClaim == Spec => []GracefulStopReleases
<1>1. Init => StopInv
  BY DEF Init, StopInv, QueueAccepted, GracefulStopReleases, Orphan
<1>2. StopInv => GracefulStopReleases
  BY DEF StopInv
<1> QED
  BY <1>1, <1>2, TypeCorrect, StopStep, PTL DEF Spec


-----------------------------------------------------------------------------
(* Group.Members returns a list in ascending order that is not empty.      *)
LEMMA MembersAscending ==
    ASSUME NEW live \in SUBSET Hosts, NEW h \in Hosts
    PROVE  Ascending(Members(live, h)) /\ Len(Members(live, h)) > 0
<1> DEFINE S == live \cup {h}
           m == Members(live, h)
<1>1. S \in SUBSET Hosts /\ Hosts \in SUBSET Nat /\ IsFiniteSet(Hosts)
  BY SchedulerAssumption
<1>2. IsFiniteSet(S) /\ S \in SUBSET Nat /\ S \in SUBSET Int
  <2>1. IsFiniteSet(S)
    BY <1>1, FS_Subset
  <2>2. S \in SUBSET Nat
    BY <1>1
  <2>3. S \in SUBSET Int
    BY <2>2
  <2> QED
    BY <2>1, <2>2, <2>3
<1>3. m = Sorted(S)
  BY DEF Members
<1> HIDE DEF S, m
<1>4. /\ m \in Seq(S) /\ Len(m) = Cardinality(S)
      /\ \A i, j \in 1 .. Cardinality(S) : i < j => m[i] < m[j]
  BY <1>2, <1>3, SortedLists
<1>5. m \in Seq(Nat)
  <2>1. \A i \in 1 .. Len(m) : m[i] \in S
    BY <1>4
  <2>2. \A i \in 1 .. Len(m) : m[i] \in Nat
    BY <1>2, <2>1
  <2>3. m \in [1 .. Len(m) -> Nat] /\ Len(m) \in Nat
    BY <1>4, <2>2
  <2> QED
    BY <2>3
<1>6. Cardinality(S) # 0 /\ Cardinality(S) \in Nat
  BY <1>2, FS_EmptySet, FS_CardinalityType DEF S
<1>7. Len(m) > 0
  BY <1>4, <1>6
<1>8. Ascending(m)
  BY <1>4, <1>5 DEF Ascending
<1> QED
  BY <1>7, <1>8 DEF m

(* The view of a process is empty or what Group.Members returned.          *)
ViewsAscend ==
    \A h \in Hosts : view[h] # <<>> => Ascending(view[h]) /\ Len(view[h]) > 0

(* A view is read by ReadMembers and otherwise only forgotten.             *)
LEMMA ViewStep ==
    ASSUME TypeOK, [Next]_vars, NEW h \in Hosts
    PROVE  \/ view'[h] = view[h] \/ view'[h] = <<>>
           \/ view'[h] = Members({m \in Hosts : beat[m] # 0}, h)
<1>1. DOMAIN view = Hosts
  BY DEF TypeOK, PassOK
<1>2. ASSUME NEW g \in Hosts, Beat(g) \/ ReadMembers(g) \/ Plan(g)
      PROVE  \/ view'[h] = view[h] \/ view'[h] = <<>>
             \/ view'[h] = Members({m \in Hosts : beat[m] # 0}, h)
  BY <1>1, <1>2 DEF Beat, ReadMembers, Plan, GiveUp
<1>3. ASSUME NEW g \in Hosts, Claim(g) \/ Enqueue(g) \/ DropClaim(g) \/ Crash(g)
      PROVE  view'[h] = view[h] \/ view'[h] = <<>>
  BY <1>1, <1>3 DEF Claim, Enqueue, DropClaim, Crash, Settle, GiveUp
<1> QED
  BY <1>2, <1>3 DEF Next, Step, Start, Exit, Sigterm, TaskDone, Tick, vars, local

(* Every view a process plans with gives each bucket exactly one owner,    *)
(* whichever heartbeats it found: schedulers that agree on the members     *)
(* neither leave a bucket out nor give one to two of them.                 *)
THEOREM ViewsGiveOneOwner == Spec => []ViewsPartition
<1>1. Init => ViewsAscend
  BY DEF Init, ViewsAscend
<1>2. TypeOK /\ ViewsAscend /\ [Next]_vars => ViewsAscend'
  <2> SUFFICES ASSUME TypeOK, ViewsAscend, [Next]_vars, NEW h \in Hosts, view'[h] # <<>>
               PROVE  Ascending(view'[h]) /\ Len(view'[h]) > 0
    BY DEF ViewsAscend, Ascending
  <2>1. CASE view'[h] = view[h]
    BY <2>1 DEF ViewsAscend
  <2>2. CASE view'[h] = Members({m \in Hosts : beat[m] # 0}, h)
    BY <2>2, MembersAscending
  <2> QED
    BY <2>1, <2>2, ViewStep
<1>3. ViewsAscend => ViewsPartition
  <2> SUFFICES ASSUME ViewsAscend, NEW h \in Hosts, view[h] # <<>>,
                      NEW i \in DOMAIN BucketIds
               PROVE  OneOwner(view[h], BucketIds[i])
    BY DEF ViewsPartition
  <2>1. BucketIds[i] \in Nat
    BY SchedulerAssumption
  <2>2. Ascending(view[h]) /\ Len(view[h]) > 0
    BY DEF ViewsAscend
  <2> QED
    BY <2>1, <2>2, MineAssignsOneOwner
<1> QED
  BY <1>1, <1>2, <1>3, TypeCorrect, PTL DEF Spec
=============================================================================
