----------------------------- MODULE Scheduler ------------------------------
(***************************************************************************)
(* cmd/scheduler: a group of identical scheduler processes that see each   *)
(* other through heartbeat keys in Redis, split the buckets between them   *)
(* and, once per slot and bucket, enqueue a task.  The claim key (SET NX)  *)
(* arbitrates between processes whose views of the group differ.           *)
(*                                                                         *)
(* One action is one command to Redis, Postgres or the task queue, so the  *)
(* processes interleave, crash and stall between any two commands.  A      *)
(* command may fail without effect, or take effect and lose its reply.     *)
(* One tick of the clock is one period of the ticker (BeatEvery).  Redis   *)
(* and the processes have clocks of their own that go at the same speed:   *)
(* that of process h is Skew[h] ahead of the slowest, which is `now'.      *)
(* Redis only measures how long its keys live.                             *)
(***************************************************************************)
EXTENDS Sharding

CONSTANTS
    Hosts,        \* the scheduler processes, in the order of their host names
    BucketIds,    \* what ListActive returns, in its order
    BucketKinds,  \* the four calls of enqueueBuckets, in their order
    Interval,     \* the slot length of every kind, "stats" included
    BeatTTL,      \* lifetime of a heartbeat, in ticks
    MinTTL,       \* least lifetime of a claim, in ticks
    Skew,         \* how far the clock of each process is ahead of `now'
    MaxSkew,      \* bound on the skew
    MaxTime,      \* bound: the clock stands still here
    LastFault,    \* bound: nothing fails after this time
    MaxCrashes,   \* bound: processes killed without notice
    MaxStops,     \* bound: processes stopped by a signal
    MaxFaults     \* bound: commands that report an error

Kinds == ToSet(BucketKinds) \cup {"stats"}

ASSUME SchedulerAssumption ==
    /\ Hosts \subseteq Nat /\ IsFiniteSet(Hosts)
    /\ BucketIds \in Seq(Nat \ {0})
    /\ BucketKinds \in Seq(STRING)
    /\ "stats" \notin ToSet(BucketKinds)
    /\ Interval \in [Kinds -> Nat \ {0}]
    /\ BeatTTL \in Nat \ {0} /\ MinTTL \in Nat \ {0}
    /\ MaxSkew \in Nat /\ Skew \in [Hosts -> 0 .. MaxSkew]
    /\ MaxTime \in Nat /\ LastFault \in Nat
    /\ MaxCrashes \in Nat /\ MaxStops \in Nat /\ MaxFaults \in Nat

-----------------------------------------------------------------------------
(* The claim key osspilot:claim:{slot}:{type}:{id}, also the task's id.    *)
(* The id of the statistics task ("all") is 0.                             *)
Tasks == [slot : 0 .. MaxTime + MaxSkew, kind : Kinds, id : ToSet(BucketIds) \cup {0}]

NoTask == [slot |-> MaxTime + MaxSkew + 1, kind |-> "none", id |-> 0]

(* The slot a task belongs to ends here for a process whose clock is ahead *)
(* by MaxSkew, and later for all others.                                   *)
End(t) == t.slot + Interval[t.kind] - MaxSkew

(* One pass of run(): for every kind, for every bucket, and at last the    *)
(* statistics task.  A position is a pair <<kind, bucket>> of indices.     *)
StatsPos == <<Len(BucketKinds) + 1, 1>>
Positions ==
    ((1 .. Len(BucketKinds)) \X (1 .. Len(BucketIds))) \cup {StatsPos}
KindAt(p) == IF p = StatsPos THEN "stats" ELSE BucketKinds[p[1]]
IdAt(p) == IF p = StatsPos THEN 0 ELSE BucketIds[p[2]]
NotAfter(p, q) == p[1] < q[1] \/ (p[1] = q[1] /\ p[2] <= q[2])

ClaimKey(p, time) ==
    [slot |-> SlotStart(time, Interval[KindAt(p)]), kind |-> KindAt(p), id |-> IdAt(p)]

VARIABLES
    now,       \* the clock
    beat,      \* beat[h]: expiry of h's heartbeat key, 0 when it is absent
    claims,    \* claims[t]: expiry of the claim key, 0 when it is absent
    queue,     \* task ids present in the task queue
    pc,        \* what each process does next
    ticked,    \* the processes whose time.Ticker channel holds a tick
    stopping,  \* the processes whose context is cancelled
    view,      \* view[h]: the members h has read in this pass
    at,        \* at[h]: the time h has read in this pass
    todo,      \* todo[h]: positions of this pass that h has not settled
    held,      \* held[h]: the task whose claim h has just won, or NoTask
    crashes, stops, faults,   \* bounded counters
    accepted,  \* history: how often the queue accepted the task
    lost,      \* history: tasks accepted with an error reported to the caller
    late       \* history: tasks claimed when their slot was already over

redis == <<beat, claims, queue>>
local == <<ticked, stopping, view, at, todo, held>>
bounds == <<crashes, stops, faults>>
history == <<accepted, lost, late>>
vars == <<now, redis, pc, local, bounds, history>>

RedisOK ==
    /\ beat \in [Hosts -> Nat]
    /\ claims \in [Tasks -> Nat]
    /\ queue \subseteq Tasks

PassOK ==
    /\ pc \in [Hosts -> {"down", "idle", "beat", "members", "plan", "loop",
                         "enqueue", "drop"}]
    /\ DOMAIN view = Hosts
    /\ at \in [Hosts -> 0 .. MaxTime + MaxSkew]
    /\ todo \in [Hosts -> SUBSET Positions]

HeldOK ==
    /\ held \in [Hosts -> Tasks \cup {NoTask}]
    /\ \A h \in Hosts : held[h] # NoTask <=> pc[h] \in {"enqueue", "drop"}

HistoryOK ==
    /\ accepted \in [Tasks -> Nat]
    /\ lost \subseteq Tasks
    /\ late \subseteq Tasks

(* The types, and that a process holds a task exactly between winning its  *)
(* claim and settling it (the locals slot, typ and id of enqueueBuckets).  *)
TypeOK ==
    /\ now \in 0 .. MaxTime
    /\ ticked \subseteq Hosts /\ stopping \subseteq Hosts
    /\ crashes \in 0 .. MaxCrashes /\ stops \in 0 .. MaxStops
    /\ faults \in 0 .. MaxFaults
    /\ RedisOK /\ PassOK /\ HeldOK /\ HistoryOK

Init ==
    /\ now = 0
    /\ beat = [h \in Hosts |-> 0]
    /\ claims = [t \in Tasks |-> 0]
    /\ queue = {}
    /\ pc = [h \in Hosts |-> "down"]
    /\ ticked = {} /\ stopping = {}
    /\ view = [h \in Hosts |-> <<>>]
    /\ at = [h \in Hosts |-> 0]
    /\ todo = [h \in Hosts |-> {}]
    /\ held = [h \in Hosts |-> NoTask]
    /\ crashes = 0 /\ stops = 0 /\ faults = 0
    /\ accepted = [t \in Tasks |-> 0]
    /\ lost = {} /\ late = {}

-----------------------------------------------------------------------------
(* A command of h fails: its context is cancelled, which costs nothing, or *)
(* Redis or Postgres reports an error, which counts against the bound.     *)
Fails(h) ==
    \/ h \in stopping /\ UNCHANGED faults
    \/ /\ h \notin stopping
       /\ now <= LastFault
       /\ faults < MaxFaults
       /\ faults' = faults + 1

Works(h) == h \notin stopping /\ UNCHANGED faults

Goto(h, label) == pc' = [pc EXCEPT ![h] = label]

(* The pass is over and its local variables are gone.                      *)
GiveUp(h, label) ==
    /\ Goto(h, label)
    /\ view' = [view EXCEPT ![h] = <<>>]
    /\ at' = [at EXCEPT ![h] = 0]
    /\ todo' = [todo EXCEPT ![h] = {}]

(* main: the process is up; run() is called once before the loop.          *)
Start(h) ==
    /\ pc[h] = "down"
    /\ Goto(h, "beat")
    /\ ticked' = ticked \ {h}
    /\ stopping' = stopping \ {h}
    /\ UNCHANGED <<now, redis, view, at, todo, held, bounds, history>>

(* The select sees ctx.Done: main returns.                                 *)
Exit(h) ==
    /\ pc[h] = "idle"
    /\ h \in stopping
    /\ Goto(h, "down")
    /\ UNCHANGED <<now, redis, local, bounds, history>>

(* A mutation of BeatExpiry: the heartbeat is set without EX.              *)
BeatForever == now + MaxTime + 1

(* SET osspilot:sched:tenant:{me} 1 EX BeatTTL.                            *)
BeatExpiry == now + BeatTTL

(* The select takes the tick and calls run() (when the context is also     *)
(* cancelled it may take either branch), or it is the first call of run(). *)
(* Group.Beat: an error ends the pass; the failed command may have been    *)
(* executed all the same.                                                  *)
Beat(h) ==
    /\ pc[h] = "beat" \/ (pc[h] = "idle" /\ h \in ticked)
    /\ ticked' = IF pc[h] = "idle" THEN ticked \ {h} ELSE ticked
    /\ \/ /\ Works(h)
          /\ beat' = [beat EXCEPT ![h] = BeatExpiry]
          /\ Goto(h, "members")
          /\ UNCHANGED <<view, at, todo>>
       \/ /\ Fails(h)
          /\ \/ h \notin stopping /\ beat' = [beat EXCEPT ![h] = BeatExpiry]
             \/ UNCHANGED beat
          /\ GiveUp(h, "idle")
    /\ UNCHANGED <<now, claims, queue, stopping, held, crashes, stops, history>>

(* Group.Members: the heartbeat keys SCAN finds; an error ends the pass.   *)
ReadMembers(h) ==
    /\ pc[h] = "members"
    /\ \/ /\ Works(h)
          /\ view' = [view EXCEPT ![h] = Members({m \in Hosts : beat[m] # 0}, h)]
          /\ Goto(h, "plan")
          /\ UNCHANGED <<at, todo>>
       \/ Fails(h) /\ GiveUp(h, "idle")
    /\ UNCHANGED <<now, redis, ticked, stopping, held, crashes, stops, history>>

(* time.Now and ListActive.  When the query fails only the statistics task *)
(* is attempted.  The buckets of other members are passed over; the view   *)
(* is not read again in this pass.                                         *)
Plan(h) ==
    /\ pc[h] = "plan"
    /\ at' = [at EXCEPT ![h] = now + Skew[h]]
    /\ \/ /\ Works(h)
          /\ todo' = [todo EXCEPT ![h] =
                        {p \in Positions : p = StatsPos \/ Mine(IdAt(p), view[h], h)}]
       \/ /\ Fails(h)
          /\ todo' = [todo EXCEPT ![h] = {StatsPos}]
    /\ view' = [view EXCEPT ![h] = <<>>]
    /\ Goto(h, "loop")
    /\ UNCHANGED <<now, redis, ticked, stopping, held, crashes, stops, history>>

(* The position the loops have reached.                                    *)
Current(h, p) == p \in todo[h] /\ \A q \in todo[h] : NotAfter(p, q)

(* A mutation of Settle: the local variables of the claim survive.         *)
SettleKeepsTask(h, p) ==
    /\ UNCHANGED held
    /\ Goto(h, IF todo[h] = {p} THEN "idle" ELSE "loop")
    /\ todo' = [todo EXCEPT ![h] = @ \ {p}]
    /\ UNCHANGED <<view, at>>

(* Position p is settled: the loops go on with the next one, and after the *)
(* last one run() returns.                                                 *)
Settle(h, p) ==
    /\ held' = [held EXCEPT ![h] = NoTask]
    /\ IF todo[h] = {p}
         THEN GiveUp(h, "idle")
         ELSE /\ Goto(h, "loop")
              /\ todo' = [todo EXCEPT ![h] = @ \ {p}]
              /\ UNCHANGED <<view, at>>

(* Group.Claim's TTL, computed from the time read by Plan and applied now. *)
ClaimExpiry(h, p) == now + SlotTTL(at[h], Interval[KindAt(p)], MinTTL)

(* A mutation of SetClaim: SET without NX.                                 *)
SetClaimAlways(h, p, t) ==
    /\ claims' = [claims EXCEPT ![t] = ClaimExpiry(h, p)]
    /\ late' = IF now >= End(t) THEN late \cup {t} ELSE late

(* SET NX stores the claim: it was absent.                                 *)
SetClaim(h, p, t) ==
    /\ claims[t] = 0
    /\ claims' = [claims EXCEPT ![t] = ClaimExpiry(h, p)]
    /\ late' = IF now >= End(t) THEN late \cup {t} ELSE late

(* Group.Claim: won, and the task is to be enqueued; or held by somebody;  *)
(* or an error, after which the key may have been stored all the same.     *)
Claim(h) ==
    /\ pc[h] = "loop"
    /\ \E p \in Positions :
         /\ Current(h, p)
         /\ LET t == ClaimKey(p, at[h]) IN
            \/ /\ Works(h)
               /\ SetClaim(h, p, t)
               /\ held' = [held EXCEPT ![h] = t]
               /\ Goto(h, "enqueue")
               /\ UNCHANGED <<view, at, todo>>
            \/ /\ Works(h)
               /\ claims[t] # 0
               /\ Settle(h, p)
               /\ UNCHANGED <<claims, late>>
            \/ /\ Fails(h)
               /\ \/ h \notin stopping /\ SetClaim(h, p, t)
                  \/ UNCHANGED <<claims, late>>
               /\ Settle(h, p)
    /\ UNCHANGED <<now, beat, queue, ticked, stopping, crashes, stops,
                   accepted, lost>>

(* The queue takes the task: its id was not there.                         *)
Accept(t) ==
    /\ t \notin queue
    /\ queue' = queue \cup {t}
    /\ accepted' = [accepted EXCEPT ![t] = @ + 1]

(* EnqueueContext with the claim key as TaskID: accepted, or a conflict    *)
(* with a task still in the queue, which counts as done; any other error,  *)
(* whether or not the queue took the task, leads to DropClaim.             *)
Enqueue(h) ==
    /\ pc[h] = "enqueue"
    /\ \E p \in Positions :
         /\ Current(h, p)
         /\ LET t == held[h] IN
            \/ Works(h) /\ Accept(t) /\ Settle(h, p) /\ UNCHANGED lost
            \/ /\ Works(h)
               /\ t \in queue
               /\ Settle(h, p)
               /\ UNCHANGED <<queue, accepted, lost>>
            \/ /\ Fails(h)
               /\ \/ h \notin stopping /\ Accept(t) /\ lost' = lost \cup {t}
                  \/ UNCHANGED <<queue, accepted, lost>>
               /\ Goto(h, "drop")
               /\ UNCHANGED <<view, at, held, todo>>
    /\ UNCHANGED <<now, beat, claims, ticked, stopping, crashes, stops, late>>

(* A mutation of DropClaim: the DEL uses the context that is cancelled.    *)
DropClaimWithCtx(h) ==
    /\ pc[h] = "drop"
    /\ claims' = IF h \in stopping THEN claims ELSE [claims EXCEPT ![held[h]] = 0]
    /\ \E p \in Positions : Current(h, p) /\ Settle(h, p)
    /\ UNCHANGED <<now, beat, queue, ticked, stopping, bounds, history>>

(* DropClaim: an unconditional DEL under a context of its own, which a     *)
(* stopping process can still use; its error is ignored.                   *)
DropClaim(h) ==
    /\ pc[h] = "drop"
    /\ \/ claims' = [claims EXCEPT ![held[h]] = 0] /\ UNCHANGED faults
       \/ /\ now <= LastFault /\ faults < MaxFaults
          /\ faults' = faults + 1
          /\ UNCHANGED claims
    /\ \E p \in Positions : Current(h, p) /\ Settle(h, p)
    /\ UNCHANGED <<now, beat, queue, ticked, stopping, crashes, stops, history>>

-----------------------------------------------------------------------------
(* The environment: processes die or are told to stop, workers finish      *)
(* tasks, time passes.                                                     *)
Crash(h) ==
    /\ pc[h] # "down"
    /\ now <= LastFault
    /\ crashes < MaxCrashes
    /\ crashes' = crashes + 1
    /\ GiveUp(h, "down")
    /\ held' = [held EXCEPT ![h] = NoTask]
    /\ UNCHANGED <<now, redis, ticked, stopping, stops, faults, history>>

(* signal.NotifyContext cancels ctx on SIGTERM or an interrupt.            *)
Sigterm(h) ==
    /\ pc[h] # "down"
    /\ h \notin stopping
    /\ now <= LastFault
    /\ stops < MaxStops
    /\ stops' = stops + 1
    /\ stopping' = stopping \cup {h}
    /\ UNCHANGED <<now, redis, pc, ticked, view, at, todo, held, crashes, faults, history>>

(* A worker completes the task; the queue keeps nothing of it.             *)
TaskDone(t) ==
    /\ t \in queue
    /\ queue' = queue \ {t}
    /\ UNCHANGED <<now, beat, claims, pc, local, bounds, history>>

(* Keys whose time has come disappear, and every ticker fires (a tick that *)
(* finds the channel full is dropped).  At the bound the clock stands      *)
(* still, in the slot it has reached, and the tickers go on.               *)
Tick ==
    /\ now' = IF now < MaxTime THEN now + 1 ELSE now
    /\ beat' = [h \in Hosts |-> IF beat[h] <= now' THEN 0 ELSE beat[h]]
    /\ claims' = [t \in Tasks |-> IF claims[t] <= now' THEN 0 ELSE claims[t]]
    /\ ticked' = {h \in Hosts : pc[h] # "down"}
    /\ UNCHANGED <<queue, pc, stopping, view, at, todo, held, bounds, history>>

(* A step of process h itself.                                             *)
Step(h) ==
    \/ Exit(h) \/ Beat(h) \/ ReadMembers(h) \/ Plan(h)
    \/ Claim(h) \/ Enqueue(h) \/ DropClaim(h)

Next ==
    \/ \E h \in Hosts : Step(h) \/ Start(h) \/ Crash(h) \/ Sigterm(h)
    \/ \E t \in Tasks : TaskDone(t)
    \/ Tick

Spec == Init /\ [][Next]_vars

(* A process that is up goes on, and time passes.  A select with two ready *)
(* branches chooses at random, so ctx.Done is not passed over for ever.    *)
(* Nothing obliges anybody to start a process, or a worker to finish a     *)
(* task.                                                                   *)
FairSpec ==
    /\ Spec
    /\ WF_vars(Tick)
    /\ \A h \in Hosts : WF_vars(Step(h)) /\ SF_vars(Exit(h))

-----------------------------------------------------------------------------
(* The queue accepts a task at most once, whatever views of the group the  *)
(* schedulers have, unless an enqueue took effect and reported an error,   *)
(* or a process stalled since its Plan claimed after the slot was over for *)
(* the fastest clock: so near the end the claim may not last.              *)
AtMostOncePerSlot ==
    \A t \in Tasks : t \notin lost \cup late => accepted[t] <= 1

(* A claim is stored for the whole rest of its slot: Slot's TTL, computed  *)
(* from an earlier reading of the clock of one process, ends it too soon   *)
(* for the others by no more than the skew of their clocks.                *)
ClaimCoversSlot ==
    \A t \in Tasks : claims[t] # 0 => claims[t] >= End(t) /\ claims[t] > now

(* Two processes never hold the same claim, unless it was won again after  *)
(* the end of its slot.                                                    *)
OneHolder ==
    \A t \in Tasks \ late, g, h \in Hosts : held[g] = t /\ held[h] = t => g = h

(* Why AtMostOncePerSlot holds.  The parts that are not properties of      *)
(* interest by themselves, but make the conjunction inductive.             *)
ReadsThePast == \A h \in Hosts : at[h] <= now + Skew[h]
LateIsOver == \A t \in late : now >= End(t)
HolderHasClaim ==
    \A t \in Tasks, h \in Hosts : held[h] = t /\ now < End(t) => claims[t] # 0
AcceptedHasClaim ==
    \A t \in Tasks \ lost : accepted[t] > 0 /\ now < End(t) => claims[t] # 0
HolderNotAccepted ==
    \A t \in Tasks \ (lost \cup late), h \in Hosts : held[h] = t => accepted[t] = 0

ClaimInv ==
    /\ ReadsThePast /\ ClaimCoversSlot /\ LateIsOver
    /\ OneHolder /\ HolderHasClaim /\ AcceptedHasClaim /\ HolderNotAccepted
    /\ AtMostOncePerSlot

(* The claim is stored, the task never reached the queue, and no process   *)
(* is about to enqueue it: until the slot ends nobody can.                 *)
Orphan(t) ==
    /\ claims[t] # 0
    /\ accepted[t] = 0
    /\ \A h \in Hosts : held[h] # t

(* The view a process plans with gives every bucket exactly one owner in   *)
(* that view, so schedulers that agree on the members leave no bucket out  *)
(* and give none to two of them.                                           *)
ViewsPartition ==
    \A h \in Hosts :
        view[h] # <<>> => \A i \in DOMAIN BucketIds : OneOwner(view[h], BucketIds[i])

(* Without a crash or a failing command no claim is left behind without    *)
(* its task: a process stopped between Claim and EnqueueContext still gets *)
(* its claim deleted, which is what dropCtx is for.                        *)
GracefulStopReleases ==
    crashes = 0 /\ faults = 0 => \A t \in Tasks : ~Orphan(t)

(* A claim that goes away while its slot lasts is deleted by the only      *)
(* process that holds the task, and only when the queue has not accepted   *)
(* the task, as far as anybody was told.  The DEL of DropClaim does not    *)
(* look whose claim it deletes: a holder whose claim had expired, or been  *)
(* overwritten, would free a task that another process is about to enqueue *)
(* or has enqueued already.                                                *)
DropsOwnClaim ==
    \A t \in Tasks :
        claims[t] # 0 /\ claims'[t] = 0 /\ now' < End(t)
            => /\ \E h \in Hosts : {g \in Hosts : held[g] = t} = {h}
               /\ t \notin lost => accepted[t] = 0

OnlyHolderDrops == [][DropsOwnClaim]_vars

(* The tasks of the slots that the clock's bound falls into, for processes *)
(* whose clocks agree.                                                     *)
FinalTasks ==
    {ClaimKey(p, MaxTime) : p \in Positions}

(* When some scheduler stays up, every bucket gets its task in the current *)
(* slot, although peers crash, stop, stall and come back: a dead member's  *)
(* heartbeat expires and the survivors take its buckets over.  The only    *)
(* exception is an orphaned claim.                                         *)
SlotServed ==
    (<>[](\E h \in Hosts : pc[h] # "down")) =>
        \A t \in FinalTasks : <>(accepted[t] > 0 \/ Orphan(t))

(* README: when a peer goes down the survivors fill its gap in the same    *)
(* slot.  (Stated without the exception.)                                  *)
PeerGapFilled ==
    (<>[](\E h \in Hosts : pc[h] # "down")) =>
        \A t \in FinalTasks : <>(accepted[t] > 0)
=============================================================================
