----------------------------- MODULE StatsTables ----------------------------
(***************************************************************************)
(* Store.AggregateRequests (internal/stats/aggregate.go) as the worker     *)
(* runs it (Jobs.RequestStats): load the logs, aggregate them, and replace *)
(* six tables in one transaction.  A task whose lease was lost is handed   *)
(* out again while the old handler goes on, so aggregations may overlap.   *)
(*                                                                         *)
(* PostgreSQL (external) runs a transaction at READ COMMITTED: a DELETE    *)
(* sees the rows committed when it starts, waits for a transaction that    *)
(* has deleted one of them, and then skips what that transaction has       *)
(* removed; it does not see what it has inserted.  The schema is not part  *)
(* of the repository: "unique" says whether an entry may be there twice.   *)
(***************************************************************************)
EXTENDS RequestStats, Ordering

CONSTANTS
    Aggregators,   \* goroutines that run statistics tasks
    OldLogs,       \* the audit log at the start, at time 0
    NewLogs,       \* what is written to it later, in this order
    Buckets,       \* the ids in the buckets table at the start
    SizeOf,        \* object_records at the start: <<bucket, key>> -> size
    MaxChanges,    \* bound: ticks, writes and deletions
    MaxRuns,       \* bound: tasks handed out
    MaxFaults      \* bound: calls that fail and workers that die

(* The id of a log is its place in the table.                              *)
ASSUME TablesAssumption ==
    /\ MaxChanges \in Nat /\ MaxRuns \in Nat /\ MaxFaults \in Nat
    /\ OldLogs \in Seq(LogRecords) /\ NewLogs \in Seq(LogRecords)
    /\ \A n \in DOMAIN OldLogs : OldLogs[n].id = n /\ OneAccount(OldLogs[n])
    /\ \A n \in DOMAIN NewLogs : OneAccount(NewLogs[n])
    /\ DOMAIN SizeOf \subseteq Nat \X DOMAIN PrefixOf /\ SizeOf \in [DOMAIN SizeOf -> Nat]

(* The tables.                                                             *)
Names == {"prefix", "user", "bucket", "account", "daily", "platform"}
NoRun == 0

VARIABLES
    clock, audit,   \* the time and the audit_logs table
    buckets,        \* the buckets table
    size,           \* object_records: the sizes, 0 without a row
    table,          \* table[t]: committed rows [run, entry, value]
    unique,         \* is there a unique index on the entries?
    pc,             \* pc[j]: "idle", "load", "names", "insert", "commit", or
                    \*   the table to clear
    run,            \* run[j]: the number of j's task
    now,            \* now[j]: the time it has read
    view,           \* view[j]: the logs it has loaded
    rows,           \* rows[j]: the rows it has computed
    gone,           \* gone[j]: rows deleted by its open transaction
    waits,          \* waits[j]: rows a blocked DELETE of j has seen
    runs, faults, changes,
    read,           \* history: read[j], what j's rows were computed from
    late,           \* history: late[j], did another transaction commit during j's?
    last,           \* history: what the last commit was made from
    mixed           \* history: had another one committed during that one?

env == <<clock, audit, buckets, size, unique, changes>>
local == <<pc, run, now, view, rows, gone, waits, read>>
vars == <<env, table, local, runs, faults, late, last, mixed>>

Empty == [t \in Names |-> {}]
NoRead == [logs |-> {}, known |-> {}]
NoLast == [run |-> NoRun, now |-> 0, read |-> NoRead]

TypeOK ==
    /\ clock \in 0 .. MaxChanges /\ changes \in 0 .. MaxChanges /\ unique \in BOOLEAN /\ buckets \subseteq Buckets
    /\ pc \in [Aggregators -> {"idle", "load", "names", "insert", "commit"} \cup Names]
    /\ run \in [Aggregators -> 0 .. MaxRuns] /\ runs \in 0 .. MaxRuns /\ faults \in 0 .. MaxFaults
    /\ \A j \in Aggregators :
         /\ pc[j] = "idle" => run[j] = NoRun /\ gone[j] = Empty /\ rows[j] = Empty
         /\ waits[j] # {} => pc[j] \in Names

Init ==
    /\ clock = 0 /\ audit = OldLogs /\ buckets = Buckets /\ size = SizeOf /\ unique \in BOOLEAN
    /\ table = Empty
    /\ pc = [j \in Aggregators |-> "idle"]
    /\ run = [j \in Aggregators |-> NoRun]
    /\ now = [j \in Aggregators |-> 0]
    /\ view = [j \in Aggregators |-> <<>>]
    /\ rows = [j \in Aggregators |-> Empty]
    /\ gone = [j \in Aggregators |-> Empty]
    /\ waits = [j \in Aggregators |-> {}]
    /\ runs = 0 /\ faults = 0 /\ changes = 0
    /\ read = [j \in Aggregators |-> NoRead]
    /\ late = [j \in Aggregators |-> FALSE] /\ last = NoLast /\ mixed = FALSE

Fault == faults < MaxFaults /\ faults' = faults + 1
Goto(j, label) == pc' = [pc EXCEPT ![j] = label]
Others(j) == Aggregators \ {j}

-----------------------------------------------------------------------------
(* Time passes; requests are audited; a bucket or an object is deleted.    *)
Tick ==
    /\ clock' = clock + 1
    /\ UNCHANGED <<audit, buckets, size, unique>>

Write ==
    /\ Len(audit) < Len(OldLogs) + Len(NewLogs)
    /\ LET n == Len(audit) + 1
       IN  audit' = Append(audit, [NewLogs[n - Len(OldLogs)] EXCEPT !.at = clock, !.id = n])
    /\ UNCHANGED <<clock, buckets, size, unique>>

DropBucket(b) ==
    /\ b \in buckets
    /\ buckets' = buckets \ {b}
    /\ UNCHANGED <<clock, audit, size, unique>>

DropObject(o) ==
    /\ size[o] > 0
    /\ size' = [size EXCEPT ![o] = 0]
    /\ UNCHANGED <<clock, audit, buckets, unique>>

Environment ==
    /\ \/ Tick \/ Write
       \/ \E b \in Buckets : DropBucket(b)
       \/ \E o \in DOMAIN SizeOf : DropObject(o)
    /\ changes < MaxChanges /\ changes' = changes + 1
    /\ UNCHANGED <<table, local, runs, faults, late, last, mixed>>

-----------------------------------------------------------------------------
(* A task is handed out; the handler reads the time.                       *)
Begin(j) ==
    /\ pc[j] = "idle" /\ runs < MaxRuns
    /\ runs' = runs + 1
    /\ run' = [run EXCEPT ![j] = runs + 1]
    /\ now' = [now EXCEPT ![j] = clock]
    /\ late' = [late EXCEPT ![j] = FALSE]
    /\ Goto(j, "load")
    /\ UNCHANGED <<env, table, view, rows, gone, waits, read, faults, last, mixed>>

(* loadLogs: the logs since the start of the longest period, each with the *)
(* size that the object of its bucket and key has now: 0 when either is    *)
(* NULL or there is no row.  (The join is by the name of the bucket; rows  *)
(* of two buckets that had the same name are left out.)  The query has no  *)
(* ORDER BY, so the logs may come in another order.                        *)
Sized(l) ==
    LET found == (l.bucket \X l.key) \cap DOMAIN size
    IN  [l EXCEPT !.size = IF found = {} THEN 0 ELSE size[CHOOSE o \in found : TRUE]]

LoadLogs(j) ==
    /\ pc[j] = "load"
    /\ LET ids == Sorted({n \in DOMAIN audit : audit[n].at >= Since(now[j])})
           found == [i \in DOMAIN ids |-> Sized(audit[ids[i]])]
       IN  \E s \in {found, Reverse(found)} : view' = [view EXCEPT ![j] = s]
    /\ Goto(j, "names")
    /\ UNCHANGED <<env, table, run, now, rows, gone, waits, read, runs, faults, late, last, mixed>>

(* The rows of run r.                                                      *)
RowsOf(stats, r) ==
    [t \in Names |-> {[run |-> r, entry |-> k, value |-> stats[t][k]] : k \in DOMAIN stats[t]}]

(* loadBucketNames and loadUsernames, the loop over the logs, and Begin.   *)
LoadNames(j) ==
    /\ pc[j] = "names"
    /\ rows' = [rows EXCEPT ![j] = RowsOf(Aggregate(view[j], now[j], buckets), run[j])]
    /\ read' = [read EXCEPT ![j] = [logs |-> ToSet(view[j]), known |-> buckets]]
    /\ view' = [view EXCEPT ![j] = <<>>]
    /\ Goto(j, "prefix")
    /\ UNCHANGED <<env, table, run, now, gone, waits, runs, faults, late, last, mixed>>

(* What follows the DELETE from a table.                                   *)
Cleared == [prefix |-> "user", user |-> "bucket", bucket |-> "account", account |-> "daily",
            daily |-> "platform", platform |-> "insert"]

(* DELETE FROM the next table.  The rows it sees are those committed when  *)
(* it starts; when another transaction has deleted one of them it waits.   *)
Clear(j) ==
    /\ pc[j] \in Names
    /\ LET t == pc[j]
           seen == IF waits[j] = {} THEN table[t] ELSE waits[j]
           locked == seen \cap UNION {gone[i][t] : i \in Others(j)}
       IN  IF locked = {}
             THEN /\ gone' = [gone EXCEPT ![j][t] = seen \cap table[t]]
                  /\ waits' = [waits EXCEPT ![j] = {}]
                  /\ Goto(j, Cleared[t])
             ELSE /\ waits[j] = {}
                  /\ waits' = [waits EXCEPT ![j] = seen]
                  /\ UNCHANGED <<gone, pc>>
    /\ UNCHANGED <<env, table, run, now, view, rows, read, runs, faults, late, last, mixed>>

Entries(R) == {r.entry : r \in R}

(* A mutation of Over: the transaction is not rolled back.                 *)
OverLeaves(j) ==
    /\ Goto(j, "idle")
    /\ run' = [run EXCEPT ![j] = NoRun]
    /\ now' = [now EXCEPT ![j] = 0]
    /\ view' = [view EXCEPT ![j] = <<>>]
    /\ rows' = [rows EXCEPT ![j] = Empty]
    /\ UNCHANGED gone
    /\ waits' = [waits EXCEPT ![j] = {}]
    /\ read' = [read EXCEPT ![j] = NoRead]

(* Back to waiting for a task; the transaction, if any, is over.           *)
Over(j) ==
    /\ Goto(j, "idle")
    /\ run' = [run EXCEPT ![j] = NoRun]
    /\ now' = [now EXCEPT ![j] = 0]
    /\ view' = [view EXCEPT ![j] = <<>>]
    /\ rows' = [rows EXCEPT ![j] = Empty]
    /\ gone' = [gone EXCEPT ![j] = Empty]
    /\ waits' = [waits EXCEPT ![j] = {}]
    /\ read' = [read EXCEPT ![j] = NoRead]

(* The INSERTs, in one step.  With a unique index an entry that an open    *)
(* transaction has inserted makes this one wait, and a committed one makes *)
(* it fail.  (The code inserts row by row in the order of a map: when two  *)
(* transactions wait for each other PostgreSQL aborts one, a Rollback.)    *)
Collides(j, t) ==
    unique /\ Entries(rows[j][t]) \cap Entries(table[t] \ gone[j][t]) # {}

Waits(j) ==
    unique /\ \E i \in Others(j), t \in Names :
        pc[i] = "commit" /\ Entries(rows[j][t]) \cap Entries(rows[i][t]) # {}

Insert(j) ==
    /\ pc[j] = "insert" /\ ~Waits(j)
    /\ IF \E t \in Names : Collides(j, t) THEN Over(j)
       ELSE Goto(j, "commit") /\ UNCHANGED <<run, now, view, rows, gone, waits, read>>
    /\ UNCHANGED <<env, table, runs, faults, late, last, mixed>>

(* What the commit makes of a table.                                       *)
Replaced(j, t) == (table[t] \ gone[j][t]) \cup rows[j][t]

Commit(j) ==
    /\ pc[j] = "commit"
    /\ table' = [t \in Names |-> Replaced(j, t)]
    /\ last' = [run |-> run[j], now |-> now[j], read |-> read[j]]
    /\ mixed' = late[j]
    /\ late' = [i \in Aggregators |-> i # j /\ (late[i] \/ pc[i] \in Names \cup {"insert", "commit"})]
    /\ Over(j)
    /\ UNCHANGED <<env, runs, faults>>

(* A query fails or the worker dies: the deferred Rollback.                *)
Rollback(j) ==
    /\ pc[j] # "idle"
    /\ Fault
    /\ Over(j)
    /\ UNCHANGED <<env, table, runs, late, last, mixed>>

Work(j) ==
    Begin(j) \/ LoadLogs(j) \/ LoadNames(j) \/ Clear(j) \/ Insert(j) \/ Commit(j)

Next ==
    \/ Environment
    \/ \E j \in Aggregators : Work(j) \/ Rollback(j)

Spec == Init /\ [][Next]_vars

-----------------------------------------------------------------------------
(* The committed tables are what the definition of the statistics gives    *)
(* for the logs that the last transaction read, at the time it read:       *)
(* whatever the order of the logs, and whatever failed or died before it.  *)
(* All its rows are there, and no others.  Only when another transaction   *)
(* has committed during the last one may rows of the other stay too, which *)
(* its DELETE could not see; the next transaction removes them.            *)
OneSnapshot ==
    last.run # NoRun =>
        LET new == RowsOf(Reference(last.read.logs, last.now, last.read.known), last.run)
        IN  /\ \A t \in Names : new[t] \subseteq table[t]
            /\ ~mixed => table = new

(* Readers never find the tables half replaced: once there are statistics, *)
(* every period has its row in every state, also with overlapping and      *)
(* failing transactions.                                                   *)
NeverEmpty ==
    last.run # NoRun => Entries(table["platform"]) = Periods

(* The requests of day d that an aggregation at a time should count: of    *)
(* the oldest day only what is in the longest period, of the others all.   *)
Countable(l, d, time) ==
    /\ Day(l.at) = d /\ l.class # "skipped"
    /\ d = DayCut(time) => l.at >= time - Hours[Longest]

(* The daily statistics before the current day: they count every request   *)
(* that is in the audit log now, although some were written after the last *)
(* transaction had read it.  The oldest day is cut where the longest       *)
(* period starts, and nowhere else.                                        *)
DaysComplete ==
    (last.run # NoRun /\ ~mixed) =>
        \A d \in DayCut(last.now) .. Day(last.now) - 1 :
            LET S == {l \in ToSet(audit) : Countable(l, d, last.now)}
            IN  {r.value.requests : r \in {r \in table["daily"] : r.entry = d}}
                    = {Cardinality(S)} \ {0}
=============================================================================
