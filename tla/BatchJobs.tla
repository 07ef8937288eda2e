----------------------------- MODULE BatchJobs ------------------------------
(***************************************************************************)
(* The batch handlers of the worker (internal/worker/batch.go) and the     *)
(* operations they apply to each item (internal/objects/apply.go), run by  *)
(* concurrent goroutines of one or more worker processes.                  *)
(*                                                                         *)
(* One action is one call to S3 or to the database.  A call may fail       *)
(* without effect, or take effect and report an error.  A worker may die,  *)
(* or a task run out of its two hours, at any call: the queue then hands   *)
(* the task out again until its retries are used up, while the call may    *)
(* still be carried out.  A failing item is audited and skipped: the       *)
(* handler reports an error, and the queue retries, only when a bucket     *)
(* cannot be read.                                                         *)
(***************************************************************************)
EXTENDS ObjectStore

CONSTANTS
    Workers,     \* goroutines that run handlers
    Payload,     \* task -> [kind, items]; an item is [src, dest]
    Under,       \* directory name -> the keys below it
    EnvS3,       \* are the S3 credentials in the environment?
    MaxRetry,    \* asynq.MaxRetry of batch tasks
    MaxClock,    \* bound on the clock
    MaxCrashes,  \* bound: workers that die and tasks that time out
    MaxFaults    \* bound: calls that report an error, audit inserts included

Tasks == DOMAIN Payload
NoTask == 0

ASSUME BatchAssumption ==
    /\ 0 \notin Tasks
    /\ \A t \in Tasks :
         /\ Payload[t].kind \in {"trash", "purge", "copy", "move"}
         /\ Payload[t].items \in Seq([src : Keys \cup DOMAIN Under, dest : Keys \cup {0}])
         /\ \A i \in ToSet(Payload[t].items) :
              /\ Payload[t].kind \in {"copy", "move"} => i.src \in Keys
              /\ Payload[t].kind = "move" => i.dest # 0
    /\ DOMAIN Under \cap Keys = {}
    /\ \A n \in DOMAIN Under : Under[n] \subseteq UserKeys /\ IsFiniteSet(Under[n])
    /\ EnvS3 \in BOOLEAN
    /\ MaxRetry \in Nat /\ MaxClock \in Nat /\ MaxCrashes \in Nat /\ MaxFaults \in Nat

VARIABLES
    queued,     \* tasks waiting in the queue
    done,       \* tasks the queue has seen succeed
    tries,      \* tries[t]: how often t was handed out
    job,        \* job[w]: the task w runs, or NoTask
    pc,         \* pc[w]: the next call of w
    items,      \* items[w]: what is left of the resolved items
    meta,       \* meta[w]: what HeadObject returned
    etag,       \* etag[w]: what CopyObject returned
    at,         \* at[w]: the time the handler read
    late,       \* calls of dead or timed out handlers, still under way
    crashes, faults,
    audit,      \* history: the entries in the audit log
    planned,    \* history: planned[t], the items the last try had to handle
    unlogged,   \* history: items [task, item] whose entry was not written
    skipped,    \* history: tasks dropped because the settings were not read
    clash,      \* history: two items in flight, one writing a key of the other
    dropped     \* history: contents removed by a permanent delete, or replaced
                \*   in the trash when their key was deleted again

queueVars == <<queued, done, tries>>
localVars == <<job, pc, items, meta, etag, at>>
history == <<audit, unlogged, planned, skipped, clash, dropped>>
batchVars == <<queueVars, localVars, late, crashes, faults, history>>

BatchOK ==
    /\ queued \subseteq Tasks /\ done \subseteq Tasks
    /\ tries \in [Tasks -> 0 .. MaxRetry + 1]
    /\ job \in [Workers -> Tasks \cup {NoTask}]
    /\ pc \in [Workers -> {"idle", "dest", "reject", "head", "copy", "delete", "record"}]
    /\ \A w \in Workers : pc[w] = "idle" <=> job[w] = NoTask
    /\ \A w \in Workers : job[w] # NoTask => items[w] # <<>> /\ job[w] \notin queued \cup done
    /\ \A v, w \in Workers : job[v] = job[w] /\ job[v] # NoTask => v = w
    /\ \A c \in late : c.task \in Tasks /\ c.call \in {"copy", "delete", "record"}
    /\ crashes \in 0 .. MaxCrashes /\ Cardinality(late) <= crashes /\ faults \in 0 .. MaxFaults

BatchInit ==
    /\ queued = Tasks /\ done = {}
    /\ tries = [t \in Tasks |-> 0]
    /\ job = [w \in Workers |-> NoTask]
    /\ pc = [w \in Workers |-> "idle"]
    /\ items = [w \in Workers |-> <<>>]
    /\ meta = [w \in Workers |-> 0]
    /\ etag = [w \in Workers |-> 0]
    /\ at = [w \in Workers |-> 0]
    /\ late = {} /\ crashes = 0 /\ faults = 0
    /\ audit = {} /\ unlogged = {} /\ planned = [t \in Tasks |-> {}] /\ skipped = {}
    /\ clash = FALSE /\ dropped = {}

-----------------------------------------------------------------------------
Kind(w) == Payload[job[w]].kind
Item(w) == Head(items[w])

Fault == faults + Cardinality(unlogged) < MaxFaults /\ faults' = faults + 1

(* The keys that a name in a delete stands for: itself when it is a valid  *)
(* key, and for a directory the keys that are now below it.                *)
KeysOf(n) == IF n \in Keys THEN {n} \cap UserKeys ELSE {k \in Under[n] : s3[k] # 0}

(* ExpandDeleteKeys, when these directories cannot be listed: every key    *)
(* once, in the order of first appearance.                                 *)
Expand(names, unlisted) ==
    LET ks == UNION {KeysOf(n) : n \in ToSet(names) \ unlisted}
        First(k) == Min({i \in DOMAIN names : names[i] \notin unlisted /\ k \in KeysOf(names[i])})
        Before(j, k) == First(j) < First(k) \/ (First(j) = First(k) /\ j < k)
    IN  InOrder(ks, {p \in ks \X ks : Before(p[1], p[2])})

(* The names that expand to nothing: an invalid key, an empty directory.   *)
Unresolved(names) == {n \in ToSet(names) : KeysOf(n) = {}}

IsDelete(t) == Payload[t].kind \in {"trash", "purge"}
Names(t) == [i \in DOMAIN Payload[t].items |-> Payload[t].items[i].src]

Directories(t) == IF IsDelete(t) THEN {n \in ToSet(Names(t)) : n \notin Keys} ELSE {}

(* What the handler has to do, when these directories could not be listed. *)
ResolvedItems(t, unlisted) ==
    IF IsDelete(t)
      THEN LET ks == Expand(Names(t), unlisted)
           IN  [i \in DOMAIN ks |-> [src |-> ks[i], dest |-> ToTrashKey(ks[i])]]
      ELSE Payload[t].items

(* The first call for an item of a task of this kind.                      *)
FirstCall(t, item) ==
    CASE Payload[t].kind = "copy" -> "dest"
      [] Payload[t].kind = "move" /\ item.src # item.dest -> "reject"
      [] OTHER -> "head"

(* Two items in flight interfere when one writes the destination into a    *)
(* key that the other reads or writes.  An item whose handler is gone is   *)
(* in flight as long as its last call is; a retry of it does not count.    *)
Interferes(i, j) == i.dest \in {j.src, j.dest} \/ j.dest \in {i.src, i.dest}

StartItem(w, t, rest) ==
    /\ job' = [job EXCEPT ![w] = t]
    /\ items' = [items EXCEPT ![w] = rest]
    /\ pc' = [pc EXCEPT ![w] = FirstCall(t, Head(rest))]
    /\ clash' = \/ clash
                \/ \E v \in Workers \ {w} : job[v] # NoTask /\ Interferes(Item(v), Head(rest))
                \/ \E c \in late : /\ c.task # t \/ c.item # Head(rest)
                                  /\ Interferes(c.item, Head(rest))

(* The goroutine is free again and its local variables are gone.           *)
Free(w) ==
    /\ job' = [job EXCEPT ![w] = NoTask]
    /\ items' = [items EXCEPT ![w] = <<>>]
    /\ pc' = [pc EXCEPT ![w] = "idle"]
    /\ meta' = [meta EXCEPT ![w] = 0]
    /\ etag' = [etag EXCEPT ![w] = 0]
    /\ at' = [at EXCEPT ![w] = 0]

(* A mutation of Requeue: retries without end.                             *)
RequeueForever(t) == queued' = queued \cup {t}

(* asynq: a task whose handler failed or died is handed out again until    *)
(* its retries are used up, and then archived.                             *)
Requeue(t) == queued' = IF tries[t] <= MaxRetry THEN queued \cup {t} ELSE queued

(* The key an entry names: the destination for a copy whose bucket was     *)
(* found and for a move that succeeded, otherwise the source.              *)
AuditKey(t, item, ok) ==
    IF \/ Payload[t].kind = "copy" /\ item.dest # 0
       \/ Payload[t].kind = "move" /\ ok
      THEN item.dest
      ELSE item.src

(* The entry for an item.  The item itself is not in the log: it tells     *)
(* apart the entries of two items that name the same key.                  *)
Entry(t, item, ok) ==
    [task |-> t, item |-> item, key |-> AuditKey(t, item, ok), ok |-> ok]

(* audit, for these items of t.  The error of the insert is dropped.       *)
Audit(t, these, ok) ==
    \E missed \in SUBSET these :
        /\ unlogged' = unlogged \cup {[task |-> t, item |-> i] : i \in missed}
        /\ missed = {} \/ faults + Cardinality(unlogged) + Cardinality(missed) <= MaxFaults
        /\ audit' = audit \cup {Entry(t, i, ok) : i \in these \ missed}

(* What a delete was given and cannot expand: for these names it has only  *)
(* an entry to write.                                                      *)
Failed(t, unlisted) ==
    IF IsDelete(t)
      THEN {[src |-> n, dest |-> 0] : n \in unlisted \cup Unresolved(Names(t))}
      ELSE {}

-----------------------------------------------------------------------------
(* asynq hands out t; the handler builds the S3 client from the settings   *)
(* table, looks the bucket up and, for a delete, expands the keys: one     *)
(* listing may fail, and its directory is then audited as a failure.       *)
HandOut(w, t) ==
    /\ job[w] = NoTask
    /\ t \in queued

BeginOK(w, t) ==
    /\ HandOut(w, t)
    /\ queued' = queued \ {t}
    /\ tries' = [tries EXCEPT ![t] = @ + 1]
    /\ \E now \in {clock, clock + 1} :
         now <= MaxClock /\ clock' = now /\ at' = [at EXCEPT ![w] = now]
    /\ \E unlisted \in {{}} \cup {{n} : n \in Directories(t)} :
       LET todo == ResolvedItems(t, unlisted)
           bad  == Failed(t, unlisted)
       IN  /\ IF unlisted # {} THEN Fault ELSE UNCHANGED faults
           /\ Audit(t, bad, FALSE)
           /\ planned' = [planned EXCEPT ![t] = bad \cup ToSet(todo)]
           /\ IF todo # <<>>
                THEN StartItem(w, t, todo) /\ UNCHANGED <<done, meta, etag>>
                ELSE /\ done' = done \cup {t}
                     /\ UNCHANGED <<job, items, pc, meta, etag, clash>>
    /\ UNCHANGED <<s3, rec, late, crashes, skipped, dropped>>

(* Settings.Map fails: the client falls back on the environment, and       *)
(* without credentials there the handler skips the task and returns nil.   *)
BeginSkipped(w, t) ==
    /\ HandOut(w, t)
    /\ ~EnvS3
    /\ Fault
    /\ queued' = queued \ {t}
    /\ tries' = [tries EXCEPT ![t] = @ + 1]
    /\ done' = done \cup {t}
    /\ planned' = [planned EXCEPT ![t] = ToSet(Payload[t].items)]
    /\ skipped' = skipped \cup {t}
    /\ UNCHANGED <<store, localVars, late, crashes, audit, unlogged, clash, dropped>>

(* GetVisible fails, or finds no bucket: the handler returns an error.     *)
BeginFailed(w, t) ==
    /\ HandOut(w, t)
    /\ Fault
    /\ tries' = [tries EXCEPT ![t] = @ + 1]
    /\ queued' = IF tries[t] < MaxRetry THEN queued ELSE queued \ {t}
    /\ UNCHANGED <<store, done, localVars, late, crashes, history>>

(* A mutation of Finished: the first failing item ends the batch.          *)
FinishedStopsAtFailure(w, ok) ==
    /\ Audit(job[w], {Item(w)}, ok)
    /\ IF Len(items[w]) > 1 /\ ok
         THEN /\ StartItem(w, job[w], Tail(items[w]))
              /\ meta' = [meta EXCEPT ![w] = 0]
              /\ etag' = [etag EXCEPT ![w] = 0]
              /\ UNCHANGED <<at, done>>
         ELSE /\ Free(w)
              /\ done' = done \cup {job[w]}
              /\ UNCHANGED clash

(* A mutation of Finished: a failing item is tried again and again.        *)
FinishedRetriesItem(w, ok) ==
    /\ Audit(job[w], {Item(w)}, ok)
    /\ IF ok /\ Len(items[w]) = 1
         THEN Free(w) /\ done' = done \cup {job[w]} /\ UNCHANGED clash
         ELSE /\ StartItem(w, job[w], IF ok THEN Tail(items[w]) ELSE items[w])
              /\ meta' = [meta EXCEPT ![w] = 0]
              /\ etag' = [etag EXCEPT ![w] = 0]
              /\ UNCHANGED <<at, done>>

(* The item is audited and the loop goes on; after the last item the       *)
(* handler returns nil and the task is done.                               *)
Finished(w, ok) ==
    /\ Audit(job[w], {Item(w)}, ok)
    /\ IF Len(items[w]) > 1
         THEN /\ StartItem(w, job[w], Tail(items[w]))
              /\ meta' = [meta EXCEPT ![w] = 0]
              /\ etag' = [etag EXCEPT ![w] = 0]
              /\ UNCHANGED <<at, done>>
         ELSE /\ Free(w)
              /\ done' = done \cup {job[w]}
              /\ UNCHANGED clash

Call(w, label) == pc' = [pc EXCEPT ![w] = label]

(* BatchCopy looks up the destination bucket of every item (0 stands for   *)
(* one that is not visible); a database error ends the whole handler.      *)
GetDest(w) ==
    /\ pc[w] = "dest"
    /\ \/ /\ Item(w).dest # 0
          /\ Call(w, "reject")
          /\ UNCHANGED <<queueVars, job, items, meta, etag, at, faults, audit, unlogged, clash>>
       \/ /\ Item(w).dest = 0
          /\ Finished(w, FALSE)
          /\ UNCHANGED <<queued, tries, faults>>
       \/ /\ Fault
          /\ Requeue(job[w])
          /\ Free(w)
          /\ UNCHANGED <<done, tries, audit, unlogged, clash>>
    /\ UNCHANGED <<store, late, crashes, planned, skipped, dropped>>

(* A mutation of RejectIfExists: the destination is not looked at.         *)
RejectNever(w) ==
    /\ pc[w] = "reject"
    /\ Call(w, "head")
    /\ UNCHANGED <<store, queueVars, job, items, meta, etag, at, late, crashes, faults, history>>

(* rejectIfExists: HeadObject on the destination.                          *)
RejectIfExists(w) ==
    /\ pc[w] = "reject"
    /\ \/ /\ s3[Item(w).dest] = 0
          /\ Call(w, "head")
          /\ UNCHANGED <<done, job, items, meta, etag, at, faults, audit, unlogged, clash>>
       \/ s3[Item(w).dest] # 0 /\ Finished(w, FALSE) /\ UNCHANGED faults
       \/ Fault /\ Finished(w, FALSE)
    /\ UNCHANGED <<store, queued, tries, late, crashes, planned, skipped, dropped>>

(* HeadObject on the source.                                               *)
HeadSource(w) ==
    /\ pc[w] = "head"
    /\ \/ /\ s3[Item(w).src] # 0
          /\ meta' = [meta EXCEPT ![w] = s3[Item(w).src]]
          /\ Call(w, IF Kind(w) = "purge" THEN "delete" ELSE "copy")
          /\ UNCHANGED <<done, job, items, etag, at, faults, audit, unlogged, clash>>
       \/ s3[Item(w).src] = 0 /\ Finished(w, FALSE) /\ UNCHANGED faults
       \/ Fault /\ Finished(w, FALSE)
    /\ UNCHANGED <<store, queued, tries, late, crashes, planned, skipped, dropped>>

(* The content that was asked to go, when this step removes it.            *)
Dropped(asked, k) == IF asked /\ s3'[k] # s3[k] THEN dropped \cup {s3[k]} ELSE dropped

(* A mutation of CopySource: its error is not looked at.                   *)
CopySourceIgnoresError(w) ==
    /\ pc[w] = "copy"
    /\ LET i == Item(w) IN
       /\ s3' = IF CanCopy(i.src, i.dest) THEN CopyObject(i.dest, i.src) ELSE s3
       /\ dropped' = Dropped(Kind(w) = "trash", i.dest)
       /\ etag' = [etag EXCEPT ![w] = s3[i.src]]
       /\ Call(w, IF Kind(w) = "copy" THEN "record" ELSE "delete")
    /\ UNCHANGED <<rec, clock, queueVars, job, items, meta, at, late, crashes, faults,
                   audit, unlogged, planned, skipped, clash>>

(* CopyObject to the destination; the failed call may have been carried    *)
(* out.                                                                    *)
CopySource(w) ==
    /\ pc[w] = "copy"
    /\ LET from == Item(w).src
           to   == Item(w).dest
       IN  \/ /\ CanCopy(from, to)
              /\ s3' = CopyObject(to, from)
              /\ etag' = [etag EXCEPT ![w] = s3[from]]
              /\ Call(w, IF Kind(w) = "copy" THEN "record" ELSE "delete")
              /\ UNCHANGED <<done, job, items, meta, at, faults, audit, unlogged, clash>>
           \/ ~CanCopy(from, to) /\ Finished(w, FALSE) /\ UNCHANGED <<s3, faults>>
           \/ /\ Fault
              /\ Finished(w, FALSE)
              /\ \/ UNCHANGED s3
                 \/ CanCopy(from, to) /\ s3' = CopyObject(to, from)
    /\ dropped' = Dropped(Kind(w) = "trash", Item(w).dest)
    /\ UNCHANGED <<rec, clock, queued, tries, late, crashes, planned, skipped>>

(* DeleteObject on the source.                                             *)
DeleteSource(w) ==
    /\ pc[w] = "delete"
    /\ \/ /\ s3' = DeleteObject(Item(w).src)
          /\ Call(w, "record")
          /\ UNCHANGED <<done, job, items, meta, etag, at, faults, audit, unlogged, clash>>
       \/ /\ Fault
          /\ Finished(w, FALSE)
          /\ s3' \in {s3, DeleteObject(Item(w).src)}
    /\ dropped' = Dropped(Kind(w) = "purge", Item(w).src)
    /\ UNCHANGED <<rec, clock, queued, tries, late, crashes, planned, skipped>>

(* A mutation of NewRecords: a soft delete removes the row.                *)
NewRecordsForgetTrash(c) ==
    CASE c.kind \in {"purge", "trash"} -> DeleteRow(c.item.src)
      [] c.kind = "move"  -> MoveKey(c.item.src, c.item.dest, c.meta, c.etag, c.at)
      [] c.kind = "copy"  -> Upsert(c.item.dest, c.meta, c.etag, c.at)

(* What the last call for an item writes to object_records.                *)
NewRecords(c) ==
    CASE c.kind = "purge" -> DeleteRow(c.item.src)
      [] c.kind = "trash" -> MoveKey(c.item.src, c.item.dest, c.meta, c.meta, c.at)
      [] c.kind = "move"  -> MoveKey(c.item.src, c.item.dest, c.meta, c.etag, c.at)
      [] c.kind = "copy"  -> Upsert(c.item.dest, c.meta, c.etag, c.at)

(* The call that w is about to make.                                       *)
CallOf(w) ==
    [task |-> job[w], kind |-> Kind(w), item |-> Item(w), call |-> pc[w],
     meta |-> meta[w], etag |-> etag[w], at |-> at[w]]

(* Store.Delete, MoveKey or Upsert; then the audit entry.                  *)
WriteRecord(w) ==
    /\ pc[w] = "record"
    /\ \/ rec' = NewRecords(CallOf(w)) /\ Finished(w, TRUE) /\ UNCHANGED faults
       \/ /\ Fault
          /\ rec' \in {rec, NewRecords(CallOf(w))}
          /\ Finished(w, FALSE)
    /\ UNCHANGED <<s3, clock, queued, tries, late, crashes, planned, skipped, dropped>>

(* The worker dies, and the queue notices that the lease has expired; or   *)
(* the two hours are over.  Then the handler goes on, but every call it    *)
(* makes with the expired context fails, and so does every audit entry.    *)
Crash(w) ==
    /\ job[w] # NoTask
    /\ crashes < MaxCrashes
    /\ crashes' = crashes + 1
    /\ late' = IF pc[w] \in {"copy", "delete", "record"} THEN late \cup {CallOf(w)} ELSE late
    /\ Requeue(job[w])
    /\ Free(w)
    /\ UNCHANGED <<store, done, tries, faults, history>>

(* The last call of such a handler is carried out after all, or never.     *)
LateCall(c) ==
    /\ late' = late \ {c}
    /\ \/ UNCHANGED <<s3, rec, dropped>>
       \/ /\ c.call = "copy" /\ CanCopy(c.item.src, c.item.dest)
          /\ s3' = CopyObject(c.item.dest, c.item.src)
          /\ dropped' = Dropped(c.kind = "trash", c.item.dest)
          /\ UNCHANGED rec
       \/ /\ c.call = "delete"
          /\ s3' = DeleteObject(c.item.src)
          /\ dropped' = Dropped(c.kind = "purge", c.item.src)
          /\ UNCHANGED rec
       \/ /\ c.call = "record"
          /\ rec' = NewRecords(c)
          /\ UNCHANGED <<s3, dropped>>
    /\ UNCHANGED <<clock, queueVars, localVars, crashes, faults, audit, unlogged, planned, skipped, clash>>

Work(w) ==
    \/ \E t \in Tasks : BeginOK(w, t)
    \/ GetDest(w) \/ RejectIfExists(w) \/ HeadSource(w) \/ CopySource(w)
    \/ DeleteSource(w) \/ WriteRecord(w)

BatchNext ==
    \/ \E w \in Workers :
         \/ Work(w) \/ Crash(w)
         \/ \E t \in Tasks : BeginSkipped(w, t) \/ BeginFailed(w, t)
    \/ \E c \in late : LateCall(c)

vars == <<store, batchVars>>
Init == StoreInit /\ BatchInit
BatchSpec == Init /\ [][BatchNext]_vars

-----------------------------------------------------------------------------
TypeOK == StoreOK /\ BatchOK

(* Content that users have stored survives every crash, retry and failing  *)
(* call of moves, copies and deletes, unless a permanent delete was asked  *)
(* for, or a second delete of the key replaced it in the trash.  Items in  *)
(* flight that write each other's keys are excluded: nothing orders them.  *)
ContentSurvives ==
    ~clash => \A k \in UserKeys :
        InitS3[k] # 0 => InitS3[k] \in dropped \cup {s3[j] : j \in Keys}

(* rejectIfExists: no copy or move replaces an object of a user, except    *)
(* when two items in flight write the same key, between whose HeadObject   *)
(* and CopyObject the other one may come.                                  *)
NoOverwrite ==
    [][\A k \in UserKeys : s3[k] # 0 /\ s3'[k] # s3[k] => s3'[k] = 0 \/ clash]_vars

(* When no call has failed, the records agree with S3 whenever no handler  *)
(* is at work, whatever the order in which the handlers ran: also of two   *)
(* that work on the same source at the same time.                          *)
RecordsAgree ==
    (~clash /\ crashes = 0 /\ faults = 0 /\ \A w \in Workers : job[w] = NoTask)
        => \A k \in Keys : Agrees(k)

(* Every item has its entry, but for those the logger could not write.     *)
Audited(t) ==
    \A i \in planned[t] : [task |-> t, item |-> i] \in unlogged
                          \/ \E ok \in BOOLEAN : Entry(t, i, ok) \in audit

(* Every item of a task the queue counts as done has an audit entry,       *)
(* after any number of crashes, retries and failing items before it: a     *)
(* failing item does not keep the ones after it from being handled.  Only  *)
(* a task skipped for want of settings has none, and an entry whose insert *)
(* has failed is lost for good.                                            *)
AuditedUnlessSkipped == \A t \in done \ skipped : Audited(t)

(* At the moment an item is audited as a success, the object is where it   *)
(* was asked to be, its record describes it, and the source of a move or a *)
(* delete is gone from S3 and from the records; although other handlers    *)
(* work on the same source, and earlier tries may have died half-way.      *)
Achieved(w) ==
    LET i == Item(w) IN
    /\ Kind(w) # "purge" =>
         /\ s3'[i.dest] # 0
         /\ rec'[i.dest].etag = s3'[i.dest] /\ rec'[i.dest].size = s3'[i.dest]
    /\ Kind(w) # "copy" => s3'[i.src] = 0 /\ rec'[i.src] = NoRow

SuccessIsReal ==
    [][\A w \in Workers :
         (job[w] # NoTask /\ ~clash' /\ Entry(job[w], Item(w), TRUE) \in audit' \ audit)
         => Achieved(w)]_vars

(* Every batch task is done or given up in the end, however its tries end. *)
AllSettled ==
    \A t \in Tasks :
        (t \in queued) ~> (t \in done \/ (tries[t] > MaxRetry /\ \A w \in Workers : job[w] # t))
=============================================================================
