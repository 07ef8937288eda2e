# Verification of osspilot-tenant-worker

TLA+ models of the scheduler and the worker of OssPilot's tenant side, the TLC
runs that check them on small instances, and theorems checked by TLAPS for every
instance. Paths are relative to the repository; line numbers are in
`PROJECT.json` ("map").

## 1. The system

Two programs are built from one repository. They share Redis (heartbeats,
claims, the asynq queue), PostgreSQL (the tenant database) and S3 (Ceph RGW).
No transaction spans two of them.

| part | state | operations | what is hard |
| --- | --- | --- | --- |
| scheduler group (`cmd/scheduler`, `internal/sched`) | heartbeat keys with a TTL, claim keys with a TTL, local view of the group | heartbeat, read the members, shard buckets, claim, enqueue, drop a claim | processes come, stall, crash and stop between any two commands; views and clocks differ; replies get lost; slots end while a pass is under way |
| batch jobs (`worker/batch.go`, `objects/apply.go`) | S3 objects, `object_records`, audit log | delete (to the trash or for good), copy, move of many items | three or four calls per item, each of which may fail with or without effect; handlers work on the same keys; tasks are retried while the last call of the old handler may still arrive |
| inventory (`worker/jobs.go: scanBucket`) | `object_records.last_seen_at`, `buckets.inventoried_at` | list page by page, upsert, purge what was not seen | pages are snapshots; batches, clients and other scans change the bucket meanwhile |
| trash cleanup (`jobs.go: trash`) | `.trash/` objects and their rows | read policy, read expired rows, delete object, delete row | the rows read are stale; scans renew them |
| version cleanup (`jobs.go: cleanVersions`, `internal/versions`) | `file_versions`, `.versions/` objects | read policy, read expired rows, delete object, delete row; number and insert versions | stale lists; two deletions that are not atomic; a limit of 5000 rows; numbers taken before the insert |
| multipart cleanup (`jobs.go: cleanMultipart`, `internal/uploads`) | `upload_tasks`, S3 multipart uploads | read policy, read stale tasks, abort, finish | races with the API that completes uploads; abort and finish are not atomic; limit of 5000 rows |
| request statistics (`internal/stats`) | six tables | aggregate the audit log of 30 days, replace the tables in one transaction | overlapping transactions; logs in no order; window and day boundaries |
| object listing (`objects/list.go`, `objects/store.go`) | none: a token handed from page to page | fold a bounded scan into items and folders | page and scan limits that fall into a folder; rows coming and going between the pages |
| cleanup policies (`internal/platform`) | `platform_settings` | parse with defaults | missing, malformed and senseless values |
| S3 client, queue client, buckets and grants, audit, configuration, logging, healthz | | mostly calls of the tenant API, of which this repository keeps a copy | an audit entry that cannot be written is dropped |

The scheduler enqueues tasks for each bucket; the tenant API enqueues batches
and single scans; workers take tasks from the queue and run `ASYNQ_CONCURRENCY`
of them at a time. Handlers meet only through S3 and PostgreSQL.

What makes the parts correct: a task is accepted at most once in a slot, and in
every slot once while somebody is alive (scheduler); no content is lost, no
object of a user is overwritten, every item is accounted for (batches); after a
scan the records describe the bucket (inventory); nothing leaves the trash too
early (trash); a version is kept for its retention, its object goes before its
row, and both go in the end (versions); `upload_tasks` tells the truth about S3
and stale uploads are settled (multipart); the tables show one reading of the
log, counted right, at any time (statistics); pages together list every key once
(listing).

## 2. Modules

| module | models | used by |
| --- | --- | --- |
| `Sharding` | `Members`, `Mine`, `Slot` as operators | `Scheduler` |
| `Scheduler` | the loop of `cmd/scheduler/main.go`, one action per Redis or database command, with Redis' expiring keys, the queue and skewed clocks | `MCScheduler` |
| `ObjectStore` | S3 objects and `object_records`: what each call changes | `BatchJobs`, `Inventory` |
| `BatchJobs` | the three batch handlers, one action per call, and asynq's retries, leases and deadlines | `MCBatchJobs`, `BucketSync` |
| `Inventory` | `scanBucket`, one action per call | `BucketSync` |
| `BucketSync` | composition: one bucket under batches, scans and clients | `MCBucketSync` |
| `Settings` | `CleanupPolicy`, `pickInt`, `pickBool`, `shouldCleanupTrash` | the cleanup modules |
| `TrashCleanup` | `Jobs.trash` beside soft deletes, scans, uploads and policy changes | `MCTrashCleanup` |
| `UploadLifecycle` | abstract: an upload is settled once and reported once | `UploadCleanup` |
| `UploadCleanup` | `Jobs.cleanMultipart` beside the API that completes uploads | `MCUploadCleanup` |
| `VersionRetention` | abstract: a version is kept, expires, loses its object, then its row | `VersionCleanup` |
| `VersionCleanup` | `Jobs.cleanVersions` beside the API that adds versions | `MCVersionCleanup` |
| `RequestStats` | the counters and the loop of `AggregateRequests` as operators, and a definition of the same tables without a loop | `StatsTables` |
| `StatsTables` | `AggregateRequests` as a transaction, with overlapping ones | `MCStatsTables` |
| `Listing` | `Folded`, `ListPrefix`, `foldList` and a caller that reads all pages | `MCListing` |
| `Ordering` | sorted lists: Go's sort, ORDER BY, the order of a listing | `Sharding`, `ObjectStore`, `UploadCleanup`, `StatsTables` |
| `OrderProofs` | lemmas about sorted lists, least elements and the elements of a sequence | the proofs |
| `SchedulerProofs`, `BucketProofs`, `TrashProofs`, `UploadProofs`, `VersionProofs`, `StatsProofs`, `ListingProofs` | theorems | |

How state and actions correspond to the code:

- **Scheduler.** A position is a pair of indices in the nested loops over kinds
  and buckets; `todo[h]` holds the positions of h's pass that are not settled.
  `at[h]` is the time h has read from its own clock at the start of a pass, from
  which every claim of the pass takes its slot and its TTL. `Beat`, `ReadMembers`,
  `Plan`, `Claim`, `Enqueue`, `DropClaim` are the commands in their order. A command
  may fail without effect or take effect and report an error (`faults` counts
  both). `Tick` advances all clocks and lets keys expire; `Skew[h]` is how far h is
  ahead of the slowest clock, at most `MaxSkew`. A slot ends, for the invariants,
  when it ends for the fastest clock (`End`). `Crash`, `Sigterm` and `Exit` end a
  process; `Start` starts it again.
- **ObjectStore.** A key is a number whose order is the order of S3's listing; a
  content is a number that also stands for its size and ETag. A row keeps size,
  ETag and `last_seen_at`, because the code takes them from different calls: the
  size from HeadObject and the ETag, for a copy or move, from CopyObject.
- **BatchJobs.** `pc[w]` is the next call for the first of `items[w]`. `Finished`
  is the audit entry plus the step of the loop; the handler returns nil after the
  last item. `BeginOK` is everything before the loop, the expansion of
  directories included, of which a listing may fail. `BeginSkipped` is `client()`
  when the settings cannot be read. `Audit` writes an entry or, when the insert
  fails, does not (`unlogged`); an entry names the key that the code logs, and carries the
  item it is about, so that two items with one source are told apart. `Crash` is
  the death of a worker as well as the end of the two hours: in both cases the
  queue hands the task out again, and the call under way is left in `late`, from
  where `LateCall` carries it out at any later time, or never. A handler that goes
  on after its deadline does nothing else: every call it makes with its context
  fails, the audit entries too.
- **Inventory.** The history variable `touched[s]` records keys that somebody
  else has changed since scan s started. A scan's start is later than all that
  was written before it: timestamps have microseconds, and ties are left out.
- **TrashCleanup.** Time is counted in days and rows have ages that saturate one
  above the longest retention, so that days pass without end in a finite model
  and liveness can be checked. Soft deletes and scans take less than a day
  (`NextDay` waits for them); sweeps may take longer. The scan is that of
  `Inventory` with one page.
- **UploadCleanup.** `api` holds uploads that the tenant API has completed in S3
  and not yet recorded. S3 refuses to abort an upload that it does not have.
  `lost` holds uploads that S3 has settled and whose row was not updated: the
  answer or the worker was lost, or `Finish` failed. The refinement mapping reads
  the outcome of an upload from S3 and its report from the row.
- **VersionCleanup.** Versions of one object; `last` is the sequence of ids.
  `TakeNo` and `Insert` are the two calls with which the API adds a version. Ages
  saturate as in `TrashCleanup`. `Stuck` versions are those whose object S3 always
  refuses to delete. The refinement mapping reads the phase of a version from its
  row and its object; "expired" is older than the shortest retention that any
  policy in force may name, since a sweep goes on with the policy it has read.
- **RequestStats, StatsTables.** A log's class stands for its action: the lists of
  action names in `request.go` are not repeated. `Totals` is the loop; `Aggregate` makes the
  six tables of what it has counted; `Reference` defines each row from the set of
  logs that it counts, a byte as a pair of a log and a number up to its size. A log
  carries the time at which it appears in the table. Its size is that of the row for its
  bucket and key, 0 without one (`Sized`).
  A transaction follows PostgreSQL's READ COMMITTED: a DELETE sees what was
  committed when it began, waits for a transaction that has deleted the same rows,
  and does not see what that one has inserted. The schema is not part of the
  repository, so a unique index may be there or not (`unique`). `read` and `last`
  remember what the committed tables were computed from.
- **Listing.** A key is its position in the order of the database, which is taken
  to be byte order (collation "C"): a prefix comes before the keys that begin with
  it, and the keys of a folder follow each other. `FoldKey` is one turn of the loop
  (`Skip`, `Break` or `Enter`), `Return` hands the token to the next page. `Put` and
  `Delete` change the rows at any time. Nothing in this repository calls `Folded`.

## 3. Runs

| run | shows | bounds |
| --- | --- | --- |
| `sched_faults` | types; `ClaimInv` (claims cover their slot but for the skew, have one holder and guard accepted tasks); for every reachable view, `Mine` gives each bucket one owner; a signal between claim and enqueue leaves no claim without its task; a claim that goes before its slot ends had one holder, who drops it, and guards no accepted task | two hosts with diverging views and clocks a period apart, the statistics task in two slots, one crash, one stop, one fault |
| `sched_live` | every task is served in its slot while a scheduler is alive, unless its claim was orphaned, and none is accepted twice | two hosts with equal clocks, the inventory task of a bucket and the statistics task, one crash, one fault |
| `sched_gap` (violation) | a crash between claim and enqueue blocks the survivors until the slot ends | |
| `batch_faults` | types; done means audited, unless the task was skipped or the entry could not be written; records agree with S3; content survives; success means done; no overwriting | four tasks on three keys and their trash, two goroutines, one crash or timeout with its late call, one call that fails or one audit entry that is lost, one retry, no credentials in the environment |
| `bucket_sync` | types; a scan repairs every key that nobody else touches | two scans, pages of one object, a batch, a client, an abort, a crash or timeout |
| `jobs_live` | scans end under changing buckets; every task is settled | a scan, a client, the deletion of a directory, one crash or timeout |
| `trash_cleanup` | types; a first deletion is kept for the retention; a sweep forgets no object; expired rows are swept | two sweeps, four policies, one fault, endless days |
| `trash_never` (violation) | scans keep the trash from expiring | |
| `upload_cleanup` | types; statuses are true of S3; stale tasks are settled; the cleanup and the API implement `UploadLifecycle` | three uploads, one without id, two sweeps, three policies, limit of two rows, one fault, one loss |
| `version_cleanup` | types; versions expire; numbers grow; the cleanup implements `VersionRetention` | three versions, one of them stuck, two writers, two sweeps, a policy that is on and one without days, limit of two rows, one fault, endless days |
| `request_stats` | types; the tables are those of one reading of the logs, by a definition without a loop; every period always has its row; every day before the current one is counted whole, the oldest from the start of the longest period | two aggregations at a time and three in all, five logs with two accounts, two changes of the log, the clock, the buckets or the objects, one fault, with and without unique index |
| `listing` | types; nothing is lost between the pages; nothing is listed twice; the listing ends | any subset of seven keys in two folders, the prefix itself and a hidden key; scans of three rows, pages of one and two entries; rows come and go without bound |

Why the bounds are enough. The properties relate at most two actors and the
state they share, so two of each kind meet in every order; one crash and one
fault reach every point between two calls, and one retry is all that
`MaxRetry(1)` grants. Pages of one object put a page boundary between any two
keys. Two overlapping scans suffice for an older start to overwrite a newer one.
A skew of one period with slots of two puts a process into the next slot while
the others are in this one. The retention of one day with ages up to two has a
day on both sides of the comparison. `RowLimit` 2 with one loss, or one stuck
version, leaves room for a row behind it; with as many such rows as the limit
`StaleSettled` and `VersionsExpire` do not hold, in the code with 5000. Three
aggregations let a third one clean up after two that overlapped. A scan of three
rows ends inside and at the end of the folder of three keys, and pages of one
entry put a boundary between any two entries.

Symmetry is used for the goroutines of `batch_faults` and the aggregations of
`request_stats` only. Deadlock is not checked in the batch, bucket and statistics
runs, which end when the tasks and the bounded clients, scans and faults are used
up; the other runs never stop, or stutter in Tick, Put and Delete.

Fairness. `sched_live`: hosts that are up go on, time passes while the slot lasts,
and the exit of a stopped host is strongly fair, since `select` chooses at random
among ready cases. `jobs_live`: weak fairness of each goroutine's work and of the
steps of a scan (every call returns or fails), none of clients or of the start of
scans; nothing is assumed of crashes and faults, which are bounded. Cleanup:
sweeps are weakly fair because the scheduler starts them again in every slot. In
`trash_cleanup` `NextDay` is strongly fair, since days pass whatever jobs do and its
guard only says that jobs are short; in `version_cleanup` it is always possible and
weakly fair. In `upload_cleanup` the API records what it has completed, or dies.
`listing`: the query returns and the caller goes on (`Reading`); nothing is assumed
of the writers. Of the start of scans nothing is assumed in `trash_cleanup`.
`trash_never` assumes that they do start, as the scheduler sees to: without it an
object whose row is missing would stay for want of a scan, which is not what the
run is about. Its counterexample repeats a scan, a day and a sweep that finds the
row young.

### Disagreements between code and documentation

Two violation runs state what the README says of the program: `sched_gap` (the
scheduler fills the gap of a peer in the same slot) and `trash_never` (expired
trash is removed). `SlotServed` and `ExpiredRowSwept` say what does hold.

### Exceptions in the properties

Some properties hold with an exception that the code does not close and the
repository does not promise otherwise. Each is named in the property.

- `AtMostOncePerSlot`: an enqueue that took effect and reported an error (`lost`),
  or a claim of a stalled process after the end of the slot (`late`).
- `AuditedUnlessSkipped`: a task that met a failing read of the settings while the
  credentials are only there (`skipped`): it is acknowledged and nothing is done.
  And entries whose insert failed (`unlogged`).
- `NoOverwrite`, `ContentSurvives`, `SuccessIsReal`, `RecordsAgree`: two items in
  flight of which one writes a key of the other (`clash`): `rejectIfExists` looks
  too early. A late call of a dead handler counts as in flight.
- `OnlyHolderDrops`: the claim of a task whose enqueue was misreported (`lost`).
- `ScanExact`: keys that another scan, a batch or a client has changed since the scan
  started (`touched`). Their records may be wrong until the next scan that nobody
  disturbs: an older start may overwrite a newer one, and the time of a batch is
  older than its writes. What the property shows is that the damage stays there.
- `FirstDeletionKept`: a key deleted again while a sweep holds its old row (`redone`),
  or whose second soft delete has not reached `MoveKey` (`again`).
- `StaleSettled`: an upload that S3 has aborted while the row was not updated
  (`lost`): S3 refuses every later abort, and the row stays pending.
- `NumbersGrow`: another version was inserted between NextNo and Insert (not `alone`):
  only a unique index could prevent it, and the schema is not in the repository.
- `OneSnapshot`: an aggregation during which another one has committed may keep
  rows of the other beside its own (`mixed`); the next one removes them.
- `NothingTwice`: the folder in which a page ended may come first on the next.
- `DaysComplete`: of the oldest day only what lies in the longest period is counted; the
  property says just where the cut is. It says nothing of `mixed` tables.

## 4. Proofs

Every safety property of the passing runs is a theorem as well, and so are the two
refinements. All constants are arbitrary within the named assumptions of their
modules; the assumptions are what the code's data are like: hosts, keys and
uploads are finitely many; retentions are integers; a log has at most one account;
a payload names keys and directories of the bucket; every period is at most as
long as "30d", which has `dailyRollupDays` days. Each proof has one step per action.

**Scheduler** (`SchedulerProofs`)

- `MineAssignsOneOwner`: in an ascending, non-empty list of members every bucket id
  has exactly one owner. From the properties of the modulus and of an ascending
  list; `SearchStrings` is the position of a member. `ViewsGiveOneOwner`
  (`ViewsPartition`) shows that every view a process reads is such a list.
- `TypeCorrect`, `ClaimsGuardTasks`, `NoTaskTwice`, `ClaimsDroppedByHolder`: types; the
  claim invariant `ClaimInv`; `AtMostOncePerSlot`; `OnlyHolderDrops`.
  `AtMostOncePerSlot` is not inductive: it speaks of accepted tasks, while what
  keeps a second one out is a key in Redis. `ClaimInv` adds that a host that has
  won a claim is its only holder while the key lasts, that the key lasts to the end
  of the slot, and that an accepted task has its claim unless it was misreported or
  claimed late. The clocks enter through `ReadsThePast`: a host has read no later
  time than its clock shows now, so its claim ends too soon for the others by no
  more than `MaxSkew`. `OnlyHolderDrops` is about the unconditional DEL: when a claim goes
  before its slot ends, exactly one process holds the task, and nothing was accepted
  under the claim unless it was misreported; so no stale holder deletes what another
  process has won.
- `StopLeavesNoClaim`: `GracefulStopReleases`, with the strengthening that what is in
  the queue was accepted (`QueueAccepted`).

**Batches and scans** (`BucketProofs`)

- `BatchTypeCorrect`: `TypeOK`. It needs `LocalOK`, `LateOK` and `QueueOK`: the next call of
  a handler fits the kind of its task and its item, a late call is one that a
  handler could have made, and no task is in two places.
- `BatchAudited`: `AuditedUnlessSkipped`. The invariant `StillListed`: an item of a task
  under way is still in the handler's list, or logged, or counted as unlogged.
- `BatchContentSurvives`, `BatchNoOverwrite`: while no two items in flight clash, they
  stay apart (`Apart`), a call that is about to delete has its content elsewhere and
  one that is about to copy has nothing to overwrite (`CallSafe`), and what a handler
  has looked up is still so (`InHand`): no other handler, and no late call of a dead
  one, touches the keys of its item. A crash keeps this true because the late call
  goes on standing for the item.
- `BatchRecordsAgree`: `RecordsAgree`. Without a fault a key on which S3 and the records
  disagree is one that a handler is about to record (`RecordsFollow`).
- `BatchSuccessIsReal`: an entry says success only in the step that writes the
  records, and by `InHand` they are written for what is there.
- `SyncTypeCorrect`, `ScansAreExact`: `SyncTypeOK`, `ScanExact`, for any keys, page
  sizes, overlapping scans, batches and clients. `ScanExact` is about a scan that has
  purged; `Progress` says of one under way that a key nobody else has touched is
  still ahead of the token, or on the page, or recorded with the start of the
  scan. Rows of other scans and batches carry other times (`ScanTimes`, `BatchTimes`):
  the purge removes what is older than the start, and nothing that is newer.

**Cleanup** (`TrashProofs`, `UploadProofs`, `VersionProofs`)

- `TrashTypeCorrect`, `TrashKeepsRetention`, `TrashForgetsNothing`: types,
  `FirstDeletionKept`, `NoObjectForgotten`. The invariant: a row is never older than
  its object has been in the trash (`RowsYounger`), what is left of a sweep's list
  was old enough when it was read and still is (`Ripe`), and a sweep about to delete
  a row has deleted the object (`ObjectGone`).
- `UploadTypeCorrect`; `StatusesAreTrue`: `StatusIsTrue` for any number of uploads,
  sweeps and failures. `Finish` writes the status without looking, so the invariant
  needs `AbortedFirst`: a sweep about to write "aborted" has an upload in hand
  that S3 no longer has, which the API can therefore not complete any more; and
  `Storage`: what the API is about to record is an object.
- `SweepsImplementLifecycle`: `ImplementsLifecycle`. A second invariant,
  `Unreported`, says that what the API is about to record is still pending. Then
  every step leaves the table and S3 alone or is a step in the life of the one
  upload it touches (`OneAtATime`); a second sweep that writes "aborted" again
  changes nothing.
- `VersionTypeCorrect`, `VersionNumbersGrow`: types, `NumbersGrow`. The second rests on
  `Numbered`: the number that a writer holds is larger than that of every row, as long as
  nobody has inserted since it was taken.
- `CleanupImplementsRetention`: `ImplementsRetention`. The invariant:
  no object without its row; what is left of a sweep's list has expired for good,
  because ages only grow; a sweep about to delete a row has a version in hand
  whose object is gone, and no version's object comes back.

**Statistics** (`StatsProofs`)

- `AggregateIsReference`: for every list of logs of the longest period, in any order,
  the loop gives the tables of `Reference`. A turn of the loop adds its request to
  the logs of the entries that it is about, table by table (`Grown`), and a counter
  that gets one more request is the count of one more request (`CountAdds`);
  `setBucketAccount`, which forgets the account at the second one it meets, still has
  the only account of each bucket (`OwnersGrow`), because all logs lie in the longest
  period. The loop is followed by least counterexample (`LoopSums`).
- `StatsTypeCorrect`, `TablesShowOneReading`, `PeriodsAlwaysShown`, `DaysAreWhole`: types,
  `OneSnapshot`, `NeverEmpty`, `DaysComplete`. The invariant: the rows of a transaction
  are those of what it has read (`Computed`, by the theorem above); a transaction that
  no other commit has come between has deleted all rows of the tables it has
  cleared, and a DELETE that waits has seen all of them (`Emptied`); what was read are
  the logs of the longest period before the time that was read, and nothing written
  later falls before it (`Traced`). `DayInside` shows that the days before the current
  one lie before that time, and all but the oldest in that period.

**Listing** (`ListingProofs`)

- `ListingTypeOK`, `ListingLosesNothing`, `ListingRepeatsNothing`: types,
  `NothingLost`, `NothingTwice`, for any keys, folders, limits and requests. The
  invariant relates the rows that are left to the token (`Ahead`), and the last
  prefix to what was listed (`LastPrefix`, `Listed`): a key is skipped only when its
  folder has been listed, and since folders are contiguous a folder that has been
  left never comes back.

The induction theorems of the library cannot be instantiated by the provers, so
sorted lists and loops are written to be reasoned about without them: `Ordering`
puts an element after as many others as are smaller, instead of choosing among
permutations, and inductions over numbers are proofs that there is no least
counterexample (`OrderProofs!MinIsLeast`).

Only model-checked: the liveness properties (`SlotServed`, `ScanEnds`, `AllSettled`,
`ExpiredRowSwept`, `StaleSettled`, `VersionsExpire`, `ListingEnds`), since fairness and
ENABLED are out of the prover's reach, and the two violations.

## 5. Not modelled

Grants, usage queries and the other reads of the tenant API in `bucket`, `objects`,
`versions` and `uploads`: single statements whose callers are not part of the
repository. Buckets are constant, but for the statistics. Invalid payloads end a
handler with an error and no effect. Presigning, CORS, CDN addresses,
configuration, logging and healthz are I/O without state of their own. The overlap
of a retry with the old handler is modelled for batches; the sweeps and scans
overlap in any case, because there are two of each. User names and the columns
that a statistics table leaves out are not told apart. Liveness of the statistics
is not checked: an aggregation that fails is only repeated in the next slot, and
evaluating ENABLED of the aggregation is too slow for TLC.

Left out of what is modelled, and what it would take to see it:

- Workers on hosts whose clocks differ. `Inventory` and `BatchJobs` have one clock, so
  `ScanExact` holds up to the skew between the hosts; `Scheduler` does have skewed
  clocks.
- The SCAN of `Members` is read at one moment. Views of different processes still
  differ, because they are read at different moments and are used later.
- The INSERTs of an aggregation are one step. Row by row, and in the order of a Go map,
  two transactions may wait for each other; PostgreSQL then aborts one, which is
  `Rollback`.
- `loadLogs` joins by the name of the bucket, while `object_records` is unique by bucket
  id and key. `buckets` has one row per name, and a bucket of the model is its id. A
  bucket that is deleted and made again under its name gets another id; if rows of the
  old one stay (whether the schema removes them with the bucket is not in the
  repository), a log would be joined, and counted, twice. That is not modelled.
- The object of a version is stored by the API before `Insert`; an API request that dies
  in between leaves an object that no row names and no job of this repository looks
  for. "No object without its row" is about what the cleanup does.

## 6. Plan

1. Abstract specifications: "one task per slot" refined by `Scheduler`; "a bucket
   and its index" refined by `BucketSync` when no call fails.
2. The queue as a module of its own, with leases, deadlines and unique task ids,
   composed with `Scheduler` and `BatchJobs`.
3. Lemmas towards liveness that are safety properties: what a sweep or a scan has
   left to do never grows while it is under way.
