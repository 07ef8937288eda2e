----------------------------- MODULE Inventory ------------------------------
(***************************************************************************)
(* scanBucket (internal/worker/jobs.go): object_records is brought into    *)
(* line with one bucket.  The listing is read page by page; every listed   *)
(* object is upserted with the time the scan started; at the end the rows  *)
(* that were last seen before that time are purged.                        *)
(*                                                                         *)
(* One action is one call to S3 or to the database.  A call that fails     *)
(* ends the scan with what it has done so far; the queue will retry.       *)
(* Several scans of the same bucket may overlap: the scheduler and the     *)
(* tenant API both ask for them.                                           *)
(***************************************************************************)
EXTENDS ObjectStore

CONSTANTS
    Scanners,     \* goroutines that run inventory tasks
    PageSize,     \* objects per page of the listing
    MaxScans,     \* bound: scans started
    MaxAborts,    \* bound: scans ended by an error or a crash
    MaxTime       \* bound on the clock

ASSUME ScanAssumption ==
    /\ PageSize \in Nat \ {0}
    /\ MaxScans \in Nat /\ MaxAborts \in Nat /\ MaxTime \in Nat

VARIABLES
    spc,        \* spc[s]: the next call of scanner s
    started,    \* started[s]: the time its scan started
    token,      \* token[s]: the last key of the page it has listed
    page,       \* page[s]: objects of the page not upserted yet
    more,       \* the scanners whose last page was truncated
    touched,    \* history: keys that others changed since the scan started
    scans, aborts,
    marked      \* buckets.last_inventory_at

scanLocal == <<spc, started, token, page, more>>
scanVars == <<scanLocal, touched, scans, aborts, marked>>

ScanOK ==
    /\ spc \in [Scanners -> {"idle", "list", "upsert", "purge", "mark"}]
    /\ started \in [Scanners -> 0 .. MaxTime]
    /\ token \in [Scanners -> Keys \cup {0}]
    /\ \A s \in Scanners : spc[s] = "upsert" <=> page[s] # <<>>
    /\ touched \in [Scanners -> SUBSET Keys]
    /\ scans \in 0 .. MaxScans /\ aborts \in 0 .. MaxAborts
    /\ marked \in 0 .. MaxTime

ScanInit ==
    /\ spc = [s \in Scanners |-> "idle"]
    /\ started = [s \in Scanners |-> 0]
    /\ token = [s \in Scanners |-> 0]
    /\ page = [s \in Scanners |-> <<>>]
    /\ more = {}
    /\ touched = [s \in Scanners |-> {}]
    /\ scans = 0 /\ aborts = 0 /\ marked = 0

-----------------------------------------------------------------------------
(* ListObjectsV2 after the token: the next keys in order with what they    *)
(* hold now.  The page is truncated when there are more.                   *)
Listing(after) == Sorted({k \in Keys : k > after /\ s3[k] # 0})

PageOf(after) ==
    LET ks == Listing(after)
        n  == IF Len(ks) < PageSize THEN Len(ks) ELSE PageSize
    IN  [i \in 1 .. n |-> [key |-> ks[i], content |-> s3[ks[i]]]]

Truncated(after) == Len(Listing(after)) > PageSize

Scan(s, label) == spc' = [spc EXCEPT ![s] = label]

(* Everybody's changes are remembered for the scans of the others.         *)
Touch(actor) ==
    touched' = [s \in Scanners |->
        IF s = actor \/ spc[s] = "idle" THEN touched[s]
        ELSE touched[s] \cup {k \in Keys : s3'[k] # s3[k] \/ rec'[k] # rec[k]}]

(* scanBucket reads the time.  Timestamps are kept to the microsecond, and *)
(* a scan starts later than whatever was written before it.  (The hosts of *)
(* the workers are taken to agree on the time: with clocks that differ, a  *)
(* record written shortly before the scan could be taken for a newer one.) *)
ScanStart(s) ==
    /\ spc[s] = "idle"
    /\ scans < MaxScans /\ clock < MaxTime
    /\ scans' = scans + 1
    /\ clock' = clock + 1
    /\ started' = [started EXCEPT ![s] = clock + 1]
    /\ token' = [token EXCEPT ![s] = 0]
    /\ touched' = [touched EXCEPT ![s] = {}]
    /\ Scan(s, "list")
    /\ UNCHANGED <<s3, rec, page, more, aborts, marked>>

(* A mutation of AfterList: an empty page is not provided for.             *)
AfterListNonEmpty(p) == "upsert"

(* After a listing: its objects, if it has any.  After a page: the next    *)
(* one, or the purge.                                                      *)
AfterList(p) == IF p # <<>> THEN "upsert" ELSE "purge"
AfterPage(truncated) == IF truncated THEN "list" ELSE "purge"

(* A mutation of NextToken: the first page is asked for again.             *)
NextTokenStays(s, p) == token

(* The continuation token of the page.                                     *)
NextToken(s, p) ==
    IF p # <<>> THEN [token EXCEPT ![s] = p[Len(p)].key] ELSE token

ListPage(s) ==
    /\ spc[s] = "list"
    /\ LET p == PageOf(token[s]) IN
       /\ page' = [page EXCEPT ![s] = p]
       /\ more' = IF Truncated(token[s]) THEN more \cup {s} ELSE more \ {s}
       /\ token' = NextToken(s, p)
       /\ Scan(s, AfterList(p))
    /\ UNCHANGED <<store, started, touched, scans, aborts, marked>>

(* UpsertSeen of the next object of the page.                              *)
UpsertNext(s) ==
    /\ spc[s] = "upsert"
    /\ LET o == Head(page[s]) IN rec' = UpsertSeen(o.key, o.content, started[s])
    /\ page' = [page EXCEPT ![s] = Tail(@)]
    /\ Scan(s, IF Len(page[s]) > 1 THEN "upsert" ELSE AfterPage(s \in more))
    /\ UNCHANGED <<s3, clock, started, token, more, scans, aborts, marked>>
    /\ Touch(s)

Purge(s) ==
    /\ spc[s] = "purge"
    /\ rec' = PurgeUnseen(started[s])
    /\ Scan(s, "mark")
    /\ UNCHANGED <<s3, clock, started, token, page, more, scans, aborts, marked>>
    /\ Touch(s)

(* The scan is over; its local variables are gone.                         *)
ScanReset(s) ==
    /\ Scan(s, "idle")
    /\ started' = [started EXCEPT ![s] = 0]
    /\ token' = [token EXCEPT ![s] = 0]
    /\ page' = [page EXCEPT ![s] = <<>>]
    /\ more' = more \ {s}
    /\ touched' = [touched EXCEPT ![s] = {}]

MarkInventoried(s) ==
    /\ spc[s] = "mark"
    /\ marked' = clock
    /\ ScanReset(s)
    /\ UNCHANGED <<store, scans, aborts>>

(* A call fails or the worker dies: the rest of the scan does not happen.  *)
ScanAbort(s) ==
    /\ spc[s] # "idle"
    /\ aborts < MaxAborts
    /\ aborts' = aborts + 1
    /\ ScanReset(s)
    /\ UNCHANGED <<store, scans, marked>>

ScanStep(s) == ListPage(s) \/ UpsertNext(s) \/ Purge(s) \/ MarkInventoried(s)

ScanNext == \E s \in Scanners : ScanStart(s) \/ ScanStep(s) \/ ScanAbort(s)

-----------------------------------------------------------------------------
(* When a scan has purged, every key that nobody else has changed since it *)
(* started has a record exactly when it has an object, with the object's   *)
(* size and ETag: stale, missing and never-seen rows are repaired, and     *)
(* nothing is lost at a page boundary.                                     *)
ScanExact ==
    \A s \in Scanners :
        spc[s] = "mark" => \A k \in Keys \ touched[s] : Agrees(k)

(* Every scan comes to an end although other programs keep changing the    *)
(* bucket under it.                                                        *)
ScanEnds == \A s \in Scanners : (spc[s] # "idle") ~> (spc[s] = "idle")
=============================================================================
