---------------------------- MODULE RequestStats ----------------------------
(***************************************************************************)
(* What AggregateRequests (internal/stats/aggregate.go) computes from the  *)
(* audit log with the counters of internal/stats/request.go.               *)
(*                                                                         *)
(* A log is [id, at, class, ok, actor, account, bucket, key, size].  The   *)
(* class stands for the action: "get", "put", "delete", "other", or        *)
(* "skipped" for what isObjectRequest excludes.  Columns that may be NULL  *)
(* are sets with at most one element.  Time is counted in units of which   *)
(* DayLen make a day; a bucket is known by its id.                         *)
(***************************************************************************)
EXTENDS Integers, Sequences, FiniteSets, SequencesExt

CONSTANTS
    Hours,        \* periodHours: period -> length
    Longest,      \* the longest period, "30d"
    DayLen,       \* units in a day
    RollupDays,   \* dailyRollupDays
    PrefixOf      \* firstLevelPrefix of every key

Periods == DOMAIN Hours

(* A mutation of Since: the shortest period.                               *)
SinceShort(now) == now - Min({Hours[p] : p \in Periods})

(* What AggregateRequests loads: the longest period.                       *)
Since(now) == now - Hours[Longest]

(* The longest period has the days of dailyRollupDays.                     *)
ASSUME StatsAssumption ==
    /\ DayLen \in Nat \ {0} /\ RollupDays \in Nat
    /\ Hours \in [Periods -> Nat \ {0}] /\ Longest \in Periods
    /\ \A p \in Periods : Hours[p] <= Hours[Longest]
    /\ Hours[Longest] >= RollupDays * DayLen

(* The rows of audit_logs; the account of one is NULL or one account.      *)
Classes == {"get", "put", "delete", "other", "skipped"}
LogRecords ==
    [id : Nat, at : Int, class : Classes, ok : BOOLEAN, actor : SUBSET Nat, account : SUBSET Nat,
     bucket : SUBSET Nat, key : SUBSET DOMAIN PrefixOf, size : Nat]
OneAccount(l) == \A a, c \in l.account : a = c

(* inWindow.                                                               *)
InWindow(at, now, p) == at >= now - Hours[p]

Day(at) == at \div DayLen
DayCut(now) == Day(now) - RollupDays

One(b) == IF b THEN 1 ELSE 0

(* The zero counter, and counter.add.                                      *)
Zero == [requests |-> 0, errors |-> 0, gets |-> 0, puts |-> 0, deletes |-> 0,
         up |-> 0, down |-> 0, active |-> {}]

Add(c, l) ==
    [requests |-> c.requests + 1,
     errors   |-> c.errors + One(~l.ok),
     gets     |-> c.gets + One(l.class = "get"),
     puts     |-> c.puts + One(l.class = "put"),
     deletes  |-> c.deletes + One(l.class = "delete"),
     up       |-> c.up + l.size * One(l.class = "put"),
     down     |-> c.down + l.size * One(l.class = "get"),
     active   |-> c.active \cup l.actor]

(* The zero userCounter, and userCounter.add.                              *)
UserZero == [uploads |-> 0, downloads |-> 0, deletes |-> 0, accesses |-> 0, up |-> 0, down |-> 0]

UserAdd(c, l) ==
    [uploads   |-> c.uploads + One(l.class = "put"),
     downloads |-> c.downloads + One(l.class = "get"),
     deletes   |-> c.deletes + One(l.class = "delete"),
     accesses  |-> c.accesses + One(l.key \notin {{}, {""}} /\ l.class \in {"get", "put"}),
     up        |-> c.up + l.size * One(l.class = "put"),
     down      |-> c.down + l.size * One(l.class = "get")]

(* The entry of a map, created when it is missing, and the map with the    *)
(* entries that a log counts for.                                          *)
Entry(m, k, zero) == IF k \in DOMAIN m THEN m[k] ELSE zero

AddTo(m, counted) ==
    [k \in DOMAIN m \cup DOMAIN counted |-> IF k \in DOMAIN counted THEN counted[k] ELSE m[k]]

(* A mutation of SetBucketAccount: the last account wins.                  *)
SetBucketAccountLast(m, buckets, account) ==
    IF account = {} THEN m
    ELSE [b \in DOMAIN m \cup buckets |-> IF b \in buckets THEN account ELSE m[b]]

(* setBucketAccount: nil (the empty set) once two accounts were seen.      *)
SetBucketAccount(m, buckets, account) ==
    IF account = {} THEN m
    ELSE [b \in DOMAIN m \cup buckets |->
            IF b \in buckets /\ b \notin DOMAIN m THEN account
            ELSE IF b \in buckets /\ m[b] # account THEN {}
            ELSE m[b]]

Nothing == [x \in {} |-> x]

(* A mutation of NoStats: a period gets its row with its first request.     *)
NoStatsYet ==
    [platform |-> Nothing, account |-> Nothing, bucket |-> Nothing,
     user |-> Nothing, prefix |-> Nothing, daily |-> Nothing, owner |-> Nothing]

(* Before the loop: every period has a counter, the other maps are empty.  *)
NoStats ==
    [platform |-> [p \in Periods |-> Zero], account |-> Nothing, bucket |-> Nothing,
     user |-> Nothing, prefix |-> Nothing, daily |-> Nothing, owner |-> Nothing]

(* One turn of the loop over the logs, with the buckets that exist.        *)
AddLog(s, l, now, known) ==
    LET ps   == {p \in Periods : InWindow(l.at, now, p)}
        b    == l.bucket \cap known
        firsts == {PrefixOf[k] : k \in l.key}
        used == l.class \in {"get", "put"} /\ l.key # {} /\ ps # {}
        day  == IF Day(l.at) >= DayCut(now) THEN {Day(l.at)} ELSE {}
    IN  IF l.class = "skipped" THEN s
        ELSE [platform |-> AddTo(s.platform, [k \in ps |-> Add(Entry(s.platform, k, Zero), l)]),
              account  |-> AddTo(s.account, [k \in l.account \X ps |-> Add(Entry(s.account, k, Zero), l)]),
              bucket   |-> AddTo(s.bucket, [k \in b \X ps |-> Add(Entry(s.bucket, k, Zero), l)]),
              user     |-> AddTo(s.user, [k \in l.actor \X l.account \X ps |->
                                             UserAdd(Entry(s.user, k, UserZero), l)]),
              prefix   |-> AddTo(s.prefix, [k \in {k \in b \X firsts \X ps : used} |->
                                               Entry(s.prefix, k, 0) + 1]),
              daily    |-> AddTo(s.daily, [d \in day |-> Add(Entry(s.daily, d, Zero), l)]),
              owner    |-> IF used THEN SetBucketAccount(s.owner, b, l.account) ELSE s.owner]

(* The loop: what it has after each of the logs.                           *)
Totals(logs, now, known) ==
    LET s[i \in 0 .. Len(logs)] ==
            IF i = 0 THEN NoStats ELSE AddLog(s[i - 1], logs[i], now, known)
    IN  s

(* The six tables; bucket and prefix rows carry the account of the bucket. *)
Aggregate(logs, now, known) ==
    LET s == Totals(logs, now, known)[Len(logs)]
        Owner(b) == IF b \in DOMAIN s.owner THEN s.owner[b] ELSE {}
    IN  [platform |-> s.platform, daily |-> s.daily, account |-> s.account, user |-> s.user,
         bucket |-> [k \in DOMAIN s.bucket |-> [n |-> s.bucket[k], account |-> Owner(k[1])]],
         prefix |-> [k \in DOMAIN s.prefix |-> [n |-> s.prefix[k], account |-> Owner(k[1])]]]

-----------------------------------------------------------------------------
(* The same, defined from the logs of each entry instead of a loop.  The   *)
(* bytes of requests are counted one by one.                               *)
Bytes(S) == UNION {{l} \X (1 .. l.size) : l \in S}
Of(S, class) == {l \in S : l.class = class}
Count(S) ==
    [requests |-> Cardinality(S), errors |-> Cardinality({l \in S : ~l.ok}),
     gets |-> Cardinality(Of(S, "get")), puts |-> Cardinality(Of(S, "put")),
     deletes |-> Cardinality(Of(S, "delete")),
     up |-> Cardinality(Bytes(Of(S, "put"))), down |-> Cardinality(Bytes(Of(S, "get"))),
     active |-> UNION {l.actor : l \in S}]
UserCount(S) ==
    [uploads |-> Cardinality(Of(S, "put")), downloads |-> Cardinality(Of(S, "get")),
     deletes |-> Cardinality(Of(S, "delete")),
     accesses |-> Cardinality({l \in S : l.class \in {"get", "put"} /\ l.key \notin {{}, {""}}}),
     up |-> Cardinality(Bytes(Of(S, "put"))), down |-> Cardinality(Bytes(Of(S, "get")))]

(* The requests R that each entry of a table is about.                     *)
Window(R, now, p) == {l \in R : l.at >= now - Hours[p]}
Accounts(R) == UNION {l.account : l \in R}
Actors(R) == UNION {l.actor : l \in R}
Firsts(R) == {PrefixOf[x] : x \in UNION {l.key : l \in R}}
Used(R, b) == {l \in R : b \in l.bucket /\ l.key # {} /\ l.class \in {"get", "put"}}

AccountLogs(R, now) ==
    [k \in Accounts(R) \X Periods |-> {l \in Window(R, now, k[2]) : k[1] \in l.account}]
BucketLogs(R, now, known) ==
    [k \in known \X Periods |-> {l \in Window(R, now, k[2]) : k[1] \in l.bucket}]
UserLogs(R, now) ==
    [k \in Actors(R) \X Accounts(R) \X Periods |->
        {l \in Window(R, now, k[3]) : k[1] \in l.actor /\ k[2] \in l.account}]
PrefixLogs(R, now, known) ==
    [k \in known \X Firsts(R) \X Periods |->
        {l \in Window(R, now, k[3]) \cap Used(R, k[1]) : \E x \in l.key : PrefixOf[x] = k[2]}]
DayLogs(R, now) ==
    [d \in {d \in {Day(l.at) : l \in R} : d >= DayCut(now)} |-> {l \in R : Day(l.at) = d}]

(* The entries that have a row.                                            *)
Present(L) == {k \in DOMAIN L : L[k] # {}}
Counts(L) == [k \in Present(L) |-> Count(L[k])]
UserCounts(L) == [k \in Present(L) |-> UserCount(L[k])]
Numbers(L) == [k \in Present(L) |-> Cardinality(L[k])]

(* The only account that has used the bucket, if there is one.             *)
SoleAccount(S) == IF \A a, c \in Accounts(S) : a = c THEN Accounts(S) ELSE {}

(* A row of the two tables that name the account of a bucket.              *)
WithAccount(counts, R) ==
    [k \in DOMAIN counts |-> [n |-> counts[k], account |-> SoleAccount(Used(R, k[1]))]]

Requests(S) == {l \in S : l.class # "skipped"}

Reference(S, now, known) ==
    LET R == Requests(S)
    IN  [platform |-> [p \in Periods |-> Count(Window(R, now, p))],
         daily    |-> Counts(DayLogs(R, now)),
         account  |-> Counts(AccountLogs(R, now)),
         user     |-> UserCounts(UserLogs(R, now)),
         bucket   |-> WithAccount(Counts(BucketLogs(R, now, known)), R),
         prefix   |-> WithAccount(Numbers(PrefixLogs(R, now, known)), R)]
=============================================================================
