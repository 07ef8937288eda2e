---------------------------- MODULE BucketProofs ----------------------------
(***************************************************************************)
(* For any number of goroutines, tasks, items, crashes, late calls and     *)
(* failing calls: what the batch handlers do to the objects of users and   *)
(* to their records.  And for any number of keys, scans, pages and         *)
(* requests of clients beside them: what an inventory scan makes of        *)
(* object_records.                                                         *)
(***************************************************************************)
EXTENDS BucketSync, OrderProofs

-----------------------------------------------------------------------------
(* What the handlers have to do.                                           *)

(* The items that a task may give to its handler.                          *)
ItemsFor(t) ==
    IF IsDelete(t) THEN {[src |-> k, dest |-> TrashOf[k]] : k \in UserKeys}
    ELSE {i \in [src : Keys, dest : Keys \cup {0}] : Payload[t].kind = "move" => i.dest # 0}

(* The names of a task are keys and directories.                           *)
LEMMA NamesTyped ==
    ASSUME NEW t \in Tasks
    PROVE  /\ Names(t) \in Seq(Keys \cup DOMAIN Under)
           /\ DOMAIN Names(t) \subseteq Nat
<1>1. Payload[t].items \in Seq([src : Keys \cup DOMAIN Under, dest : Keys \cup {0}])
  BY BatchAssumption
<1>2. DOMAIN Payload[t].items = 1 .. Len(Payload[t].items) /\ Len(Payload[t].items) \in Nat
  BY <1>1
<1>3. ASSUME NEW i \in 1 .. Len(Payload[t].items)
      PROVE  Payload[t].items[i].src \in Keys \cup DOMAIN Under
  <2>1. Payload[t].items[i] \in [src : Keys \cup DOMAIN Under, dest : Keys \cup {0}]
    BY <1>1, ElementOfSeq
  <2> QED
    BY <2>1
<1> QED
  BY <1>2, <1>3 DEF Names

(* A name stands for finitely many keys of users.                          *)
LEMMA KeysOfTyped ==
    ASSUME NEW n \in Keys \cup DOMAIN Under
    PROVE  KeysOf(n) \subseteq UserKeys /\ IsFiniteSet(KeysOf(n))
<1>1. CASE n \in Keys
  <2>1. KeysOf(n) = {n} \cap UserKeys
    BY <1>1 DEF KeysOf
  <2>2. IsFiniteSet({n} \cap UserKeys)
    BY FS_Singleton, FS_Intersection
  <2> QED
    BY <2>1, <2>2
<1>2. CASE n \notin Keys
  <2>1. Under[n] \subseteq UserKeys /\ IsFiniteSet(Under[n])
    BY <1>2, BatchAssumption
  <2>2. KeysOf(n) \in SUBSET Under[n]
    BY <1>2 DEF KeysOf
  <2> QED
    BY <2>1, <2>2, FS_Subset
<1> QED
  BY <1>1, <1>2

(* ExpandDeleteKeys returns keys of users.                                 *)
LEMMA ExpandTyped ==
    ASSUME NEW t \in Tasks, NEW unlisted
    PROVE  Expand(Names(t), unlisted) \in Seq(UserKeys)
<1> DEFINE names == Names(t)
           ks == UNION {KeysOf(n) : n \in ToSet(names) \ unlisted}
           At(k) == {i \in DOMAIN names : names[i] \notin unlisted /\ k \in KeysOf(names[i])}
           First(k) == Min(At(k))
           Before(j, k) == First(j) < First(k) \/ (First(j) = First(k) /\ j < k)
           less == {p \in ks \X ks : Before(p[1], p[2])}
<1>1. names \in Seq(Keys \cup DOMAIN Under) /\ DOMAIN names \subseteq Nat
  BY NamesTyped
<1>2. IsFiniteSet(ToSet(names)) /\ ToSet(names) \subseteq Keys \cup DOMAIN Under
  BY <1>1, ToSetFinite
<1>3. IsFiniteSet(ks)
  <2>1. IsFiniteSet(ToSet(names) \ unlisted)
    BY <1>2, FS_Difference
  <2> DEFINE f == [n \in ToSet(names) \ unlisted |-> KeysOf(n)]
  <2>2. IsFiniteSet({f[n] : n \in ToSet(names) \ unlisted})
    BY <2>1, FiniteImage
  <2>3. {f[n] : n \in ToSet(names) \ unlisted} = {KeysOf(n) : n \in ToSet(names) \ unlisted}
    OBVIOUS
  <2>4. \A T \in {KeysOf(n) : n \in ToSet(names) \ unlisted} : IsFiniteSet(T)
    BY <1>2, KeysOfTyped
  <2> QED
    BY <2>2, <2>3, <2>4, FS_UNION
<1>4. ks \subseteq UserKeys
  BY <1>2, KeysOfTyped
<1>5. ASSUME NEW k \in ks
      PROVE  k \in Nat /\ First(k) \in Nat
  <2>1. k \in Nat
    BY <1>4, KeysAssumption
  <2>2. PICK n \in ToSet(names) \ unlisted : k \in KeysOf(n)
    BY <1>5
  <2>3. PICK i \in DOMAIN names : names[i] = n
    BY <2>2 DEF ToSet
  <2>4. i \in At(k) /\ At(k) \in SUBSET Nat
    BY <1>1, <2>2, <2>3
  <2>5. First(k) \in At(k)
    BY <2>4, MinIsLeast
  <2> QED
    BY <2>1, <2>4, <2>5
<1> HIDE DEF ks, First
<1>6. \A j, k \in ks : <<j, k>> \in less <=> Before(j, k)
  OBVIOUS
<1>7. StrictOrder(ks, less)
  <2> HIDE DEF less
  <2>1. ASSUME NEW j \in ks, NEW k \in ks
        PROVE  j = k \/ <<j, k>> \in less \/ <<k, j>> \in less
    <3>1. j \in Nat /\ k \in Nat /\ First(j) \in Nat /\ First(k) \in Nat
      BY <1>5
    <3>2. j = k \/ Before(j, k) \/ Before(k, j)
      BY <3>1
    <3> QED
      BY <1>6, <3>2
  <2>2. \A k \in ks : <<k, k>> \notin less
    BY <1>5, <1>6
  <2>3. \A i, j, k \in ks : <<i, j>> \in less /\ <<j, k>> \in less => <<i, k>> \in less
    BY <1>5, <1>6
  <2> QED
    BY <2>1, <2>2, <2>3 DEF StrictOrder
<1>8. InOrder(ks, less) \in Seq(ks)
  BY <1>3, <1>7, InOrderLists
<1>9. InOrder(ks, less) \in Seq(UserKeys)
  BY <1>4, <1>8, SeqMonotonic
<1>10. Expand(Names(t), unlisted) = InOrder(ks, less)
  BY DEF Expand, ks, First
<1> QED
  BY <1>9, <1>10

(* The handler gets items of its task.                                     *)
LEMMA ResolvedTyped ==
    ASSUME NEW t \in Tasks, NEW unlisted
    PROVE  ResolvedItems(t, unlisted) \in Seq(ItemsFor(t))
<1>1. CASE IsDelete(t)
  <2> DEFINE ks == Expand(Names(t), unlisted)
  <2>1. ks \in Seq(UserKeys)
    BY ExpandTyped
  <2> HIDE DEF ks
  <2>2. DOMAIN ks = 1 .. Len(ks) /\ Len(ks) \in Nat /\ \A i \in 1 .. Len(ks) : ks[i] \in UserKeys
    BY <2>1
  <2>3. \A i \in DOMAIN ks : [src |-> ks[i], dest |-> ToTrashKey(ks[i])] \in ItemsFor(t)
    BY <1>1, <2>2 DEF ItemsFor, ToTrashKey
  <2>4. ResolvedItems(t, unlisted) = [i \in DOMAIN ks |-> [src |-> ks[i], dest |-> ToTrashKey(ks[i])]]
    BY <1>1 DEF ResolvedItems, ks
  <2>5. ResolvedItems(t, unlisted) \in [1 .. Len(ks) -> ItemsFor(t)]
    BY <2>2, <2>3, <2>4
  <2> QED
    BY <2>2, <2>5
<1>2. CASE ~IsDelete(t)
  <2> DEFINE s == Payload[t].items
  <2>1. s \in Seq([src : Keys \cup DOMAIN Under, dest : Keys \cup {0}])
        /\ Payload[t].kind \in {"copy", "move"}
        /\ \A i \in ToSet(s) : i.src \in Keys /\ (Payload[t].kind = "move" => i.dest # 0)
    BY <1>2, BatchAssumption DEF IsDelete
  <2>2. DOMAIN s = 1 .. Len(s) /\ Len(s) \in Nat
    BY <2>1
  <2>3. ASSUME NEW i \in 1 .. Len(s)
        PROVE  s[i] \in ItemsFor(t)
    <3>1. s[i] \in [src : Keys \cup DOMAIN Under, dest : Keys \cup {0}]
      BY <2>1, ElementOfSeq
    <3>2. s[i] \in ToSet(s)
      BY <2>2 DEF ToSet
    <3>3. s[i].src \in Keys /\ (Payload[t].kind = "move" => s[i].dest # 0)
      BY <2>1, <3>2
    <3>4. s[i] \in [src : Keys, dest : Keys \cup {0}]
      BY <3>1, <3>3
    <3> QED
      BY <1>2, <3>3, <3>4 DEF ItemsFor
  <2>4. s \in [1 .. Len(s) -> ItemsFor(t)]
    BY <2>1, <2>2, <2>3
  <2> QED
    BY <1>2, <2>2, <2>4 DEF ResolvedItems
<1> QED
  BY <1>1, <1>2

-----------------------------------------------------------------------------
(* The inductive invariant.                                                *)

(* The next call of an item fits the kind of its task.  What was copied    *)
(* was not copied onto itself.                                             *)
CallFits(kind, call, i) ==
    /\ i.src \in Keys
    /\ IF call = "dest" THEN kind = "copy" ELSE i.dest \in Keys
    /\ call = "reject" => kind \in {"copy", "move"}
    /\ call = "copy" => kind # "purge"
    /\ call = "delete" => kind # "copy"
    /\ call \in {"delete", "record"} /\ kind # "purge" => i.src # i.dest
    /\ kind \in {"trash", "purge"} => i.src \in UserKeys /\ i.dest \notin UserKeys

LocalOK ==
    /\ items = [w \in Workers |-> items[w]]
    /\ meta \in [Workers -> Nat] /\ etag \in [Workers -> Nat] /\ at \in [Workers -> Nat]
    /\ \A w \in Workers : job[w] # NoTask =>
         /\ items[w] \in Seq(ItemsFor(job[w]))
         /\ CallFits(Kind(w), pc[w], Item(w))

LateOK ==
    /\ IsFiniteSet(late)
    /\ \A c \in late :
         /\ c.meta \in Nat /\ c.etag \in Nat /\ c.at \in Nat
         /\ c.kind \in {"trash", "purge", "copy", "move"}
         /\ CallFits(c.kind, c.call, c.item)

QueueOK ==
    /\ queued \cap done = {}
    /\ \A t \in queued : tries[t] <= MaxRetry
    /\ IsFiniteSet(unlogged)
    /\ planned = [t \in Tasks |-> planned[t]]

Typed == TypeOK /\ LocalOK /\ LateOK /\ QueueOK

(* What the handler of a task has not audited yet is still on its list.    *)
Logged(t, n) ==
    \/ [task |-> t, item |-> n] \in unlogged
    \/ \E ok \in BOOLEAN : Entry(t, n, ok) \in audit

(* The same after a step.                                                  *)
LoggedNext(t, n) ==
    \/ [task |-> t, item |-> n] \in unlogged'
    \/ \E ok \in BOOLEAN : Entry(t, n, ok) \in audit'

StillListed ==
    \A w \in Workers : job[w] # NoTask =>
        \A n \in planned[job[w]] :
            Logged(job[w], n) \/ n \in ToSet(items[w])

(* Without a clash no two items in flight write each other's keys, but for *)
(* a call that is late and the retry of its item.                          *)
Apart ==
    /\ \A v, w \in Workers :
         v # w /\ job[v] # NoTask /\ job[w] # NoTask => ~Interferes(Item(v), Item(w))
    /\ \A w \in Workers, c \in late :
         job[w] # NoTask => ~Interferes(c.item, Item(w)) \/ c.item = Item(w)
    /\ \A c, d \in late : ~Interferes(c.item, d.item) \/ c.item = d.item

(* A copy replaces no other content of S, unless it goes into the trash;   *)
(* and what is about to be deleted was copied.                             *)
CallSafe(S, kind, call, i) ==
    /\ kind \in {"copy", "move"} /\ call \in {"head", "copy"} =>
         i.src = i.dest \/ S[i.src] = 0 \/ S[i.dest] \in {0, S[i.src]}
    /\ kind # "purge" /\ call = "delete" => S[i.src] \in {0, S[i.dest]}

(* The size and the ETag in hand are those of the object.                  *)
InHand(S, kind, call, i, m, e) ==
    /\ kind # "purge" /\ call \in {"copy", "delete", "record"} => m # 0 /\ S[i.src] \in {0, m}
    /\ kind # "purge" /\ call \in {"delete", "record"} => S[i.dest] = m /\ e = m
    /\ kind # "copy" /\ call = "record" => S[i.src] = 0

Safe ==
    /\ \A w \in Workers : job[w] # NoTask =>
         /\ CallSafe(s3, Kind(w), pc[w], Item(w))
         /\ InHand(s3, Kind(w), pc[w], Item(w), meta[w], etag[w])
    /\ \A c \in late : CallSafe(s3, c.kind, c.call, c.item)

(* The object under k, or its absence, is yet to be recorded by w.         *)
Unrecorded(w, k) ==
    /\ job[w] # NoTask
    /\ \/ k = Item(w).dest /\ Kind(w) # "purge" /\ pc[w] \in {"delete", "record"}
       \/ k = Item(w).src /\ Kind(w) # "copy" /\ pc[w] = "record"

RecordsFollow ==
    crashes = 0 /\ faults = 0 =>
        \A k \in Keys : Agrees(k) \/ \E w \in Workers : Unrecorded(w, k)

-----------------------------------------------------------------------------
(* The types, in three parts: the goroutines, the queue, and the rest.     *)
Kinds == {"trash", "purge", "copy", "move"}
Labels == {"dest", "reject", "head", "copy", "delete", "record"}

LocalPart ==
    /\ job \in [Workers -> Tasks \cup {NoTask}]
    /\ pc \in [Workers -> Labels \cup {"idle"}]
    /\ \A w \in Workers : pc[w] = "idle" <=> job[w] = NoTask
    /\ \A w \in Workers : job[w] # NoTask => items[w] # <<>>
    /\ LocalOK

QueuePart ==
    /\ queued \subseteq Tasks /\ done \subseteq Tasks
    /\ tries \in [Tasks -> 0 .. MaxRetry + 1]
    /\ \A w \in Workers : job[w] # NoTask => job[w] \notin queued \cup done
    /\ \A v, w \in Workers : job[v] = job[w] /\ job[v] # NoTask => v = w
    /\ queued \cap done = {}
    /\ \A t \in queued : tries[t] <= MaxRetry
    /\ planned = [t \in Tasks |-> planned[t]]

CountPart ==
    /\ \A c \in late : c.task \in Tasks /\ c.call \in {"copy", "delete", "record"}
    /\ crashes \in 0 .. MaxCrashes /\ Cardinality(late) <= crashes
    /\ faults \in 0 .. MaxFaults
    /\ LateOK
    /\ IsFiniteSet(unlogged)

Parts == LocalPart /\ QueuePart /\ CountPart

(* Typed by its parts, before and after a step.                            *)
LEMMA TypedParts == (Typed <=> StoreOK /\ Parts) /\ (Typed' <=> StoreOK' /\ Parts')
BY DEF Typed, TypeOK, BatchOK, QueueOK, Parts, LocalPart, QueuePart, CountPart, Labels

(* What a goroutine at work has in hand.                                   *)
LEMMA AtWork ==
    ASSUME LocalPart, NEW w \in Workers, job[w] # NoTask
    PROVE  /\ job[w] \in Tasks /\ Kind(w) \in Kinds /\ pc[w] \in Labels
           /\ items[w] \in Seq(ItemsFor(job[w])) /\ items[w] # <<>>
           /\ Item(w) \in ItemsFor(job[w])
           /\ Tail(items[w]) \in Seq(ItemsFor(job[w]))
           /\ Len(items[w]) > 1 => Tail(items[w]) # <<>>
           /\ CallFits(Kind(w), pc[w], Item(w))
<1>1. job[w] \in Tasks /\ pc[w] \in Labels /\ items[w] # <<>>
      /\ items[w] \in Seq(ItemsFor(job[w])) /\ CallFits(Kind(w), pc[w], Item(w))
  BY DEF LocalPart, LocalOK
<1>2. Kind(w) \in Kinds
  BY <1>1, BatchAssumption DEF Kind, Kinds
<1>3. /\ Head(items[w]) \in ItemsFor(job[w]) /\ Tail(items[w]) \in Seq(ItemsFor(job[w]))
      /\ Len(Tail(items[w])) = Len(items[w]) - 1
  BY <1>1, HeadTailProperties
<1>4. Len(items[w]) > 1 => Tail(items[w]) # <<>>
  BY <1>1, TailLeft
<1> QED
  BY <1>1, <1>2, <1>3, <1>4 DEF Item

(* The first call fits.                                                    *)
LEMMA FirstCallFits ==
    ASSUME NEW t \in Tasks, NEW i \in ItemsFor(t)
    PROVE  /\ FirstCall(t, i) \in {"dest", "reject", "head"}
           /\ CallFits(Payload[t].kind, FirstCall(t, i), i)
<1>1. Payload[t].kind \in Kinds
  BY BatchAssumption DEF Kinds
<1>2. FirstCall(t, i) \in {"dest", "reject", "head"}
      /\ (FirstCall(t, i) = "dest" <=> Payload[t].kind = "copy")
      /\ (FirstCall(t, i) = "reject" => Payload[t].kind = "move")
  BY <1>1 DEF FirstCall, Kinds
<1>3. CASE IsDelete(t)
  <2>1. PICK k \in UserKeys : i = [src |-> k, dest |-> TrashOf[k]]
    BY <1>3 DEF ItemsFor
  <2>2. i.src \in UserKeys /\ i.dest \in Keys \ UserKeys /\ i.src \in Keys
    BY <2>1, KeysAssumption DEF TrashKeys
  <2> QED
    BY <1>1, <1>2, <1>3, <2>2 DEF CallFits, IsDelete
<1>4. CASE ~IsDelete(t)
  <2>1. i.src \in Keys /\ i.dest \in Keys \cup {0} /\ (Payload[t].kind = "move" => i.dest # 0)
    BY <1>4 DEF ItemsFor
  <2> QED
    BY <1>1, <1>2, <1>4, <2>1 DEF CallFits, IsDelete, Kinds
<1> QED
  BY <1>3, <1>4

(* A goroutine begins an item, is free, or goes on with its item.          *)
LEMMA StartLocal ==
    ASSUME LocalPart, NEW w \in Workers, NEW t \in Tasks,
           NEW rest \in Seq(ItemsFor(t)), rest # <<>>, StartItem(w, t, rest),
           meta' \in [Workers -> Nat], etag' \in [Workers -> Nat], at' \in [Workers -> Nat]
    PROVE  LocalPart'
<1> USE DEF LocalPart, LocalOK
<1>1. Head(rest) \in ItemsFor(t)
  BY HeadTailProperties
<1>2. FirstCall(t, Head(rest)) \in {"dest", "reject", "head"}
      /\ CallFits(Payload[t].kind, FirstCall(t, Head(rest)), Head(rest))
  BY <1>1, FirstCallFits
<1>3. t # NoTask
  BY BatchAssumption DEF NoTask
<1>4. job' \in [Workers -> Tasks \cup {NoTask}] /\ pc' \in [Workers -> Labels \cup {"idle"}]
      /\ items' = [v \in Workers |-> items'[v]]
  BY <1>2 DEF StartItem, Labels
<1>5. job'[w] = t /\ items'[w] = rest /\ pc'[w] = FirstCall(t, Head(rest))
  BY DEF StartItem
<1>6. \A v \in Workers \ {w} : job'[v] = job[v] /\ items'[v] = items[v] /\ pc'[v] = pc[v]
  BY DEF StartItem
<1>7. ASSUME NEW v \in Workers
      PROVE  /\ pc'[v] = "idle" <=> job'[v] = NoTask
             /\ job'[v] # NoTask =>
                  /\ items'[v] # <<>> /\ items'[v] \in Seq(ItemsFor(job'[v]))
                  /\ CallFits(Payload[job'[v]].kind, pc'[v], Head(items'[v]))
  <2>1. CASE v = w
    BY <1>2, <1>3, <1>5, <2>1
  <2>2. CASE v # w
    BY <1>6, <2>2 DEF Kind, Item
  <2> QED
    BY <2>1, <2>2
<1> QED
  BY <1>4, <1>7 DEF Kind, Item, CallFits, ItemsFor

(* A handler that ends leaves its goroutine without a task.                *)
LEMMA FreeLocal ==
    ASSUME LocalPart, NEW w \in Workers, Free(w)
    PROVE  LocalPart'
<1> USE DEF LocalPart, LocalOK
<1>1. job' \in [Workers -> Tasks \cup {NoTask}] /\ pc' \in [Workers -> Labels \cup {"idle"}]
      /\ items' = [v \in Workers |-> items'[v]]
      /\ meta' \in [Workers -> Nat] /\ etag' \in [Workers -> Nat] /\ at' \in [Workers -> Nat]
  BY DEF Free
<1>2. job'[w] = NoTask /\ pc'[w] = "idle"
  BY DEF Free
<1>3. \A v \in Workers \ {w} : job'[v] = job[v] /\ items'[v] = items[v] /\ pc'[v] = pc[v]
  BY DEF Free
<1>4. ASSUME NEW v \in Workers
      PROVE  /\ pc'[v] = "idle" <=> job'[v] = NoTask
             /\ job'[v] # NoTask =>
                  /\ items'[v] # <<>> /\ items'[v] \in Seq(ItemsFor(job'[v]))
                  /\ CallFits(Payload[job'[v]].kind, pc'[v], Head(items'[v]))
  BY <1>2, <1>3 DEF Kind, Item
<1> QED
  BY <1>1, <1>4 DEF Kind, Item, CallFits, ItemsFor

(* A handler turns to a call that fits its item.                           *)
LEMMA CallLocal ==
    ASSUME LocalPart, NEW w \in Workers, job[w] # NoTask, NEW label \in Labels,
           Call(w, label), UNCHANGED <<job, items>>, CallFits(Kind(w), label, Item(w)),
           meta' \in [Workers -> Nat], etag' \in [Workers -> Nat], at' \in [Workers -> Nat]
    PROVE  LocalPart'
<1> USE DEF LocalPart, LocalOK
<1>1. pc' \in [Workers -> Labels \cup {"idle"}]
  BY DEF Call
<1>2. pc'[w] = label /\ label # "idle" /\ \A v \in Workers \ {w} : pc'[v] = pc[v]
  BY DEF Call, Labels
<1>3. ASSUME NEW v \in Workers
      PROVE  /\ pc'[v] = "idle" <=> job[v] = NoTask
             /\ job[v] # NoTask => CallFits(Payload[job[v]].kind, pc'[v], Head(items[v]))
  BY <1>2 DEF Kind, Item
<1> QED
  BY <1>1, <1>3 DEF Kind, Item, CallFits, ItemsFor

(* After an item comes the next one, or the end of the task.               *)
LEMMA FinishedLocal ==
    ASSUME LocalPart, NEW w \in Workers, job[w] # NoTask, NEW ok, Finished(w, ok)
    PROVE  LocalPart'
<1>1. CASE Len(items[w]) > 1
  <2>1. /\ StartItem(w, job[w], Tail(items[w]))
        /\ meta' = [meta EXCEPT ![w] = 0] /\ etag' = [etag EXCEPT ![w] = 0] /\ at' = at
    BY <1>1 DEF Finished
  <2>2. meta \in [Workers -> Nat] /\ etag \in [Workers -> Nat] /\ at \in [Workers -> Nat]
    BY DEF LocalPart, LocalOK
  <2>3. meta' \in [Workers -> Nat] /\ etag' \in [Workers -> Nat] /\ at' \in [Workers -> Nat]
    BY <2>1, <2>2
  <2>4. job[w] \in Tasks /\ Tail(items[w]) \in Seq(ItemsFor(job[w])) /\ Tail(items[w]) # <<>>
    BY <1>1, AtWork
  <2> QED
    BY <2>1, <2>3, <2>4, StartLocal
<1>2. CASE ~(Len(items[w]) > 1)
  BY <1>2, FreeLocal DEF Finished
<1> QED
  BY <1>1, <1>2

-----------------------------------------------------------------------------
(* The audit log, the queue and the counters.                              *)

(* Audited items are logged, or counted as lost; entries stay.             *)
LEMMA AuditLogs ==
    ASSUME NEW t, NEW these, NEW ok \in BOOLEAN, Audit(t, these, ok)
    PROVE  /\ unlogged \subseteq unlogged' /\ audit \subseteq audit'
           /\ \A n \in these : LoggedNext(t, n)
           /\ IsFiniteSet(unlogged) /\ IsFiniteSet(these) => IsFiniteSet(unlogged')
<1>1. PICK missed \in SUBSET these :
        /\ unlogged' = unlogged \cup {[task |-> t, item |-> k] : k \in missed}
        /\ audit' = audit \cup {Entry(t, k, ok) : k \in these \ missed}
  BY DEF Audit
<1>2. \A n \in these : LoggedNext(t, n)
  BY <1>1 DEF LoggedNext
<1>3. ASSUME IsFiniteSet(unlogged), IsFiniteSet(these)
      PROVE  IsFiniteSet(unlogged')
  <2> DEFINE f == [k \in missed |-> [task |-> t, item |-> k]]
  <2>1. IsFiniteSet(missed)
    BY <1>3, FS_Subset
  <2>2. IsFiniteSet({f[k] : k \in missed})
    BY <2>1, FiniteImage
  <2>3. {f[k] : k \in missed} = {[task |-> t, item |-> k] : k \in missed}
    OBVIOUS
  <2> QED
    BY <1>1, <1>3, <2>2, <2>3, FS_Union
<1> QED
  BY <1>1, <1>2, <1>3

(* A fault is counted.                                                     *)
LEMMA FaultCounts ==
    ASSUME faults \in 0 .. MaxFaults, IsFiniteSet(unlogged), Fault
    PROVE  faults' \in 0 .. MaxFaults /\ faults' # 0
<1> DEFINE n == Cardinality(unlogged)
<1>1. n \in Nat
  BY FS_CardinalityType
<1>2. faults + n < MaxFaults /\ faults' = faults + 1
  BY DEF Fault
<1> HIDE DEF n
<1> QED
  BY <1>1, <1>2, BatchAssumption

(* A goroutine that is done with an item, or whose task goes back.         *)
LEMMA FinishedQueue ==
    ASSUME LocalPart, QueuePart, NEW w \in Workers, job[w] # NoTask, NEW ok, Finished(w, ok),
           UNCHANGED <<queued, tries, planned>>
    PROVE  QueuePart'
<1> USE DEF QueuePart
<1>1. job \in [Workers -> Tasks \cup {NoTask}] /\ job[w] \in Tasks
  BY DEF LocalPart
<1>2. CASE Len(items[w]) > 1
  <2>1. job' = job /\ done' = done
    BY <1>1, <1>2 DEF Finished, StartItem
  <2> QED
    BY <2>1
<1>3. CASE ~(Len(items[w]) > 1)
  <2>1. job' = [job EXCEPT ![w] = NoTask] /\ done' = done \cup {job[w]}
    BY <1>3 DEF Finished, Free
  <2>2. job'[w] = NoTask /\ \A v \in Workers \ {w} : job'[v] = job[v]
    BY <1>1, <2>1
  <2>3. \A v \in Workers : job'[v] # NoTask => v # w /\ job'[v] = job[v] /\ job[v] # job[w]
    BY <2>2
  <2> QED
    BY <1>1, <2>1, <2>3
<1> QED
  BY <1>2, <1>3

(* A task handed back is in the queue and with nobody.                     *)
LEMMA RequeueQueue ==
    ASSUME LocalPart, QueuePart, NEW w \in Workers, job[w] # NoTask, Free(w), Requeue(job[w]),
           UNCHANGED <<done, tries, planned>>
    PROVE  QueuePart'
<1> USE DEF QueuePart
<1>1. job \in [Workers -> Tasks \cup {NoTask}] /\ job[w] \in Tasks
  BY DEF LocalPart
<1>2. job' = [job EXCEPT ![w] = NoTask]
  BY DEF Free
<1>3. \A v \in Workers : job'[v] # NoTask => v # w /\ job'[v] = job[v] /\ job[v] # job[w]
  BY <1>1, <1>2
<1>4. queued' \subseteq queued \cup {job[w]} /\ (queued' # queued => tries[job[w]] <= MaxRetry)
  BY DEF Requeue
<1>5. \A t \in queued' : tries[t] <= MaxRetry
  BY <1>4
<1> QED
  BY <1>1, <1>3, <1>4, <1>5

-----------------------------------------------------------------------------
(* Every step keeps the types.                                             *)

(* Finished keeps the types.                                               *)
LEMMA FinishedParts ==
    ASSUME Parts, NEW w \in Workers, job[w] # NoTask, NEW ok \in BOOLEAN, Finished(w, ok),
           UNCHANGED <<queued, tries, planned, late, crashes>>, Fault \/ UNCHANGED faults
    PROVE  Parts'
<1>1. LocalPart' /\ QueuePart'
  BY FinishedLocal, FinishedQueue DEF Parts
<1>2. Audit(job[w], {Item(w)}, ok) /\ IsFiniteSet({Item(w)})
  BY FS_Singleton DEF Finished
<1>3. IsFiniteSet(unlogged')
  BY <1>2, AuditLogs DEF Parts, CountPart
<1>4. faults' \in 0 .. MaxFaults
  BY FaultCounts DEF Parts, CountPart
<1>5. CountPart'
  BY <1>3, <1>4 DEF Parts, CountPart, LateOK, CallFits
<1> QED
  BY <1>1, <1>5 DEF Parts

(* A step to the next call keeps the types.                                *)
LEMMA CallParts ==
    ASSUME Parts, NEW w \in Workers, job[w] # NoTask, NEW label \in Labels, Call(w, label),
           CallFits(Kind(w), label, Item(w)), meta' \in [Workers -> Nat], etag' \in [Workers -> Nat],
           UNCHANGED <<queueVars, job, items, at, planned, late, crashes, faults, unlogged>>
    PROVE  Parts'
<1>1. LocalPart'
  <2>1. at' \in [Workers -> Nat] /\ UNCHANGED <<job, items>>
    BY DEF Parts, LocalPart, LocalOK
  <2> QED
    BY <2>1, CallLocal DEF Parts
<1>2. QueuePart'
  BY DEF Parts, QueuePart, queueVars
<1>3. CountPart'
  BY DEF Parts, CountPart, LateOK, CallFits
<1> QED
  BY <1>1, <1>2, <1>3 DEF Parts

(* What a handler records is a row for every key.                          *)
LEMMA NewRecordsTyped ==
    ASSUME StoreOK, NEW c, c.kind \in Kinds, c.item.src \in Keys, c.item.dest \in Keys,
           c.meta \in Nat, c.etag \in Nat, c.at \in Nat
    PROVE  NewRecords(c) \in [Keys -> Rows]
<1>1. NoRow \in Rows /\ Row(c.meta, c.meta, c.at) \in Rows /\ Row(c.meta, c.etag, c.at) \in Rows
  BY DEF NoRow, Row, Rows
<1>2. rec \in [Keys -> Rows]
  BY DEF StoreOK
<1> HIDE DEF Rows
<1> QED
  BY <1>1, <1>2 DEF NewRecords, DeleteRow, MoveKey, Upsert, Kinds

(* The call in hand, of a goroutine at work.                               *)
LEMMA CallOfTyped ==
    ASSUME LocalPart, NEW w \in Workers, job[w] # NoTask
    PROVE  /\ CallOf(w).task \in Tasks /\ CallOf(w).task = job[w] /\ CallOf(w).kind \in Kinds
           /\ CallOf(w).kind = Kind(w) /\ CallOf(w).item = Item(w) /\ CallOf(w).call = pc[w]
           /\ CallOf(w).meta = meta[w] /\ CallOf(w).etag = etag[w] /\ CallOf(w).at = at[w]
           /\ meta[w] \in Nat /\ etag[w] \in Nat /\ at[w] \in Nat
           /\ Item(w).src \in Keys /\ (pc[w] # "dest" => Item(w).dest \in Keys)
<1>1. job[w] \in Tasks /\ Kind(w) \in Kinds /\ CallFits(Kind(w), pc[w], Item(w))
  BY AtWork
<1>2. meta[w] \in Nat /\ etag[w] \in Nat /\ at[w] \in Nat
  BY DEF LocalPart, LocalOK
<1> QED
  BY <1>1, <1>2 DEF CallOf, CallFits

(* The expansion of directories gives the handler items of its task.       *)
LEMMA BeginOKTyped ==
    ASSUME Typed, NEW w \in Workers, NEW t \in Tasks, BeginOK(w, t)
    PROVE  Typed'
<1> USE TypedParts DEF Parts
<1>1. job[w] = NoTask /\ t \in queued /\ queued' = queued \ {t} /\ tries' = [tries EXCEPT ![t] = @ + 1]
      /\ UNCHANGED <<s3, rec, late, crashes>>
  BY DEF BeginOK, HandOut
<1>2. PICK now \in {clock, clock + 1} : clock' = now /\ at' = [at EXCEPT ![w] = now]
  BY DEF BeginOK
<1>3. clock' \in Nat /\ at' \in [Workers -> Nat]
  BY <1>2 DEF LocalPart, LocalOK, StoreOK
<1>4. StoreOK'
  BY <1>1, <1>3 DEF StoreOK
<1>5. PICK unlisted \in {{}} \cup {{n} : n \in Directories(t)} :
       LET todo == ResolvedItems(t, unlisted)
           bad  == Failed(t, unlisted)
       IN  /\ IF unlisted # {} THEN Fault ELSE UNCHANGED faults
           /\ Audit(t, bad, FALSE)
           /\ planned' = [planned EXCEPT ![t] = bad \cup ToSet(todo)]
           /\ IF todo # <<>>
                THEN StartItem(w, t, todo) /\ UNCHANGED <<done, meta, etag>>
                ELSE /\ done' = done \cup {t}
                     /\ UNCHANGED <<job, items, pc, meta, etag, clash>>
  BY DEF BeginOK
<1> DEFINE todo == ResolvedItems(t, unlisted)
           bad  == Failed(t, unlisted)
<1>6. todo \in Seq(ItemsFor(t))
  BY ResolvedTyped
<1>7. IsFiniteSet(bad)
  <2>1. IsFiniteSet(unlisted)
    <3>1. CASE unlisted = {}
      BY <3>1, FS_EmptySet
    <3>2. CASE unlisted \in {{n} : n \in Directories(t)}
      <4>1. PICK n : unlisted = {n}
        BY <3>2
      <4>2. IsFiniteSet({n})
        BY FS_Singleton
      <4> QED
        BY <4>1, <4>2
    <3> QED
      BY <3>1, <3>2
  <2>2. IsFiniteSet(ToSet(Names(t)))
    BY NamesTyped, ToSetFinite
  <2>3. Unresolved(Names(t)) \in SUBSET ToSet(Names(t))
    BY DEF Unresolved
  <2> DEFINE names == unlisted \cup Unresolved(Names(t))
             f == [n \in names |-> [src |-> n, dest |-> 0]]
  <2>4. IsFiniteSet(names)
    BY <2>1, <2>2, <2>3, FS_Subset, FS_Union
  <2>5. IsFiniteSet({f[n] : n \in names})
    BY <2>4, FiniteImage
  <2>6. {f[n] : n \in names} = {[src |-> n, dest |-> 0] : n \in names}
    OBVIOUS
  <2> QED
    BY <2>5, <2>6, FS_EmptySet DEF Failed
<1>8. /\ Fault \/ UNCHANGED faults
      /\ Audit(t, bad, FALSE)
      /\ planned' = [planned EXCEPT ![t] = bad \cup ToSet(todo)]
      /\ \/ todo # <<>> /\ StartItem(w, t, todo) /\ UNCHANGED <<done, meta, etag>>
         \/ done' = done \cup {t} /\ UNCHANGED <<job, items, pc, meta, etag, clash>>
  BY <1>5
<1> HIDE DEF todo, bad
<1>9. CountPart'
  <2>1. IsFiniteSet(unlogged')
    BY <1>7, <1>8, AuditLogs DEF CountPart
  <2>2. faults' \in 0 .. MaxFaults
    BY <1>8, FaultCounts DEF CountPart
  <2> QED
    BY <1>1, <2>1, <2>2 DEF CountPart, LateOK, CallFits
<1>10. LocalPart'
  <2>1. CASE todo # <<>> /\ StartItem(w, t, todo) /\ UNCHANGED <<done, meta, etag>>
    <3>1. meta' \in [Workers -> Nat] /\ etag' \in [Workers -> Nat]
      BY <2>1 DEF LocalPart, LocalOK
    <3> QED
      BY <1>3, <1>6, <2>1, <3>1, StartLocal
  <2>2. CASE UNCHANGED <<job, items, pc, meta, etag, clash>>
    BY <1>3, <2>2 DEF LocalPart, LocalOK, Kind, Item, CallFits, ItemsFor
  <2> QED
    BY <1>8, <2>1, <2>2
<1>11. QueuePart'
  <2> USE DEF QueuePart
  <2>1. tries[t] \in 0 .. MaxRetry
    BY <1>1, BatchAssumption
  <2>2. tries' \in [Tasks -> 0 .. MaxRetry + 1] /\ \A u \in Tasks \ {t} : tries'[u] = tries[u]
    BY <1>1, <2>1, BatchAssumption
  <2>3. t \notin done /\ t # NoTask /\ \A v \in Workers : job[v] # t
    BY <1>1, BatchAssumption DEF NoTask
  <2>4. planned' = [u \in Tasks |-> planned'[u]]
    BY <1>8
  <2>5. /\ \A v \in Workers : job'[v] # NoTask => job'[v] \notin queued' \cup done'
        /\ \A u, v \in Workers : job'[u] = job'[v] /\ job'[u] # NoTask => u = v
        /\ done' \subseteq Tasks /\ queued' \cap done' = {}
    <3>1. CASE todo # <<>> /\ StartItem(w, t, todo) /\ UNCHANGED <<done, meta, etag>>
      <4>1. job' = [job EXCEPT ![w] = t] /\ done' = done /\ job \in [Workers -> Tasks \cup {NoTask}]
        BY <3>1 DEF StartItem, LocalPart
      <4>2. job'[w] = t /\ \A v \in Workers \ {w} : job'[v] = job[v]
        BY <4>1
      <4> QED
        BY <1>1, <2>3, <4>1, <4>2
    <3>2. CASE done' = done \cup {t} /\ job' = job
      BY <1>1, <2>3, <3>2
    <3> QED
      BY <1>8, <3>1, <3>2
  <2> QED
    BY <1>1, <2>2, <2>4, <2>5
<1> QED
  BY <1>4, <1>9, <1>10, <1>11

(* A task that is skipped or fails before its loop.                        *)
LEMMA BeginOtherTyped ==
    ASSUME Typed, NEW w \in Workers, NEW t \in Tasks, BeginSkipped(w, t) \/ BeginFailed(w, t)
    PROVE  Typed'
<1> USE TypedParts DEF Parts
<1>1. /\ t \in queued /\ tries' = [tries EXCEPT ![t] = @ + 1] /\ Fault
      /\ UNCHANGED <<store, localVars, late, crashes, unlogged>>
  BY DEF BeginSkipped, BeginFailed, HandOut, history
<1>2. StoreOK' /\ LocalPart'
  BY <1>1 DEF StoreOK, store, localVars, LocalPart, LocalOK, Kind, Item, CallFits, ItemsFor
<1>3. CountPart'
  BY <1>1, FaultCounts DEF CountPart, LateOK, CallFits
<1>4. QueuePart'
  <2> USE DEF QueuePart
  <2>1. tries[t] \in 0 .. MaxRetry
    BY <1>1, BatchAssumption
  <2>2. /\ tries' \in [Tasks -> 0 .. MaxRetry + 1] /\ tries'[t] = tries[t] + 1
        /\ \A u \in Tasks \ {t} : tries'[u] = tries[u]
    BY <1>1, <2>1, BatchAssumption
  <2>3. t \notin done /\ job' = job /\ \A v \in Workers : job[v] # t
    BY <1>1, BatchAssumption DEF NoTask, localVars
  <2>4. CASE BeginSkipped(w, t)
    <3>1. queued' = queued \ {t} /\ done' = done \cup {t} /\ planned' = [u \in Tasks |-> planned'[u]]
      BY <2>4 DEF BeginSkipped
    <3> QED
      BY <2>2, <2>3, <3>1
  <2>5. CASE BeginFailed(w, t)
    <3>1. queued' = (IF tries[t] < MaxRetry THEN queued ELSE queued \ {t}) /\ done' = done /\ planned' = planned
      BY <2>5 DEF BeginFailed, history
    <3>2. \A u \in queued' : tries'[u] <= MaxRetry
      BY <2>1, <2>2, <3>1, BatchAssumption
    <3> QED
      BY <2>2, <2>3, <3>1, <3>2
  <2> QED
    BY <1>1, <2>4, <2>5
<1> QED
  BY <1>2, <1>3, <1>4

(* The next call of a goroutine that goes on with its item.                *)
LEMMA NextCallFits ==
    ASSUME NEW kind \in Kinds, NEW i, NEW call, CallFits(kind, call, i)
    PROVE  /\ call = "dest" /\ i.dest \in Keys => CallFits(kind, "reject", i)
           /\ call = "reject" => CallFits(kind, "head", i)
           /\ call = "head" => CallFits(kind, IF kind = "purge" THEN "delete" ELSE "copy", i)
           /\ call = "copy" /\ i.src # i.dest =>
                CallFits(kind, IF kind = "copy" THEN "record" ELSE "delete", i)
           /\ call = "delete" => CallFits(kind, "record", i)
BY DEF CallFits, Kinds

(* The calls that only look.                                               *)
LEMMA LookupTyped ==
    ASSUME Typed, NEW w \in Workers, GetDest(w) \/ RejectIfExists(w) \/ HeadSource(w)
    PROVE  Typed'
<1> USE TypedParts
<1>1. job[w] # NoTask
  BY DEF GetDest, RejectIfExists, HeadSource, Parts, LocalPart
<1>2. Kind(w) \in Kinds /\ CallFits(Kind(w), pc[w], Item(w)) /\ Item(w) \in ItemsFor(job[w])
  BY <1>1, AtWork DEF Parts
<1>3. StoreOK'
  BY DEF GetDest, RejectIfExists, HeadSource, StoreOK, store
<1>4. meta \in [Workers -> Nat] /\ etag \in [Workers -> Nat]
  BY DEF Parts, LocalPart, LocalOK
<1>5. Parts'
  <2>1. CASE GetDest(w)
    <3>1. pc[w] = "dest" /\ UNCHANGED <<late, crashes, planned>>
      BY <2>1 DEF GetDest
    <3>2. CASE /\ Item(w).dest # 0 /\ Call(w, "reject")
               /\ UNCHANGED <<queueVars, job, items, meta, etag, at, faults, audit, unlogged, clash>>
      <4>1. Item(w).dest \in Keys
        BY <1>2, <3>1, <3>2 DEF CallFits, ItemsFor, IsDelete, Kind
      <4>2. CallFits(Kind(w), "reject", Item(w)) /\ "reject" \in Labels
        BY <1>2, <3>1, <4>1, NextCallFits DEF Labels
      <4> QED
        BY <1>1, <1>4, <3>1, <3>2, <4>2, CallParts
    <3>3. CASE Finished(w, FALSE) /\ UNCHANGED <<queued, tries, faults>>
      BY <1>1, <3>1, <3>3, FinishedParts
    <3>4. CASE Fault /\ Requeue(job[w]) /\ Free(w) /\ UNCHANGED <<done, tries, audit, unlogged, clash>>
      <4>1. LocalPart' /\ QueuePart'
        BY <1>1, <3>1, <3>4, FreeLocal, RequeueQueue DEF Parts
      <4>2. CountPart'
        BY <3>1, <3>4, FaultCounts DEF Parts, CountPart, LateOK, CallFits
      <4> QED
        BY <4>1, <4>2 DEF Parts
    <3> QED
      BY <2>1, <3>2, <3>3, <3>4 DEF GetDest
  <2>2. CASE RejectIfExists(w)
    <3>1. pc[w] = "reject" /\ UNCHANGED <<queued, tries, late, crashes, planned>>
      BY <2>2 DEF RejectIfExists
    <3>2. CASE /\ Call(w, "head")
               /\ UNCHANGED <<done, job, items, meta, etag, at, faults, audit, unlogged, clash>>
      <4>1. CallFits(Kind(w), "head", Item(w)) /\ "head" \in Labels
        BY <1>2, <3>1, NextCallFits DEF Labels
      <4> QED
        BY <1>1, <1>4, <3>1, <3>2, <4>1, CallParts DEF queueVars
    <3>3. CASE Finished(w, FALSE) /\ (Fault \/ UNCHANGED faults)
      BY <1>1, <3>1, <3>3, FinishedParts
    <3> QED
      BY <2>2, <3>2, <3>3 DEF RejectIfExists
  <2>3. CASE HeadSource(w)
    <3>1. pc[w] = "head" /\ UNCHANGED <<queued, tries, late, crashes, planned>>
      BY <2>3 DEF HeadSource
    <3>2. CASE /\ meta' = [meta EXCEPT ![w] = s3[Item(w).src]]
               /\ Call(w, IF Kind(w) = "purge" THEN "delete" ELSE "copy")
               /\ UNCHANGED <<done, job, items, etag, at, faults, audit, unlogged, clash>>
      <4>1. CallFits(Kind(w), IF Kind(w) = "purge" THEN "delete" ELSE "copy", Item(w))
            /\ (IF Kind(w) = "purge" THEN "delete" ELSE "copy") \in Labels
        BY <1>2, <3>1, NextCallFits DEF Labels
      <4>2. s3[Item(w).src] \in Nat
        BY <1>2 DEF CallFits, StoreOK
      <4>3. meta' \in [Workers -> Nat] /\ etag' \in [Workers -> Nat]
        BY <1>4, <3>2, <4>2
      <4> QED
        BY <1>1, <3>1, <3>2, <4>1, <4>3, CallParts DEF queueVars
    <3>3. CASE Finished(w, FALSE) /\ (Fault \/ UNCHANGED faults)
      BY <1>1, <3>1, <3>3, FinishedParts
    <3> QED
      BY <2>3, <3>2, <3>3 DEF HeadSource
  <2> QED
    BY <2>1, <2>2, <2>3
<1> QED
  BY <1>3, <1>5

(* The calls that change S3 or the records.                                *)
LEMMA EffectTyped ==
    ASSUME Typed, NEW w \in Workers, CopySource(w) \/ DeleteSource(w) \/ WriteRecord(w)
    PROVE  Typed'
<1> USE TypedParts
<1>1. job[w] # NoTask /\ pc[w] # "dest"
  BY DEF CopySource, DeleteSource, WriteRecord, Parts, LocalPart
<1>2. Kind(w) \in Kinds /\ CallFits(Kind(w), pc[w], Item(w))
  BY <1>1, AtWork DEF Parts
<1>3. Item(w).src \in Keys /\ Item(w).dest \in Keys
  BY <1>1, <1>2 DEF CallFits
<1>4. meta \in [Workers -> Nat] /\ etag \in [Workers -> Nat]
  BY DEF Parts, LocalPart, LocalOK
<1>5. s3 \in [Keys -> Nat] /\ rec \in [Keys -> Rows] /\ clock \in Nat
  BY DEF StoreOK
<1>6. CASE CopySource(w)
  <2> DEFINE from == Item(w).src
             to   == Item(w).dest
  <2>1. pc[w] = "copy" /\ UNCHANGED <<rec, clock, queued, tries, late, crashes, planned>>
    BY <1>6 DEF CopySource
  <2>2. /\ s3' = s3 \/ s3' = CopyObject(to, from)
        /\ \/ /\ CanCopy(from, to)
              /\ etag' = [etag EXCEPT ![w] = s3[from]]
              /\ Call(w, IF Kind(w) = "copy" THEN "record" ELSE "delete")
              /\ UNCHANGED <<done, job, items, meta, at, faults, audit, unlogged, clash>>
           \/ Finished(w, FALSE) /\ (Fault \/ UNCHANGED faults)
    BY <1>6 DEF CopySource
  <2>3. StoreOK'
    BY <1>3, <1>5, <2>1, <2>2 DEF StoreOK, CopyObject
  <2>4. CASE /\ CanCopy(from, to)
             /\ etag' = [etag EXCEPT ![w] = s3[from]]
             /\ Call(w, IF Kind(w) = "copy" THEN "record" ELSE "delete")
             /\ UNCHANGED <<done, job, items, meta, at, faults, audit, unlogged, clash>>
    <3>1. Item(w).src # Item(w).dest
      BY <2>4 DEF CanCopy
    <3>2. CallFits(Kind(w), IF Kind(w) = "copy" THEN "record" ELSE "delete", Item(w))
          /\ (IF Kind(w) = "copy" THEN "record" ELSE "delete") \in Labels
      BY <1>2, <2>1, <3>1, NextCallFits DEF Labels
    <3>3. meta' \in [Workers -> Nat] /\ etag' \in [Workers -> Nat]
      BY <1>3, <1>4, <1>5, <2>4
    <3>4. Parts'
      BY <1>1, <2>1, <2>4, <3>2, <3>3, CallParts DEF queueVars
    <3> QED
      BY <2>3, <3>4
  <2>5. CASE Finished(w, FALSE) /\ (Fault \/ UNCHANGED faults)
    BY <1>1, <2>1, <2>3, <2>5, FinishedParts
  <2> QED
    BY <2>2, <2>4, <2>5
<1>7. CASE DeleteSource(w)
  <2>1. pc[w] = "delete" /\ UNCHANGED <<rec, clock, queued, tries, late, crashes, planned>>
    BY <1>7 DEF DeleteSource
  <2>2. /\ s3' = s3 \/ s3' = DeleteObject(Item(w).src)
        /\ \/ /\ Call(w, "record")
              /\ UNCHANGED <<done, job, items, meta, etag, at, faults, audit, unlogged, clash>>
           \/ Finished(w, FALSE) /\ Fault
    BY <1>7 DEF DeleteSource
  <2>3. StoreOK'
    BY <1>3, <1>5, <2>1, <2>2 DEF StoreOK, DeleteObject
  <2>4. CASE /\ Call(w, "record")
             /\ UNCHANGED <<done, job, items, meta, etag, at, faults, audit, unlogged, clash>>
    <3>1. CallFits(Kind(w), "record", Item(w)) /\ "record" \in Labels
      BY <1>2, <2>1, NextCallFits DEF Labels
    <3>2. Parts'
      BY <1>1, <1>4, <2>1, <2>4, <3>1, CallParts DEF queueVars
    <3> QED
      BY <2>3, <3>2
  <2>5. CASE Finished(w, FALSE) /\ Fault
    BY <1>1, <2>1, <2>3, <2>5, FinishedParts
  <2> QED
    BY <2>2, <2>4, <2>5
<1>8. CASE WriteRecord(w)
  <2>1. /\ UNCHANGED <<s3, clock, queued, tries, late, crashes, planned>>
        /\ rec' = rec \/ rec' = NewRecords(CallOf(w))
        /\ Fault \/ UNCHANGED faults
        /\ \E ok \in BOOLEAN : Finished(w, ok)
    BY <1>8 DEF WriteRecord
  <2>2. Parts'
    BY <1>1, <2>1, FinishedParts
  <2>3. NewRecords(CallOf(w)) \in [Keys -> Rows]
    BY <1>1, <1>3, CallOfTyped, NewRecordsTyped DEF Parts
  <2>4. StoreOK'
    BY <1>5, <2>1, <2>3 DEF StoreOK
  <2> QED
    BY <2>2, <2>4
<1> QED
  BY <1>6, <1>7, <1>8

(* A crash leaves a call that fits its item.                               *)
LEMMA CrashTyped ==
    ASSUME Typed, NEW w \in Workers, Crash(w)
    PROVE  Typed'
<1> USE TypedParts
<1>1. /\ job[w] # NoTask /\ crashes < MaxCrashes /\ crashes' = crashes + 1
      /\ late' = (IF pc[w] \in {"copy", "delete", "record"} THEN late \cup {CallOf(w)} ELSE late)
      /\ Requeue(job[w]) /\ Free(w) /\ UNCHANGED <<s3, rec, clock, done, tries, faults, planned, unlogged>>
  BY DEF Crash, store, history
<1>2. StoreOK'
  BY <1>1 DEF StoreOK
<1>3. LocalPart' /\ QueuePart'
  BY <1>1, FreeLocal, RequeueQueue DEF Parts
<1>4. IsFiniteSet(late) /\ Cardinality(late) <= crashes /\ crashes \in 0 .. MaxCrashes
  BY DEF Parts, CountPart, LateOK
<1>5. IsFiniteSet(late') /\ Cardinality(late') <= crashes + 1
  <2> DEFINE n == Cardinality(late)
  <2>1. n \in Nat
    BY <1>4, FS_CardinalityType
  <2>2. CASE late' = late
    BY <1>4, <2>1, <2>2, BatchAssumption
  <2>3. CASE late' = late \cup {CallOf(w)}
    <3>1. IsFiniteSet(late') /\ Cardinality(late') = (IF CallOf(w) \in late THEN n ELSE n + 1)
      BY <1>4, <2>3, FS_AddElement
    <3>2. n <= crashes
      BY <1>4
    <3> HIDE DEF n
    <3> QED
      BY <1>4, <2>1, <3>1, <3>2, BatchAssumption
  <2> QED
    BY <1>1, <2>2, <2>3
<1>6. ASSUME NEW c \in late'
      PROVE  /\ c.task \in Tasks /\ c.call \in {"copy", "delete", "record"}
             /\ c.meta \in Nat /\ c.etag \in Nat /\ c.at \in Nat
             /\ c.kind \in Kinds /\ CallFits(c.kind, c.call, c.item)
  <2>1. CASE c \in late
    BY <2>1 DEF Parts, CountPart, LateOK, Kinds
  <2>2. CASE c = CallOf(w) /\ pc[w] \in {"copy", "delete", "record"}
    <3>1. CallFits(Kind(w), pc[w], Item(w))
      BY <1>1, AtWork DEF Parts
    <3> QED
      BY <1>1, <2>2, <3>1, CallOfTyped DEF Parts
  <2> QED
    BY <1>1, <2>1, <2>2
<1>7. crashes' \in 0 .. MaxCrashes /\ Cardinality(late') <= crashes'
  BY <1>1, <1>4, <1>5, BatchAssumption
<1>8. faults' \in 0 .. MaxFaults /\ IsFiniteSet(unlogged')
  BY <1>1 DEF Parts, CountPart
<1>9. CountPart'
  BY <1>5, <1>6, <1>7, <1>8 DEF CountPart, LateOK, Kinds, CallFits
<1> QED
  BY <1>2, <1>3, <1>9 DEF Parts

(* A late call writes what a live one would.                               *)
LEMMA LateCallTyped ==
    ASSUME Typed, NEW c \in late, LateCall(c)
    PROVE  Typed'
<1> USE TypedParts
<1>1. late' \in SUBSET late
      /\ UNCHANGED <<clock, queueVars, localVars, crashes, faults, planned, unlogged>>
  BY DEF LateCall
<1>2. /\ c.kind \in Kinds /\ c.item.src \in Keys /\ c.item.dest \in Keys
      /\ c.meta \in Nat /\ c.etag \in Nat /\ c.at \in Nat
  BY DEF Parts, CountPart, LateOK, CallFits, Kinds
<1>3. NewRecords(c) \in [Keys -> Rows]
  BY <1>2, NewRecordsTyped
<1>4. /\ s3' = s3 \/ s3' = CopyObject(c.item.dest, c.item.src) \/ s3' = DeleteObject(c.item.src)
      /\ rec' = rec \/ rec' = NewRecords(c)
  BY DEF LateCall
<1>5. StoreOK'
  BY <1>1, <1>2, <1>3, <1>4 DEF StoreOK, CopyObject, DeleteObject
<1>6. LocalPart' /\ QueuePart'
  BY <1>1 DEF Parts, LocalPart, LocalOK, QueuePart, localVars, queueVars, Kind, Item, CallFits, ItemsFor
<1>7. CountPart'
  <2>1. IsFiniteSet(late) /\ Cardinality(late) <= crashes /\ crashes \in 0 .. MaxCrashes
    BY DEF Parts, CountPart, LateOK
  <2>2. IsFiniteSet(late') /\ Cardinality(late') <= Cardinality(late)
    BY <1>1, <2>1, FS_Subset
  <2>3. Cardinality(late') \in Nat /\ Cardinality(late) \in Nat
    BY <2>1, <2>2, FS_CardinalityType
  <2>4. Cardinality(late') <= crashes'
    <3> DEFINE m == Cardinality(late')
               n == Cardinality(late)
    <3>1. m \in Nat /\ n \in Nat /\ m <= n /\ n <= crashes /\ crashes \in Int /\ crashes' = crashes
      BY <1>1, <2>1, <2>2, <2>3
    <3> HIDE DEF m, n
    <3>2. m <= crashes'
      BY <3>1
    <3> QED
      BY <3>2 DEF m
  <2> QED
    BY <1>1, <2>2, <2>4 DEF Parts, CountPart, LateOK, CallFits
<1> QED
  BY <1>5, <1>6, <1>7 DEF Parts

(* Every step keeps the types: one case per action.                        *)
LEMMA TypedStep == Typed /\ [BatchNext]_vars => Typed'
<1> SUFFICES ASSUME Typed, [BatchNext]_vars
             PROVE  Typed'
  OBVIOUS
<1>1. CASE \E w \in Workers, t \in Tasks : BeginOK(w, t)
  BY <1>1, BeginOKTyped
<1>2. CASE \E w \in Workers, t \in Tasks : BeginSkipped(w, t) \/ BeginFailed(w, t)
  BY <1>2, BeginOtherTyped
<1>3. CASE \E w \in Workers : GetDest(w) \/ RejectIfExists(w) \/ HeadSource(w)
  BY <1>3, LookupTyped
<1>4. CASE \E w \in Workers : CopySource(w) \/ DeleteSource(w) \/ WriteRecord(w)
  BY <1>4, EffectTyped
<1>5. CASE \E w \in Workers : Crash(w)
  BY <1>5, CrashTyped
<1>6. CASE \E c \in late : LateCall(c)
  BY <1>6, LateCallTyped
<1>7. CASE UNCHANGED vars
  <2>1. StoreOK'
    BY <1>7, TypedParts DEF vars, store, StoreOK
  <2>2. LocalPart'
    BY <1>7, TypedParts DEF vars, batchVars, localVars, Parts, LocalPart, LocalOK, Kind, Item,
       CallFits, ItemsFor
  <2>3. QueuePart'
    BY <1>7, TypedParts DEF vars, batchVars, queueVars, localVars, history, Parts, QueuePart
  <2>4. CountPart'
    BY <1>7, TypedParts DEF vars, batchVars, history, Parts, CountPart, LateOK, CallFits
  <2> QED
    BY <2>1, <2>2, <2>3, <2>4, TypedParts DEF Parts
<1> QED
  BY <1>1, <1>2, <1>3, <1>4, <1>5, <1>6, <1>7 DEF BatchNext, Work

(* The types hold at the start.                                            *)
LEMMA TypedInit == Init => Typed
<1> SUFFICES ASSUME Init
             PROVE  Typed
  OBVIOUS
<1> USE DEF Init, BatchInit, StoreInit
<1>1. StoreOK
  <2>1. \A k \in Keys : InitS3[k] \in Nat
    BY KeysAssumption
  <2> QED
    BY <2>1, KeysAssumption DEF StoreOK, Rows, Row, NoRow
<1>2. LocalPart
  BY DEF LocalPart, LocalOK
<1>3. QueuePart
  BY BatchAssumption DEF QueuePart
<1>4. CountPart
  BY FS_EmptySet, BatchAssumption DEF CountPart, LateOK
<1> QED
  BY <1>1, <1>2, <1>3, <1>4, TypedParts DEF Parts

(* The types of the two stores, the queue and the handlers: among others   *)
(* that no task is run twice at once, is queued while it runs, or is tried *)
(* more often than asynq.MaxRetry allows.                                  *)
THEOREM BatchTypeCorrect == BatchSpec => []TypeOK
<1>1. Typed => TypeOK
  BY DEF Typed
<1> QED
  BY <1>1, TypedInit, TypedStep, PTL DEF BatchSpec

-----------------------------------------------------------------------------
(* The audit log is complete.                                              *)
LogInv == StillListed /\ AuditedUnlessSkipped

(* Entries stay, and so do the gaps where one was lost.                    *)
LEMMA LoggedStays ==
    ASSUME unlogged \subseteq unlogged', audit \subseteq audit', NEW t, NEW n, Logged(t, n)
    PROVE  LoggedNext(t, n)
BY DEF Logged, LoggedNext

(* Steps that only free goroutines, or change none of this.                *)
LEMMA LogFrame ==
    ASSUME LogInv, UNCHANGED <<planned, done, skipped, audit, unlogged>>,
           \A w \in Workers : job'[w] # NoTask => job'[w] = job[w] /\ items'[w] = items[w]
    PROVE  LogInv'
<1>1. StillListed'
  BY DEF LogInv, StillListed, Logged
<1>2. AuditedUnlessSkipped'
  BY DEF LogInv, AuditedUnlessSkipped, Audited
<1> QED
  BY <1>1, <1>2 DEF LogInv

(* The end of an item: it leaves the list and is logged or counted as      *)
(* unlogged.                                                               *)
LEMMA FinishedLogs ==
    ASSUME Parts, LogInv, NEW w \in Workers, job[w] # NoTask, NEW ok \in BOOLEAN, Finished(w, ok),
           UNCHANGED <<planned, skipped>>
    PROVE  LogInv'
<1>1. /\ unlogged \subseteq unlogged' /\ audit \subseteq audit'
      /\ LoggedNext(job[w], Item(w))
  BY AuditLogs DEF Finished
<1>2. \A t, n : Logged(t, n) => LoggedNext(t, n)
  BY <1>1, LoggedStays
<1>3. items[w] \in Seq(ItemsFor(job[w])) /\ items[w] # <<>> /\ job[w] \in Tasks
  BY AtWork DEF Parts
<1>4. ToSet(items[w]) = {Item(w)} \cup ToSet(Tail(items[w]))
  BY <1>3, ToSetHeadTail DEF Item
<1>5. ASSUME NEW n \in planned[job[w]]
      PROVE  LoggedNext(job[w], n) \/ n \in ToSet(Tail(items[w]))
  <2>1. Logged(job[w], n) \/ n \in ToSet(items[w])
    BY DEF LogInv, StillListed, Logged, LoggedNext
  <2>2. CASE n \in ToSet(items[w])
    BY <1>1, <1>4, <2>2
  <2> QED
    BY <1>2, <2>1, <2>2
<1>6. job \in [Workers -> Tasks \cup {NoTask}] /\ items = [v \in Workers |-> items[v]]
      /\ \A v \in Workers \ {w} : job[v] # job[w]
  BY DEF Parts, LocalPart, LocalOK, QueuePart
<1>7. CASE Len(items[w]) > 1
  <2>1. /\ job' = [job EXCEPT ![w] = job[w]] /\ items' = [items EXCEPT ![w] = Tail(items[w])]
        /\ done' = done
    BY <1>7 DEF Finished, StartItem
  <2>2. /\ job' = job /\ items'[w] = Tail(items[w])
        /\ \A v \in Workers \ {w} : items'[v] = items[v]
    BY <1>6, <2>1
  <2>3. StillListed'
    BY <1>2, <1>5, <2>2 DEF LogInv, StillListed, Logged, LoggedNext
  <2>4. AuditedUnlessSkipped'
    BY <1>2, <2>1 DEF LogInv, AuditedUnlessSkipped, Audited, Logged, LoggedNext
  <2> QED
    BY <2>3, <2>4 DEF LogInv
<1>8. CASE ~(Len(items[w]) > 1)
  <2>1. /\ job' = [job EXCEPT ![w] = NoTask] /\ items' = [items EXCEPT ![w] = <<>>]
        /\ done' = done \cup {job[w]}
    BY <1>8 DEF Finished, Free
  <2>2. /\ job'[w] = NoTask /\ \A v \in Workers \ {w} : job'[v] = job[v] /\ items'[v] = items[v]
    BY <1>6, <2>1
  <2>3. StillListed'
    BY <1>2, <2>2 DEF LogInv, StillListed, Logged, LoggedNext
  <2>4. ToSet(Tail(items[w])) = {}
    BY <1>3, <1>8, OneLeft
  <2>5. \A n \in planned[job[w]] : LoggedNext(job[w], n)
    BY <1>5, <2>4
  <2>6. AuditedUnlessSkipped'
    BY <1>2, <2>1, <2>5 DEF LogInv, AuditedUnlessSkipped, Audited, Logged, LoggedNext
  <2> QED
    BY <2>3, <2>6 DEF LogInv
<1> QED
  BY <1>7, <1>8

(* A task that begins again has all its items before it.                   *)
LEMMA BeginLogs ==
    ASSUME Parts, LogInv, NEW w \in Workers, NEW t \in Tasks, BeginOK(w, t)
    PROVE  LogInv'
<1>1. PICK unlisted \in {{}} \cup {{n} : n \in Directories(t)} :
       LET todo == ResolvedItems(t, unlisted)
           bad  == Failed(t, unlisted)
       IN  /\ Audit(t, bad, FALSE)
           /\ planned' = [planned EXCEPT ![t] = bad \cup ToSet(todo)]
           /\ IF todo # <<>>
                THEN StartItem(w, t, todo) /\ UNCHANGED <<done, meta, etag>>
                ELSE /\ done' = done \cup {t}
                     /\ UNCHANGED <<job, items, pc, meta, etag, clash>>
  BY DEF BeginOK
<1> DEFINE todo == ResolvedItems(t, unlisted)
           bad  == Failed(t, unlisted)
<1>2. /\ Audit(t, bad, FALSE)
      /\ planned' = [planned EXCEPT ![t] = bad \cup ToSet(todo)]
      /\ \/ StartItem(w, t, todo) /\ done' = done
         \/ todo = <<>> /\ done' = done \cup {t} /\ UNCHANGED <<job, items>>
  BY <1>1
<1> HIDE DEF todo, bad
<1>3. t \in queued /\ skipped' = skipped
  BY DEF BeginOK, HandOut
<1>4. /\ t \notin done /\ \A v \in Workers : job[v] # NoTask => job[v] # t
      /\ job \in [Workers -> Tasks \cup {NoTask}] /\ items = [v \in Workers |-> items[v]]
      /\ planned = [u \in Tasks |-> planned[u]] /\ done \subseteq Tasks
  BY <1>3 DEF Parts, QueuePart, LocalPart, LocalOK
<1>5. \A u, n : Logged(u, n) => LoggedNext(u, n)
  BY <1>2, AuditLogs, LoggedStays
<1>6. \A n \in planned'[t] : LoggedNext(t, n) \/ n \in ToSet(todo)
  BY <1>2, <1>4, AuditLogs
<1>7. \A u \in Tasks \ {t} : planned'[u] = planned[u]
  BY <1>2, <1>4
<1>8. CASE StartItem(w, t, todo) /\ done' = done
  <2>1. job'[w] = t /\ items'[w] = todo
        /\ \A v \in Workers \ {w} : job'[v] = job[v] /\ items'[v] = items[v]
    BY <1>4, <1>8 DEF StartItem
  <2>2. StillListed'
    <3> SUFFICES ASSUME NEW v \in Workers, job'[v] # NoTask, NEW n \in planned'[job'[v]]
                 PROVE  LoggedNext(job'[v], n) \/ n \in ToSet(items'[v])
      BY DEF StillListed, Logged, LoggedNext
    <3>1. CASE v = w
      BY <1>6, <2>1, <3>1
    <3>2. CASE v # w
      <4>1. job'[v] = job[v] /\ items'[v] = items[v] /\ planned'[job'[v]] = planned[job[v]]
        BY <1>4, <1>7, <2>1, <3>2
      <4> QED
        BY <1>5, <4>1 DEF LogInv, StillListed, Logged, LoggedNext
    <3> QED
      BY <3>1, <3>2
  <2>3. AuditedUnlessSkipped'
    BY <1>3, <1>4, <1>5, <1>7, <1>8 DEF LogInv, AuditedUnlessSkipped, Audited, Logged, LoggedNext
  <2> QED
    BY <2>2, <2>3 DEF LogInv
<1>9. CASE todo = <<>> /\ done' = done \cup {t} /\ UNCHANGED <<job, items>>
  <2>1. ToSet(todo) = {}
    BY <1>9 DEF ToSet
  <2>2. \A n \in planned'[t] : LoggedNext(t, n)
    BY <1>6, <2>1
  <2>3. \A v \in Workers : job[v] # NoTask => planned'[job[v]] = planned[job[v]]
    BY <1>4, <1>7
  <2>4. StillListed'
    <3> SUFFICES ASSUME NEW v \in Workers, job'[v] # NoTask, NEW n \in planned'[job'[v]]
                 PROVE  LoggedNext(job'[v], n) \/ n \in ToSet(items'[v])
      BY DEF StillListed, Logged, LoggedNext
    <3>1. job'[v] = job[v] /\ items'[v] = items[v] /\ planned'[job'[v]] = planned[job[v]]
      BY <1>9, <2>3
    <3> QED
      BY <1>5, <3>1 DEF LogInv, StillListed
  <2>5. AuditedUnlessSkipped'
    BY <1>3, <1>4, <1>5, <1>7, <1>9, <2>2 DEF LogInv, AuditedUnlessSkipped, Audited, Logged, LoggedNext
  <2> QED
    BY <2>4, <2>5 DEF LogInv
<1> QED
  BY <1>2, <1>8, <1>9

(* Every step keeps the items listed or logged.                            *)
LEMMA LogStep == Typed /\ LogInv /\ [BatchNext]_vars => LogInv'
<1> SUFFICES ASSUME Typed, LogInv, [BatchNext]_vars
             PROVE  LogInv'
  OBVIOUS
<1> USE TypedParts
<1>0. job \in [Workers -> Tasks \cup {NoTask}] /\ items = [v \in Workers |-> items[v]]
      /\ planned = [u \in Tasks |-> planned[u]] /\ done \subseteq Tasks
      /\ \A v \in Workers : pc[v] = "idle" <=> job[v] = NoTask
  BY DEF Parts, QueuePart, LocalPart, LocalOK
<1>1. ASSUME NEW w \in Workers, NEW t \in Tasks, BeginOK(w, t)
      PROVE  LogInv'
  BY <1>1, BeginLogs
<1>2. ASSUME NEW w \in Workers, NEW t \in Tasks, BeginSkipped(w, t)
      PROVE  LogInv'
  <2>1. /\ done' = done \cup {t} /\ skipped' = skipped \cup {t} /\ planned' = [planned EXCEPT ![t] = ToSet(Payload[t].items)]
        /\ UNCHANGED <<job, items, audit, unlogged>> /\ t \in queued
    BY <1>2 DEF BeginSkipped, localVars, HandOut
  <2>2. \A u \in Tasks \ {t} : planned'[u] = planned[u]
    BY <1>0, <2>1
  <2>3. \A v \in Workers : job[v] # NoTask => job[v] \in Tasks \ {t}
    BY <1>0, <2>1 DEF Parts, QueuePart
  <2>4. StillListed'
    <3> SUFFICES ASSUME NEW v \in Workers, job'[v] # NoTask, NEW n \in planned'[job'[v]]
                 PROVE  LoggedNext(job'[v], n) \/ n \in ToSet(items'[v])
      BY DEF StillListed, Logged, LoggedNext
    <3>1. job'[v] = job[v] /\ items'[v] = items[v] /\ planned'[job'[v]] = planned[job[v]]
      BY <2>1, <2>2, <2>3
    <3> QED
      BY <2>1, <3>1 DEF LogInv, StillListed, Logged, LoggedNext
  <2>5. AuditedUnlessSkipped'
    BY <1>0, <2>1, <2>2 DEF LogInv, AuditedUnlessSkipped, Audited
  <2> QED
    BY <2>4, <2>5 DEF LogInv
<1>3. ASSUME NEW w \in Workers, NEW t \in Tasks, BeginFailed(w, t)
      PROVE  LogInv'
  BY <1>3, LogFrame DEF BeginFailed, localVars, history
<1>4. ASSUME NEW w \in Workers, Crash(w)
      PROVE  LogInv'
  <2>1. \A v \in Workers : job'[v] # NoTask => job'[v] = job[v] /\ items'[v] = items[v]
    BY <1>0, <1>4 DEF Crash, Free
  <2> QED
    BY <1>4, <2>1, LogFrame DEF Crash, history
<1>5. ASSUME NEW w \in Workers,
             GetDest(w) \/ RejectIfExists(w) \/ HeadSource(w) \/ CopySource(w) \/ DeleteSource(w) \/ WriteRecord(w)
      PROVE  LogInv'
  <2>1. /\ UNCHANGED <<planned, skipped>> /\ job[w] # NoTask
        /\ \/ UNCHANGED <<job, items, done, audit, unlogged>>
           \/ Finished(w, TRUE) \/ Finished(w, FALSE)
           \/ Free(w) /\ UNCHANGED <<done, audit, unlogged>>
    BY <1>0, <1>5 DEF GetDest, RejectIfExists, HeadSource, CopySource, DeleteSource, WriteRecord, queueVars
  <2>2. CASE UNCHANGED <<job, items, done, audit, unlogged>>
    BY <2>1, <2>2, LogFrame
  <2>3. CASE Finished(w, TRUE) \/ Finished(w, FALSE)
    BY <2>1, <2>3, FinishedLogs
  <2>4. CASE Free(w) /\ UNCHANGED <<done, audit, unlogged>>
    <3>1. \A v \in Workers : job'[v] # NoTask => job'[v] = job[v] /\ items'[v] = items[v]
      BY <1>0, <2>4 DEF Free
    <3> QED
      BY <2>1, <2>4, <3>1, LogFrame
  <2> QED
    BY <2>1, <2>2, <2>3, <2>4
<1>6. ASSUME NEW c \in late, LateCall(c)
      PROVE  LogInv'
  BY <1>6, LogFrame DEF LateCall, localVars, queueVars
<1>7. CASE UNCHANGED vars
  BY <1>7, LogFrame DEF vars, batchVars, queueVars, localVars, history
<1> QED
  BY <1>1, <1>2, <1>3, <1>4, <1>5, <1>6, <1>7 DEF BatchNext, Work

(* Every item of a task that the queue counts as done was audited, or      *)
(* its entry could not be written: for any payload, number of goroutines,  *)
(* crash, retry and failing call.  What a handler has yet to audit is      *)
(* still on its list of items.                                             *)
THEOREM BatchAudited == BatchSpec => []AuditedUnlessSkipped
<1>1. Init => LogInv
  BY DEF Init, BatchInit, LogInv, StillListed, AuditedUnlessSkipped
<1>2. LogInv => AuditedUnlessSkipped
  BY DEF LogInv
<1> QED
  BY <1>1, <1>2, TypedInit, TypedStep, LogStep, PTL DEF BatchSpec

-----------------------------------------------------------------------------
(* What one call does to the objects, and what that means for the others.  *)

(* A call may turn the objects S into T.                                   *)
Effect(S, T, kind, call, i) ==
    \/ T = S
    \/ /\ call = "copy" /\ S[i.src] # 0 /\ i.src # i.dest
       /\ T = [S EXCEPT ![i.dest] = S[i.src]]
    \/ call = "delete" /\ T = [S EXCEPT ![i.src] = 0]

(* The contents D that were asked to go have become E.                     *)
Accounts(S, T, D, E, kind, call, i) ==
    /\ D \subseteq E
    /\ call = "copy" /\ kind = "trash" => T[i.dest] = S[i.dest] \/ S[i.dest] \in E
    /\ call = "delete" /\ kind = "purge" => T[i.src] = S[i.src] \/ S[i.src] \in E

(* Calls for other keys, or for the very same item, do not harm an item.   *)
LEMMA EffectKeepsSafe ==
    ASSUME NEW S \in [Keys -> Nat], NEW T, NEW kj, NEW cj, NEW j, Effect(S, T, kj, cj, j),
           NEW ki, NEW ci, NEW i, CallFits(kj, cj, j), CallFits(ki, ci, i),
           ~Interferes(i, j) \/ i = j, CallSafe(S, ki, ci, i)
    PROVE  CallSafe(T, ki, ci, i)
<1>1. i.src \in Keys /\ j.src \in Keys
  BY DEF CallFits
<1>2. CASE T = S
  BY <1>2
<1>3. CASE cj = "copy" /\ S[j.src] # 0 /\ j.src # j.dest /\ T = [S EXCEPT ![j.dest] = S[j.src]]
  <2>1. j.dest \in Keys
    BY <1>3 DEF CallFits
  <2>2. T[j.dest] = S[j.src] /\ \A k \in Keys \ {j.dest} : T[k] = S[k]
    BY <1>3, <2>1
  <2>3. CASE ci \in {"head", "copy", "delete"}
    <3>1. i.dest \in Keys
      BY <2>3 DEF CallFits
    <3> QED
      BY <1>1, <1>3, <2>2, <3>1 DEF CallSafe, Interferes
  <2> QED
    BY <2>3 DEF CallSafe
<1>4. CASE cj = "delete" /\ T = [S EXCEPT ![j.src] = 0]
  <2>1. T[j.src] = 0 /\ \A k \in Keys \ {j.src} : T[k] = S[k]
    BY <1>1, <1>4
  <2>2. CASE ci \in {"head", "copy", "delete"}
    <3>1. i.dest \in Keys
      BY <2>2 DEF CallFits
    <3> QED
      BY <1>1, <2>1, <3>1 DEF CallSafe, Interferes
  <2> QED
    BY <2>2 DEF CallSafe
<1> QED
  BY <1>2, <1>3, <1>4 DEF Effect

(* A call for one item spoils nothing that a handler of another item has   *)
(* looked up.                                                              *)
LEMMA EffectKeepsInHand ==
    ASSUME NEW S \in [Keys -> Nat], NEW T, NEW kj, NEW cj, NEW j, Effect(S, T, kj, cj, j),
           NEW ki, NEW ci, NEW i, NEW m, NEW e, CallFits(kj, cj, j), CallFits(ki, ci, i),
           ~Interferes(i, j) \/ i = j, InHand(S, ki, ci, i, m, e)
    PROVE  InHand(T, ki, ci, i, m, e)
<1>1. i.src \in Keys /\ j.src \in Keys
  BY DEF CallFits
<1>2. CASE T = S
  BY <1>2
<1>3. CASE cj = "copy" /\ S[j.src] # 0 /\ j.src # j.dest /\ T = [S EXCEPT ![j.dest] = S[j.src]]
  <2>1. j.dest \in Keys
    BY <1>3 DEF CallFits
  <2>2. T[j.dest] = S[j.src] /\ \A k \in Keys \ {j.dest} : T[k] = S[k]
    BY <1>3, <2>1
  <2>3. CASE ci \in {"copy", "delete", "record"}
    <3>1. i.dest \in Keys
      BY <2>3 DEF CallFits
    <3> QED
      BY <1>1, <1>3, <2>2, <3>1 DEF InHand, Interferes
  <2> QED
    BY <2>3 DEF InHand
<1>4. CASE cj = "delete" /\ T = [S EXCEPT ![j.src] = 0]
  <2>1. T[j.src] = 0 /\ \A k \in Keys \ {j.src} : T[k] = S[k]
    BY <1>1, <1>4
  <2>2. CASE ci \in {"copy", "delete", "record"}
    <3>1. i.dest \in Keys /\ (ki # "purge" /\ ci \in {"delete", "record"} => i.src # i.dest)
      BY <2>2 DEF CallFits
    <3> QED
      BY <1>1, <2>1, <3>1 DEF InHand, Interferes
  <2> QED
    BY <2>2 DEF InHand
<1> QED
  BY <1>2, <1>3, <1>4 DEF Effect

(* No content is lost by a safe call, but what was asked to go.            *)
LEMMA EffectKeepsContent ==
    ASSUME NEW S \in [Keys -> Nat], NEW T, NEW D, NEW E, NEW kind \in Kinds, NEW call, NEW i,
           Effect(S, T, kind, call, i), Accounts(S, T, D, E, kind, call, i),
           CallFits(kind, call, i), CallSafe(S, kind, call, i),
           NEW x, x # 0, x \in D \cup {S[k] : k \in Keys}
    PROVE  x \in E \cup {T[k] : k \in Keys}
<1>1. CASE x \in D
  BY <1>1 DEF Accounts
<1>2. ASSUME NEW k \in Keys, x = S[k]
      PROVE  x \in E \/ \E l \in Keys : x = T[l]
  <2>1. i.src \in Keys
    BY DEF CallFits
  <2>2. CASE T = S
    BY <1>2, <2>2
  <2>3. CASE call = "copy" /\ S[i.src] # 0 /\ i.src # i.dest /\ T = [S EXCEPT ![i.dest] = S[i.src]]
    <3>1. i.dest \in Keys /\ kind # "purge"
      BY <2>3 DEF CallFits
    <3>2. T[i.dest] = S[i.src] /\ \A l \in Keys \ {i.dest} : T[l] = S[l]
      BY <2>3, <3>1
    <3>3. CASE k = i.dest
      <4>1. CASE kind = "trash"
        BY <1>2, <2>3, <3>1, <3>3, <4>1 DEF Accounts
      <4>2. CASE kind \in {"copy", "move"}
        <5>1. x = S[i.src]
          BY <1>2, <2>3, <3>3, <4>2 DEF CallSafe
        <5> QED
          BY <3>1, <3>2, <5>1
      <4> QED
        BY <3>1, <4>1, <4>2 DEF Kinds
    <3> QED
      BY <1>2, <3>2, <3>3
  <2>4. CASE call = "delete" /\ T = [S EXCEPT ![i.src] = 0]
    <3>1. T[i.src] = 0 /\ \A l \in Keys \ {i.src} : T[l] = S[l]
      BY <2>1, <2>4
    <3>2. CASE k = i.src
      <4>1. CASE kind = "purge"
        BY <1>2, <2>4, <3>1, <3>2, <4>1 DEF Accounts
      <4>2. CASE kind # "purge"
        <5>1. x = S[i.dest] /\ i.dest \in Keys /\ i.dest # i.src
          BY <1>2, <2>4, <3>2, <4>2 DEF CallSafe, CallFits
        <5> QED
          BY <3>1, <5>1
      <4> QED
        BY <4>1, <4>2
    <3> QED
      BY <1>2, <3>1, <3>2
  <2> QED
    BY <2>2, <2>3, <2>4 DEF Effect
<1> QED
  BY <1>1, <1>2

(* No user's object is replaced by a safe call.                            *)
LEMMA EffectReplacesNothing ==
    ASSUME NEW S \in [Keys -> Nat], NEW T, NEW kind \in Kinds, NEW call, NEW i,
           Effect(S, T, kind, call, i), CallFits(kind, call, i), CallSafe(S, kind, call, i),
           NEW k \in UserKeys, S[k] # 0, T[k] # S[k]
    PROVE  T[k] = 0
<1>1. k \in Keys /\ i.src \in Keys
  BY KeysAssumption DEF CallFits
<1>2. CASE call = "copy" /\ S[i.src] # 0 /\ i.src # i.dest /\ T = [S EXCEPT ![i.dest] = S[i.src]]
  <2>1. i.dest \in Keys /\ kind # "purge"
    BY <1>2 DEF CallFits
  <2>2. k = i.dest
    BY <1>1, <1>2, <2>1
  <2>3. kind \in {"copy", "move"}
    BY <2>1, <2>2 DEF CallFits, Kinds
  <2>4. S[i.dest] = S[i.src]
    BY <1>2, <2>2, <2>3 DEF CallSafe
  <2> QED
    BY <1>1, <1>2, <2>1, <2>2, <2>4
<1>3. CASE call = "delete" /\ T = [S EXCEPT ![i.src] = 0]
  BY <1>1, <1>3
<1> QED
  BY <1>2, <1>3 DEF Effect

-----------------------------------------------------------------------------
(* The steps of a goroutine at work.                                       *)
Steps(w) ==
    GetDest(w) \/ RejectIfExists(w) \/ HeadSource(w) \/ CopySource(w) \/ DeleteSource(w) \/ WriteRecord(w)

Others(w) ==
    \A v \in Workers \ {w} :
        /\ job'[v] = job[v] /\ items'[v] = items[v] /\ pc'[v] = pc[v]
        /\ meta'[v] = meta[v] /\ etag'[v] = etag[v]

(* It goes on with its item, with what the call gave it ...                *)
GoesOn(w) ==
    /\ UNCHANGED <<job, items, clash>>
    /\ LET i == Item(w) IN
       \/ /\ pc[w] = "dest" /\ pc'[w] = "reject" /\ s3' = s3
       \/ /\ pc[w] = "reject" /\ pc'[w] = "head" /\ s3' = s3 /\ s3[i.dest] = 0
       \/ /\ pc[w] = "head" /\ pc'[w] = (IF Kind(w) = "purge" THEN "delete" ELSE "copy")
          /\ s3' = s3 /\ s3[i.src] # 0 /\ meta'[w] = s3[i.src]
       \/ /\ pc[w] = "copy" /\ pc'[w] = (IF Kind(w) = "copy" THEN "record" ELSE "delete")
          /\ s3[i.src] # 0 /\ i.src # i.dest /\ s3' = [s3 EXCEPT ![i.dest] = s3[i.src]]
          /\ meta'[w] = meta[w] /\ etag'[w] = s3[i.src]
       \/ /\ pc[w] = "delete" /\ pc'[w] = "record" /\ s3' = [s3 EXCEPT ![i.src] = 0]
          /\ meta'[w] = meta[w] /\ etag'[w] = etag[w]

(* ... turns to the next one, or is free.                                  *)
TurnsTo(w) == StartItem(w, job[w], Tail(items[w])) /\ Len(items[w]) > 1
IsFree(w) == Free(w) /\ UNCHANGED clash

(* The end of an item gives the next one or a free goroutine.              *)
LEMMA FinishedTurns ==
    ASSUME LocalPart, NEW w \in Workers, NEW ok, Finished(w, ok)
    PROVE  Others(w) /\ (TurnsTo(w) \/ IsFree(w))
<1> USE DEF LocalPart, LocalOK
<1>1. CASE Len(items[w]) > 1
  <2>1. /\ TurnsTo(w)
        /\ meta' = [meta EXCEPT ![w] = 0] /\ etag' = [etag EXCEPT ![w] = 0]
    BY <1>1 DEF Finished, TurnsTo
  <2> QED
    BY <2>1 DEF TurnsTo, StartItem, Others
<1>2. CASE ~(Len(items[w]) > 1)
  BY <1>2 DEF Finished, Free, Others, IsFree
<1> QED
  BY <1>1, <1>2

(* What a step of a handler may do to S3, and where it leaves the handler. *)
LEMMA WorkerStep ==
    ASSUME Typed, NEW w \in Workers, Steps(w)
    PROVE  /\ job[w] # NoTask /\ Others(w) /\ UNCHANGED <<late, crashes>>
           /\ Effect(s3, s3', Kind(w), pc[w], Item(w))
           /\ Accounts(s3, s3', dropped, dropped', Kind(w), pc[w], Item(w))
           /\ GoesOn(w) \/ TurnsTo(w) \/ IsFree(w)
<1>0. LocalPart
  BY TypedParts DEF Parts
<1>1. /\ job[w] # NoTask /\ UNCHANGED <<late, crashes>>
  BY <1>0 DEF Steps, GetDest, RejectIfExists, HeadSource, CopySource, DeleteSource, WriteRecord, LocalPart
<1>2. /\ pc \in [Workers -> Labels \cup {"idle"}]
      /\ meta \in [Workers -> Nat] /\ etag \in [Workers -> Nat]
  BY <1>0 DEF LocalPart, LocalOK
<1>3. CASE GetDest(w)
  <2>1. pc[w] = "dest" /\ UNCHANGED <<s3, dropped>>
    BY <1>3 DEF GetDest, store
  <2>2. CASE Call(w, "reject") /\ UNCHANGED <<job, items, meta, etag, clash>>
    BY <1>1, <1>2, <2>1, <2>2 DEF Call, Others, GoesOn, Effect, Accounts
  <2>3. CASE Finished(w, FALSE)
    BY <1>0, <1>1, <2>1, <2>3, FinishedTurns DEF Effect, Accounts
  <2>4. CASE Free(w) /\ UNCHANGED clash
    BY <1>0, <1>1, <2>1, <2>4 DEF Free, Others, IsFree, Effect, Accounts, LocalPart, LocalOK
  <2> QED
    BY <1>3, <2>2, <2>3, <2>4 DEF GetDest
<1>4. CASE RejectIfExists(w)
  <2>1. pc[w] = "reject" /\ UNCHANGED <<s3, dropped>>
    BY <1>4 DEF RejectIfExists, store
  <2>2. CASE s3[Item(w).dest] = 0 /\ Call(w, "head") /\ UNCHANGED <<job, items, meta, etag, clash>>
    BY <1>1, <1>2, <2>1, <2>2 DEF Call, Others, GoesOn, Effect, Accounts
  <2>3. CASE Finished(w, FALSE)
    BY <1>0, <1>1, <2>1, <2>3, FinishedTurns DEF Effect, Accounts
  <2> QED
    BY <1>4, <2>2, <2>3 DEF RejectIfExists
<1>5. CASE HeadSource(w)
  <2>1. pc[w] = "head" /\ UNCHANGED <<s3, dropped>>
    BY <1>5 DEF HeadSource, store
  <2>2. CASE /\ s3[Item(w).src] # 0 /\ meta' = [meta EXCEPT ![w] = s3[Item(w).src]]
             /\ Call(w, IF Kind(w) = "purge" THEN "delete" ELSE "copy")
             /\ UNCHANGED <<job, items, etag, clash>>
    BY <1>1, <1>2, <2>1, <2>2 DEF Call, Others, GoesOn, Effect, Accounts
  <2>3. CASE Finished(w, FALSE)
    BY <1>0, <1>1, <2>1, <2>3, FinishedTurns DEF Effect, Accounts
  <2> QED
    BY <1>5, <2>2, <2>3 DEF HeadSource
<1>6. CASE CopySource(w)
  <2> DEFINE from == Item(w).src
             to   == Item(w).dest
  <2>1. pc[w] = "copy" /\ dropped' = Dropped(Kind(w) = "trash", to)
    BY <1>6 DEF CopySource
  <2>2. s3' = s3 \/ (s3[from] # 0 /\ from # to /\ s3' = [s3 EXCEPT ![to] = s3[from]])
    BY <1>6 DEF CopySource, CanCopy, CopyObject
  <2>3. Effect(s3, s3', Kind(w), pc[w], Item(w))
    BY <2>1, <2>2 DEF Effect
  <2>4. Accounts(s3, s3', dropped, dropped', Kind(w), pc[w], Item(w))
    BY <2>1 DEF Accounts, Dropped
  <2>5. CASE /\ CanCopy(from, to) /\ s3' = CopyObject(to, from) /\ etag' = [etag EXCEPT ![w] = s3[from]]
             /\ Call(w, IF Kind(w) = "copy" THEN "record" ELSE "delete")
             /\ UNCHANGED <<job, items, meta, clash>>
    <3>1. Others(w)
      BY <1>2, <2>5 DEF Call, Others
    <3>2. GoesOn(w)
      BY <1>2, <2>1, <2>5 DEF Call, GoesOn, CanCopy, CopyObject
    <3> QED
      BY <1>1, <2>3, <2>4, <3>1, <3>2
  <2>6. CASE Finished(w, FALSE)
    BY <1>0, <1>1, <2>3, <2>4, <2>6, FinishedTurns
  <2> QED
    BY <1>6, <2>5, <2>6 DEF CopySource
<1>7. CASE DeleteSource(w)
  <2>1. pc[w] = "delete" /\ dropped' = Dropped(Kind(w) = "purge", Item(w).src)
    BY <1>7 DEF DeleteSource
  <2>2. s3' = s3 \/ s3' = [s3 EXCEPT ![Item(w).src] = 0]
    BY <1>7 DEF DeleteSource, DeleteObject
  <2>3. Effect(s3, s3', Kind(w), pc[w], Item(w))
    BY <2>1, <2>2 DEF Effect
  <2>4. Accounts(s3, s3', dropped, dropped', Kind(w), pc[w], Item(w))
    BY <2>1 DEF Accounts, Dropped
  <2>5. CASE s3' = DeleteObject(Item(w).src) /\ Call(w, "record") /\ UNCHANGED <<job, items, meta, etag, clash>>
    <3>1. Others(w)
      BY <1>2, <2>5 DEF Call, Others
    <3>2. GoesOn(w)
      BY <1>2, <2>1, <2>5 DEF Call, GoesOn, DeleteObject
    <3> QED
      BY <1>1, <2>3, <2>4, <3>1, <3>2
  <2>6. CASE Finished(w, FALSE)
    BY <1>0, <1>1, <2>3, <2>4, <2>6, FinishedTurns
  <2> QED
    BY <1>7, <2>5, <2>6 DEF DeleteSource
<1>8. CASE WriteRecord(w)
  <2>1. pc[w] = "record" /\ UNCHANGED <<s3, dropped>> /\ \E ok \in BOOLEAN : Finished(w, ok)
    BY <1>8 DEF WriteRecord
  <2> QED
    BY <1>0, <1>1, <2>1, FinishedTurns DEF Effect, Accounts
<1> QED
  BY <1>3, <1>4, <1>5, <1>6, <1>7, <1>8 DEF Steps

-----------------------------------------------------------------------------
(* Without a clash: items in flight stay apart, and their calls safe.      *)
LEMMA ApartStart ==
    ASSUME Apart, NEW w \in Workers, NEW t, NEW rest, StartItem(w, t, rest), ~clash', late' = late,
           items = [v \in Workers |-> items[v]], job = [v \in Workers |-> job[v]]
    PROVE  Apart'
<1>1. /\ \A v \in Workers \ {w} : job[v] # NoTask => ~Interferes(Item(v), Head(rest))
      /\ \A c \in late : ~Interferes(c.item, Head(rest)) \/ c.item = Head(rest)
  BY DEF StartItem
<1>2. /\ items'[w] = rest
      /\ \A v \in Workers \ {w} : job'[v] = job[v] /\ items'[v] = items[v]
  BY DEF StartItem
<1>3. ASSUME NEW u \in Workers, NEW v \in Workers, u # v, job'[u] # NoTask, job'[v] # NoTask
      PROVE  ~Interferes(Head(items'[u]), Head(items'[v]))
  <2>1. CASE u = w
    BY <1>1, <1>2, <1>3, <2>1 DEF Interferes, Item
  <2>2. CASE v = w
    BY <1>1, <1>2, <1>3, <2>2 DEF Item
  <2>3. CASE u # w /\ v # w
    BY <1>2, <1>3, <2>3 DEF Apart, Item
  <2> QED
    BY <2>1, <2>2, <2>3
<1>4. ASSUME NEW v \in Workers, NEW c \in late, job'[v] # NoTask
      PROVE  ~Interferes(c.item, Head(items'[v])) \/ c.item = Head(items'[v])
  <2>1. CASE v = w
    BY <1>1, <1>2, <2>1
  <2>2. CASE v # w
    BY <1>2, <1>4, <2>2 DEF Apart, Item
  <2> QED
    BY <2>1, <2>2
<1> QED
  BY <1>3, <1>4 DEF Apart, Item, Interferes

(* Items in flight stay apart when some are gone.                          *)
LEMMA ApartFewer ==
    ASSUME Apart, late' \subseteq late,
           \A v \in Workers : job'[v] # NoTask => job[v] # NoTask /\ items'[v] = items[v]
    PROVE  Apart'
BY DEF Apart, Item, Interferes

(* A crash makes a late call of the item in hand: the same items are in    *)
(* flight.                                                                 *)
LEMMA ApartCrash ==
    ASSUME Apart, LocalPart, NEW w \in Workers, Crash(w)
    PROVE  Apart'
<1>1. job[w] # NoTask /\ late' \subseteq late \cup {CallOf(w)} /\ CallOf(w).item = Item(w)
  BY DEF Crash, CallOf
<1>2. job' = [job EXCEPT ![w] = NoTask] /\ items' = [items EXCEPT ![w] = <<>>]
  BY DEF Crash, Free
<1>3. \A v \in Workers : job'[v] # NoTask => v # w /\ job[v] # NoTask /\ items'[v] = items[v]
  BY <1>2 DEF LocalPart, LocalOK
<1>4. ASSUME NEW v \in Workers, NEW c \in late', job'[v] # NoTask
      PROVE  ~Interferes(c.item, Item(v)) \/ c.item = Item(v)
  BY <1>1, <1>3, <1>4 DEF Apart
<1>5. ASSUME NEW c \in late', NEW d \in late'
      PROVE  ~Interferes(c.item, d.item) \/ c.item = d.item
  BY <1>1 DEF Apart, Interferes
<1> QED
  BY <1>3, <1>4, <1>5 DEF Apart, Item, Interferes

(* The calls of the others, when a call for j of kind kj takes effect.     *)
LEMMA OthersSafe ==
    ASSUME Typed, Safe, NEW kj, NEW cj, NEW j, CallFits(kj, cj, j), Effect(s3, s3', kj, cj, j)
    PROVE  /\ \A v \in Workers :
                (job[v] # NoTask /\ (~Interferes(Item(v), j) \/ Item(v) = j)) =>
                  /\ CallSafe(s3', Kind(v), pc[v], Item(v))
                  /\ InHand(s3', Kind(v), pc[v], Item(v), meta[v], etag[v])
           /\ \A c \in late : (~Interferes(c.item, j) \/ c.item = j) => CallSafe(s3', c.kind, c.call, c.item)
<1>1. s3 \in [Keys -> Nat] /\ LocalPart
  BY TypedParts DEF StoreOK, Parts
<1>2. ASSUME NEW v \in Workers, job[v] # NoTask, ~Interferes(Item(v), j) \/ Item(v) = j
      PROVE  /\ CallSafe(s3', Kind(v), pc[v], Item(v))
             /\ InHand(s3', Kind(v), pc[v], Item(v), meta[v], etag[v])
  <2>1. /\ CallSafe(s3, Kind(v), pc[v], Item(v)) /\ CallFits(Kind(v), pc[v], Item(v))
        /\ InHand(s3, Kind(v), pc[v], Item(v), meta[v], etag[v])
    BY <1>1, <1>2, AtWork DEF Safe
  <2>2. CallSafe(s3', Kind(v), pc[v], Item(v))
    BY <1>1, <1>2, <2>1, EffectKeepsSafe
  <2>3. InHand(s3', Kind(v), pc[v], Item(v), meta[v], etag[v])
    BY <1>1, <1>2, <2>1, EffectKeepsInHand
  <2> QED
    BY <2>2, <2>3
<1>3. ASSUME NEW c \in late, ~Interferes(c.item, j) \/ c.item = j
      PROVE  CallSafe(s3', c.kind, c.call, c.item)
  <2>1. CallSafe(s3, c.kind, c.call, c.item) /\ CallFits(c.kind, c.call, c.item)
    BY TypedParts DEF Parts, CountPart, LateOK, Safe
  <2> QED
    BY <1>1, <1>3, <2>1, EffectKeepsSafe
<1> QED
  BY <1>2, <1>3

(* An item that begins is safe: nothing is in hand, and only a move onto   *)
(* itself begins without a look at the destination.                        *)
LEMMA FirstCallSafe ==
    ASSUME NEW t \in Tasks, NEW i, NEW S, NEW m, NEW e
    PROVE  /\ CallSafe(S, Payload[t].kind, FirstCall(t, i), i)
           /\ InHand(S, Payload[t].kind, FirstCall(t, i), i, m, e)
BY BatchAssumption DEF FirstCall, CallSafe, InHand

(* The next call for an item is as safe as the last one was.               *)
LEMMA GoesOnSafe ==
    ASSUME Typed, NEW w \in Workers, job[w] # NoTask, GoesOn(w),
           CallSafe(s3, Kind(w), pc[w], Item(w)),
           InHand(s3, Kind(w), pc[w], Item(w), meta[w], etag[w])
    PROVE  /\ CallSafe(s3', Kind(w), pc'[w], Item(w))
           /\ InHand(s3', Kind(w), pc'[w], Item(w), meta'[w], etag'[w])
<1> DEFINE i == Item(w)
           kind == Kind(w)
<1>1. s3 \in [Keys -> Nat] /\ CallFits(kind, pc[w], i)
  BY AtWork, TypedParts DEF Parts, StoreOK
<1>2. i.src \in Keys /\ (pc[w] # "dest" => i.dest \in Keys)
  BY <1>1 DEF CallFits
<1>3. CallSafe(s3, kind, pc[w], i) /\ InHand(s3, kind, pc[w], i, meta[w], etag[w]) /\ GoesOn(w)
  OBVIOUS
<1>4. CASE pc[w] \in {"dest", "reject", "head"}
  BY <1>3, <1>4 DEF GoesOn, CallSafe, InHand
<1>5. CASE pc[w] = "copy"
  <2>1. /\ pc'[w] = (IF Kind(w) = "copy" THEN "record" ELSE "delete")
        /\ s3[i.src] # 0 /\ i.src # i.dest /\ s3' = [s3 EXCEPT ![i.dest] = s3[i.src]]
        /\ meta'[w] = meta[w] /\ etag'[w] = s3[i.src]
    BY <1>3, <1>5 DEF GoesOn
  <2>2. s3'[i.dest] = s3[i.src] /\ s3'[i.src] = s3[i.src]
    BY <1>1, <1>2, <1>5, <2>1
  <2>3. kind # "purge" /\ s3[i.src] = meta[w]
    BY <1>1, <1>3, <1>5, <2>1 DEF CallFits, InHand
  <2> QED
    BY <2>1, <2>2, <2>3 DEF CallSafe, InHand
<1>6. CASE pc[w] = "delete"
  <2>1. /\ pc'[w] = "record" /\ s3' = [s3 EXCEPT ![i.src] = 0]
        /\ meta'[w] = meta[w] /\ etag'[w] = etag[w]
    BY <1>3, <1>6 DEF GoesOn
  <2>2. s3'[i.src] = 0 /\ (kind # "purge" => s3'[i.dest] = s3[i.dest])
    BY <1>1, <1>2, <1>6, <2>1 DEF CallFits
  <2> QED
    BY <1>3, <1>6, <2>1, <2>2 DEF CallSafe, InHand
<1> QED
  BY <1>3, <1>4, <1>5, <1>6 DEF GoesOn

(* A step of a handler keeps everybody safe, unless its next item clashes. *)
LEMMA WorkerSafe ==
    ASSUME Typed, Apart, Safe, NEW w \in Workers, Steps(w), ~clash'
    PROVE  Apart' /\ Safe'
<1>1. /\ job[w] # NoTask /\ Others(w) /\ UNCHANGED <<late, crashes>>
      /\ Effect(s3, s3', Kind(w), pc[w], Item(w))
      /\ GoesOn(w) \/ TurnsTo(w) \/ IsFree(w)
  BY WorkerStep
<1>2. LocalPart
  BY TypedParts DEF Parts
<1>3. job \in [Workers -> Tasks \cup {NoTask}] /\ items = [v \in Workers |-> items[v]] /\ pc = [v \in Workers |-> pc[v]]
  BY <1>2 DEF LocalPart, LocalOK
<1>4. job[w] \in Tasks /\ CallFits(Kind(w), pc[w], Item(w))
  BY <1>1, <1>2, AtWork
<1>5. Apart'
  <2>1. CASE GoesOn(w)
    BY <1>1, <2>1, ApartFewer DEF GoesOn
  <2>2. CASE TurnsTo(w)
    BY <1>1, <1>3, <2>2, ApartStart DEF TurnsTo
  <2>3. CASE IsFree(w)
    <3>1. \A v \in Workers : job'[v] # NoTask => job[v] # NoTask /\ items'[v] = items[v]
      BY <1>3, <2>3 DEF IsFree, Free
    <3> QED
      BY <1>1, <3>1, ApartFewer
  <2> QED
    BY <1>1, <2>1, <2>2, <2>3
<1>6. ASSUME NEW v \in Workers, job'[v] # NoTask
      PROVE  /\ CallSafe(s3', Payload[job'[v]].kind, pc'[v], Head(items'[v]))
             /\ InHand(s3', Payload[job'[v]].kind, pc'[v], Head(items'[v]), meta'[v], etag'[v])
  <2>1. CASE v # w
    <3>1. /\ job'[v] = job[v] /\ items'[v] = items[v] /\ pc'[v] = pc[v]
          /\ meta'[v] = meta[v] /\ etag'[v] = etag[v]
      BY <1>1, <2>1 DEF Others
    <3>2. ~Interferes(Item(v), Item(w))
      BY <1>1, <1>6, <2>1, <3>1 DEF Apart
    <3>3. /\ CallSafe(s3', Kind(v), pc[v], Item(v))
          /\ InHand(s3', Kind(v), pc[v], Item(v), meta[v], etag[v])
      BY <1>1, <1>4, <1>6, <3>1, <3>2, OthersSafe
    <3> QED
      BY <3>1, <3>3 DEF Kind, Item
  <2>2. CASE v = w /\ GoesOn(w)
    <3>1. job'[w] = job[w] /\ items'[w] = items[w]
      BY <2>2 DEF GoesOn
    <3>2. /\ CallSafe(s3, Kind(w), pc[w], Item(w))
          /\ InHand(s3, Kind(w), pc[w], Item(w), meta[w], etag[w])
      BY <1>1 DEF Safe
    <3>3. /\ CallSafe(s3', Kind(w), pc'[w], Item(w))
          /\ InHand(s3', Kind(w), pc'[w], Item(w), meta'[w], etag'[w])
      BY <1>1, <2>2, <3>2, GoesOnSafe
    <3> QED
      BY <2>2, <3>1, <3>3 DEF Kind, Item
  <2>3. CASE v = w /\ TurnsTo(w)
    <3>1. /\ job'[w] = job[w] /\ items'[w] = Tail(items[w])
          /\ pc'[w] = FirstCall(job[w], Head(Tail(items[w])))
      BY <1>3, <2>3 DEF TurnsTo, StartItem
    <3> QED
      BY <1>4, <2>3, <3>1, FirstCallSafe
  <2>4. CASE v = w /\ IsFree(w)
    BY <1>3, <1>6, <2>4 DEF IsFree, Free
  <2> QED
    BY <1>1, <2>1, <2>2, <2>3, <2>4
<1>7. ASSUME NEW c \in late
      PROVE  CallSafe(s3', c.kind, c.call, c.item)
  <2>1. ~Interferes(c.item, Item(w)) \/ c.item = Item(w)
    BY <1>1 DEF Apart
  <2> QED
    BY <1>1, <1>4, <2>1, OthersSafe
<1>8. Safe'
  BY <1>1, <1>6, <1>7 DEF Safe, Kind, Item, CallSafe, InHand
<1> QED
  BY <1>5, <1>8

(* A late call changes S3 as the call of a handler does.                   *)
LEMMA LateEffect ==
    ASSUME NEW c \in late, LateCall(c)
    PROVE  /\ Effect(s3, s3', c.kind, c.call, c.item)
           /\ Accounts(s3, s3', dropped, dropped', c.kind, c.call, c.item)
           /\ late' = late \ {c} /\ UNCHANGED <<job, items, pc, meta, etag, clash, crashes>>
<1>1. late' = late \ {c} /\ UNCHANGED <<job, items, pc, meta, etag, clash, crashes>>
  BY DEF LateCall, localVars
<1>2. CASE UNCHANGED <<s3, dropped>>
  BY <1>1, <1>2 DEF Effect, Accounts
<1>3. CASE /\ c.call = "copy" /\ CanCopy(c.item.src, c.item.dest)
           /\ s3' = CopyObject(c.item.dest, c.item.src)
           /\ dropped' = Dropped(c.kind = "trash", c.item.dest)
  BY <1>1, <1>3 DEF Effect, Accounts, CanCopy, CopyObject, Dropped
<1>4. CASE /\ c.call = "delete" /\ s3' = DeleteObject(c.item.src)
           /\ dropped' = Dropped(c.kind = "purge", c.item.src)
  BY <1>1, <1>4 DEF Effect, Accounts, DeleteObject, Dropped
<1> QED
  BY <1>2, <1>3, <1>4 DEF LateCall

(* A late call keeps everybody safe.                                       *)
LEMMA LateSafe ==
    ASSUME Typed, Apart, Safe, NEW c \in late, LateCall(c)
    PROVE  Apart' /\ Safe'
<1>1. /\ Effect(s3, s3', c.kind, c.call, c.item)
      /\ late' = late \ {c} /\ UNCHANGED <<job, items, pc, meta, etag>>
  BY LateEffect
<1>2. CallFits(c.kind, c.call, c.item)
  BY TypedParts DEF Parts, CountPart, LateOK
<1>3. \A v \in Workers : job[v] # NoTask => ~Interferes(Item(v), c.item) \/ Item(v) = c.item
  BY DEF Apart, Interferes
<1>4. \A d \in late : ~Interferes(d.item, c.item) \/ d.item = c.item
  BY DEF Apart
<1>5. /\ \A v \in Workers : job[v] # NoTask =>
           /\ CallSafe(s3', Kind(v), pc[v], Item(v))
           /\ InHand(s3', Kind(v), pc[v], Item(v), meta[v], etag[v])
      /\ \A d \in late : CallSafe(s3', d.kind, d.call, d.item)
  BY <1>1, <1>2, <1>3, <1>4, OthersSafe
<1>6. Safe'
  BY <1>1, <1>5 DEF Safe, Kind, Item, CallSafe, InHand
<1>7. Apart'
  BY <1>1, ApartFewer
<1> QED
  BY <1>6, <1>7

(* Every step without a clash keeps everybody safe.                        *)
LEMMA SafeStep ==
    ASSUME Typed, Apart, Safe, [BatchNext]_vars, ~clash'
    PROVE  Apart' /\ Safe'
<1>1. LocalPart
  BY TypedParts DEF Parts
<1>2. job \in [Workers -> Tasks \cup {NoTask}] /\ items = [v \in Workers |-> items[v]] /\ pc = [v \in Workers |-> pc[v]]
      /\ job = [v \in Workers |-> job[v]]
  BY <1>1 DEF LocalPart, LocalOK
<1>3. ASSUME UNCHANGED <<s3, late, localVars>>
      PROVE  Apart' /\ Safe'
  BY <1>3 DEF localVars, Apart, Safe, Kind, Item, Interferes, CallSafe, InHand
<1>4. ASSUME NEW w \in Workers, NEW t \in Tasks, BeginOK(w, t)
      PROVE  Apart' /\ Safe'
  <2>1. UNCHANGED <<s3, late, meta, etag>> /\ job[w] = NoTask
        /\ ((\E todo : StartItem(w, t, todo)) \/ UNCHANGED <<job, items, pc>>)
    BY <1>4 DEF BeginOK, HandOut
  <2>2. CASE UNCHANGED <<job, items, pc>>
    BY <2>1, <2>2 DEF Apart, Safe, Kind, Item, Interferes, CallSafe, InHand
  <2>3. ASSUME NEW todo, StartItem(w, t, todo)
        PROVE  Apart' /\ Safe'
    <3>1. Apart'
      BY <1>2, <2>1, <2>3, ApartStart
    <3>2. job'[w] = t /\ items'[w] = todo /\ pc'[w] = FirstCall(t, Head(todo))
          /\ \A v \in Workers \ {w} : job'[v] = job[v] /\ items'[v] = items[v] /\ pc'[v] = pc[v]
      BY <1>2, <2>3 DEF StartItem
    <3>3. ASSUME NEW v \in Workers, job'[v] # NoTask
          PROVE  /\ CallSafe(s3', Payload[job'[v]].kind, pc'[v], Head(items'[v]))
                 /\ InHand(s3', Payload[job'[v]].kind, pc'[v], Head(items'[v]), meta'[v], etag'[v])
      <4>1. CASE v = w
        BY <3>2, <4>1, FirstCallSafe
      <4>2. CASE v # w
        BY <2>1, <3>2, <3>3, <4>2 DEF Safe, Kind, Item
      <4> QED
        BY <4>1, <4>2
    <3>4. Safe'
      BY <2>1, <3>3 DEF Safe, Kind, Item, CallSafe, InHand
    <3> QED
      BY <3>1, <3>4
  <2> QED
    BY <2>1, <2>2, <2>3
<1>5. ASSUME NEW w \in Workers, NEW t \in Tasks, BeginSkipped(w, t) \/ BeginFailed(w, t)
      PROVE  Apart' /\ Safe'
  BY <1>3, <1>5 DEF BeginSkipped, BeginFailed, store
<1>6. ASSUME NEW w \in Workers, Crash(w)
      PROVE  Apart' /\ Safe'
  <2>1. Apart'
    BY <1>1, <1>6, ApartCrash
  <2>2. /\ s3' = s3 /\ job[w] # NoTask /\ late' \subseteq late \cup {CallOf(w)}
        /\ Free(w)
    BY <1>6 DEF Crash, store
  <2>3. \A v \in Workers : job'[v] # NoTask =>
          job'[v] = job[v] /\ items'[v] = items[v] /\ pc'[v] = pc[v] /\ meta'[v] = meta[v] /\ etag'[v] = etag[v]
    BY <1>1, <2>2 DEF Free, LocalPart, LocalOK
  <2>4. CallSafe(s3, CallOf(w).kind, CallOf(w).call, CallOf(w).item)
    BY <1>1, <2>2, CallOfTyped DEF Safe
  <2>5. \A c \in late' : CallSafe(s3, c.kind, c.call, c.item)
    BY <2>2, <2>4 DEF Safe
  <2>6. ASSUME NEW v \in Workers, job'[v] # NoTask
        PROVE  /\ CallSafe(s3', Payload[job'[v]].kind, pc'[v], Head(items'[v]))
               /\ InHand(s3', Payload[job'[v]].kind, pc'[v], Head(items'[v]), meta'[v], etag'[v])
    BY <2>2, <2>3, <2>6 DEF Safe, Kind, Item
  <2>7. Safe'
    BY <2>2, <2>5, <2>6 DEF Safe, Kind, Item, CallSafe, InHand
  <2> QED
    BY <2>1, <2>7
<1>7. ASSUME NEW w \in Workers, Steps(w)
      PROVE  Apart' /\ Safe'
  BY <1>7, WorkerSafe
<1>8. ASSUME NEW c \in late, LateCall(c)
      PROVE  Apart' /\ Safe'
  BY <1>8, LateSafe
<1>9. CASE UNCHANGED vars
  BY <1>3, <1>9 DEF vars, store, batchVars
<1> QED
  BY <1>4, <1>5, <1>6, <1>7, <1>8, <1>9 DEF BatchNext, Work, Steps

-----------------------------------------------------------------------------
(* What users have stored.                                                 *)
LEMMA NoClashBefore ==
    ASSUME Typed, [BatchNext]_vars, ~clash'
    PROVE  ~clash
<1>1. ASSUME NEW w \in Workers, NEW t \in Tasks, BeginOK(w, t) \/ BeginSkipped(w, t) \/ BeginFailed(w, t)
      PROVE  ~clash
  BY <1>1 DEF BeginOK, BeginSkipped, BeginFailed, StartItem, history
<1>2. ASSUME NEW w \in Workers, Steps(w)
      PROVE  ~clash
  BY <1>2, WorkerStep DEF GoesOn, TurnsTo, IsFree, StartItem
<1>3. ASSUME NEW w \in Workers, Crash(w)
      PROVE  ~clash
  BY <1>3 DEF Crash, history
<1>4. ASSUME NEW c \in late, LateCall(c)
      PROVE  ~clash
  BY <1>4 DEF LateCall
<1>5. CASE UNCHANGED vars
  BY <1>5 DEF vars, batchVars, history
<1> QED
  BY <1>1, <1>2, <1>3, <1>4, <1>5 DEF BatchNext, Work, Steps

(* Every step leaves the objects alone, or is a safe call of an item.      *)
LEMMA StepIsSafeCall ==
    ASSUME Typed, Safe, [BatchNext]_vars
    PROVE  \/ UNCHANGED <<s3, dropped>>
           \/ \E kind \in Kinds : \E call, i :
                /\ Effect(s3, s3', kind, call, i) /\ Accounts(s3, s3', dropped, dropped', kind, call, i)
                /\ CallFits(kind, call, i) /\ CallSafe(s3, kind, call, i)
<1>1. ASSUME NEW w \in Workers, NEW t \in Tasks, BeginOK(w, t) \/ BeginSkipped(w, t) \/ BeginFailed(w, t)
      PROVE  UNCHANGED <<s3, dropped>>
  BY <1>1 DEF BeginOK, BeginSkipped, BeginFailed, history, store
<1>2. ASSUME NEW w \in Workers, Crash(w)
      PROVE  UNCHANGED <<s3, dropped>>
  BY <1>2 DEF Crash, history, store
<1>3. CASE UNCHANGED vars
  BY <1>3 DEF vars, batchVars, history, store
<1>4. ASSUME NEW w \in Workers, Steps(w)
      PROVE  \E kind \in Kinds : \E call, i :
                /\ Effect(s3, s3', kind, call, i) /\ Accounts(s3, s3', dropped, dropped', kind, call, i)
                /\ CallFits(kind, call, i) /\ CallSafe(s3, kind, call, i)
  <2>1. /\ job[w] # NoTask /\ Effect(s3, s3', Kind(w), pc[w], Item(w))
        /\ Accounts(s3, s3', dropped, dropped', Kind(w), pc[w], Item(w))
    BY <1>4, WorkerStep
  <2>2. Kind(w) \in Kinds /\ CallFits(Kind(w), pc[w], Item(w)) /\ CallSafe(s3, Kind(w), pc[w], Item(w))
    BY <2>1, AtWork, TypedParts DEF Parts, Safe
  <2> QED
    BY <2>1, <2>2
<1>5. ASSUME NEW c \in late, LateCall(c)
      PROVE  \E kind \in Kinds : \E call, i :
                /\ Effect(s3, s3', kind, call, i) /\ Accounts(s3, s3', dropped, dropped', kind, call, i)
                /\ CallFits(kind, call, i) /\ CallSafe(s3, kind, call, i)
  <2>1. /\ Effect(s3, s3', c.kind, c.call, c.item)
        /\ Accounts(s3, s3', dropped, dropped', c.kind, c.call, c.item)
    BY <1>5, LateEffect
  <2>2. c.kind \in Kinds /\ CallFits(c.kind, c.call, c.item) /\ CallSafe(s3, c.kind, c.call, c.item)
    BY TypedParts DEF Parts, CountPart, LateOK, Safe, Kinds
  <2> QED
    BY <2>1, <2>2
<1> QED
  BY <1>1, <1>2, <1>3, <1>4, <1>5 DEF BatchNext, Work, Steps

(* No step loses content unless items clash.                               *)
LEMMA ContentStep ==
    ASSUME Typed, ~clash => Safe, ContentSurvives, [BatchNext]_vars
    PROVE  ContentSurvives'
<1> SUFFICES ASSUME ~clash', NEW k \in UserKeys, InitS3[k] # 0
             PROVE  InitS3[k] \in dropped' \cup {s3'[j] : j \in Keys}
  BY DEF ContentSurvives
<1>1. ~clash
  BY NoClashBefore
<1>2. InitS3[k] \in dropped \cup {s3[j] : j \in Keys}
  BY <1>1 DEF ContentSurvives
<1>3. s3 \in [Keys -> Nat]
  BY TypedParts DEF StoreOK
<1>4. CASE UNCHANGED <<s3, dropped>>
  BY <1>2, <1>4
<1>5. ASSUME NEW kind \in Kinds, NEW call, NEW i,
             Effect(s3, s3', kind, call, i), Accounts(s3, s3', dropped, dropped', kind, call, i),
             CallFits(kind, call, i), CallSafe(s3, kind, call, i)
      PROVE  InitS3[k] \in dropped' \cup {s3'[j] : j \in Keys}
  BY <1>2, <1>3, <1>5, EffectKeepsContent
<1> QED
  BY <1>1, <1>4, <1>5, StepIsSafeCall

(* No step replaces an object of a user unless items clash.                *)
LEMMA NoOverwriteStep ==
    ASSUME Typed, ~clash => Safe, [BatchNext]_vars
    PROVE  \A k \in UserKeys : s3[k] # 0 /\ s3'[k] # s3[k] => s3'[k] = 0 \/ clash
<1> SUFFICES ASSUME ~clash, NEW k \in UserKeys, s3[k] # 0, s3'[k] # s3[k]
             PROVE  s3'[k] = 0
  OBVIOUS
<1>1. s3 \in [Keys -> Nat]
  BY TypedParts DEF StoreOK
<1>2. ASSUME NEW kind \in Kinds, NEW call, NEW i,
             Effect(s3, s3', kind, call, i), CallFits(kind, call, i), CallSafe(s3, kind, call, i)
      PROVE  s3'[k] = 0
  BY <1>1, <1>2, EffectReplacesNothing
<1> QED
  BY <1>2, StepIsSafeCall

(* At the start nobody is in flight and the records agree.                 *)
LEMMA SafeInit == Init => Apart /\ Safe /\ ContentSurvives /\ RecordsFollow
<1> SUFFICES ASSUME Init
             PROVE  Apart /\ Safe /\ ContentSurvives /\ RecordsFollow
  OBVIOUS
<1> USE DEF Init, BatchInit, StoreInit
<1>1. Apart /\ Safe
  BY DEF Apart, Safe
<1>2. ContentSurvives
  BY KeysAssumption DEF ContentSurvives
<1>3. RecordsFollow
  BY KeysAssumption DEF RecordsFollow, Agrees, Row, NoRow
<1> QED
  BY <1>1, <1>2, <1>3

(* What is kept while no two items in flight write each other's keys.      *)
SafeInv == Typed /\ (~clash => Apart /\ Safe)

(* The invariant behind the safety of contents.                            *)
LEMMA SafeInvHolds == BatchSpec => []SafeInv
<1>1. Init => SafeInv
  BY TypedInit, SafeInit DEF SafeInv
<1>2. SafeInv /\ [BatchNext]_vars => SafeInv'
  <2> SUFFICES ASSUME SafeInv, [BatchNext]_vars
               PROVE  SafeInv'
    OBVIOUS
  <2>1. Typed'
    BY TypedStep DEF SafeInv
  <2>2. ~clash' => Apart' /\ Safe'
    BY NoClashBefore, SafeStep DEF SafeInv
  <2> QED
    BY <2>1, <2>2 DEF SafeInv
<1> QED
  BY <1>1, <1>2, PTL DEF BatchSpec

(* Content that users have stored survives every crash, retry, late call   *)
(* and failing call of moves, copies and deletes, for any number of them,  *)
(* unless it was asked to go: rejectIfExists and the order of copy and     *)
(* delete see to it that a copy replaces nothing and that what is deleted  *)
(* has been copied.                                                        *)
THEOREM BatchContentSurvives == BatchSpec => []ContentSurvives
<1>1. Init => ContentSurvives
  BY SafeInit
<1>2. SafeInv /\ ContentSurvives /\ [BatchNext]_vars => ContentSurvives'
  BY ContentStep DEF SafeInv
<1> QED
  BY <1>1, <1>2, SafeInvHolds, PTL DEF BatchSpec

(* No copy or move replaces an object of a user, unless two items in       *)
(* flight write the same key.                                              *)
THEOREM BatchNoOverwrite == BatchSpec => NoOverwrite
<1>1. SafeInv /\ [BatchNext]_vars =>
        [\A k \in UserKeys : s3[k] # 0 /\ s3'[k] # s3[k] => s3'[k] = 0 \/ clash]_vars
  BY NoOverwriteStep DEF SafeInv
<1> QED
  BY <1>1, SafeInvHolds, PTL DEF BatchSpec, NoOverwrite

-----------------------------------------------------------------------------
(* The records follow the objects.                                         *)
LEMMA UnrecordedStays ==
    ASSUME NEW w \in Workers, Others(w), NEW v \in Workers \ {w}, NEW k, Unrecorded(v, k)
    PROVE  Unrecorded(v, k)'
BY DEF Others, Unrecorded, Kind, Item

(* The calls of w that report no error.                                    *)
LEMMA QuietStep ==
    ASSUME Typed, NEW w \in Workers, Steps(w), ~Fault
    PROVE  \/ UNCHANGED <<s3, rec>> /\ pc[w] \notin {"delete", "record"}
           \/ /\ pc[w] = "copy" /\ rec' = rec /\ GoesOn(w)
           \/ /\ pc[w] = "delete" /\ rec' = rec /\ GoesOn(w)
           \/ pc[w] = "record" /\ s3' = s3 /\ rec' = NewRecords(CallOf(w))
<1>1. CASE GetDest(w) \/ RejectIfExists(w) \/ HeadSource(w)
  BY <1>1 DEF GetDest, RejectIfExists, HeadSource, store
<1>2. pc = [v \in Workers |-> pc[v]] /\ etag = [v \in Workers |-> etag[v]]
  BY TypedParts DEF Parts, LocalPart, LocalOK
<1>3. CASE CopySource(w)
  <2>1. pc[w] = "copy" /\ rec' = rec
    BY <1>3 DEF CopySource
  <2>2. CASE /\ CanCopy(Item(w).src, Item(w).dest) /\ s3' = CopyObject(Item(w).dest, Item(w).src)
             /\ etag' = [etag EXCEPT ![w] = s3[Item(w).src]]
             /\ Call(w, IF Kind(w) = "copy" THEN "record" ELSE "delete")
             /\ UNCHANGED <<job, items, meta, clash>>
    BY <1>2, <2>1, <2>2 DEF GoesOn, Call, CanCopy, CopyObject
  <2>3. CASE s3' = s3
    BY <2>1, <2>3
  <2> QED
    BY <1>3, <2>2, <2>3 DEF CopySource
<1>4. CASE DeleteSource(w)
  <2>1. /\ pc[w] = "delete" /\ rec' = rec /\ s3' = DeleteObject(Item(w).src) /\ Call(w, "record")
        /\ UNCHANGED <<job, items, meta, etag, clash>>
    BY <1>4 DEF DeleteSource
  <2> QED
    BY <1>2, <2>1 DEF GoesOn, Call, DeleteObject
<1>5. CASE WriteRecord(w)
  BY <1>5 DEF WriteRecord
<1> QED
  BY <1>1, <1>3, <1>4, <1>5 DEF Steps

(* What the last call writes describes what is in S3.                      *)
LEMMA RecordsWritten ==
    ASSUME Typed, Safe, NEW w \in Workers, job[w] # NoTask, pc[w] = "record"
    PROVE  LET R == NewRecords(CallOf(w))
               i == Item(w)
           IN  /\ Kind(w) # "purge" => R[i.dest].etag = s3[i.dest] /\ R[i.dest].size = s3[i.dest] /\ s3[i.dest] # 0
               /\ Kind(w) # "copy" => s3[i.src] = 0 /\ R[i.src] = NoRow
               /\ \A k \in Keys : \/ R[k] = rec[k]
                                  \/ k = i.dest /\ Kind(w) # "purge"
                                  \/ k = i.src /\ Kind(w) # "copy"
<1> DEFINE i == Item(w)
           m == meta[w]
           e == etag[w]
<1>1. Kind(w) \in Kinds /\ CallFits(Kind(w), "record", i)
  BY AtWork, TypedParts DEF Parts
<1>2. i.src \in Keys /\ i.dest \in Keys /\ (Kind(w) # "purge" => i.src # i.dest)
  BY <1>1 DEF CallFits
<1>3. InHand(s3, Kind(w), "record", i, m, e)
  BY DEF Safe
<1>4. /\ Kind(w) # "purge" => m # 0 /\ s3[i.dest] = m /\ e = m
      /\ Kind(w) # "copy" => s3[i.src] = 0
  BY <1>3 DEF InHand
<1>5. rec \in [Keys -> Rows]
  BY TypedParts DEF StoreOK
<1>6. CASE Kind(w) = "purge"
  <2>1. NewRecords(CallOf(w)) = [rec EXCEPT ![i.src] = NoRow]
    BY <1>6 DEF NewRecords, CallOf, DeleteRow
  <2> QED
    BY <1>2, <1>4, <1>5, <1>6, <2>1
<1>7. CASE Kind(w) \in {"trash", "move"}
  <2>1. NewRecords(CallOf(w)) = [[rec EXCEPT ![i.src] = NoRow] EXCEPT ![i.dest] = Row(m, m, at[w])]
    BY <1>4, <1>7 DEF NewRecords, CallOf, MoveKey
  <2>2. Row(m, m, at[w]).etag = m /\ Row(m, m, at[w]).size = m
    BY DEF Row
  <2> QED
    BY <1>2, <1>4, <1>5, <1>7, <2>1, <2>2
<1>8. CASE Kind(w) = "copy"
  <2>1. NewRecords(CallOf(w)) = [rec EXCEPT ![i.dest] = Row(m, m, at[w])]
    BY <1>4, <1>8 DEF NewRecords, CallOf, Upsert
  <2>2. Row(m, m, at[w]).etag = m /\ Row(m, m, at[w]).size = m
    BY DEF Row
  <2> QED
    BY <1>2, <1>4, <1>5, <1>8, <2>1, <2>2
<1> QED
  BY <1>1, <1>6, <1>7, <1>8 DEF Kinds

(* Without a fault a key that S3 and the records disagree on is in the     *)
(* hand of a handler that is about to record it.                           *)
LEMMA RecordsQuiet ==
    ASSUME Typed, Safe, NEW w \in Workers, Steps(w), ~Fault, NEW k \in Keys,
           Agrees(k) \/ \E v \in Workers : Unrecorded(v, k)
    PROVE  Agrees(k)' \/ \E v \in Workers : Unrecorded(v, k)'
<1> DEFINE i == Item(w)
<1>1. job[w] # NoTask /\ Others(w)
  BY WorkerStep
<1>2. Kind(w) \in Kinds /\ CallFits(Kind(w), pc[w], i)
  BY <1>1, AtWork, TypedParts DEF Parts
<1>3. s3 \in [Keys -> Nat]
  BY TypedParts DEF StoreOK
<1>4. CASE \E v \in Workers \ {w} : Unrecorded(v, k)
  BY <1>1, <1>4, UnrecordedStays
<1>5. CASE Agrees(k) \/ Unrecorded(w, k)
  <2>1. CASE UNCHANGED <<s3, rec>> /\ pc[w] \notin {"delete", "record"}
    BY <1>5, <2>1 DEF Agrees, Unrecorded
  <2>2. CASE pc[w] = "copy" /\ rec' = rec /\ GoesOn(w)
    <3>1. /\ pc'[w] = (IF Kind(w) = "copy" THEN "record" ELSE "delete")
          /\ s3' = [s3 EXCEPT ![i.dest] = s3[i.src]] /\ job'[w] = job[w] /\ items'[w] = items[w]
      BY <2>2 DEF GoesOn
    <3>2. CASE k = i.dest
      <4>1. Kind(w) # "purge"
        BY <1>2, <2>2 DEF CallFits
      <4>2. Unrecorded(w, k)'
        BY <1>1, <3>1, <3>2, <4>1 DEF Unrecorded, Kind, Item
      <4> QED
        BY <4>2
    <3>3. CASE k # i.dest
      <4>1. s3'[k] = s3[k] /\ Agrees(k)
        BY <1>3, <1>5, <2>2, <3>1, <3>3 DEF Unrecorded
      <4> QED
        BY <2>2, <4>1 DEF Agrees
    <3> QED
      BY <3>2, <3>3
  <2>3. CASE pc[w] = "delete" /\ rec' = rec /\ GoesOn(w)
    <3>1. /\ pc'[w] = "record"
          /\ s3' = [s3 EXCEPT ![i.src] = 0] /\ job'[w] = job[w] /\ items'[w] = items[w]
      BY <2>3 DEF GoesOn
    <3>2. CASE k = i.src \/ (k = i.dest /\ Kind(w) # "purge")
      <4>1. Kind(w) # "copy"
        BY <1>2, <2>3 DEF CallFits
      <4>2. Unrecorded(w, k)'
        BY <1>1, <3>1, <3>2, <4>1 DEF Unrecorded, Kind, Item
      <4> QED
        BY <4>2
    <3>3. CASE ~(k = i.src \/ (k = i.dest /\ Kind(w) # "purge"))
      <4>1. s3'[k] = s3[k] /\ Agrees(k)
        BY <1>3, <1>5, <2>3, <3>1, <3>3 DEF Unrecorded
      <4> QED
        BY <2>3, <4>1 DEF Agrees
    <3> QED
      BY <3>2, <3>3
  <2>4. CASE pc[w] = "record" /\ s3' = s3 /\ rec' = NewRecords(CallOf(w))
    <3>1. /\ Kind(w) # "purge" => rec'[i.dest].etag = s3[i.dest] /\ rec'[i.dest].size = s3[i.dest]
          /\ Kind(w) # "copy" => s3[i.src] = 0 /\ rec'[i.src] = NoRow
          /\ rec'[k] = rec[k] \/ (k = i.dest /\ Kind(w) # "purge") \/ (k = i.src /\ Kind(w) # "copy")
      BY <1>1, <2>4, RecordsWritten
    <3>2. CASE k = i.dest /\ Kind(w) # "purge"
      BY <2>4, <3>1, <3>2 DEF Agrees
    <3>3. CASE k = i.src /\ Kind(w) # "copy"
      BY <2>4, <3>1, <3>3 DEF Agrees, NoRow, Row
    <3>4. CASE ~(k = i.dest /\ Kind(w) # "purge") /\ ~(k = i.src /\ Kind(w) # "copy")
      BY <1>5, <2>4, <3>1, <3>4 DEF Agrees, Unrecorded
    <3> QED
      BY <3>2, <3>3, <3>4
  <2> QED
    BY <2>1, <2>2, <2>3, <2>4, QuietStep
<1> QED
  BY <1>4, <1>5

(* The same for every step.                                                *)
LEMMA RecordsStep ==
    ASSUME Typed, Safe, RecordsFollow, [BatchNext]_vars
    PROVE  RecordsFollow'
<1> SUFFICES ASSUME crashes' = 0, faults' = 0, NEW k \in Keys
             PROVE  Agrees(k)' \/ \E v \in Workers : Unrecorded(v, k)'
  BY DEF RecordsFollow
<1>1. ~Fault
  BY FaultCounts, TypedParts DEF Parts, CountPart
<1>2. crashes \in Nat /\ faults \in Nat /\ IsFiniteSet(late) /\ Cardinality(late) <= crashes
  BY TypedParts, BatchAssumption DEF Parts, CountPart, LateOK
<1>3. crashes = 0 => late = {}
  <2>1. Cardinality(late) \in Nat
    BY <1>2, FS_CardinalityType
  <2>2. crashes = 0 => Cardinality(late) = 0
    BY <1>2, <2>1
  <2> QED
    BY <1>2, <2>2, FS_EmptySet
<1>4. ASSUME NEW w \in Workers, NEW t \in Tasks, BeginOK(w, t)
      PROVE  Agrees(k)' \/ \E v \in Workers : Unrecorded(v, k)'
  <2>1. UNCHANGED <<s3, rec, crashes, faults>> /\ job[w] = NoTask
        /\ ((\E todo : StartItem(w, t, todo)) \/ UNCHANGED <<job, items, pc>>)
    BY <1>1, <1>4 DEF BeginOK, HandOut
  <2>2. Agrees(k) \/ \E v \in Workers : Unrecorded(v, k)
    BY <2>1 DEF RecordsFollow
  <2>3. CASE Agrees(k)
    BY <2>1, <2>3 DEF Agrees
  <2>4. ASSUME NEW v \in Workers, Unrecorded(v, k)
        PROVE  Unrecorded(v, k)'
    <3>1. v # w
      BY <2>1, <2>4 DEF Unrecorded
    <3>2. job'[v] = job[v] /\ items'[v] = items[v] /\ pc'[v] = pc[v]
      BY <2>1, <3>1, TypedParts DEF StartItem, Parts, LocalPart, LocalOK
    <3> QED
      BY <2>4, <3>2 DEF Unrecorded, Kind, Item
  <2> QED
    BY <2>2, <2>3, <2>4
<1>5. ASSUME NEW w \in Workers, Steps(w)
      PROVE  Agrees(k)' \/ \E v \in Workers : Unrecorded(v, k)'
  <2>1. crashes' = crashes /\ faults' = faults
    <3>1. crashes' = crashes
      BY <1>5, WorkerStep
    <3>2. faults' = faults
      BY <1>1, <1>5 DEF Steps, GetDest, RejectIfExists, HeadSource, CopySource, DeleteSource, WriteRecord
    <3> QED
      BY <3>1, <3>2
  <2>2. Agrees(k) \/ \E v \in Workers : Unrecorded(v, k)
    BY <2>1 DEF RecordsFollow
  <2> QED
    BY <1>1, <1>5, <2>2, RecordsQuiet
<1>6. ASSUME NEW w \in Workers, NEW t \in Tasks, BeginSkipped(w, t) \/ BeginFailed(w, t)
      PROVE  FALSE
  BY <1>1, <1>6 DEF BeginSkipped, BeginFailed
<1>7. ASSUME NEW w \in Workers, Crash(w)
      PROVE  FALSE
  BY <1>2, <1>7 DEF Crash
<1>8. ASSUME NEW c \in late, LateCall(c)
      PROVE  FALSE
  <2>1. crashes' = crashes
    BY <1>8, LateEffect
  <2> QED
    BY <1>3, <1>8, <2>1
<1>9. CASE UNCHANGED vars
  BY <1>9 DEF vars, store, batchVars, localVars, RecordsFollow, Agrees, Unrecorded, Kind, Item
<1> QED
  BY <1>4, <1>5, <1>6, <1>7, <1>8, <1>9 DEF BatchNext, Work, Steps

(* When no call has failed and no handler has died, the records agree with *)
(* S3 whenever no handler is at work: what disagrees in between is in the  *)
(* hands of a handler that is about to record it.                          *)
THEOREM BatchRecordsAgree == BatchSpec => []RecordsAgree
<1> DEFINE I == ~clash => RecordsFollow
<1>1. Init => I
  BY SafeInit
<1>2. SafeInv /\ I /\ [BatchNext]_vars => I'
  BY NoClashBefore, RecordsStep DEF SafeInv
<1>3. I => RecordsAgree
  BY DEF RecordsFollow, RecordsAgree, Unrecorded
<1> QED
  BY <1>1, <1>2, <1>3, SafeInvHolds, PTL DEF BatchSpec

-----------------------------------------------------------------------------
(* What is audited as a success.                                           *)
LEMMA AuditAdds ==
    ASSUME NEW t, NEW these, NEW ok, Audit(t, these, ok), NEW e \in audit' \ audit
    PROVE  e.task = t /\ e.ok = ok
BY DEF Audit, Entry

(* An entry says success only when the records were written in the same    *)
(* step.                                                                   *)
LEMMA OnlyWritesSucceed ==
    ASSUME Typed, [BatchNext]_vars, NEW e \in audit' \ audit, e.ok = TRUE
    PROVE  \E v \in Workers : /\ job[v] # NoTask /\ e.task = job[v]
                              /\ pc[v] = "record" /\ rec' = NewRecords(CallOf(v)) /\ s3' = s3
<1>1. ASSUME NEW v \in Workers, Finished(v, FALSE)
      PROVE  FALSE
  BY <1>1, AuditAdds DEF Finished
<1>2. ASSUME NEW v \in Workers, NEW t \in Tasks, BeginOK(v, t)
      PROVE  FALSE
  <2>1. \E bad : Audit(t, bad, FALSE)
    BY <1>2 DEF BeginOK
  <2> QED
    BY <2>1, AuditAdds
<1>3. ASSUME NEW v \in Workers, WriteRecord(v)
      PROVE  /\ job[v] # NoTask /\ e.task = job[v]
             /\ pc[v] = "record" /\ rec' = NewRecords(CallOf(v)) /\ s3' = s3
  <2>1. pc[v] = "record" /\ s3' = s3 /\ rec' = NewRecords(CallOf(v)) /\ Finished(v, TRUE)
    BY <1>1, <1>3 DEF WriteRecord
  <2>2. e.task = job[v]
    BY <2>1, AuditAdds DEF Finished
  <2>3. job[v] # NoTask
    BY <2>1, TypedParts DEF Parts, LocalPart
  <2> QED
    BY <2>1, <2>2, <2>3
<1>4. ASSUME NEW v \in Workers, GetDest(v) \/ RejectIfExists(v) \/ HeadSource(v) \/ CopySource(v) \/ DeleteSource(v)
      PROVE  FALSE
  <2>1. Finished(v, FALSE) \/ audit' = audit
    BY <1>4 DEF GetDest, RejectIfExists, HeadSource, CopySource, DeleteSource
  <2> QED
    BY <1>1, <2>1
<1>5. ASSUME \/ \E v \in Workers, t \in Tasks : BeginSkipped(v, t) \/ BeginFailed(v, t)
             \/ \E v \in Workers : Crash(v)
             \/ \E c \in late : LateCall(c)
             \/ UNCHANGED vars
      PROVE  FALSE
  BY <1>5 DEF BeginSkipped, BeginFailed, Crash, LateCall, vars, batchVars, history
<1> QED
  BY <1>2, <1>3, <1>4, <1>5 DEF BatchNext, Work

(* At the moment an item is audited as a success the objects and the       *)
(* records are what was asked for, whatever the other handlers and the     *)
(* late calls of dead ones have done meanwhile.                            *)
THEOREM BatchSuccessIsReal == BatchSpec => SuccessIsReal
<1> DEFINE P == \A w \in Workers :
                  (job[w] # NoTask /\ ~clash'
                     /\ Entry(job[w], Item(w), TRUE) \in audit' \ audit)
                  => Achieved(w)
<1>1. SafeInv /\ [BatchNext]_vars => [P]_vars
  <2> SUFFICES ASSUME SafeInv, [BatchNext]_vars, NEW w \in Workers, job[w] # NoTask, ~clash',
                      Entry(job[w], Item(w), TRUE) \in audit' \ audit
               PROVE  Achieved(w)
    OBVIOUS
  <2> DEFINE e == Entry(job[w], Item(w), TRUE)
  <2>1. e.ok = TRUE /\ e.task = job[w] /\ e \in audit' \ audit
    BY DEF Entry
  <2> HIDE DEF e
  <2>2. Typed /\ Safe
    BY NoClashBefore DEF SafeInv
  <2>3. PICK v \in Workers : /\ job[v] # NoTask /\ e.task = job[v]
                             /\ pc[v] = "record" /\ rec' = NewRecords(CallOf(v)) /\ s3' = s3
    BY <2>1, <2>2, OnlyWritesSucceed
  <2>4. v = w
    BY <2>1, <2>2, <2>3, TypedParts DEF Parts, QueuePart
  <2> QED
    BY <2>2, <2>3, <2>4, RecordsWritten DEF Achieved
<1> QED
  BY <1>1, SafeInvHolds, PTL DEF BatchSpec, SuccessIsReal

-----------------------------------------------------------------------------
(* Inventory scans beside batches and clients.                             *)

(* What a page of a listing consists of.                                   *)
Objects == [key : Keys, content : Nat \ {0}]

(* The keys, and the order in which a page lists them.                     *)
LEMMA PageFacts ==
    ASSUME StoreOK, NEW after \in Nat, NEW p, p = PageOf(after)
    PROVE  /\ p \in Seq(Objects)
           /\ \A i \in 1 .. Len(p) : p[i].content = s3[p[i].key]
           /\ \A k \in Keys : s3[k] # 0 /\ k > after =>
                 \/ \E i \in 1 .. Len(p) : p[i].key = k
                 \/ Truncated(after) /\ p # <<>> /\ k > p[Len(p)].key
<1> DEFINE S == {k \in Keys : k > after /\ s3[k] # 0}
           ks == Listing(after)
           c == Len(ks)
           n == IF c < PageSize THEN c ELSE PageSize
<1>1. Keys \in SUBSET Nat /\ IsFiniteSet(Keys) /\ PageSize \in Nat /\ PageSize > 0
  BY KeysAssumption, ScanAssumption
<1>2. S \in SUBSET Keys /\ \A k \in S : s3[k] \in Nat \ {0}
  BY DEF StoreOK
<1>3. IsFiniteSet(S) /\ S \in SUBSET Int
  <2>1. IsFiniteSet(S)
    BY <1>1, <1>2, FS_Subset
  <2>2. S \in SUBSET Nat
    BY <1>1, <1>2
  <2> QED
    BY <2>1, <2>2
<1>4. ks = Sorted(S)
  BY DEF Listing
<1>5. \A k \in Keys : s3[k] # 0 /\ k > after => k \in S
  OBVIOUS
<1> HIDE DEF S, ks
<1>6. /\ ks \in Seq(S)
      /\ \A k \in S : \E i \in 1 .. c : ks[i] = k
      /\ \A i, j \in 1 .. c : i < j => ks[i] < ks[j]
  BY <1>3, <1>4, SortedLists
<1>7. c \in Nat /\ \A i \in 1 .. c : ks[i] \in S
  BY <1>6
<1>8. p = [i \in 1 .. n |-> [key |-> ks[i], content |-> s3[ks[i]]]]
  BY DEF PageOf, ks
<1>9. Truncated(after) <=> c > PageSize
  BY DEF Truncated, ks
<1> HIDE DEF c
<1>10. n \in Nat /\ n <= c /\ (n < c => c > PageSize /\ n > 0)
  BY <1>1, <1>7
<1> HIDE DEF n
<1>11. \A i \in 1 .. n : ks[i] \in S /\ ks[i] \in Keys /\ s3[ks[i]] \in Nat \ {0}
  BY <1>2, <1>7, <1>10
<1>12. p \in [1 .. n -> Objects]
  BY <1>8, <1>11 DEF Objects
<1>13. p \in Seq(Objects) /\ Len(p) = n
  BY <1>10, <1>12
<1>14. \A i \in 1 .. n : p[i].key = ks[i] /\ p[i].content = s3[ks[i]]
  BY <1>8
<1>15. ASSUME NEW k \in S
       PROVE  \/ \E i \in 1 .. n : p[i].key = k
              \/ Truncated(after) /\ p # <<>> /\ k > p[n].key
  <2>1. PICK j \in 1 .. c : ks[j] = k
    BY <1>6
  <2>2. CASE j <= n
    <3>1. j \in 1 .. n
      BY <1>7, <1>10, <2>2
    <3> QED
      BY <1>14, <2>1, <3>1
  <2>3. CASE n < j
    <3>1. n \in 1 .. c /\ c > PageSize /\ n # 0
      BY <1>7, <1>10, <2>3
    <3>2. n \in 1 .. n
      BY <1>10, <3>1
    <3>3. ks[n] < k
      BY <1>6, <2>1, <2>3, <3>1
    <3>4. k > p[n].key
      <4>1. k \in Int /\ ks[n] \in Int
        BY <1>3, <1>11, <3>2
      <4> QED
        BY <1>14, <3>2, <3>3, <4>1
    <3>5. p # <<>>
      BY <1>13, <3>1
    <3> QED
      BY <1>9, <3>1, <3>4, <3>5
  <2> QED
    BY <1>7, <1>10, <2>2, <2>3
<1> QED
  BY <1>5, <1>13, <1>14, <1>15


-----------------------------------------------------------------------------
(* The types of the scans, with what TypeOK leaves open of their pages.    *)
Paging ==
    /\ ScanOK
    /\ page \in [Scanners -> Seq(Objects)] /\ more \subseteq Scanners

(* No time that a handler, a late call, a scan or a row of object_records  *)
(* carries is in the future: a scan starts after all of them.              *)
BatchTimes ==
    /\ \A k \in Keys : rec[k].seen <= clock
    /\ \A w \in Workers : at[w] <= clock
    /\ \A c \in late : c.at <= clock

ScanTimes ==
    \A s \in Scanners : spc[s] # "idle" =>
        started[s] > 0 /\ started[s] <= clock /\ clock <= MaxTime

(* What is recorded of the object under k by the scan of s, what it has    *)
(* still to list, and what it has listed and still to record.              *)
Recorded(s, k) == rec[k] = Row(s3[k], s3[k], started[s])
Ahead(s, k) == k > token[s] /\ (spc[s] = "list" \/ (spc[s] = "upsert" /\ s \in more))
OnPage(s, k) == \E i \in 1 .. Len(page[s]) : page[s][i].key = k

(* The progress of a scan, as far as the keys go that nobody else touches. *)
Progress(s) ==
    spc[s] # "idle" => \A k \in Keys \ touched[s] :
        /\ s3[k] = 0 => IF spc[s] = "mark" THEN rec[k] = NoRow ELSE rec[k].seen < started[s]
        /\ s3[k] # 0 => Recorded(s, k) \/ Ahead(s, k) \/ OnPage(s, k)
        /\ \A i \in 1 .. Len(page[s]) : page[s][i].key = k => page[s][i].content = s3[k]

SyncInv ==
    /\ Typed /\ Paging /\ BatchTimes /\ ScanTimes
    /\ \A s \in Scanners : Progress(s)

(* The types that arithmetic needs.                                        *)
LEMMA TimeTypes ==
    ASSUME Typed
    PROVE  /\ clock \in Nat /\ s3 \in [Keys -> Nat] /\ rec \in [Keys -> Rows]
           /\ \A k \in Keys : rec[k].seen \in Nat /\ s3[k] \in Nat /\ k \in Nat \ {0}
           /\ at \in [Workers -> Nat] /\ \A c \in late : c.at \in Nat
<1>1. StoreOK /\ LocalPart /\ CountPart
  BY TypedParts DEF Parts
<1>2. clock \in Nat /\ s3 \in [Keys -> Nat] /\ rec \in [Keys -> Rows]
  BY <1>1 DEF StoreOK
<1>3. \A k \in Keys : rec[k].seen \in Nat /\ s3[k] \in Nat /\ k \in Nat \ {0}
  BY <1>2, KeysAssumption DEF Rows
<1>4. at \in [Workers -> Nat] /\ \A c \in late : c.at \in Nat
  BY <1>1 DEF LocalPart, LocalOK, CountPart, LateOK
<1> QED
  BY <1>2, <1>3, <1>4

(* The records that the last call for an item writes carry its time.       *)
LEMMA RecordsInTime ==
    ASSUME Typed, BatchTimes, NEW c, c.kind \in Kinds, c.at \in Nat, c.at <= clock
    PROVE  \A k \in Keys : NewRecords(c)[k].seen <= clock
<1>1. clock \in Nat /\ rec \in [Keys -> Rows] /\ \A k \in Keys : rec[k].seen <= clock
  BY TimeTypes DEF BatchTimes
<1>2. /\ NoRow.seen <= clock
      /\ Row(c.meta, c.meta, c.at).seen <= clock /\ Row(c.meta, c.etag, c.at).seen <= clock
  BY <1>1 DEF NoRow, Row
<1> HIDE DEF Rows
<1> QED
  BY <1>1, <1>2 DEF NewRecords, DeleteRow, MoveKey, Upsert, Kinds

(* Steps that move neither clock nor records.                              *)
LEMMA TimesFrame ==
    ASSUME Typed, BatchTimes, UNCHANGED clock, late' \subseteq late,
           \A k \in Keys : rec'[k].seen <= clock,
           at' = at \/ \E w \in Workers : at' = [at EXCEPT ![w] = 0]
    PROVE  BatchTimes'
<1>1. \A w \in Workers : at'[w] <= clock
  BY TimeTypes DEF BatchTimes
<1> QED
  BY <1>1 DEF BatchTimes

(* The end of an item: the time stays, or is forgotten.                    *)
LEMMA FinishedTimes ==
    ASSUME NEW w \in Workers, NEW ok, Finished(w, ok)
    PROVE  at' = at \/ at' = [at EXCEPT ![w] = 0]
BY DEF Finished, Free

(* Every step of the batch handlers keeps the times, and moves the clock   *)
(* within its bound.                                                       *)
LEMMA BatchTimesStep ==
    ASSUME Typed, BatchTimes, BatchNext
    PROVE  /\ BatchTimes'
           /\ clock' = clock \/ (clock' = clock + 1 /\ clock' <= MaxClock)
<1>0. LocalPart /\ CountPart
  BY TypedParts DEF Parts
<1>1. ASSUME NEW w \in Workers, NEW t \in Tasks, BeginOK(w, t)
      PROVE  /\ BatchTimes'
             /\ clock' = clock \/ (clock' = clock + 1 /\ clock' <= MaxClock)
  <2>1. PICK now \in {clock, clock + 1} :
           now <= MaxClock /\ clock' = now /\ at' = [at EXCEPT ![w] = now]
    BY <1>1 DEF BeginOK
  <2>2. UNCHANGED <<rec, late>> /\ clock <= clock' /\ clock' \in Nat
    BY <1>1, <2>1, TimeTypes DEF BeginOK
  <2>3. \A k \in Keys : rec'[k].seen <= clock'
    BY <2>2, TimeTypes DEF BatchTimes
  <2>4. \A c \in late' : c.at <= clock'
    BY <2>2, TimeTypes DEF BatchTimes
  <2>5. \A v \in Workers : at'[v] <= clock'
    BY <2>1, <2>2, TimeTypes DEF BatchTimes
  <2> QED
    BY <2>1, <2>3, <2>4, <2>5 DEF BatchTimes
<1>2. ASSUME NEW w \in Workers, NEW t \in Tasks, BeginSkipped(w, t) \/ BeginFailed(w, t)
      PROVE  BatchTimes' /\ UNCHANGED clock
  BY <1>2 DEF BeginSkipped, BeginFailed, store, localVars, BatchTimes
<1>3. ASSUME NEW w \in Workers,
             GetDest(w) \/ RejectIfExists(w) \/ HeadSource(w) \/ CopySource(w) \/ DeleteSource(w)
      PROVE  BatchTimes' /\ UNCHANGED clock
  <2>1. UNCHANGED <<rec, clock, late>>
    BY <1>3 DEF GetDest, RejectIfExists, HeadSource, CopySource, DeleteSource, store
  <2>2. at' = at \/ at' = [at EXCEPT ![w] = 0]
    BY <1>3, FinishedTimes DEF GetDest, RejectIfExists, HeadSource, CopySource, DeleteSource, Free
  <2>3. \A k \in Keys : rec'[k].seen <= clock
    BY <2>1 DEF BatchTimes
  <2> QED
    BY <2>1, <2>2, <2>3, TimesFrame
<1>4. ASSUME NEW w \in Workers, WriteRecord(w)
      PROVE  BatchTimes' /\ UNCHANGED clock
  <2>1. job[w] # NoTask /\ UNCHANGED <<clock, late>> /\ rec' \in {rec, NewRecords(CallOf(w))}
    BY <1>0, <1>4 DEF WriteRecord, LocalPart
  <2>2. CallOf(w).kind \in Kinds /\ CallOf(w).at = at[w] /\ at[w] \in Nat
    BY <1>0, <2>1, CallOfTyped
  <2>3. at[w] <= clock
    BY DEF BatchTimes
  <2>4. \A k \in Keys : NewRecords(CallOf(w))[k].seen <= clock
    BY <2>2, <2>3, RecordsInTime
  <2>5. \A k \in Keys : rec'[k].seen <= clock
    BY <2>1, <2>4 DEF BatchTimes
  <2>6. at' = at \/ at' = [at EXCEPT ![w] = 0]
    BY <1>4, FinishedTimes DEF WriteRecord
  <2> QED
    BY <2>1, <2>5, <2>6, TimesFrame
<1>5. ASSUME NEW w \in Workers, Crash(w)
      PROVE  BatchTimes' /\ UNCHANGED clock
  <2>1. UNCHANGED <<rec, clock>> /\ job[w] # NoTask /\ at' = [at EXCEPT ![w] = 0]
        /\ late' \subseteq late \cup {CallOf(w)}
    BY <1>5 DEF Crash, Free, store
  <2>2. CallOf(w).at <= clock
    BY <1>0, <2>1, CallOfTyped DEF BatchTimes
  <2>3. \A v \in Workers : at'[v] <= clock
    BY <2>1, TimeTypes DEF BatchTimes
  <2> QED
    BY <2>1, <2>2, <2>3 DEF BatchTimes
<1>6. ASSUME NEW c \in late, LateCall(c)
      PROVE  BatchTimes' /\ UNCHANGED clock
  <2>1. UNCHANGED <<clock, at>> /\ late' \subseteq late /\ (rec' = rec \/ rec' = NewRecords(c))
    BY <1>6 DEF LateCall, localVars
  <2>2. c.kind \in Kinds /\ c.at \in Nat /\ c.at <= clock
    BY <1>0 DEF CountPart, LateOK, Kinds, BatchTimes
  <2>3. \A k \in Keys : rec'[k].seen <= clock
    BY <2>1, <2>2, RecordsInTime DEF BatchTimes
  <2> QED
    BY <2>1, <2>3, TimesFrame
<1> QED
  BY <1>1, <1>2, <1>3, <1>4, <1>5, <1>6 DEF BatchNext, Work


-----------------------------------------------------------------------------
(* What others change, a scan finds among the keys they have touched.      *)
LEMMA Bystander ==
    ASSUME NEW s \in Scanners, Progress(s),
           spc'[s] = spc[s], started'[s] = started[s], token'[s] = token[s],
           page'[s] = page[s], s \in more' <=> s \in more,
           spc[s] # "idle" => \A k \in Keys \ touched'[s] :
               k \notin touched[s] /\ s3'[k] = s3[k] /\ rec'[k] = rec[k]
    PROVE  Progress(s)'
BY DEF Progress, Recorded, Ahead, OnPage

(* Touch says so, for every scan but the actor's own.                      *)
LEMMA TouchTells ==
    ASSUME NEW actor, Touch(actor), NEW s \in Scanners, s # actor, spc[s] # "idle",
           NEW k \in Keys \ touched'[s]
    PROVE  k \notin touched[s] /\ s3'[k] = s3[k] /\ rec'[k] = rec[k]
<1>1. touched'[s] = touched[s] \cup {j \in Keys : s3'[j] # s3[j] \/ rec'[j] # rec[j]}
  BY DEF Touch
<1> QED
  BY <1>1

(* Touch leaves alone what the actor itself, or an idle scanner, has.      *)
LEMMA TouchTyped ==
    ASSUME NEW actor, Touch(actor), touched \in [Scanners -> SUBSET Keys]
    PROVE  /\ touched' \in [Scanners -> SUBSET Keys]
           /\ actor \in Scanners => touched'[actor] = touched[actor]
<1>1. ASSUME NEW s \in Scanners PROVE touched'[s] \in SUBSET Keys
  BY DEF Touch
<1>2. touched' = [s \in Scanners |-> touched'[s]]
  BY DEF Touch
<1>3. actor \in Scanners => touched'[actor] = touched[actor]
  BY DEF Touch
<1> QED
  BY <1>1, <1>2, <1>3

(* Batches and clients: the scans are bystanders.                          *)
LEMMA OutsiderStep ==
    ASSUME SyncInv, NEW actor, actor \notin Scanners, Touch(actor),
           UNCHANGED <<scanLocal, scans, aborts, marked>>
    PROVE  Paging' /\ \A s \in Scanners : Progress(s)'
<1>1. touched' \in [Scanners -> SUBSET Keys]
  BY TouchTyped DEF SyncInv, Paging, ScanOK
<1>2. Paging'
  BY <1>1 DEF SyncInv, Paging, ScanOK, scanLocal
<1>3. ASSUME NEW s \in Scanners PROVE Progress(s)'
  <2>1. s # actor
    OBVIOUS
  <2>2. spc[s] # "idle" => \A k \in Keys \ touched'[s] :
           k \notin touched[s] /\ s3'[k] = s3[k] /\ rec'[k] = rec[k]
    BY <2>1, TouchTells
  <2> QED
    BY <2>2, Bystander DEF SyncInv, scanLocal
<1> QED
  BY <1>2, <1>3

(* The other scans, when one of them takes a step on a store it leaves     *)
(* alone.                                                                  *)
LEMMA QuietOthers ==
    ASSUME SyncInv, NEW s \in Scanners, UNCHANGED <<s3, rec>>,
           \A r \in Scanners \ {s} :
               /\ spc'[r] = spc[r] /\ started'[r] = started[r] /\ token'[r] = token[r]
               /\ page'[r] = page[r] /\ touched'[r] = touched[r]
               /\ r \in more' <=> r \in more
    PROVE  \A r \in Scanners \ {s} : Progress(r)'
BY Bystander DEF SyncInv

-----------------------------------------------------------------------------
(* The functions of the scans, and that no page is left when there is      *)
(* nothing to record.                                                      *)
LEMMA ScanFacts ==
    ASSUME SyncInv
    PROVE  /\ spc \in [Scanners -> {"idle", "list", "upsert", "purge", "mark"}]
           /\ started \in [Scanners -> 0 .. MaxTime] /\ started \in [Scanners -> Nat]
           /\ token \in [Scanners -> Keys \cup {0}] /\ token \in [Scanners -> Nat]
           /\ page \in [Scanners -> Seq(Objects)] /\ more \subseteq Scanners
           /\ touched \in [Scanners -> SUBSET Keys]
           /\ \A s \in Scanners : spc[s] # "upsert" => page[s] = <<>>
           /\ Len(<<>>) = 0 /\ MaxTime \in Nat /\ 0 \in 0 .. MaxTime
<1>1. /\ spc \in [Scanners -> {"idle", "list", "upsert", "purge", "mark"}]
      /\ started \in [Scanners -> 0 .. MaxTime]
      /\ token \in [Scanners -> Keys \cup {0}]
      /\ page \in [Scanners -> Seq(Objects)] /\ more \subseteq Scanners
      /\ touched \in [Scanners -> SUBSET Keys]
      /\ \A s \in Scanners : spc[s] # "upsert" => page[s] = <<>>
  BY DEF SyncInv, Paging, ScanOK
<1>2. started \in [Scanners -> Nat]
  BY <1>1
<1>3. token \in [Scanners -> Nat]
  <2>1. Keys \cup {0} \in SUBSET Nat
    BY KeysAssumption
  <2> QED
    BY <1>1, <2>1
<1>4. MaxTime \in Nat /\ 0 \in 0 .. MaxTime
  BY ScanAssumption
<1> QED
  BY <1>1, <1>2, <1>3, <1>4

(* Scans and clients leave the batch handlers alone.                       *)
LEMMA BatchUntouched ==
    ASSUME Typed, BatchTimes, UNCHANGED batchVars, StoreOK', clock <= clock',
           \A k \in Keys : rec'[k].seen <= clock'
    PROVE  Typed' /\ BatchTimes'
<1>1. Typed'
  <2>1. Parts
    BY TypedParts
  <2>2. Parts'
    <3>1. LocalPart'
      BY <2>1 DEF batchVars, localVars, Parts, LocalPart, LocalOK, Kind, Item, CallFits, ItemsFor
    <3>2. QueuePart'
      BY <2>1 DEF batchVars, queueVars, localVars, history, Parts, QueuePart
    <3>3. CountPart'
      BY <2>1 DEF batchVars, history, Parts, CountPart, LateOK, CallFits
    <3> QED
      BY <3>1, <3>2, <3>3 DEF Parts
  <2> QED
    BY <2>2, TypedParts
<1>2. clock' \in Nat /\ UNCHANGED <<at, late>>
  BY DEF StoreOK, batchVars, localVars
<1>3. \A w \in Workers : at'[w] <= clock'
  BY <1>2, TimeTypes DEF BatchTimes
<1>4. \A c \in late' : c.at <= clock'
  BY <1>2, TimeTypes DEF BatchTimes
<1> QED
  BY <1>1, <1>3, <1>4 DEF BatchTimes

(* ScanStart: nothing is recorded, and every key is still to be listed.    *)
LEMMA ScanStartProgress ==
    ASSUME SyncInv, NEW s \in Scanners, ScanStart(s), UNCHANGED batchVars
    PROVE  SyncInv'
<1>1. /\ clock' = clock + 1 /\ clock < MaxTime /\ clock \in Nat
      /\ started' = [started EXCEPT ![s] = clock + 1] /\ token' = [token EXCEPT ![s] = 0]
      /\ touched' = [touched EXCEPT ![s] = {}] /\ spc' = [spc EXCEPT ![s] = "list"]
      /\ UNCHANGED <<s3, rec, page, more, aborts, marked>> /\ spc[s] = "idle"
      /\ scans < MaxScans /\ scans' = scans + 1
  BY TimeTypes DEF ScanStart, Scan, SyncInv
<1>2. clock + 1 \in 0 .. MaxTime
  BY <1>1, ScanFacts
<1>3. Paging'
  <2>1. scans' \in 0 .. MaxScans
    BY <1>1, ScanAssumption DEF SyncInv, Paging, ScanOK
  <2>2. started' \in [Scanners -> 0 .. MaxTime]
    BY <1>1, <1>2, ScanFacts
  <2>3. \A r \in Scanners : spc'[r] = "upsert" <=> page'[r] # <<>>
    BY <1>1, ScanFacts DEF SyncInv, Paging, ScanOK
  <2>4. token' \in [Scanners -> Keys \cup {0}] /\ touched' \in [Scanners -> SUBSET Keys]
        /\ spc' \in [Scanners -> {"idle", "list", "upsert", "purge", "mark"}]
    BY <1>1, ScanFacts
  <2> QED
    BY <1>1, <2>1, <2>2, <2>3, <2>4 DEF SyncInv, Paging, ScanOK
<1>4. Typed' /\ BatchTimes'
  <2>1. StoreOK
    BY DEF SyncInv, Typed, TypeOK
  <2>2. StoreOK' /\ clock <= clock'
    BY <1>1, <2>1 DEF StoreOK
  <2>3. \A k \in Keys : rec'[k].seen <= clock'
    BY <1>1, TimeTypes DEF SyncInv, BatchTimes
  <2> QED
    BY <2>2, <2>3, BatchUntouched DEF SyncInv
<1>5. ScanTimes'
  <2> SUFFICES ASSUME NEW r \in Scanners, spc'[r] # "idle"
               PROVE  started'[r] > 0 /\ started'[r] <= clock' /\ clock' <= MaxTime
    BY DEF ScanTimes
  <2>1. CASE r = s
    BY <1>1, <1>2, <2>1, ScanFacts
  <2>2. CASE r # s
    <3>1. started'[r] = started[r] /\ started[r] \in Nat /\ spc[r] # "idle"
      BY <1>1, <2>2, ScanFacts
    <3>2. started[r] > 0 /\ started[r] <= clock
      BY <3>1 DEF SyncInv, ScanTimes
    <3> QED
      BY <1>1, <1>2, <3>1, <3>2
  <2> QED
    BY <2>1, <2>2
<1>6. Progress(s)'
  <2>1. spc'[s] = "list" /\ token'[s] = 0 /\ started'[s] = clock + 1 /\ page'[s] = <<>>
    BY <1>1, ScanFacts
  <2>2. ASSUME NEW k \in Keys
        PROVE  rec'[k].seen < started'[s] /\ k > token'[s]
    BY <1>1, <2>1, TimeTypes DEF SyncInv, BatchTimes
  <2>3. 1 .. Len(page'[s]) = {}
    BY <2>1
  <2> QED
    BY <2>1, <2>2, <2>3 DEF Progress, Ahead
<1>7. \A r \in Scanners \ {s} : Progress(r)'
  BY <1>1, ScanFacts, QuietOthers
<1> QED
  BY <1>3, <1>4, <1>5, <1>6, <1>7 DEF SyncInv


(* ListPage: what is listed is on the page, what is not stays ahead.       *)
LEMMA ListPageProgress ==
    ASSUME SyncInv, NEW s \in Scanners, ListPage(s), UNCHANGED batchVars
    PROVE  SyncInv'
<1> DEFINE p == PageOf(token[s])
           cut == Truncated(token[s])
           label == AfterList(p)
<1>1. /\ spc[s] = "list" /\ page[s] = <<>>
      /\ page' = [page EXCEPT ![s] = p] /\ spc' = [spc EXCEPT ![s] = label]
      /\ more' = (IF cut THEN more \cup {s} ELSE more \ {s}) /\ token' = NextToken(s, p)
      /\ UNCHANGED <<s3, rec, clock, started, touched, scans, aborts, marked>>
  BY ScanFacts DEF ListPage, Scan, store
<1>2. /\ p \in Seq(Objects)
      /\ \A i \in 1 .. Len(p) : p[i].content = s3[p[i].key]
      /\ \A k \in Keys : s3[k] # 0 /\ k > token[s] =>
            \/ \E i \in 1 .. Len(p) : p[i].key = k
            \/ cut /\ p # <<>> /\ k > p[Len(p)].key
  <2>1. StoreOK /\ token[s] \in Nat
    BY ScanFacts DEF SyncInv, Typed, TypeOK
  <2> QED
    BY <2>1, PageFacts
<1>3. /\ label \in {"upsert", "purge"} /\ (label = "upsert" <=> p # <<>>)
      /\ token' = IF p # <<>> THEN [token EXCEPT ![s] = p[Len(p)].key] ELSE token
  BY <1>1 DEF AfterList, NextToken
<1> HIDE DEF p, cut, label
<1>4. token' \in [Scanners -> Keys \cup {0}]
  <2>1. CASE p = <<>>
    BY <1>3, <2>1, ScanFacts
  <2>2. CASE p # <<>>
    <3>1. Len(p) \in 1 .. Len(p)
      BY <1>2, <2>2
    <3>2. p[Len(p)] \in Objects
      BY <1>2, <3>1
    <3>3. p[Len(p)].key \in Keys
      BY <3>2 DEF Objects
    <3> QED
      BY <1>3, <2>2, <3>3, ScanFacts
  <2> QED
    BY <2>1, <2>2
<1>5. Paging'
  <2>1. /\ spc' \in [Scanners -> {"idle", "list", "upsert", "purge", "mark"}]
        /\ page' \in [Scanners -> Seq(Objects)] /\ more' \subseteq Scanners
    BY <1>1, <1>2, <1>3, ScanFacts
  <2>2. \A r \in Scanners : spc'[r] = "upsert" <=> page'[r] # <<>>
    BY <1>1, <1>3, ScanFacts DEF SyncInv, Paging, ScanOK
  <2> QED
    BY <1>1, <1>4, <2>1, <2>2 DEF SyncInv, Paging, ScanOK
<1>6. Typed' /\ BatchTimes'
  <2>1. StoreOK' /\ clock <= clock'
    BY <1>1, TimeTypes DEF SyncInv, StoreOK
  <2>2. \A k \in Keys : rec'[k].seen <= clock'
    BY <1>1 DEF SyncInv, BatchTimes
  <2> QED
    BY <2>1, <2>2, BatchUntouched DEF SyncInv
<1>7. ScanTimes'
  BY <1>1, ScanFacts DEF SyncInv, ScanTimes
<1>8. Progress(s)'
  <2>1. /\ spc'[s] = label /\ page'[s] = p /\ started'[s] = started[s]
        /\ touched'[s] = touched[s] /\ (s \in more' <=> cut)
    BY <1>1, ScanFacts
  <2> SUFFICES ASSUME NEW k \in Keys \ touched[s]
               PROVE  /\ s3[k] = 0 => rec[k].seen < started[s]
                      /\ s3[k] # 0 => Recorded(s, k)' \/ Ahead(s, k)' \/ OnPage(s, k)'
                      /\ \A i \in 1 .. Len(p) : p[i].key = k => p[i].content = s3[k]
    BY <1>1, <1>3, <2>1 DEF Progress
  <2>2. /\ s3[k] = 0 => rec[k].seen < started[s]
        /\ s3[k] # 0 => Recorded(s, k) \/ Ahead(s, k) \/ OnPage(s, k)
    BY <1>1 DEF SyncInv, Progress
  <2>3. ASSUME s3[k] # 0
        PROVE  Recorded(s, k)' \/ Ahead(s, k)' \/ OnPage(s, k)'
    <3>1. CASE Recorded(s, k)
      BY <1>1, <2>1, <3>1 DEF Recorded
    <3>2. CASE Ahead(s, k)
      <4>1. CASE \E i \in 1 .. Len(p) : p[i].key = k
        BY <2>1, <4>1 DEF OnPage
      <4>2. CASE cut /\ p # <<>> /\ k > p[Len(p)].key
        <5>1. token'[s] = p[Len(p)].key /\ label = "upsert"
          BY <1>3, <4>2, ScanFacts
        <5> QED
          BY <2>1, <4>2, <5>1 DEF Ahead
      <4> QED
        BY <1>2, <2>3, <3>2, <4>1, <4>2 DEF Ahead
    <3>3. CASE OnPage(s, k)
      <4>1. 1 .. Len(page[s]) = {}
        BY <1>1, ScanFacts
      <4> QED
        BY <3>3, <4>1 DEF OnPage
    <3> QED
      BY <2>2, <2>3, <3>1, <3>2, <3>3
  <2> QED
    BY <1>2, <2>2, <2>3
<1>9. \A r \in Scanners \ {s} : Progress(r)'
  <2>1. \A r \in Scanners \ {s} : token'[r] = token[r]
    BY <1>3, ScanFacts
  <2>2. \A r \in Scanners \ {s} : r \in more' <=> r \in more
    BY <1>1
  <2>3. \A r \in Scanners \ {s} : spc'[r] = spc[r] /\ page'[r] = page[r]
    BY <1>1, ScanFacts
  <2> QED
    BY <1>1, <2>1, <2>2, <2>3, QuietOthers
<1> QED
  BY <1>5, <1>6, <1>7, <1>8, <1>9 DEF SyncInv

(* A scan changes records: the others are bystanders, the handlers of      *)
(* batches see nothing of it.                                              *)
LEMMA RecordingStep ==
    ASSUME SyncInv, NEW s \in Scanners, UNCHANGED batchVars, Touch(s),
           UNCHANGED <<s3, clock, started, token, more, scans, aborts, marked>>,
           rec' \in [Keys -> Rows], \A k \in Keys : rec'[k].seen <= clock,
           NEW label \in {"list", "upsert", "purge", "mark"}, spc' = [spc EXCEPT ![s] = label],
           NEW q \in Seq(Objects), page' = [page EXCEPT ![s] = q],
           label = "upsert" <=> q # <<>>, spc[s] # "idle", Progress(s)'
    PROVE  SyncInv'
<1>1. touched' \in [Scanners -> SUBSET Keys]
  BY TouchTyped, ScanFacts
<1>2. Paging'
  <2>1. /\ spc' \in [Scanners -> {"idle", "list", "upsert", "purge", "mark"}]
        /\ page' \in [Scanners -> Seq(Objects)]
    BY ScanFacts
  <2>2. \A r \in Scanners : spc'[r] = "upsert" <=> page'[r] # <<>>
    BY ScanFacts DEF SyncInv, Paging, ScanOK
  <2> QED
    BY <1>1, <2>1, <2>2 DEF SyncInv, Paging, ScanOK
<1>3. Typed' /\ BatchTimes'
  <2>1. StoreOK' /\ clock <= clock'
    BY TimeTypes DEF SyncInv, StoreOK
  <2> QED
    BY <2>1, BatchUntouched DEF SyncInv
<1>4. ScanTimes'
  BY ScanFacts DEF SyncInv, ScanTimes
<1>5. ASSUME NEW r \in Scanners, r # s PROVE Progress(r)'
  <2>1. spc[r] # "idle" => \A k \in Keys \ touched'[r] :
           k \notin touched[r] /\ s3'[k] = s3[k] /\ rec'[k] = rec[k]
    BY <1>5, TouchTells
  <2>2. spc'[r] = spc[r] /\ page'[r] = page[r]
    BY <1>5, ScanFacts
  <2> QED
    BY <2>1, <2>2, Bystander DEF SyncInv
<1> QED
  BY <1>2, <1>3, <1>4, <1>5 DEF SyncInv


(* UpsertNext: the object at the head of the page is recorded as it is,    *)
(* unless somebody has touched it.                                         *)
LEMMA UpsertNextProgress ==
    ASSUME SyncInv, NEW s \in Scanners, UpsertNext(s), UNCHANGED batchVars
    PROVE  SyncInv'
<1> DEFINE p == page[s]
           o == Head(p)
           label == IF Len(p) > 1 THEN "upsert" ELSE AfterPage(s \in more)
<1>1. /\ spc[s] = "upsert" /\ rec' = UpsertSeen(o.key, o.content, started[s])
      /\ page' = [page EXCEPT ![s] = Tail(p)] /\ spc' = [spc EXCEPT ![s] = label]
      /\ UNCHANGED <<s3, clock, started, token, more, scans, aborts, marked>> /\ Touch(s)
  BY ScanFacts DEF UpsertNext, Scan
<1>2. p \in Seq(Objects) /\ p # <<>>
  BY <1>1, ScanFacts DEF SyncInv, Paging, ScanOK
<1>3. /\ Len(p) \in Nat /\ Len(p) > 0 /\ 1 \in 1 .. Len(p) /\ o = p[1] /\ o \in Objects
      /\ Tail(p) \in Seq(Objects) /\ Len(Tail(p)) = Len(p) - 1
      /\ \A i \in 1 .. Len(Tail(p)) : Tail(p)[i] = p[i + 1]
      /\ Tail(p) # <<>> <=> Len(p) > 1
  <2>1. Len(p) \in Nat /\ Len(p) > 0
    BY <1>2
  <2>2. /\ Head(p) \in Objects /\ Tail(p) \in Seq(Objects) /\ Len(Tail(p)) = Len(p) - 1
        /\ \A i \in 1 .. Len(Tail(p)) : Tail(p)[i] = p[i + 1]
    BY <1>2, HeadTailProperties
  <2>3. Head(p) = p[1] /\ 1 \in 1 .. Len(p)
    BY <1>2, <2>1
  <2>4. Tail(p) # <<>> <=> Len(p) > 1
    <3> DEFINE q == Tail(p)
               n == Len(p)
    <3>1. q # <<>> <=> Len(q) # 0
      BY <2>2, EmptySeq
    <3>2. Len(q) = n - 1 /\ n \in Nat /\ n > 0
      BY <2>1, <2>2
    <3> HIDE DEF n, q
    <3>3. q # <<>> <=> n > 1
      BY <3>1, <3>2
    <3> QED
      BY <3>3 DEF n, q
  <2> QED
    BY <2>1, <2>2, <2>3, <2>4
<1>4. o.key \in Keys /\ o.content \in Nat \ {0}
  BY <1>3 DEF Objects
<1>5. /\ label \in {"list", "upsert", "purge"} /\ (label = "upsert" <=> Tail(p) # <<>>)
      /\ s \in more => label \in {"list", "upsert"}
  BY <1>3 DEF AfterPage
<1>6. started[s] \in Nat /\ started[s] <= clock
  BY <1>1, ScanFacts DEF SyncInv, ScanTimes
<1>7. /\ rec' = [rec EXCEPT ![o.key] = Row(o.content, o.content, started[s])]
      /\ rec \in [Keys -> Rows] /\ \A k \in Keys : rec[k].seen <= clock
  BY <1>1, TimeTypes DEF UpsertSeen, SyncInv, BatchTimes
<1> HIDE DEF p, o, label
<1>8. rec' \in [Keys -> Rows] /\ \A k \in Keys : rec'[k].seen <= clock
  <2>1. /\ Row(o.content, o.content, started[s]) \in Rows
        /\ Row(o.content, o.content, started[s]).seen <= clock
    BY <1>4, <1>6 DEF Row, Rows
  <2> HIDE DEF Rows
  <2> QED
    BY <1>4, <1>7, <2>1
<1>9. Progress(s)'
  <2>1. /\ spc'[s] = label /\ page'[s] = Tail(p) /\ started'[s] = started[s]
        /\ token'[s] = token[s] /\ touched'[s] = touched[s]
    BY <1>1, ScanFacts, TouchTyped
  <2>2. p = page[s]
    BY DEF p
  <2> SUFFICES ASSUME NEW k \in Keys \ touched[s]
               PROVE  /\ s3[k] = 0 => rec'[k].seen < started[s]
                      /\ s3[k] # 0 => Recorded(s, k)' \/ Ahead(s, k)' \/ OnPage(s, k)'
                      /\ \A i \in 1 .. Len(Tail(p)) :
                            Tail(p)[i].key = k => Tail(p)[i].content = s3[k]
    <3>1. spc'[s] # "mark" /\ s3' = s3
      BY <1>1, <1>5, <2>1
    <3> QED
      BY <2>1, <3>1 DEF Progress
  <2>3. /\ s3[k] = 0 => rec[k].seen < started[s]
        /\ s3[k] # 0 => Recorded(s, k) \/ Ahead(s, k) \/ OnPage(s, k)
        /\ \A i \in 1 .. Len(p) : p[i].key = k => p[i].content = s3[k]
    BY <1>1, <2>2 DEF SyncInv, Progress
  <2>4. \A i \in 1 .. Len(Tail(p)) : i + 1 \in 1 .. Len(p)
    BY <1>3
  <2>5. \A i \in 1 .. Len(Tail(p)) : Tail(p)[i].key = k => Tail(p)[i].content = s3[k]
    BY <1>3, <2>3, <2>4
  <2>6. CASE k = o.key
    <3>1. s3[k] = o.content /\ s3[k] # 0
      BY <1>3, <1>4, <2>3, <2>6
    <3>2. rec'[k] = Row(s3[k], s3[k], started[s])
      BY <1>4, <1>7, <2>6, <3>1
    <3> QED
      BY <1>1, <2>1, <2>5, <3>1, <3>2 DEF Recorded
  <2>7. CASE k # o.key
    <3>1. rec'[k] = rec[k]
      BY <1>7, <2>7
    <3>2. Recorded(s, k) => Recorded(s, k)'
      BY <1>1, <2>1, <3>1 DEF Recorded
    <3>3. Ahead(s, k) => Ahead(s, k)'
      BY <1>1, <1>5, <2>1 DEF Ahead
    <3>4. OnPage(s, k) => OnPage(s, k)'
      <4>1. SUFFICES ASSUME NEW i \in 1 .. Len(p), p[i].key = k
                     PROVE  \E j \in 1 .. Len(Tail(p)) : Tail(p)[j].key = k
        BY <2>1, <2>2 DEF OnPage
      <4>2. i # 1
        BY <1>3, <2>7, <4>1
      <4>3. i - 1 \in 1 .. Len(Tail(p)) /\ (i - 1) + 1 = i
        BY <1>3, <4>2
      <4>4. Tail(p)[i - 1] = p[i]
        BY <1>3, <4>3
      <4> QED
        BY <4>1, <4>3, <4>4
    <3> QED
      BY <2>3, <2>5, <3>1, <3>2, <3>3, <3>4
  <2> QED
    BY <2>6, <2>7
<1> QED
  BY <1>1, <1>3, <1>5, <1>8, <1>9, RecordingStep

(* Purge: what is recorded carries the time of the scan and stays; what    *)
(* has no object was last seen earlier and goes.                           *)
LEMMA PurgeProgress ==
    ASSUME SyncInv, NEW s \in Scanners, Purge(s), UNCHANGED batchVars
    PROVE  SyncInv'
<1>1. /\ spc[s] = "purge" /\ rec' = PurgeUnseen(started[s]) /\ spc' = [spc EXCEPT ![s] = "mark"]
      /\ UNCHANGED <<s3, clock, started, token, page, more, scans, aborts, marked>> /\ Touch(s)
      /\ page[s] = <<>>
  BY ScanFacts DEF Purge, Scan
<1>2. page' = [page EXCEPT ![s] = <<>>] /\ <<>> \in Seq(Objects) /\ 1 .. Len(page[s]) = {}
  BY <1>1, ScanFacts
<1>3. /\ clock \in Nat /\ rec \in [Keys -> Rows] /\ started[s] \in Nat
      /\ \A k \in Keys : rec[k].seen \in Nat /\ rec[k].seen <= clock
  BY ScanFacts, TimeTypes DEF SyncInv, BatchTimes
<1>4. rec' = [k \in Keys |-> IF rec[k].seen < started[s] THEN NoRow ELSE rec[k]]
  BY <1>1 DEF PurgeUnseen
<1>5. rec' \in [Keys -> Rows] /\ \A k \in Keys : rec'[k].seen <= clock
  <2>1. NoRow \in Rows /\ NoRow.seen <= clock
    BY <1>3 DEF NoRow, Row, Rows
  <2> HIDE DEF Rows
  <2> QED
    BY <1>3, <1>4, <2>1
<1>6. Progress(s)'
  <2>1. /\ spc'[s] = "mark" /\ page'[s] = page[s] /\ started'[s] = started[s]
        /\ token'[s] = token[s] /\ touched'[s] = touched[s]
    BY <1>1, ScanFacts, TouchTyped
  <2> SUFFICES ASSUME NEW k \in Keys \ touched[s]
               PROVE  /\ s3[k] = 0 => rec'[k] = NoRow
                      /\ s3[k] # 0 => Recorded(s, k)'
    BY <1>1, <1>2, <2>1 DEF Progress
  <2>2. /\ s3[k] = 0 => rec[k].seen < started[s]
        /\ s3[k] # 0 => Recorded(s, k)
    BY <1>1, <1>2 DEF SyncInv, Progress, Ahead, OnPage
  <2>3. s3[k] = 0 => rec'[k] = NoRow
    BY <1>4, <2>2
  <2>4. ASSUME s3[k] # 0 PROVE Recorded(s, k)'
    <3>1. rec[k] = Row(s3[k], s3[k], started[s])
      BY <2>2, <2>4 DEF Recorded
    <3>2. ~(rec[k].seen < started[s])
      BY <1>3, <3>1 DEF Row
    <3>3. rec'[k] = rec[k]
      BY <1>4, <3>2
    <3> QED
      BY <1>1, <2>1, <3>1, <3>3 DEF Recorded
  <2> QED
    BY <2>3, <2>4
<1> QED
  BY <1>1, <1>2, <1>5, <1>6, RecordingStep

(* The end of a scan, whichever it is.                                     *)
LEMMA ScanEndStep ==
    ASSUME SyncInv, NEW s \in Scanners, spc[s] # "idle", ScanReset(s), UNCHANGED batchVars,
           UNCHANGED <<store, scans>>,
           marked' = marked \/ marked' = clock, aborts' \in 0 .. MaxAborts
    PROVE  SyncInv'
<1>1. /\ spc' = [spc EXCEPT ![s] = "idle"] /\ started' = [started EXCEPT ![s] = 0]
      /\ token' = [token EXCEPT ![s] = 0] /\ page' = [page EXCEPT ![s] = <<>>]
      /\ more' = more \ {s} /\ touched' = [touched EXCEPT ![s] = {}]
      /\ UNCHANGED <<s3, rec, clock>>
  BY DEF ScanReset, Scan, store
<1>2. marked' \in 0 .. MaxTime
  <2>1. clock \in Nat /\ clock <= MaxTime /\ MaxTime \in Nat
    BY ScanFacts, TimeTypes DEF SyncInv, ScanTimes
  <2> QED
    BY <2>1 DEF SyncInv, Paging, ScanOK
<1>3. Paging'
  <2>1. /\ spc' \in [Scanners -> {"idle", "list", "upsert", "purge", "mark"}]
        /\ page' \in [Scanners -> Seq(Objects)] /\ more' \subseteq Scanners
        /\ started' \in [Scanners -> 0 .. MaxTime] /\ token' \in [Scanners -> Keys \cup {0}]
        /\ touched' \in [Scanners -> SUBSET Keys]
    BY <1>1, ScanFacts
  <2>2. \A r \in Scanners : spc'[r] = "upsert" <=> page'[r] # <<>>
    BY <1>1, ScanFacts DEF SyncInv, Paging, ScanOK
  <2> QED
    BY <1>2, <2>1, <2>2 DEF SyncInv, Paging, ScanOK
<1>4. Typed' /\ BatchTimes'
  <2>1. StoreOK' /\ clock <= clock'
    BY <1>1, TimeTypes DEF SyncInv, StoreOK
  <2>2. \A k \in Keys : rec'[k].seen <= clock'
    BY <1>1 DEF SyncInv, BatchTimes
  <2> QED
    BY <2>1, <2>2, BatchUntouched DEF SyncInv
<1>5. ScanTimes'
  BY <1>1, ScanFacts DEF SyncInv, ScanTimes
<1>6. Progress(s)'
  BY <1>1, ScanFacts DEF Progress
<1>7. \A r \in Scanners \ {s} : Progress(r)'
  BY <1>1, ScanFacts, QuietOthers
<1> QED
  BY <1>3, <1>4, <1>5, <1>6, <1>7 DEF SyncInv


(* A client puts or deletes an object directly in S3.                      *)
LEMMA ClientStepProgress ==
    ASSUME SyncInv, NEW k \in UserKeys, ClientPut(k) \/ ClientDelete(k),
           writes \in Nat
    PROVE  SyncInv' /\ writes' \in Nat
<1>1. /\ UNCHANGED <<rec, clock, batchVars, scanLocal, scans, aborts, marked>>
      /\ Touch("client") /\ writes' = writes + 1
      /\ s3' = [s3 EXCEPT ![k] = 100 + writes] \/ s3' = [s3 EXCEPT ![k] = 0]
  BY DEF ClientPut, ClientDelete, DeleteObject
<1>2. clock \in Nat /\ s3 \in [Keys -> Nat] /\ rec \in [Keys -> Rows]
  BY TimeTypes DEF SyncInv
<1>3. StoreOK' /\ clock <= clock'
  <2>1. 100 + writes \in Nat /\ 0 \in Nat
    OBVIOUS
  <2>2. s3' \in [Keys -> Nat]
    BY <1>1, <1>2, <2>1
  <2> QED
    BY <1>1, <1>2, <2>2 DEF StoreOK
<1>4. Typed' /\ BatchTimes'
  <2>1. \A j \in Keys : rec'[j].seen <= clock'
    BY <1>1 DEF SyncInv, BatchTimes
  <2> QED
    BY <1>1, <1>3, <2>1, BatchUntouched DEF SyncInv
<1>5. Paging' /\ \A s \in Scanners : Progress(s)'
  BY <1>1, SyncAssumption, OutsiderStep
<1>6. ScanTimes'
  BY <1>1 DEF SyncInv, ScanTimes, scanLocal
<1> QED
  BY <1>1, <1>4, <1>5, <1>6 DEF SyncInv

(* A handler of batches takes a step.                                      *)
LEMMA BatchStepProgress ==
    ASSUME SyncInv, BatchStep
    PROVE  SyncInv'
<1>1. /\ BatchNext /\ Touch("batch")
      /\ UNCHANGED <<scanLocal, scans, aborts, marked, writes>>
  BY DEF BatchStep
<1>2. Typed'
  BY <1>1, TypedStep DEF SyncInv
<1>3. BatchTimes' /\ (clock' = clock \/ (clock' = clock + 1 /\ clock' <= MaxClock))
  BY <1>1, BatchTimesStep DEF SyncInv
<1>4. Paging' /\ \A s \in Scanners : Progress(s)'
  BY <1>1, SyncAssumption, OutsiderStep
<1>5. ScanTimes'
  <2> SUFFICES ASSUME NEW s \in Scanners, spc'[s] # "idle"
               PROVE  started'[s] > 0 /\ started'[s] <= clock' /\ clock' <= MaxTime
    BY DEF ScanTimes
  <2>1. started'[s] = started[s] /\ spc[s] # "idle" /\ started[s] \in Nat
    BY <1>1, ScanFacts DEF scanLocal
  <2>2. started[s] > 0 /\ started[s] <= clock /\ clock <= MaxTime /\ clock \in Nat
    BY <2>1, TimeTypes DEF SyncInv, ScanTimes
  <2>3. MaxTime \in Nat /\ MaxClock \in Nat /\ MaxClock <= MaxTime
    BY ScanAssumption, SyncAssumption, BatchAssumption
  <2> QED
    BY <1>3, <2>1, <2>2, <2>3
<1> QED
  BY <1>2, <1>3, <1>4, <1>5 DEF SyncInv

(* Steps that change nothing of this module.                               *)
LEMMA SyncStutter ==
    ASSUME SyncInv, UNCHANGED syncVars
    PROVE  SyncInv'
<1>1. UNCHANGED <<store, batchVars, scanVars>> /\ UNCHANGED <<s3, rec, clock>>
  BY DEF syncVars, store
<1>2. /\ UNCHANGED <<spc, started, token, page, more>>
      /\ UNCHANGED <<touched, scans, aborts, marked>>
  BY <1>1 DEF scanVars, scanLocal
<1>3. Typed'
  <2>1. UNCHANGED vars
    BY <1>1 DEF vars
  <2> QED
    BY <2>1, TypedStep DEF SyncInv
<1>4. BatchTimes'
  <2>1. UNCHANGED <<at, late>>
    BY <1>1 DEF batchVars, localVars
  <2> QED
    BY <1>1, <2>1 DEF SyncInv, BatchTimes
<1>5. Paging' /\ ScanTimes'
  BY <1>1, <1>2 DEF SyncInv, Paging, ScanOK, ScanTimes
<1>6. \A s \in Scanners : Progress(s)'
  BY <1>1, <1>2, Bystander DEF SyncInv
<1> QED
  BY <1>3, <1>4, <1>5, <1>6 DEF SyncInv

(* The requests of clients are numbered.                                   *)
Counted == SyncInv /\ writes \in Nat

(* The invariant of the composition holds at the start.                    *)
LEMMA SyncStart == SyncInit => Counted
<1> SUFFICES ASSUME SyncInit PROVE SyncInv /\ writes \in Nat
  BY DEF Counted
<1>1. StoreInit /\ BatchInit /\ ScanInit /\ writes = 0
  BY DEF SyncInit
<1>2. Typed
  BY <1>1, TypedInit DEF Init
<1>3. Paging
  <2>1. <<>> \in Seq(Objects) /\ 0 \in 0 .. MaxTime /\ 0 \in 0 .. MaxScans /\ 0 \in 0 .. MaxAborts
    BY ScanAssumption
  <2>2. page \in [Scanners -> Seq(Objects)] /\ more \subseteq Scanners
    BY <1>1, <2>1 DEF ScanInit
  <2>3. ScanOK
    BY <1>1, <2>1 DEF ScanInit, ScanOK
  <2> QED
    BY <2>2, <2>3 DEF Paging
<1>4. BatchTimes
  <2>1. \A k \in Keys : rec[k].seen <= clock
    BY <1>1 DEF StoreInit, NoRow, Row
  <2> QED
    BY <1>1, <2>1 DEF BatchInit, StoreInit, BatchTimes
<1>5. ScanTimes /\ \A s \in Scanners : Progress(s)
  BY <1>1 DEF ScanInit, ScanTimes, Progress
<1> QED
  BY <1>1, <1>2, <1>3, <1>4, <1>5 DEF SyncInv

(* Every step of batches, scans and clients keeps it.                      *)
LEMMA SyncStep == Counted /\ [SyncNext]_syncVars => Counted'
<1> SUFFICES ASSUME SyncInv, writes \in Nat, [SyncNext]_syncVars
             PROVE  SyncInv' /\ writes' \in Nat
  BY DEF Counted
<1>1. CASE BatchStep
  BY <1>1, BatchStepProgress DEF BatchStep
<1>2. ASSUME NEW s \in Scanners, UNCHANGED <<batchVars, writes>>,
             ScanStart(s) \/ ScanStep(s) \/ ScanAbort(s)
      PROVE  SyncInv'
  <2>1. CASE ScanStart(s)
    BY <1>2, <2>1, ScanStartProgress
  <2>2. CASE ListPage(s)
    BY <1>2, <2>2, ListPageProgress
  <2>3. CASE UpsertNext(s)
    BY <1>2, <2>3, UpsertNextProgress
  <2>4. CASE Purge(s)
    BY <1>2, <2>4, PurgeProgress
  <2>5. CASE MarkInventoried(s)
    <3>1. aborts' \in 0 .. MaxAborts /\ spc[s] # "idle"
      BY <2>5 DEF MarkInventoried, SyncInv, Paging, ScanOK
    <3> QED
      BY <1>2, <2>5, <3>1, ScanEndStep DEF MarkInventoried
  <2>6. CASE ScanAbort(s)
    <3>1. aborts' \in 0 .. MaxAborts
      BY <2>6, ScanAssumption DEF ScanAbort, SyncInv, Paging, ScanOK
    <3> QED
      BY <1>2, <2>6, <3>1, ScanEndStep DEF ScanAbort
  <2> QED
    BY <1>2, <2>1, <2>2, <2>3, <2>4, <2>5, <2>6 DEF ScanStep
<1>3. CASE InventoryStep
  BY <1>2, <1>3 DEF InventoryStep, ScanNext
<1>4. CASE ClientStep
  BY <1>4, ClientStepProgress DEF ClientStep
<1>5. CASE UNCHANGED syncVars
  BY <1>5, SyncStutter DEF syncVars
<1> QED
  BY <1>1, <1>3, <1>4, <1>5 DEF SyncNext

-----------------------------------------------------------------------------
(* Batches, scans and clients at work on one bucket keep the types of all  *)
(* they share and of all they keep to themselves: a goroutine has a page   *)
(* exactly while it upserts, and no scan is marked later than the clock.   *)
THEOREM SyncTypeCorrect == SyncSpec => []SyncTypeOK
<1>1. Counted => SyncTypeOK
  BY DEF Counted, SyncInv, Typed, TypeOK, Paging, SyncTypeOK
<1> QED
  BY <1>1, SyncStart, SyncStep, PTL DEF SyncSpec

(* scanBucket repairs the table: when a scan has purged, object_records    *)
(* has a row for every object that nobody has changed since the scan       *)
(* began, with its size and its ETag, and none for a key without one;      *)
(* whatever the number of pages, scans, batches and clients.               *)
THEOREM ScansAreExact == SyncSpec => []ScanExact
<1>1. Counted => ScanExact
  <2> SUFFICES ASSUME SyncInv, NEW s \in Scanners, spc[s] = "mark",
                      NEW k \in Keys \ touched[s]
               PROVE  Agrees(k)
    BY DEF ScanExact, Counted
  <2>1. 1 .. Len(page[s]) = {}
    BY ScanFacts
  <2>2. /\ s3[k] = 0 => rec[k] = NoRow
        /\ s3[k] # 0 => Recorded(s, k)
    BY <2>1 DEF SyncInv, Progress, Ahead, OnPage
  <2> QED
    BY <2>2 DEF Recorded, NoRow, Row, Agrees
<1> QED
  BY <1>1, SyncStart, SyncStep, PTL DEF SyncSpec
=============================================================================
