---------------------------- MODULE StatsProofs -----------------------------
(***************************************************************************)
(* For every audit log, every period and any number of overlapping,        *)
(* failing and dying aggregations: the loop of AggregateRequests counts    *)
(* what the definition of the statistics says, and the transaction that    *)
(* replaces the tables shows it to the readers.                            *)
(***************************************************************************)
EXTENDS StatsTables, OrderProofs

-----------------------------------------------------------------------------
(* The loop is well-defined: it has a result after every log.              *)
LEMMA LoopUnfolds ==
    ASSUME NEW logs, Len(logs) \in Nat, NEW time, NEW known
    PROVE  Totals(logs, time, known) =
             [i \in 0 .. Len(logs) |->
                 IF i = 0 THEN NoStats
                 ELSE AddLog(Totals(logs, time, known)[i - 1], logs[i], time, known)]
<1> DEFINE Def(f, i) == IF i = 0 THEN NoStats ELSE AddLog(f[i - 1], logs[i], time, known)
           Upto(f, n) == f = [i \in 0 .. n |-> Def(f, i)]
           Bad == {n \in Nat : ~ \E f : Upto(f, n)}
<1>1. \E f : Upto(f, 0)
  <2> DEFINE f == [i \in 0 .. 0 |-> NoStats]
  <2>1. Upto(f, 0)
    OBVIOUS
  <2> QED
    BY <2>1
<1>2. ASSUME NEW n \in Nat, \E f : Upto(f, n)
      PROVE  \E f : Upto(f, n + 1)
  <2>1. PICK f : Upto(f, n)
    BY <1>2
  <2> DEFINE g == [i \in 0 .. n + 1 |-> IF i <= n THEN f[i] ELSE Def(f, n + 1)]
  <2>2. ASSUME NEW i \in 0 .. n + 1
        PROVE  g[i] = Def(g, i)
    <3>1. CASE i = 0
      BY <2>1, <3>1
    <3>2. CASE i # 0 /\ i <= n
      <4>1. i - 1 \in 0 .. n + 1 /\ i - 1 <= n /\ i \in 0 .. n
        BY <3>2
      <4>2. g[i - 1] = f[i - 1] /\ g[i] = f[i]
        BY <3>2, <4>1
      <4>3. f[i] = Def(f, i)
        BY <2>1, <4>1
      <4> QED
        BY <4>2, <4>3
    <3>3. CASE i = n + 1
      <4>1. n \in 0 .. n + 1 /\ n <= n /\ ~(n + 1 <= n) /\ n + 1 # 0 /\ (n + 1) - 1 = n
        OBVIOUS
      <4>2. g[n] = f[n] /\ g[n + 1] = Def(f, n + 1)
        BY <4>1
      <4> QED
        BY <3>3, <4>1, <4>2
    <3> QED
      BY <3>1, <3>2, <3>3
  <2>3. g = [i \in 0 .. n + 1 |-> g[i]]
    OBVIOUS
  <2>4. Upto(g, n + 1)
    BY <2>2, <2>3
  <2> QED
    BY <2>4
<1>3. Bad = {}
  <2> SUFFICES ASSUME Bad # {} PROVE FALSE
    OBVIOUS
  <2> DEFINE m == Min(Bad)
  <2> HIDE DEF Upto
  <2>1. Bad \in SUBSET Nat
    OBVIOUS
  <2> HIDE DEF Bad
  <2>2. m \in Bad /\ \A n \in Bad : m <= n
    BY <2>1, MinIsLeast
  <2> HIDE DEF m
  <2>3. m \in Nat /\ m # 0
    BY <1>1, <2>1, <2>2 DEF Bad
  <2>4. m - 1 \in Nat /\ m - 1 \notin Bad /\ (m - 1) + 1 = m
    BY <2>1, <2>2, <2>3
  <2>5. \E f : Upto(f, m - 1)
    BY <2>4 DEF Bad
  <2>6. \E f : Upto(f, m)
    BY <1>2, <2>4, <2>5
  <2> QED
    BY <2>2, <2>6 DEF Bad
<1>4. \E f : Upto(f, Len(logs))
  BY <1>3
<1> QED
  BY <1>4 DEF Totals


-----------------------------------------------------------------------------
(* One request more.                                                       *)
LEMMA OneType == \A b \in BOOLEAN : One(b) \in Nat /\ (b => One(b) = 1) /\ (~b => One(b) = 0)
BY DEF One

(* Of a class, with one log more.                                          *)
LEMMA CountedOf ==
    ASSUME NEW S, IsFiniteSet(S), NEW l, l \notin S, NEW class
    PROVE  /\ IsFiniteSet(Of(S, class))
           /\ Cardinality(Of(S \cup {l}, class)) = Cardinality(Of(S, class)) + One(l.class = class)
<1>1. Of(S, class) \in SUBSET S
  BY DEF Of
<1>2. IsFiniteSet(Of(S, class))
  BY <1>1, FS_Subset
<1>3. CASE l.class = class
  <2>1. Of(S \cup {l}, class) = Of(S, class) \cup {l} /\ l \notin Of(S, class)
    BY <1>3 DEF Of
  <2> QED
    BY <1>2, <1>3, <2>1, FS_AddElement DEF One
<1>4. CASE l.class # class
  <2>1. Of(S \cup {l}, class) = Of(S, class)
    BY <1>4 DEF Of
  <2>2. Cardinality(Of(S, class)) \in Nat
    BY <1>2, FS_CardinalityType
  <2> QED
    BY <1>2, <1>4, <2>1, <2>2 DEF One
<1> QED
  BY <1>3, <1>4

(* The same for any part of the requests.                                  *)
LEMMA CountedPart ==
    ASSUME NEW S, IsFiniteSet(S), NEW l, l \notin S, NEW T \in SUBSET S, NEW U, NEW b \in BOOLEAN,
           U = IF b THEN T \cup {l} ELSE T
    PROVE  Cardinality(U) = Cardinality(T) + One(b)
<1>1. IsFiniteSet(T) /\ l \notin T
  BY FS_Subset
<1>2. Cardinality(T) \in Nat
  BY <1>1, FS_CardinalityType
<1>3. CASE b
  <2>1. Cardinality(T \cup {l}) = Cardinality(T) + 1
    BY <1>1, FS_AddElement
  <2> QED
    BY <1>3, <2>1 DEF One
<1>4. CASE ~b
  BY <1>2, <1>4 DEF One
<1> QED
  BY <1>3, <1>4

(* The bytes of finitely many logs are finitely many.                      *)
LEMMA BytesFinite ==
    ASSUME NEW S \in SUBSET LogRecords, IsFiniteSet(S)
    PROVE  IsFiniteSet(Bytes(S))
<1> DEFINE f == [l \in S |-> {l} \X (1 .. l.size)]
           T == {f[l] : l \in S}
<1>1. IsFiniteSet(T)
  BY FiniteImage
<1>2. ASSUME NEW l \in S PROVE IsFiniteSet(f[l])
  <2>1. l.size \in Nat
    BY DEF LogRecords
  <2>2. IsFiniteSet({l})
    BY FS_Singleton
  <2>3. IsFiniteSet(1 .. l.size)
    BY <2>1, FS_Interval
  <2> QED
    BY <2>2, <2>3, FS_Product
<1>3. \A X \in T : IsFiniteSet(X)
  BY <1>2
<1>4. Bytes(S) = UNION T
  BY DEF Bytes
<1> HIDE DEF T
<1> QED
  BY <1>1, <1>3, <1>4, FS_UNION

(* The bytes of one log more.                                              *)
LEMMA BytesAdded ==
    ASSUME NEW S \in SUBSET LogRecords, IsFiniteSet(S), NEW l \in LogRecords, l \notin S
    PROVE  Cardinality(Bytes(S \cup {l})) = Cardinality(Bytes(S)) + l.size
<1> DEFINE A == Bytes(S)
           B == {l} \X (1 .. l.size)
<1>1. l.size \in Nat
  BY DEF LogRecords
<1>2. IsFiniteSet({l}) /\ Cardinality({l}) = 1
  BY FS_Singleton
<1>3. IsFiniteSet(1 .. l.size) /\ Cardinality(1 .. l.size) = l.size
  <2>1. /\ IsFiniteSet(1 .. l.size)
        /\ Cardinality(1 .. l.size) = IF 1 > l.size THEN 0 ELSE l.size - 1 + 1
    BY <1>1, FS_Interval
  <2> QED
    BY <1>1, <2>1
<1>4. IsFiniteSet(B) /\ Cardinality(B) = l.size
  <2>1. IsFiniteSet(B) /\ Cardinality(B) = 1 * Cardinality(1 .. l.size)
    BY <1>2, <1>3, FS_Product
  <2> QED
    BY <1>1, <1>3, <2>1
<1>5. IsFiniteSet(A)
  BY BytesFinite
<1>6. A \cap B = {}
  BY DEF Bytes
<1>7. Bytes(S \cup {l}) = A \cup B
  BY DEF Bytes
<1> HIDE DEF A, B
<1>8. Cardinality(A \cup B) = Cardinality(A) + Cardinality(B) - Cardinality(A \cap B)
  BY <1>4, <1>5, FS_Union
<1>9. Cardinality(A) \in Nat /\ Cardinality(A \cap B) = 0
  BY <1>5, <1>6, FS_CardinalityType, FS_EmptySet
<1>10. Cardinality(A \cup B) = Cardinality(A) + l.size
  BY <1>1, <1>4, <1>8, <1>9
<1> QED
  BY <1>7, <1>10 DEF A

(* The bytes of the requests of one class.                                 *)
LEMMA BytesOf ==
    ASSUME NEW S \in SUBSET LogRecords, IsFiniteSet(S), NEW l \in LogRecords, l \notin S, NEW class
    PROVE  Cardinality(Bytes(Of(S \cup {l}, class)))
             = Cardinality(Bytes(Of(S, class))) + l.size * One(l.class = class)
<1>1. Of(S, class) \in SUBSET LogRecords /\ IsFiniteSet(Of(S, class)) /\ l \notin Of(S, class)
  <2>1. Of(S, class) \in SUBSET S
    BY DEF Of
  <2>2. IsFiniteSet(Of(S, class))
    BY <2>1, FS_Subset
  <2> QED
    BY <2>1, <2>2
<1>2. l.size \in Nat
  BY DEF LogRecords
<1>3. CASE l.class = class
  <2>1. Of(S \cup {l}, class) = Of(S, class) \cup {l}
    BY <1>3 DEF Of
  <2>2. Cardinality(Bytes(Of(S \cup {l}, class))) = Cardinality(Bytes(Of(S, class))) + l.size
    BY <1>1, <2>1, BytesAdded
  <2>3. l.size * One(l.class = class) = l.size
    BY <1>2, <1>3 DEF One
  <2> QED
    BY <2>2, <2>3
<1>4. CASE l.class # class
  <2>1. Of(S \cup {l}, class) = Of(S, class)
    BY <1>4 DEF Of
  <2>2. Cardinality(Bytes(Of(S, class))) \in Nat
    BY <1>1, BytesFinite, FS_CardinalityType
  <2>3. l.size * One(l.class = class) = 0
    BY <1>2, <1>4 DEF One
  <2> QED
    BY <2>1, <2>2, <2>3
<1> QED
  BY <1>3, <1>4

(* counter.add and userCounter.add: the counter of one request more.       *)
LEMMA CountAdds ==
    ASSUME NEW S \in SUBSET LogRecords, IsFiniteSet(S), NEW l \in LogRecords, l \notin S
    PROVE  Count(S \cup {l}) = Add(Count(S), l)
<1> DEFINE T == S \cup {l}
<1>1. Cardinality(T) = Cardinality(S) + 1
  BY FS_AddElement
<1>2. Cardinality({m \in T : ~m.ok}) = Cardinality({m \in S : ~m.ok}) + One(~l.ok)
  <2> DEFINE A == {m \in S : ~m.ok}
             B == {m \in T : ~m.ok}
             b == ~l.ok
  <2>1. B = (IF b THEN A \cup {l} ELSE A) /\ A \in SUBSET S /\ b \in BOOLEAN
    OBVIOUS
  <2> HIDE DEF A, B, b
  <2>2. Cardinality(B) = Cardinality(A) + One(b)
    BY <2>1, CountedPart
  <2> QED
    BY <2>2 DEF A, B, b
<1>3. /\ Cardinality(Of(T, "get")) = Cardinality(Of(S, "get")) + One(l.class = "get")
      /\ Cardinality(Of(T, "put")) = Cardinality(Of(S, "put")) + One(l.class = "put")
      /\ Cardinality(Of(T, "delete")) = Cardinality(Of(S, "delete")) + One(l.class = "delete")
  BY CountedOf
<1>4. /\ Cardinality(Bytes(Of(T, "put"))) = Cardinality(Bytes(Of(S, "put"))) + l.size * One(l.class = "put")
      /\ Cardinality(Bytes(Of(T, "get"))) = Cardinality(Bytes(Of(S, "get"))) + l.size * One(l.class = "get")
  BY BytesOf
<1>5. UNION {m.actor : m \in T} = (UNION {m.actor : m \in S}) \cup l.actor
  OBVIOUS
<1> HIDE DEF T
<1>6. Count(T) = Add(Count(S), l)
  BY <1>1, <1>2, <1>3, <1>4, <1>5 DEF Count, Add
<1> QED
  BY <1>6 DEF T

(* userCounter.add counts one log more.                                    *)
LEMMA UserCountAdds ==
    ASSUME NEW S \in SUBSET LogRecords, IsFiniteSet(S), NEW l \in LogRecords, l \notin S
    PROVE  UserCount(S \cup {l}) = UserAdd(UserCount(S), l)
<1> DEFINE T == S \cup {l}
           Opens(m) == m.class \in {"get", "put"} /\ m.key \notin {{}, {""}}
<1>2. Cardinality({m \in T : Opens(m)}) = Cardinality({m \in S : Opens(m)}) + One(Opens(l))
  <2> DEFINE A == {m \in S : Opens(m)}
             B == {m \in T : Opens(m)}
             b == Opens(l)
  <2>1. B = (IF b THEN A \cup {l} ELSE A) /\ A \in SUBSET S /\ b \in BOOLEAN
    OBVIOUS
  <2> HIDE DEF A, B, b
  <2>2. Cardinality(B) = Cardinality(A) + One(b)
    BY <2>1, CountedPart
  <2> QED
    BY <2>2 DEF A, B, b
<1>3. /\ Cardinality(Of(T, "get")) = Cardinality(Of(S, "get")) + One(l.class = "get")
      /\ Cardinality(Of(T, "put")) = Cardinality(Of(S, "put")) + One(l.class = "put")
      /\ Cardinality(Of(T, "delete")) = Cardinality(Of(S, "delete")) + One(l.class = "delete")
  BY CountedOf
<1>4. /\ Cardinality(Bytes(Of(T, "put"))) = Cardinality(Bytes(Of(S, "put"))) + l.size * One(l.class = "put")
      /\ Cardinality(Bytes(Of(T, "get"))) = Cardinality(Bytes(Of(S, "get"))) + l.size * One(l.class = "get")
  BY BytesOf
<1>5. One(Opens(l)) = One(l.key \notin {{}, {""}} /\ l.class \in {"get", "put"})
  BY DEF One
<1> HIDE DEF T
<1>6. UserCount(T) = UserAdd(UserCount(S), l)
  BY <1>2, <1>3, <1>4, <1>5 DEF UserCount, UserAdd
<1> QED
  BY <1>6 DEF T

(* Without requests the counters are zero.                                 *)
LEMMA CountNothing == Count({}) = Zero /\ UserCount({}) = UserZero
<1>1. Of({}, "get") = {} /\ Of({}, "put") = {} /\ Of({}, "delete") = {} /\ Bytes({}) = {}
  BY DEF Of, Bytes
<1>2. Cardinality({}) = 0
  BY FS_EmptySet
<1>3. {l \in {} : ~l.ok} = {} /\ UNION {l.actor : l \in {}} = {}
      /\ {l \in {} : l.class \in {"get", "put"} /\ l.key \notin {{}, {""}}} = {}
  OBVIOUS
<1> QED
  BY <1>1, <1>2, <1>3 DEF Count, UserCount, Zero, UserZero


-----------------------------------------------------------------------------
(* A table whose entries K have one request more.                          *)
Was(L, k) == IF k \in DOMAIN L THEN L[k] ELSE {}

Grown(L, M, K, l) ==
    /\ DOMAIN L \subseteq DOMAIN M /\ K \subseteq DOMAIN M
    /\ \A k \in DOMAIN M : M[k] = IF k \in K THEN Was(L, k) \cup {l} ELSE Was(L, k)
    /\ \A k \in DOMAIN L : L[k] \in SUBSET LogRecords /\ IsFiniteSet(L[k]) /\ l \notin L[k]

(* The rows of a table that has grown.                                     *)
LEMMA GrownParts ==
    ASSUME NEW L, NEW M, NEW K, NEW l, Grown(L, M, K, l)
    PROVE  /\ Present(M) = Present(L) \cup K
           /\ \A k \in K : /\ M[k] = Was(L, k) \cup {l}
                           /\ Was(L, k) \in SUBSET LogRecords /\ IsFiniteSet(Was(L, k)) /\ l \notin Was(L, k)
           /\ \A k \in Present(L) \ K : M[k] = L[k]
           /\ \A k : k \in Present(L) => Was(L, k) = L[k]
           /\ \A k : k \notin Present(L) => Was(L, k) = {}
<1>1. Present(M) = Present(L) \cup K
  BY DEF Grown, Present, Was
<1>2. ASSUME NEW k \in K
      PROVE  /\ M[k] = Was(L, k) \cup {l}
             /\ Was(L, k) \in SUBSET LogRecords /\ IsFiniteSet(Was(L, k)) /\ l \notin Was(L, k)
  BY FS_EmptySet DEF Grown, Was
<1>3. \A k \in Present(L) \ K : M[k] = L[k]
  BY DEF Grown, Present, Was
<1>4. /\ \A k : k \in Present(L) => Was(L, k) = L[k]
      /\ \A k : k \notin Present(L) => Was(L, k) = {}
  BY DEF Present, Was
<1> QED
  BY <1>1, <1>2, <1>3, <1>4

(* A map of counters grows by counter.add.                                 *)
LEMMA CountsGrow ==
    ASSUME NEW L, NEW M, NEW K, NEW l \in LogRecords, Grown(L, M, K, l)
    PROVE  AddTo(Counts(L), [k \in K |-> Add(Entry(Counts(L), k, Zero), l)]) = Counts(M)
<1> DEFINE new == [k \in K |-> Add(Entry(Counts(L), k, Zero), l)]
<1>1. DOMAIN Counts(L) = Present(L) /\ \A k \in Present(L) : Counts(L)[k] = Count(L[k])
  BY DEF Counts
<1>2. ASSUME NEW k \in K PROVE new[k] = Count(M[k])
  <2>1. Entry(Counts(L), k, Zero) = Count(Was(L, k))
    <3>1. CASE k \in Present(L)
      BY <1>1, <3>1, GrownParts DEF Entry
    <3>2. CASE k \notin Present(L)
      BY <1>1, <3>2, GrownParts, CountNothing DEF Entry
    <3> QED
      BY <3>1, <3>2
  <2>2. Count(Was(L, k) \cup {l}) = Add(Count(Was(L, k)), l)
    BY GrownParts, CountAdds
  <2>3. new[k] = Add(Entry(Counts(L), k, Zero), l) /\ M[k] = Was(L, k) \cup {l}
    BY GrownParts
  <2> QED
    BY <2>1, <2>2, <2>3
<1>3. DOMAIN new = K
  OBVIOUS
<1> HIDE DEF new
<1>4. AddTo(Counts(L), new) = [k \in Present(M) |-> IF k \in K THEN Count(M[k]) ELSE Count(L[k])]
  <2>1. \A k \in Present(L) \cup K :
           (IF k \in K THEN new[k] ELSE Counts(L)[k]) = IF k \in K THEN Count(M[k]) ELSE Count(L[k])
    BY <1>1, <1>2
  <2> QED
    BY <1>1, <1>3, <2>1, GrownParts DEF AddTo
<1>5. \A k \in Present(M) : (IF k \in K THEN Count(M[k]) ELSE Count(L[k])) = Count(M[k])
  BY GrownParts
<1>6. AddTo(Counts(L), new) = Counts(M)
  BY <1>4, <1>5 DEF Counts
<1> QED
  BY <1>6 DEF new

(* A map of user counters grows by userCounter.add.                        *)
LEMMA UserCountsGrow ==
    ASSUME NEW L, NEW M, NEW K, NEW l \in LogRecords, Grown(L, M, K, l)
    PROVE  AddTo(UserCounts(L), [k \in K |-> UserAdd(Entry(UserCounts(L), k, UserZero), l)]) = UserCounts(M)
<1> DEFINE new == [k \in K |-> UserAdd(Entry(UserCounts(L), k, UserZero), l)]
<1>1. DOMAIN UserCounts(L) = Present(L) /\ \A k \in Present(L) : UserCounts(L)[k] = UserCount(L[k])
  BY DEF UserCounts
<1>2. ASSUME NEW k \in K PROVE new[k] = UserCount(M[k])
  <2>1. Entry(UserCounts(L), k, UserZero) = UserCount(Was(L, k))
    <3>1. CASE k \in Present(L)
      BY <1>1, <3>1, GrownParts DEF Entry
    <3>2. CASE k \notin Present(L)
      BY <1>1, <3>2, GrownParts, CountNothing DEF Entry
    <3> QED
      BY <3>1, <3>2
  <2>2. UserCount(Was(L, k) \cup {l}) = UserAdd(UserCount(Was(L, k)), l)
    BY GrownParts, UserCountAdds
  <2>3. new[k] = UserAdd(Entry(UserCounts(L), k, UserZero), l) /\ M[k] = Was(L, k) \cup {l}
    BY GrownParts
  <2> QED
    BY <2>1, <2>2, <2>3
<1>3. DOMAIN new = K
  OBVIOUS
<1> HIDE DEF new
<1>4. AddTo(UserCounts(L), new)
        = [k \in Present(M) |-> IF k \in K THEN UserCount(M[k]) ELSE UserCount(L[k])]
  <2>1. \A k \in Present(L) \cup K :
           (IF k \in K THEN new[k] ELSE UserCounts(L)[k])
             = IF k \in K THEN UserCount(M[k]) ELSE UserCount(L[k])
    BY <1>1, <1>2
  <2> QED
    BY <1>1, <1>3, <2>1, GrownParts DEF AddTo
<1>5. \A k \in Present(M) : (IF k \in K THEN UserCount(M[k]) ELSE UserCount(L[k])) = UserCount(M[k])
  BY GrownParts
<1>6. AddTo(UserCounts(L), new) = UserCounts(M)
  BY <1>4, <1>5 DEF UserCounts
<1> QED
  BY <1>6 DEF new

(* A map of numbers grows by increments.                                   *)
LEMMA NumbersGrow ==
    ASSUME NEW L, NEW M, NEW K, NEW l \in LogRecords, Grown(L, M, K, l)
    PROVE  AddTo(Numbers(L), [k \in K |-> Entry(Numbers(L), k, 0) + 1]) = Numbers(M)
<1> DEFINE new == [k \in K |-> Entry(Numbers(L), k, 0) + 1]
<1>1. DOMAIN Numbers(L) = Present(L) /\ \A k \in Present(L) : Numbers(L)[k] = Cardinality(L[k])
  BY DEF Numbers
<1>2. ASSUME NEW k \in K PROVE new[k] = Cardinality(M[k])
  <2>1. Entry(Numbers(L), k, 0) = Cardinality(Was(L, k))
    <3>1. CASE k \in Present(L)
      BY <1>1, <3>1, GrownParts DEF Entry
    <3>2. CASE k \notin Present(L)
      BY <1>1, <3>2, GrownParts, FS_EmptySet DEF Entry
    <3> QED
      BY <3>1, <3>2
  <2>2. Cardinality(Was(L, k) \cup {l}) = Cardinality(Was(L, k)) + 1
    BY GrownParts, FS_AddElement
  <2>3. new[k] = Entry(Numbers(L), k, 0) + 1 /\ M[k] = Was(L, k) \cup {l}
    BY GrownParts
  <2> QED
    BY <2>1, <2>2, <2>3
<1>3. DOMAIN new = K
  OBVIOUS
<1> HIDE DEF new
<1>4. AddTo(Numbers(L), new)
        = [k \in Present(M) |-> IF k \in K THEN Cardinality(M[k]) ELSE Cardinality(L[k])]
  <2>1. \A k \in Present(L) \cup K :
           (IF k \in K THEN new[k] ELSE Numbers(L)[k])
             = IF k \in K THEN Cardinality(M[k]) ELSE Cardinality(L[k])
    BY <1>1, <1>2
  <2> QED
    BY <1>1, <1>3, <2>1, GrownParts DEF AddTo
<1>5. \A k \in Present(M) : (IF k \in K THEN Cardinality(M[k]) ELSE Cardinality(L[k])) = Cardinality(M[k])
  BY GrownParts
<1>6. AddTo(Numbers(L), new) = Numbers(M)
  BY <1>4, <1>5 DEF Numbers
<1> QED
  BY <1>6 DEF new


-----------------------------------------------------------------------------
(* The tables, when the request l comes after the requests R.              *)
In(l, time) == {p \in Periods : InWindow(l.at, time, p)}

(* A log is in the windows that inWindow says.                             *)
LEMMA WindowGrows ==
    ASSUME NEW R, NEW l, NEW time, NEW p \in Periods
    PROVE  /\ Window(R, time, p) \in SUBSET R
           /\ Window(R \cup {l}, time, p)
                = IF p \in In(l, time) THEN Window(R, time, p) \cup {l} ELSE Window(R, time, p)
BY DEF Window, In, InWindow

(* What makes a part of the requests fit Grown.                            *)
LEMMA PartFits ==
    ASSUME NEW R \in SUBSET LogRecords, IsFiniteSet(R), NEW l, l \notin R, NEW T \in SUBSET R
    PROVE  T \in SUBSET LogRecords /\ IsFiniteSet(T) /\ l \notin T
<1>1. IsFiniteSet(T)
  BY FS_Subset
<1> QED
  BY <1>1

(* The counters of the platform.                                           *)
LEMMA PlatformGrows ==
    ASSUME NEW R \in SUBSET LogRecords, IsFiniteSet(R), NEW l \in LogRecords, l \notin R, NEW time
    PROVE  LET C == [p \in Periods |-> Count(Window(R, time, p))]
           IN  AddTo(C, [p \in In(l, time) |-> Add(Entry(C, p, Zero), l)])
                 = [p \in Periods |-> Count(Window(R \cup {l}, time, p))]
<1> DEFINE C == [p \in Periods |-> Count(Window(R, time, p))]
           K == In(l, time)
           new == [p \in K |-> Add(Entry(C, p, Zero), l)]
<1>1. K \subseteq Periods
  BY DEF In
<1>2. ASSUME NEW p \in K PROVE new[p] = Count(Window(R \cup {l}, time, p))
  <2>0. p \in Periods /\ p \in In(l, time)
    BY <1>1
  <2>1. Entry(C, p, Zero) = Count(Window(R, time, p))
    BY <2>0 DEF Entry
  <2>4. Window(R, time, p) \in SUBSET R
    BY <2>0, WindowGrows
  <2>2. /\ Window(R, time, p) \in SUBSET LogRecords /\ IsFiniteSet(Window(R, time, p))
        /\ l \notin Window(R, time, p)
    BY <2>4, PartFits
  <2>3. Window(R \cup {l}, time, p) = Window(R, time, p) \cup {l}
    BY <2>0, WindowGrows
  <2>5. Count(Window(R \cup {l}, time, p)) = Add(Count(Window(R, time, p)), l)
    BY <2>2, <2>3, CountAdds
  <2> QED
    BY <2>1, <2>5
<1>3. ASSUME NEW p \in Periods, p \notin K
      PROVE  C[p] = Count(Window(R \cup {l}, time, p))
  <2>1. Window(R \cup {l}, time, p) = Window(R, time, p)
    BY <1>3 DEF Window, In, InWindow
  <2> QED
    BY <1>3, <2>1
<1>4. DOMAIN new = K /\ DOMAIN C = Periods
  OBVIOUS
<1> HIDE DEF new, C, K
<1>5. \A p \in Periods \cup K :
        (IF p \in K THEN new[p] ELSE C[p]) = Count(Window(R \cup {l}, time, p))
  BY <1>2, <1>3
<1>6. AddTo(C, new) = [p \in Periods |-> Count(Window(R \cup {l}, time, p))]
  BY <1>1, <1>4, <1>5 DEF AddTo
<1> QED
  BY <1>6 DEF new, C, K

(* The logs of an account.                                                 *)
LEMMA AccountsGrow ==
    ASSUME NEW R \in SUBSET LogRecords, IsFiniteSet(R), NEW l \in LogRecords, l \notin R, NEW time
    PROVE  Grown(AccountLogs(R, time), AccountLogs(R \cup {l}, time), l.account \X In(l, time), l)
<1> DEFINE L == AccountLogs(R, time)
           M == AccountLogs(R \cup {l}, time)
           K == l.account \X In(l, time)
           Part(S, k) == {m \in Window(S, time, k[2]) : k[1] \in m.account}
<1>1. /\ DOMAIN L = Accounts(R) \X Periods /\ DOMAIN M = Accounts(R \cup {l}) \X Periods
      /\ \A k \in DOMAIN L : L[k] = Part(R, k)
      /\ \A k \in DOMAIN M : M[k] = Part(R \cup {l}, k)
  BY DEF AccountLogs
<1>2. DOMAIN L \subseteq DOMAIN M /\ K \subseteq DOMAIN M
  <2>1. /\ Accounts(R) \subseteq Accounts(R \cup {l}) /\ l.account \subseteq Accounts(R \cup {l})
        /\ In(l, time) \subseteq Periods
    BY DEF Accounts, In
  <2> QED
    BY <1>1, <2>1
<1>3. \A k : k[2] \in Periods => Part(R, k) \in SUBSET R
  BY WindowGrows
<1> HIDE DEF L, M
<1>4. ASSUME NEW k \in DOMAIN M
      PROVE  M[k] = IF k \in K THEN Was(L, k) \cup {l} ELSE Was(L, k)
  <2>1. k \in Accounts(R \cup {l}) \X Periods /\ k[2] \in Periods /\ k = <<k[1], k[2]>>
    BY <1>1
  <2>2. Was(L, k) = Part(R, k)
    <3>1. CASE k \in DOMAIN L
      BY <1>1, <3>1 DEF Was
    <3>2. CASE k \notin DOMAIN L
      <4>1. k[1] \notin Accounts(R)
        BY <1>1, <2>1, <3>2
      <4>2. Part(R, k) = {}
        BY <4>1 DEF Window, Accounts
      <4> QED
        BY <3>2, <4>2 DEF Was
    <3> QED
      BY <3>1, <3>2
  <2>3. Part(R \cup {l}, k) = IF k \in K THEN Part(R, k) \cup {l} ELSE Part(R, k)
    <3>1. k \in K <=> k[1] \in l.account /\ k[2] \in In(l, time)
      BY <2>1
    <3>2. Window(R \cup {l}, time, k[2])
            = IF k[2] \in In(l, time) THEN Window(R, time, k[2]) \cup {l}
              ELSE Window(R, time, k[2])
      BY <2>1 DEF Window, In, InWindow
    <3>3. CASE k \in K
      BY <3>1, <3>2, <3>3
    <3>4. CASE k \notin K
      BY <3>1, <3>2, <3>4
    <3> QED
      BY <3>3, <3>4
  <2> QED
    BY <1>1, <2>2, <2>3
<1>5. \A k \in DOMAIN L : L[k] \in SUBSET R
  BY <1>1, <1>3
<1>6. \A k \in DOMAIN L : L[k] \in SUBSET LogRecords /\ IsFiniteSet(L[k]) /\ l \notin L[k]
  BY <1>5, PartFits
<1>7. Grown(L, M, K, l)
  BY <1>1, <1>2, <1>4, <1>6 DEF Grown
<1> QED
  BY <1>7 DEF L, M

(* The logs of a bucket.                                                   *)
LEMMA BucketsGrow ==
    ASSUME NEW R \in SUBSET LogRecords, IsFiniteSet(R), NEW l \in LogRecords, l \notin R,
           NEW time, NEW known
    PROVE  Grown(BucketLogs(R, time, known), BucketLogs(R \cup {l}, time, known),
                 (l.bucket \cap known) \X In(l, time), l)
<1> DEFINE L == BucketLogs(R, time, known)
           M == BucketLogs(R \cup {l}, time, known)
           K == (l.bucket \cap known) \X In(l, time)
           Part(S, k) == {m \in Window(S, time, k[2]) : k[1] \in m.bucket}
<1>1. /\ DOMAIN L = known \X Periods /\ DOMAIN M = known \X Periods
      /\ \A k \in DOMAIN L : L[k] = Part(R, k) /\ M[k] = Part(R \cup {l}, k)
  BY DEF BucketLogs
<1>2. K \subseteq DOMAIN M
  BY <1>1 DEF In
<1>3. \A k : k[2] \in Periods => Part(R, k) \in SUBSET R
  BY WindowGrows
<1> HIDE DEF L, M
<1>4. ASSUME NEW k \in DOMAIN M
      PROVE  M[k] = IF k \in K THEN Was(L, k) \cup {l} ELSE Was(L, k)
  <2>1. k[1] \in known /\ k[2] \in Periods /\ k = <<k[1], k[2]>>
    BY <1>1
  <2>2. Was(L, k) = Part(R, k)
    BY <1>1 DEF Was
  <2>3. Part(R \cup {l}, k) = IF k \in K THEN Part(R, k) \cup {l} ELSE Part(R, k)
    <3>1. k \in K <=> k[1] \in l.bucket /\ k[2] \in In(l, time)
      BY <2>1
    <3>2. Window(R \cup {l}, time, k[2])
            = IF k[2] \in In(l, time) THEN Window(R, time, k[2]) \cup {l}
              ELSE Window(R, time, k[2])
      BY <2>1 DEF Window, In, InWindow
    <3>3. CASE k \in K
      BY <3>1, <3>2, <3>3
    <3>4. CASE k \notin K
      BY <3>1, <3>2, <3>4
    <3> QED
      BY <3>3, <3>4
  <2> QED
    BY <1>1, <2>2, <2>3
<1>5. \A k \in DOMAIN L : L[k] \in SUBSET R
  BY <1>1, <1>3
<1>6. \A k \in DOMAIN L : L[k] \in SUBSET LogRecords /\ IsFiniteSet(L[k]) /\ l \notin L[k]
  BY <1>5, PartFits
<1>7. Grown(L, M, K, l)
  BY <1>1, <1>2, <1>4, <1>6 DEF Grown
<1> QED
  BY <1>7 DEF L, M

(* The logs of a user in an account.                                       *)
LEMMA UsersGrow ==
    ASSUME NEW R \in SUBSET LogRecords, IsFiniteSet(R), NEW l \in LogRecords, l \notin R, NEW time
    PROVE  Grown(UserLogs(R, time), UserLogs(R \cup {l}, time),
                 l.actor \X l.account \X In(l, time), l)
<1> DEFINE L == UserLogs(R, time)
           M == UserLogs(R \cup {l}, time)
           K == l.actor \X l.account \X In(l, time)
           Part(S, k) == {m \in Window(S, time, k[3]) : k[1] \in m.actor /\ k[2] \in m.account}
<1>1. /\ DOMAIN L = Actors(R) \X Accounts(R) \X Periods
      /\ DOMAIN M = Actors(R \cup {l}) \X Accounts(R \cup {l}) \X Periods
      /\ \A k \in DOMAIN L : L[k] = Part(R, k)
      /\ \A k \in DOMAIN M : M[k] = Part(R \cup {l}, k)
  BY DEF UserLogs
<1>2. DOMAIN L \subseteq DOMAIN M /\ K \subseteq DOMAIN M
  <2>1. /\ Actors(R) \subseteq Actors(R \cup {l}) /\ Accounts(R) \subseteq Accounts(R \cup {l})
        /\ l.actor \subseteq Actors(R \cup {l}) /\ l.account \subseteq Accounts(R \cup {l})
        /\ In(l, time) \subseteq Periods
    BY DEF Accounts, Actors, In
  <2> QED
    BY <1>1, <2>1
<1>3. \A k : k[3] \in Periods => Part(R, k) \in SUBSET R
  BY WindowGrows
<1> HIDE DEF L, M
<1>4. ASSUME NEW k \in DOMAIN M
      PROVE  M[k] = IF k \in K THEN Was(L, k) \cup {l} ELSE Was(L, k)
  <2>1. k[3] \in Periods /\ k = <<k[1], k[2], k[3]>>
    BY <1>1
  <2>2. Was(L, k) = Part(R, k)
    <3>1. CASE k \in DOMAIN L
      BY <1>1, <3>1 DEF Was
    <3>2. CASE k \notin DOMAIN L
      <4>1. k[1] \notin Actors(R) \/ k[2] \notin Accounts(R)
        BY <1>1, <2>1, <3>2
      <4>2. Part(R, k) = {}
        BY <4>1 DEF Window, Accounts, Actors
      <4> QED
        BY <3>2, <4>2 DEF Was
    <3> QED
      BY <3>1, <3>2
  <2>3. Part(R \cup {l}, k) = IF k \in K THEN Part(R, k) \cup {l} ELSE Part(R, k)
    <3>1. k \in K <=> k[1] \in l.actor /\ k[2] \in l.account /\ k[3] \in In(l, time)
      BY <2>1
    <3>2. Window(R \cup {l}, time, k[3])
            = IF k[3] \in In(l, time) THEN Window(R, time, k[3]) \cup {l}
              ELSE Window(R, time, k[3])
      BY <2>1 DEF Window, In, InWindow
    <3>3. CASE k \in K
      BY <3>1, <3>2, <3>3
    <3>4. CASE k \notin K
      BY <3>1, <3>2, <3>4
    <3> QED
      BY <3>3, <3>4
  <2> QED
    BY <1>1, <2>2, <2>3
<1>5. \A k \in DOMAIN L : L[k] \in SUBSET R
  BY <1>1, <1>3
<1>6. \A k \in DOMAIN L : L[k] \in SUBSET LogRecords /\ IsFiniteSet(L[k]) /\ l \notin L[k]
  BY <1>5, PartFits
<1>7. Grown(L, M, K, l)
  BY <1>1, <1>2, <1>4, <1>6 DEF Grown
<1> QED
  BY <1>7 DEF L, M


(* An object request with a key, in some period.                           *)
UsedBy(l, time) == l.class \in {"get", "put"} /\ l.key # {} /\ In(l, time) # {}
FirstsOf(l) == {PrefixOf[x] : x \in l.key}

(* The logs of a prefix in a bucket.                                       *)
LEMMA PrefixesGrow ==
    ASSUME NEW R \in SUBSET LogRecords, IsFiniteSet(R), NEW l \in LogRecords, l \notin R,
           NEW time, NEW known
    PROVE  Grown(PrefixLogs(R, time, known), PrefixLogs(R \cup {l}, time, known),
                 {k \in (l.bucket \cap known) \X FirstsOf(l) \X In(l, time) : UsedBy(l, time)}, l)
<1> DEFINE L == PrefixLogs(R, time, known)
           M == PrefixLogs(R \cup {l}, time, known)
           K == {k \in (l.bucket \cap known) \X FirstsOf(l) \X In(l, time) : UsedBy(l, time)}
           Has(m, k) == /\ k[1] \in m.bucket /\ m.key # {} /\ m.class \in {"get", "put"}
                        /\ \E x \in m.key : PrefixOf[x] = k[2]
           Part(S, k) == {m \in Window(S, time, k[3]) : Has(m, k)}
<1>1. /\ DOMAIN L = known \X Firsts(R) \X Periods
      /\ DOMAIN M = known \X Firsts(R \cup {l}) \X Periods
  BY DEF PrefixLogs
<1>7. /\ \A k \in DOMAIN L : L[k] = Part(R, k)
      /\ \A k \in DOMAIN M : M[k] = Part(R \cup {l}, k)
  <2>1. ASSUME NEW S, NEW k
        PROVE  {m \in Window(S, time, k[3]) \cap Used(S, k[1]) : \E x \in m.key : PrefixOf[x] = k[2]}
                 = Part(S, k)
    BY DEF Used, Window
  <2> HIDE DEF Part
  <2> QED
    BY <1>1, <2>1 DEF PrefixLogs
<1>2. DOMAIN L \subseteq DOMAIN M /\ K \subseteq DOMAIN M
  <2>1. /\ Firsts(R) \subseteq Firsts(R \cup {l}) /\ FirstsOf(l) \subseteq Firsts(R \cup {l})
        /\ In(l, time) \subseteq Periods
    BY DEF Firsts, FirstsOf, In
  <2> QED
    BY <1>1, <2>1
<1>3. \A k : k[3] \in Periods => Part(R, k) \in SUBSET R
  BY WindowGrows
<1> HIDE DEF L, M
<1>4. ASSUME NEW k \in DOMAIN M
      PROVE  M[k] = IF k \in K THEN Was(L, k) \cup {l} ELSE Was(L, k)
  <2>1. k[1] \in known /\ k[3] \in Periods /\ k = <<k[1], k[2], k[3]>>
    BY <1>1
  <2>2. Was(L, k) = Part(R, k)
    <3>1. CASE k \in DOMAIN L
      BY <1>7, <3>1 DEF Was
    <3>2. CASE k \notin DOMAIN L
      <4>1. k[2] \notin Firsts(R)
        BY <1>1, <2>1, <3>2
      <4>2. Part(R, k) = {}
        BY <4>1 DEF Window, Firsts
      <4> QED
        BY <3>2, <4>2 DEF Was
    <3> QED
      BY <3>1, <3>2
  <2>3. Part(R \cup {l}, k) = IF k \in K THEN Part(R, k) \cup {l} ELSE Part(R, k)
    <3>1. k \in K <=> Has(l, k) /\ k[3] \in In(l, time)
      BY <2>1 DEF UsedBy, FirstsOf
    <3>2. Window(R \cup {l}, time, k[3])
            = IF k[3] \in In(l, time) THEN Window(R, time, k[3]) \cup {l}
              ELSE Window(R, time, k[3])
      BY <2>1 DEF Window, In, InWindow
    <3> HIDE DEF K, Has
    <3>3. CASE k \in K
      BY <3>1, <3>2, <3>3
    <3>4. CASE k \notin K
      BY <3>1, <3>2, <3>4
    <3> QED
      BY <3>3, <3>4
  <2> QED
    BY <1>7, <2>2, <2>3
<1>5. \A k \in DOMAIN L : L[k] \in SUBSET R
  BY <1>1, <1>3, <1>7
<1>6. \A k \in DOMAIN L : L[k] \in SUBSET LogRecords /\ IsFiniteSet(L[k]) /\ l \notin L[k]
  BY <1>5, PartFits
<1>8. Grown(L, M, K, l)
  BY <1>2, <1>4, <1>6 DEF Grown
<1> QED
  BY <1>8 DEF L, M

DayOf(l, time) == IF Day(l.at) >= DayCut(time) THEN {Day(l.at)} ELSE {}

(* The logs of a day.                                                      *)
LEMMA DaysGrow ==
    ASSUME NEW R \in SUBSET LogRecords, IsFiniteSet(R), NEW l \in LogRecords, l \notin R, NEW time
    PROVE  Grown(DayLogs(R, time), DayLogs(R \cup {l}, time), DayOf(l, time), l)
<1> DEFINE L == DayLogs(R, time)
           M == DayLogs(R \cup {l}, time)
           K == DayOf(l, time)
           Days(S) == {d \in {Day(m.at) : m \in S} : d >= DayCut(time)}
           Part(S, d) == {m \in S : Day(m.at) = d}
<1>1. /\ DOMAIN L = Days(R) /\ DOMAIN M = Days(R \cup {l})
      /\ \A d \in Days(R) : L[d] = Part(R, d)
      /\ \A d \in Days(R \cup {l}) : M[d] = Part(R \cup {l}, d)
  BY DEF DayLogs
<1>2. DOMAIN L \subseteq DOMAIN M /\ K \subseteq DOMAIN M
  BY <1>1 DEF DayOf
<1> HIDE DEF L, M
<1>4. ASSUME NEW d \in DOMAIN M
      PROVE  M[d] = IF d \in K THEN Was(L, d) \cup {l} ELSE Was(L, d)
  <2>1. Was(L, d) = Part(R, d)
    <3>1. CASE d \in DOMAIN L
      BY <1>1, <3>1 DEF Was
    <3>2. CASE d \notin DOMAIN L
      <4>1. d >= DayCut(time) /\ \A m \in R : Day(m.at) # d
        BY <1>1, <3>2
      <4>2. Part(R, d) = {}
        BY <4>1
      <4> QED
        BY <3>2, <4>2 DEF Was
    <3> QED
      BY <3>1, <3>2
  <2>2. d \in K <=> Day(l.at) = d
    BY <1>1 DEF DayOf
  <2>3. Part(R \cup {l}, d) = IF d \in K THEN Part(R, d) \cup {l} ELSE Part(R, d)
    <3> HIDE DEF K
    <3>1. CASE d \in K
      BY <2>2, <3>1
    <3>2. CASE d \notin K
      BY <2>2, <3>2
    <3> QED
      BY <3>1, <3>2
  <2> QED
    BY <1>1, <2>1, <2>3
<1>5. \A d \in DOMAIN L : L[d] \in SUBSET R
  BY <1>1
<1>6. \A d \in DOMAIN L : L[d] \in SUBSET LogRecords /\ IsFiniteSet(L[d]) /\ l \notin L[d]
  BY <1>5, PartFits
<1>7. Grown(L, M, K, l)
  BY <1>2, <1>4, <1>6 DEF Grown
<1> QED
  BY <1>7 DEF L, M


(* What setBucketAccount has for each bucket.                              *)
Owners(R, known) ==
    [b \in {b \in known : Accounts(Used(R, b)) # {}} |-> SoleAccount(Used(R, b))]

(* The accounts that have used a bucket, with one log more.                *)
LEMMA UsedGrows ==
    ASSUME NEW R, NEW l, NEW b
    PROVE  LET joins == b \in l.bucket /\ l.key # {} /\ l.class \in {"get", "put"}
           IN  /\ joins => Accounts(Used(R \cup {l}, b)) = Accounts(Used(R, b)) \cup l.account
               /\ ~joins => Used(R \cup {l}, b) = Used(R, b)
<1> DEFINE joins == b \in l.bucket /\ l.key # {} /\ l.class \in {"get", "put"}
<1>1. ASSUME joins PROVE Accounts(Used(R \cup {l}, b)) = Accounts(Used(R, b)) \cup l.account
  <2>1. Used(R \cup {l}, b) = Used(R, b) \cup {l}
    BY <1>1 DEF Used
  <2> QED
    BY <2>1 DEF Accounts
<1>2. ASSUME ~joins PROVE Used(R \cup {l}, b) = Used(R, b)
  BY <1>2 DEF Used
<1> QED
  BY <1>1, <1>2

(* setBucketAccount keeps the only account of each bucket, in any order of *)
(* the logs.                                                               *)
LEMMA OwnersGrow ==
    ASSUME NEW R, NEW l \in LogRecords, OneAccount(l), NEW time, In(l, time) # {}, NEW known
    PROVE  (IF UsedBy(l, time) THEN SetBucketAccount(Owners(R, known), l.bucket \cap known, l.account)
            ELSE Owners(R, known)) = Owners(R \cup {l}, known)
<1> DEFINE m == Owners(R, known)
           n == Owners(R \cup {l}, known)
           B == l.bucket \cap known
           A(S, b) == Accounts(Used(S, b))
<1>1. /\ DOMAIN m = {b \in known : A(R, b) # {}}
      /\ \A b \in DOMAIN m : m[b] = IF \A a, c \in A(R, b) : a = c THEN A(R, b) ELSE {}
      /\ n = [b \in {b \in known : A(R \cup {l}, b) # {}} |->
                  IF \A a, c \in A(R \cup {l}, b) : a = c THEN A(R \cup {l}, b) ELSE {}]
      /\ m = [b \in DOMAIN m |-> m[b]]
  BY DEF Owners, SoleAccount
<1> HIDE DEF m, n
<1>2. ASSUME UsedBy(l, time) /\ l.account # {} PROVE SetBucketAccount(m, B, l.account) = n
  <2>1. PICK a : l.account = {a}
    BY <1>2 DEF OneAccount
  <2>2. ASSUME NEW b PROVE A(R \cup {l}, b) = IF b \in l.bucket THEN A(R, b) \cup {a} ELSE A(R, b)
    <3>1. CASE b \in l.bucket
      BY <1>2, <2>1, <3>1, UsedGrows DEF UsedBy
    <3>2. CASE b \notin l.bucket
      <4>1. Used(R \cup {l}, b) = Used(R, b)
        BY <3>2, UsedGrows
      <4> QED
        BY <3>2, <4>1
    <3> QED
      BY <3>1, <3>2
  <2> HIDE DEF A
  <2>3. {b \in known : A(R \cup {l}, b) # {}} = DOMAIN m \cup B
    BY <1>1, <2>2
  <2>4. ASSUME NEW b \in DOMAIN m \cup B
        PROVE  (IF b \in B /\ b \notin DOMAIN m THEN l.account
                ELSE IF b \in B /\ m[b] # l.account THEN {}
                ELSE m[b])
                 = IF \A x, y \in A(R \cup {l}, b) : x = y THEN A(R \cup {l}, b) ELSE {}
    <3>1. CASE b \notin B
      <4>1. b \in DOMAIN m /\ A(R \cup {l}, b) = A(R, b)
        BY <3>1, <1>1, <2>2
      <4>2. m[b] = IF \A x, y \in A(R, b) : x = y THEN A(R, b) ELSE {}
        BY <4>1, <1>1
      <4> QED
        BY <3>1, <4>1, <4>2
    <3>2. CASE b \in B /\ b \notin DOMAIN m
      <4>1. A(R, b) = {} /\ A(R \cup {l}, b) = {a}
        BY <3>2, <1>1, <2>2
      <4> QED
        BY <2>1, <3>2, <4>1
    <3>3. CASE b \in B /\ b \in DOMAIN m
      <4>1. A(R \cup {l}, b) = A(R, b) \cup {a} /\ A(R, b) # {}
        BY <3>3, <1>1, <2>2
      <4>2. m[b] = IF \A x, y \in A(R, b) : x = y THEN A(R, b) ELSE {}
        BY <3>3, <1>1
      <4>3. CASE A(R, b) = {a}
        BY <2>1, <3>3, <4>1, <4>2, <4>3
      <4>4. CASE A(R, b) # {a}
        <5>1. m[b] # {a} /\ ~ \A x, y \in A(R, b) \cup {a} : x = y
          BY <4>1, <4>2, <4>4
        <5> QED
          BY <2>1, <3>3, <4>1, <5>1
      <4> QED
        BY <4>3, <4>4
    <3> QED
      BY <3>1, <3>2, <3>3
  <2> QED
    BY <1>1, <1>2, <2>3, <2>4 DEF SetBucketAccount
<1>5. ASSUME \A b : A(R \cup {l}, b) = A(R, b) PROVE m = n
  <2> HIDE DEF A
  <2>1. {b \in known : A(R \cup {l}, b) # {}} = DOMAIN m
    BY <1>1, <1>5
  <2>2. \A b \in DOMAIN m :
          m[b] = IF \A x, y \in A(R \cup {l}, b) : x = y THEN A(R \cup {l}, b) ELSE {}
    <3> SUFFICES ASSUME NEW b \in DOMAIN m
                 PROVE  m[b] = IF \A x, y \in A(R \cup {l}, b) : x = y THEN A(R \cup {l}, b) ELSE {}
      OBVIOUS
    <3>1. A(R \cup {l}, b) = A(R, b)
      BY <1>5
    <3> QED
      BY <1>1, <3>1
  <2> QED
    BY <1>1, <2>1, <2>2
<1>3. ASSUME UsedBy(l, time) /\ l.account = {} PROVE SetBucketAccount(m, B, l.account) = n
  <2>1. ASSUME NEW b PROVE A(R \cup {l}, b) = A(R, b)
    <3>1. Accounts(Used(R, b)) \cup l.account = Accounts(Used(R, b))
      BY <1>3
    <3> QED
      BY <3>1, UsedGrows
  <2>2. m = n
    BY <1>5, <2>1
  <2> QED
    BY <1>3, <2>2 DEF SetBucketAccount
<1>4. ASSUME ~UsedBy(l, time) PROVE m = n
  <2>1. ASSUME NEW b PROVE A(R \cup {l}, b) = A(R, b)
    BY <1>4, UsedGrows DEF UsedBy
  <2> QED
    BY <1>5, <2>1
<1> QED
  BY <1>2, <1>3, <1>4 DEF m, n

-----------------------------------------------------------------------------
(* What the loop has after the requests R.                                 *)
Summary(R, time, known) ==
    [platform |-> [p \in Periods |-> Count(Window(R, time, p))],
     account  |-> Counts(AccountLogs(R, time)),
     bucket   |-> Counts(BucketLogs(R, time, known)),
     user     |-> UserCounts(UserLogs(R, time)),
     prefix   |-> Numbers(PrefixLogs(R, time, known)),
     daily    |-> Counts(DayLogs(R, time)),
     owner    |-> Owners(R, known)]

(* A turn of the loop adds its request to every table.                     *)
LEMMA SummaryGrows ==
    ASSUME NEW R \in SUBSET LogRecords, IsFiniteSet(R), NEW l \in LogRecords, l \notin R,
           OneAccount(l), l.class # "skipped", NEW time, In(l, time) # {}, NEW known
    PROVE  AddLog(Summary(R, time, known), l, time, known) = Summary(R \cup {l}, time, known)
<1> DEFINE s == Summary(R, time, known)
           t == Summary(R \cup {l}, time, known)
           ps == In(l, time)
           b == l.bucket \cap known
<1>1. /\ s.platform = [p \in Periods |-> Count(Window(R, time, p))]
      /\ s.account = Counts(AccountLogs(R, time))
      /\ s.bucket = Counts(BucketLogs(R, time, known))
      /\ s.user = UserCounts(UserLogs(R, time))
      /\ s.prefix = Numbers(PrefixLogs(R, time, known))
      /\ s.daily = Counts(DayLogs(R, time))
      /\ s.owner = Owners(R, known)
  BY DEF Summary
<1>2. AddLog(s, l, time, known) =
        [platform |-> AddTo(s.platform, [k \in ps |-> Add(Entry(s.platform, k, Zero), l)]),
         account  |-> AddTo(s.account, [k \in l.account \X ps |-> Add(Entry(s.account, k, Zero), l)]),
         bucket   |-> AddTo(s.bucket, [k \in b \X ps |-> Add(Entry(s.bucket, k, Zero), l)]),
         user     |-> AddTo(s.user, [k \in l.actor \X l.account \X ps |->
                                        UserAdd(Entry(s.user, k, UserZero), l)]),
         prefix   |-> AddTo(s.prefix, [k \in {k \in b \X FirstsOf(l) \X ps : UsedBy(l, time)} |->
                                          Entry(s.prefix, k, 0) + 1]),
         daily    |-> AddTo(s.daily, [d \in DayOf(l, time) |-> Add(Entry(s.daily, d, Zero), l)]),
         owner    |-> IF UsedBy(l, time) THEN SetBucketAccount(s.owner, b, l.account) ELSE s.owner]
  <2> HIDE DEF s
  <2> QED
    BY DEF AddLog, In, FirstsOf, UsedBy, DayOf
<1>3. AddTo(s.platform, [k \in ps |-> Add(Entry(s.platform, k, Zero), l)])
        = [p \in Periods |-> Count(Window(R \cup {l}, time, p))]
  BY <1>1, PlatformGrows
<1>4. AddTo(s.account, [k \in l.account \X ps |-> Add(Entry(s.account, k, Zero), l)])
        = Counts(AccountLogs(R \cup {l}, time))
  <2>1. Grown(AccountLogs(R, time), AccountLogs(R \cup {l}, time), l.account \X ps, l)
    BY AccountsGrow
  <2> QED
    BY <1>1, <2>1, CountsGrow
<1>5. AddTo(s.bucket, [k \in b \X ps |-> Add(Entry(s.bucket, k, Zero), l)])
        = Counts(BucketLogs(R \cup {l}, time, known))
  <2>1. Grown(BucketLogs(R, time, known), BucketLogs(R \cup {l}, time, known), b \X ps, l)
    BY BucketsGrow
  <2> QED
    BY <1>1, <2>1, CountsGrow
<1>6. AddTo(s.user, [k \in l.actor \X l.account \X ps |-> UserAdd(Entry(s.user, k, UserZero), l)])
        = UserCounts(UserLogs(R \cup {l}, time))
  BY <1>1, UsersGrow, UserCountsGrow
<1>7. AddTo(s.prefix, [k \in {k \in b \X FirstsOf(l) \X ps : UsedBy(l, time)} |->
                          Entry(s.prefix, k, 0) + 1])
        = Numbers(PrefixLogs(R \cup {l}, time, known))
  <2>1. Grown(PrefixLogs(R, time, known), PrefixLogs(R \cup {l}, time, known), {k \in b \X FirstsOf(l) \X ps : UsedBy(l, time)}, l)
    BY PrefixesGrow
  <2> QED
    BY <1>1, <2>1, NumbersGrow
<1>8. AddTo(s.daily, [d \in DayOf(l, time) |-> Add(Entry(s.daily, d, Zero), l)])
        = Counts(DayLogs(R \cup {l}, time))
  BY <1>1, DaysGrow, CountsGrow
<1>9. (IF UsedBy(l, time) THEN SetBucketAccount(s.owner, b, l.account) ELSE s.owner)
        = Owners(R \cup {l}, known)
  BY <1>1, OwnersGrow
<1> HIDE DEF s, ps, b
<1> QED
  BY <1>2, <1>3, <1>4, <1>5, <1>6, <1>7, <1>8, <1>9 DEF Summary, s

(* Before the loop nothing is counted.                                     *)
LEMMA SummaryOfNothing ==
    ASSUME NEW time, NEW known
    PROVE  NoStats = Summary({}, time, known)
<1>1. \A p \in Periods : Count(Window({}, time, p)) = Zero
  BY CountNothing DEF Window
<1>2. Accounts({}) = {} /\ Actors({}) = {} /\ Firsts({}) = {} /\ \A b : Used({}, b) = {}
  BY DEF Accounts, Actors, Firsts, Used
<1>3. /\ Present(AccountLogs({}, time)) = {} /\ Present(UserLogs({}, time)) = {}
      /\ Present(PrefixLogs({}, time, known)) = {} /\ Present(DayLogs({}, time)) = {}
  BY <1>2 DEF Present, AccountLogs, UserLogs, PrefixLogs, DayLogs
<1>4. Present(BucketLogs({}, time, known)) = {}
  BY DEF Present, BucketLogs, Window
<1>5. Owners({}, known) = Nothing
  BY <1>2 DEF Owners, Nothing
<1> QED
  BY <1>1, <1>3, <1>4, <1>5 DEF NoStats, Summary, Nothing, Counts, UserCounts, Numbers


(* What loadLogs returns: each log once, in any order, from the longest    *)
(* period.                                                                 *)
Loaded(logs, time) ==
    /\ logs \in Seq(LogRecords)
    /\ \A i, j \in DOMAIN logs : logs[i] = logs[j] => i = j
    /\ \A i \in DOMAIN logs : OneAccount(logs[i]) /\ logs[i].at >= Since(time)

UpTo(logs, i) == {logs[j] : j \in 1 .. i}

(* The first logs, with one more.                                          *)
LEMMA UpToGrows ==
    ASSUME NEW logs, NEW time, Loaded(logs, time), NEW i \in 1 .. Len(logs)
    PROVE  /\ logs[i] \in LogRecords /\ OneAccount(logs[i]) /\ In(logs[i], time) # {}
           /\ UpTo(logs, i) = UpTo(logs, i - 1) \cup {logs[i]}
           /\ UpTo(logs, i - 1) \in SUBSET LogRecords /\ IsFiniteSet(UpTo(logs, i - 1))
           /\ logs[i] \notin UpTo(logs, i - 1)
<1>1. Len(logs) \in Nat /\ DOMAIN logs = 1 .. Len(logs) /\ \A j \in DOMAIN logs : logs[j] \in LogRecords
  BY DEF Loaded
<1>2. i \in Nat /\ i - 1 \in 0 .. Len(logs) /\ \A j : j \in 1 .. i <=> j \in 1 .. i - 1 \/ j = i
  BY <1>1
<1>3. /\ logs[i] \in LogRecords /\ OneAccount(logs[i]) /\ logs[i].at >= Since(time)
  BY <1>1 DEF Loaded
<1>4. Longest \in In(logs[i], time)
  BY <1>3, StatsAssumption DEF In, InWindow, Since
<1>5. UpTo(logs, i) = UpTo(logs, i - 1) \cup {logs[i]}
  BY <1>2 DEF UpTo
<1>6. UpTo(logs, i - 1) \in SUBSET LogRecords
  BY <1>1, <1>2 DEF UpTo
<1>7. IsFiniteSet(UpTo(logs, i - 1))
  <2>1. IsFiniteSet(1 .. i - 1)
    BY <1>2, FS_Interval
  <2> DEFINE f == [j \in 1 .. i - 1 |-> logs[j]]
  <2>2. f \in Surjection(1 .. i - 1, UpTo(logs, i - 1))
    BY DEF UpTo, Surjection
  <2> QED
    BY <2>1, <2>2, FS_Surjection
<1>8. logs[i] \notin UpTo(logs, i - 1)
  <2>1. ASSUME NEW j \in 1 .. i - 1 PROVE logs[j] # logs[i]
    <3>1. j \in DOMAIN logs /\ i \in DOMAIN logs /\ j # i
      BY <1>1, <1>2
    <3> QED
      BY <3>1 DEF Loaded
  <2> QED
    BY <2>1 DEF UpTo
<1> QED
  BY <1>3, <1>4, <1>5, <1>6, <1>7, <1>8

(* A turn of the loop, for requests and for what isObjectRequest excludes. *)
LEMMA TurnSums ==
    ASSUME NEW logs, NEW time, Loaded(logs, time), NEW known, NEW i \in 1 .. Len(logs)
    PROVE  AddLog(Summary(Requests(UpTo(logs, i - 1)), time, known), logs[i], time, known)
             = Summary(Requests(UpTo(logs, i)), time, known)
<1> DEFINE S == UpTo(logs, i - 1)
           l == logs[i]
<1>1. /\ l \in LogRecords /\ OneAccount(l) /\ In(l, time) # {} /\ UpTo(logs, i) = S \cup {l}
      /\ S \in SUBSET LogRecords /\ IsFiniteSet(S) /\ l \notin S
  BY UpToGrows
<1> HIDE DEF S, l
<1>2. Requests(S) \in SUBSET S /\ IsFiniteSet(Requests(S))
  <2>1. Requests(S) \in SUBSET S
    BY DEF Requests
  <2> QED
    BY <1>1, <2>1, FS_Subset
<1>3. CASE l.class = "skipped"
  <2>1. Requests(S \cup {l}) = Requests(S)
    BY <1>3 DEF Requests
  <2>2. AddLog(Summary(Requests(S), time, known), l, time, known) = Summary(Requests(S), time, known)
    BY <1>3 DEF AddLog
  <2> QED
    BY <1>1, <2>1, <2>2 DEF S, l
<1>4. CASE l.class # "skipped"
  <2>1. Requests(S \cup {l}) = Requests(S) \cup {l}
    BY <1>4 DEF Requests
  <2>2. AddLog(Summary(Requests(S), time, known), l, time, known) = Summary(Requests(S) \cup {l}, time, known)
    <3>1. Requests(S) \in SUBSET LogRecords /\ l \notin Requests(S)
      BY <1>1, <1>2
    <3> QED
      BY <1>1, <1>2, <1>4, <3>1, SummaryGrows
  <2> QED
    BY <1>1, <2>1, <2>2 DEF S, l
<1> QED
  BY <1>3, <1>4

(* After each turn the loop has counted the logs so far: there is no first *)
(* turn after which it has not.                                            *)
LEMMA LoopSums ==
    ASSUME NEW logs, NEW time, Loaded(logs, time), NEW known
    PROVE  \A i \in 0 .. Len(logs) :
              Totals(logs, time, known)[i] = Summary(Requests(UpTo(logs, i)), time, known)
<1> DEFINE s == Totals(logs, time, known)
           Bad == {i \in 0 .. Len(logs) : s[i] # Summary(Requests(UpTo(logs, i)), time, known)}
<1>1. Len(logs) \in Nat
  BY DEF Loaded
<1>2. /\ s[0] = NoStats
      /\ \A i \in 1 .. Len(logs) : s[i] = AddLog(s[i - 1], logs[i], time, known)
  BY <1>1, LoopUnfolds
<1> HIDE DEF s
<1>3. Bad = {}
  <2> SUFFICES ASSUME Bad # {} PROVE FALSE
    OBVIOUS
  <2>1. Min(Bad) \in Bad /\ \A x \in Bad : Min(Bad) <= x
    <3>1. Bad \in SUBSET Nat
      OBVIOUS
    <3> QED
      BY <3>1, MinIsLeast
  <2>2. PICK i \in 0 .. Len(logs) :
            /\ s[i] # Summary(Requests(UpTo(logs, i)), time, known)
            /\ \A x \in Bad : i <= x
    BY <2>1
  <2>3. CASE i = 0
    <3>1. Requests(UpTo(logs, 0)) = {}
      BY DEF Requests, UpTo
    <3> QED
      BY <1>2, <2>2, <2>3, <3>1, SummaryOfNothing
  <2>4. CASE i # 0
    <3>1. i \in 1 .. Len(logs) /\ i - 1 \in 0 .. Len(logs) /\ ~(i <= i - 1)
      BY <1>1, <2>4
    <3>2. s[i - 1] = Summary(Requests(UpTo(logs, i - 1)), time, known)
      BY <2>2, <3>1
    <3> QED
      BY <1>2, <2>2, <3>1, <3>2, TurnSums
  <2> QED
    BY <2>3, <2>4
<1> QED
  BY <1>3 DEF s

(* AggregateRequests counts right: for every list of logs of the longest   *)
(* period, in whatever order they come, the loop with its counters and     *)
(* maps gives the rows that the definition of the statistics gives.        *)
THEOREM AggregateIsReference ==
    ASSUME NEW logs, NEW time, Loaded(logs, time), NEW known
    PROVE  Aggregate(logs, time, known) = Reference(ToSet(logs), time, known)
<1> DEFINE s == Totals(logs, time, known)[Len(logs)]
           R == Requests(ToSet(logs))
           Owner(b) == IF b \in DOMAIN s.owner THEN s.owner[b] ELSE {}
<1>1. s = Summary(R, time, known)
  <2>1. Len(logs) \in Nat /\ Len(logs) \in 0 .. Len(logs) /\ DOMAIN logs = 1 .. Len(logs)
    BY DEF Loaded
  <2>2. UpTo(logs, Len(logs)) = ToSet(logs)
    BY <2>1 DEF UpTo, ToSet
  <2> QED
    BY <2>1, <2>2, LoopSums
<1> HIDE DEF R
<1>2. /\ s.platform = [p \in Periods |-> Count(Window(R, time, p))]
      /\ s.account = Counts(AccountLogs(R, time))
      /\ s.bucket = Counts(BucketLogs(R, time, known))
      /\ s.user = UserCounts(UserLogs(R, time))
      /\ s.prefix = Numbers(PrefixLogs(R, time, known))
      /\ s.daily = Counts(DayLogs(R, time))
      /\ s.owner = Owners(R, known)
  BY <1>1 DEF Summary
<1>3. ASSUME NEW b \in known PROVE Owner(b) = SoleAccount(Used(R, b))
  BY <1>2 DEF Owners, SoleAccount
<1>4. \A k \in DOMAIN s.bucket : k[1] \in known
  BY <1>2 DEF Counts, Present, BucketLogs
<1>5. \A k \in DOMAIN s.prefix : k[1] \in known
  BY <1>2 DEF Numbers, Present, PrefixLogs
<1>6. Aggregate(logs, time, known) =
        [platform |-> s.platform, daily |-> s.daily, account |-> s.account, user |-> s.user,
         bucket |-> [k \in DOMAIN s.bucket |-> [n |-> s.bucket[k], account |-> Owner(k[1])]],
         prefix |-> [k \in DOMAIN s.prefix |-> [n |-> s.prefix[k], account |-> Owner(k[1])]]]
  BY DEF Aggregate
<1> HIDE DEF s, Owner
<1>7. [k \in DOMAIN s.bucket |-> [n |-> s.bucket[k], account |-> Owner(k[1])]]
        = WithAccount(s.bucket, R)
  BY <1>3, <1>4 DEF WithAccount
<1>8. [k \in DOMAIN s.prefix |-> [n |-> s.prefix[k], account |-> Owner(k[1])]]
        = WithAccount(s.prefix, R)
  BY <1>3, <1>5 DEF WithAccount
<1> QED
  BY <1>2, <1>6, <1>7, <1>8 DEF Reference, R


-----------------------------------------------------------------------------
(* The aggregations and their transactions.                                *)
InTx == Names \cup {"insert", "commit"}
Labels == {"idle", "load", "names", "insert", "commit"} \cup Names

(* The variables are functions on the aggregations; ticks are counted.     *)
Shapes ==
    /\ DOMAIN now = Aggregators /\ DOMAIN view = Aggregators /\ DOMAIN rows = Aggregators
    /\ DOMAIN gone = Aggregators /\ DOMAIN waits = Aggregators /\ DOMAIN read = Aggregators
    /\ DOMAIN late = Aggregators /\ \A j \in Aggregators : DOMAIN gone[j] = Names
    /\ clock <= changes

Typed == TypeOK /\ Shapes

EnvPart ==
    /\ clock \in 0 .. MaxChanges /\ changes \in 0 .. MaxChanges /\ unique \in BOOLEAN
    /\ buckets \subseteq Buckets /\ clock <= changes
LocalPart ==
    /\ pc \in [Aggregators -> Labels] /\ run \in [Aggregators -> 0 .. MaxRuns]
    /\ DOMAIN now = Aggregators /\ DOMAIN view = Aggregators /\ DOMAIN rows = Aggregators
    /\ DOMAIN gone = Aggregators /\ DOMAIN waits = Aggregators /\ DOMAIN read = Aggregators
    /\ \A j \in Aggregators :
         /\ DOMAIN gone[j] = Names
         /\ pc[j] = "idle" => run[j] = NoRun /\ gone[j] = Empty /\ rows[j] = Empty
         /\ waits[j] # {} => pc[j] \in Names
CountPart == runs \in 0 .. MaxRuns /\ faults \in 0 .. MaxFaults /\ DOMAIN late = Aggregators

(* Typed by its parts.                                                     *)
LEMMA TypedParts == Typed <=> EnvPart /\ LocalPart /\ CountPart
BY DEF Typed, TypeOK, Shapes, EnvPart, LocalPart, CountPart, Labels

(* The types hold at the start.                                            *)
LEMMA TypedInit == Init => Typed
<1> SUFFICES ASSUME Init PROVE EnvPart /\ LocalPart /\ CountPart
  BY TypedParts
<1>1. EnvPart
  BY TablesAssumption DEF Init, EnvPart
<1>2. LocalPart
  BY TablesAssumption DEF Init, LocalPart, Labels, Empty, NoRun
<1>3. CountPart
  BY TablesAssumption DEF Init, CountPart
<1> QED
  BY <1>1, <1>2, <1>3

(* An aggregation that ends keeps the types.                               *)
LEMMA OverTyped ==
    ASSUME LocalPart, NEW j \in Aggregators, Over(j)
    PROVE  LocalPart'
<1>1. pc' \in [Aggregators -> Labels] /\ run' \in [Aggregators -> 0 .. MaxRuns]
  BY TablesAssumption DEF LocalPart, Over, Goto, Labels, NoRun
<1>2. /\ DOMAIN now' = Aggregators /\ DOMAIN view' = Aggregators /\ DOMAIN rows' = Aggregators
      /\ DOMAIN gone' = Aggregators /\ DOMAIN waits' = Aggregators /\ DOMAIN read' = Aggregators
  BY DEF LocalPart, Over
<1>3. ASSUME NEW i \in Aggregators
      PROVE  /\ DOMAIN gone'[i] = Names
             /\ pc'[i] = "idle" => run'[i] = NoRun /\ gone'[i] = Empty /\ rows'[i] = Empty
             /\ waits'[i] # {} => pc'[i] \in Names
  <2>1. CASE i = j
    BY <2>1 DEF LocalPart, Over, Goto, Empty
  <2>2. CASE i # j
    BY <2>2 DEF LocalPart, Over, Goto
  <2> QED
    BY <2>1, <2>2
<1> QED
  BY <1>1, <1>2, <1>3 DEF LocalPart

(* Every step keeps the types: one case per action.                        *)
LEMMA TypedNext == Typed /\ [Next]_vars => Typed'
<1> SUFFICES ASSUME EnvPart, LocalPart, CountPart, [Next]_vars
             PROVE  EnvPart' /\ LocalPart' /\ CountPart'
  BY TypedParts DEF Typed, TypeOK, Shapes, EnvPart, LocalPart, CountPart, Labels
<1> USE TablesAssumption
<1>1. CASE Environment
  <2>1. LocalPart' /\ CountPart'
    BY <1>1 DEF Environment, local, LocalPart, CountPart
  <2>2. changes \in 0 .. MaxChanges /\ changes < MaxChanges /\ changes' = changes + 1
    BY <1>1 DEF Environment, EnvPart
  <2>3. CASE Tick
    BY <2>1, <2>2, <2>3 DEF Tick, EnvPart
  <2>4. CASE Write
    BY <2>1, <2>2, <2>4 DEF Write, EnvPart
  <2>5. ASSUME NEW b \in Buckets, DropBucket(b) PROVE EnvPart'
    BY <2>2, <2>5 DEF DropBucket, EnvPart
  <2>6. ASSUME NEW k \in DOMAIN SizeOf, DropObject(k) PROVE EnvPart'
    BY <2>2, <2>6 DEF DropObject, EnvPart
  <2> QED
    BY <1>1, <2>1, <2>3, <2>4, <2>5, <2>6 DEF Environment
<1>2. ASSUME NEW j \in Aggregators, Begin(j) PROVE EnvPart' /\ LocalPart' /\ CountPart'
  <2>1. EnvPart' /\ CountPart'
    BY <1>2 DEF Begin, env, EnvPart, CountPart
  <2>2. pc' \in [Aggregators -> Labels] /\ run' \in [Aggregators -> 0 .. MaxRuns]
    BY <1>2 DEF Begin, LocalPart, CountPart, Goto, Labels
  <2>3. pc' = [pc EXCEPT ![j] = "load"] /\ waits[j] = {} /\ UNCHANGED <<gone, rows, waits, view, read>>
        /\ run' = [run EXCEPT ![j] = runs + 1] /\ now' = [now EXCEPT ![j] = clock]
    BY <1>2 DEF Begin, LocalPart, Goto, Names
  <2> QED
    BY <2>1, <2>2, <2>3 DEF LocalPart, Names
<1>3. ASSUME NEW j \in Aggregators, LoadLogs(j) PROVE EnvPart' /\ LocalPart' /\ CountPart'
  <2>1. EnvPart' /\ CountPart'
    BY <1>3 DEF LoadLogs, env, EnvPart, CountPart
  <2>2. pc' \in [Aggregators -> Labels]
    BY <1>3 DEF LoadLogs, LocalPart, Goto, Labels
  <2>3. pc' = [pc EXCEPT ![j] = "names"] /\ waits[j] = {} /\ UNCHANGED <<run, now, gone, rows, waits, read>>
    BY <1>3 DEF LoadLogs, LocalPart, Goto, Names
  <2>4. DOMAIN view' = Aggregators
    BY <1>3 DEF LoadLogs, LocalPart
  <2> QED
    BY <2>1, <2>2, <2>3, <2>4 DEF LocalPart, Names
<1>4. ASSUME NEW j \in Aggregators, LoadNames(j) PROVE EnvPart' /\ LocalPart' /\ CountPart'
  <2>1. EnvPart' /\ CountPart'
    BY <1>4 DEF LoadNames, env, EnvPart, CountPart
  <2>2. pc' \in [Aggregators -> Labels]
    BY <1>4 DEF LoadNames, LocalPart, Goto, Labels, Names
  <2>3. pc' = [pc EXCEPT ![j] = "prefix"] /\ waits[j] = {} /\ UNCHANGED <<run, now, gone, waits>>
    BY <1>4 DEF LoadNames, LocalPart, Goto, Names
  <2>4. /\ DOMAIN view' = Aggregators /\ DOMAIN rows' = Aggregators /\ DOMAIN read' = Aggregators
        /\ \A i \in Aggregators : i # j => rows'[i] = rows[i]
    BY <1>4 DEF LoadNames, LocalPart
  <2> QED
    BY <2>1, <2>2, <2>3, <2>4 DEF LocalPart, Names
<1>5. ASSUME NEW j \in Aggregators, Clear(j) PROVE EnvPart' /\ LocalPart' /\ CountPart'
  <2>1. EnvPart' /\ CountPart'
    BY <1>5 DEF Clear, env, EnvPart, CountPart
  <2>2. UNCHANGED <<run, now, view, rows, read>> /\ pc[j] \in Names
    BY <1>5 DEF Clear
  <2>3. CASE UNCHANGED <<gone, pc>> /\ \E S : waits' = [waits EXCEPT ![j] = S]
    BY <2>1, <2>2, <2>3 DEF LocalPart
  <2>4. CASE /\ waits' = [waits EXCEPT ![j] = {}] /\ pc' = [pc EXCEPT ![j] = Cleared[pc[j]]]
             /\ \E S : gone' = [gone EXCEPT ![j][pc[j]] = S]
    <3>1. Cleared[pc[j]] \in Labels /\ Cleared[pc[j]] # "idle"
      BY <2>2 DEF Cleared, Names, Labels
    <3>2. pc' \in [Aggregators -> Labels] /\ pc'[j] # "idle"
      BY <2>4, <3>1 DEF LocalPart
    <3>3. DOMAIN gone' = Aggregators /\ \A i \in Aggregators : DOMAIN gone'[i] = Names /\ (i # j => gone'[i] = gone[i])
      BY <2>4 DEF LocalPart
    <3> QED
      BY <2>1, <2>2, <2>4, <3>2, <3>3 DEF LocalPart
  <2> QED
    BY <1>5, <2>1, <2>3, <2>4 DEF Clear, Goto
<1>6. ASSUME NEW j \in Aggregators, Insert(j) PROVE EnvPart' /\ LocalPart' /\ CountPart'
  <2>1. EnvPart' /\ CountPart'
    BY <1>6 DEF Insert, env, EnvPart, CountPart
  <2>2. CASE Over(j)
    BY <2>1, <2>2, OverTyped
  <2>3. CASE Goto(j, "commit") /\ UNCHANGED <<run, now, view, rows, gone, waits, read>>
    <3>1. pc[j] = "insert" /\ waits[j] = {}
      BY <1>6 DEF Insert, LocalPart, Names
    <3>2. pc' \in [Aggregators -> Labels]
      BY <2>3 DEF LocalPart, Goto, Labels
    <3> QED
      BY <2>1, <2>3, <3>1, <3>2 DEF LocalPart, Goto
  <2> QED
    BY <1>6, <2>2, <2>3 DEF Insert
<1>7. ASSUME NEW j \in Aggregators, Commit(j) PROVE EnvPart' /\ LocalPart' /\ CountPart'
  <2>1. EnvPart' /\ CountPart'
    BY <1>7 DEF Commit, env, EnvPart, CountPart
  <2> QED
    BY <1>7, <2>1, OverTyped DEF Commit
<1>8. ASSUME NEW j \in Aggregators, Rollback(j) PROVE EnvPart' /\ LocalPart' /\ CountPart'
  <2>1. EnvPart' /\ CountPart'
    BY <1>8 DEF Rollback, Fault, env, EnvPart, CountPart
  <2> QED
    BY <1>8, <2>1, OverTyped DEF Rollback
<1>9. CASE UNCHANGED vars
  BY <1>9 DEF vars, env, local, EnvPart, LocalPart, CountPart
<1> QED
  BY <1>1, <1>2, <1>3, <1>4, <1>5, <1>6, <1>7, <1>8, <1>9 DEF Next, Work

(* TypeOK for any logs, periods and aggregations.                          *)
THEOREM StatsTypeCorrect == Spec => []TypeOK
<1>1. Typed => TypeOK
  BY DEF Typed
<1> QED
  BY <1>1, TypedInit, TypedNext, PTL DEF Spec


-----------------------------------------------------------------------------
(* What an aggregation has read, and what has become of it.                *)
AuditOK ==
    /\ audit \in Seq(LogRecords) /\ Len(audit) >= Len(OldLogs)
    /\ \A n \in DOMAIN audit : audit[n].id = n /\ OneAccount(audit[n])
    /\ size \in [DOMAIN SizeOf -> Nat]

(* Nobody has read a time that is still to come.                           *)
TimesOK ==
    /\ \A j \in Aggregators : now[j] \in Int /\ now[j] <= clock
    /\ last.now \in Int /\ last.now <= clock

(* The logs S are those of the table A from the longest period before      *)
(* time, and maybe some that were written at that time or later.           *)
Traced(S, time, A) ==
    /\ S \in SUBSET LogRecords /\ IsFiniteSet(S)
    /\ \A l \in S : l.id \in DOMAIN A /\ l.at = A[l.id].at /\ l.class = A[l.id].class
    /\ \A l \in S : l.at >= Since(time)
    /\ \A l, m \in S : l.id = m.id => l = m
    /\ \A n \in DOMAIN A : A[n].at >= Since(time) /\ A[n].at < time => \E l \in S : l.id = n

ReadInv ==
    /\ AuditOK /\ TimesOK
    /\ \A j \in Aggregators :
         /\ pc[j] = "names" => Loaded(view[j], now[j]) /\ Traced(ToSet(view[j]), now[j], audit)
         /\ pc[j] \in InTx => Traced(read[j].logs, now[j], audit)
    /\ last.run # NoRun => Traced(last.read.logs, last.now, audit)

(* The rows of an open transaction are those of what it has read.          *)
Computed ==
    \A j \in Aggregators : pc[j] \in InTx =>
        rows[j] = RowsOf(Reference(read[j].logs, now[j], read[j].known), run[j])

(* The tables that a transaction has cleared when it is at a label.        *)
Past == [prefix |-> {}, user |-> {"prefix"}, bucket |-> {"prefix", "user"},
         account |-> {"prefix", "user", "bucket"},
         daily |-> {"prefix", "user", "bucket", "account"},
         platform |-> {"prefix", "user", "bucket", "account", "daily"},
         insert |-> Names, commit |-> Names]

(* A transaction during which no other has committed has deleted all rows  *)
(* of the tables that it has cleared.                                      *)
Emptied ==
    \A j \in Aggregators : (pc[j] \in InTx /\ ~late[j]) =>
        /\ \A t \in Past[pc[j]] : gone[j][t] = table[t]
        /\ waits[j] # {} => waits[j] = table[pc[j]]

(* The platform table has rows for periods only.                           *)
PlatformRows ==
    /\ Entries(table["platform"]) \subseteq Periods
    /\ NeverEmpty

SnapshotInv == Computed /\ Emptied /\ OneSnapshot /\ PlatformRows


(* An aggregation has a row for every period.                              *)
LEMMA PlatformEntries ==
    ASSUME NEW S, NEW time, NEW known, NEW r
    PROVE  Entries(RowsOf(Reference(S, time, known), r)["platform"]) = Periods
<1> DEFINE stats == Reference(S, time, known)
<1>1. DOMAIN stats["platform"] = Periods
  BY DEF Reference
<1> HIDE DEF stats
<1>2. RowsOf(stats, r)["platform"]
        = {[run |-> r, entry |-> k, value |-> stats["platform"][k]] : k \in Periods}
  BY <1>1 DEF RowsOf, Names
<1>3. Entries({[run |-> r, entry |-> k, value |-> stats["platform"][k]] : k \in Periods}) = Periods
  <2> DEFINE Row(k) == [run |-> r, entry |-> k, value |-> stats["platform"][k]]
  <2>1. \A k : Row(k).entry = k
    OBVIOUS
  <2> HIDE DEF Row
  <2>2. Entries({Row(k) : k \in Periods}) = Periods
    BY <2>1 DEF Entries
  <2> QED
    BY <2>2 DEF Row
<1> QED
  BY <1>2, <1>3 DEF stats

(* The order in which the tables are cleared.                              *)
LEMMA PastGrows ==
    ASSUME NEW t \in Names
    PROVE  Past[Cleared[t]] = Past[t] \cup {t} /\ Cleared[t] \in InTx
<1>1. CASE t = "prefix"
  BY <1>1 DEF Past, Cleared, InTx, Names
<1>2. CASE t = "user"
  BY <1>2 DEF Past, Cleared, InTx, Names
<1>3. CASE t = "bucket"
  BY <1>3 DEF Past, Cleared, InTx, Names
<1>4. CASE t = "account"
  BY <1>4 DEF Past, Cleared, InTx, Names
<1>5. CASE t = "daily"
  BY <1>5 DEF Past, Cleared, InTx, Names
<1>6. CASE t = "platform"
  BY <1>6 DEF Past, Cleared, InTx, Names
<1> QED
  BY <1>1, <1>2, <1>3, <1>4, <1>5, <1>6 DEF Names

(* There are no statistics at the start.                                   *)
LEMMA SnapshotInit == Init => SnapshotInv
<1> SUFFICES ASSUME Init PROVE SnapshotInv
  OBVIOUS
<1>1. \A j \in Aggregators : pc[j] \notin InTx
  BY DEF Init, InTx, Names
<1>2. last.run = NoRun
  BY DEF Init, NoLast
<1>3. Entries(table["platform"]) = {}
  BY DEF Init, Empty, Names, Entries
<1> QED
  BY <1>1, <1>2, <1>3 DEF SnapshotInv, Computed, Emptied, OneSnapshot, PlatformRows, NeverEmpty

(* A step that leaves the tables alone.                                    *)
LEMMA TablesKept ==
    ASSUME OneSnapshot, PlatformRows, UNCHANGED <<table, last, mixed>>
    PROVE  OneSnapshot' /\ PlatformRows'
BY DEF OneSnapshot, PlatformRows, NeverEmpty

(* Aggregations other than j are as they were, and j is not in its         *)
(* transaction.                                                            *)
LEMMA TxLeft ==
    ASSUME Typed, Computed, Emptied, NEW j \in Aggregators, UNCHANGED <<table, late>>,
           \A i \in Aggregators \ {j} :
              /\ pc'[i] = pc[i] /\ run'[i] = run[i] /\ now'[i] = now[i] /\ rows'[i] = rows[i]
              /\ gone'[i] = gone[i] /\ waits'[i] = waits[i] /\ read'[i] = read[i],
           pc'[j] \notin InTx
    PROVE  Computed' /\ Emptied'
<1>1. Computed'
  <2> SUFFICES ASSUME NEW i \in Aggregators, pc'[i] \in InTx
               PROVE  rows'[i] = RowsOf(Reference(read'[i].logs, now'[i], read'[i].known), run'[i])
    BY DEF Computed
  <2>1. i \in Aggregators \ {j}
    OBVIOUS
  <2>2. pc'[i] = pc[i] /\ run'[i] = run[i] /\ now'[i] = now[i] /\ rows'[i] = rows[i] /\ read'[i] = read[i]
    BY <2>1
  <2> QED
    BY <2>2 DEF Computed
<1>2. Emptied'
  <2> SUFFICES ASSUME NEW i \in Aggregators, pc'[i] \in InTx /\ ~late'[i]
               PROVE  /\ \A t \in Past[pc'[i]] : gone'[i][t] = table'[t]
                      /\ waits'[i] # {} => waits'[i] = table'[pc'[i]]
    BY DEF Emptied
  <2>1. i \in Aggregators \ {j}
    OBVIOUS
  <2>2. pc'[i] = pc[i] /\ gone'[i] = gone[i] /\ waits'[i] = waits[i]
    BY <2>1
  <2> QED
    BY <2>2 DEF Emptied
<1> QED
  BY <1>1, <1>2

(* An aggregation that ends leaves the others alone.                       *)
LEMMA OverLeft ==
    ASSUME Typed, NEW j \in Aggregators, Over(j)
    PROVE  /\ pc'[j] \notin InTx
           /\ \A i \in Aggregators \ {j} :
              /\ pc'[i] = pc[i] /\ run'[i] = run[i] /\ now'[i] = now[i] /\ rows'[i] = rows[i]
              /\ gone'[i] = gone[i] /\ waits'[i] = waits[i] /\ read'[i] = read[i]
BY DEF Over, Goto, Typed, TypeOK, Shapes, InTx, Names

(* A DELETE that no commit has come between takes all rows.                *)
LEMMA ClearKeeps ==
    ASSUME Typed, SnapshotInv, NEW j \in Aggregators, Clear(j)
    PROVE  Computed' /\ Emptied'
<1> DEFINE t == pc[j]
           seen == IF waits[j] = {} THEN table[t] ELSE waits[j]
<1>1. t \in Names /\ t \in InTx /\ UNCHANGED <<table, run, now, rows, read, late>>
  BY DEF Clear, InTx
<1>2. DOMAIN gone[j] = Names /\ DOMAIN gone = Aggregators /\ DOMAIN waits = Aggregators
      /\ DOMAIN pc = Aggregators
  BY DEF Typed, TypeOK, Shapes
<1>3. ASSUME ~late[j] PROVE seen = table[t] /\ \A u \in Past[t] : gone[j][u] = table[u]
  BY <1>1, <1>3 DEF SnapshotInv, Emptied
<1>4. CASE /\ gone' = [gone EXCEPT ![j][t] = seen \cap table[t]]
           /\ waits' = [waits EXCEPT ![j] = {}] /\ pc' = [pc EXCEPT ![j] = Cleared[t]]
  <2>1. Computed'
    <3> SUFFICES ASSUME NEW i \in Aggregators, pc'[i] \in InTx
                 PROVE  rows'[i] = RowsOf(Reference(read'[i].logs, now'[i], read'[i].known), run'[i])
      BY DEF Computed
    <3>1. pc[i] \in InTx
      BY <1>1, <1>2, <1>4
    <3> QED
      BY <1>1, <3>1 DEF SnapshotInv, Computed
  <2>2. Emptied'
    <3> SUFFICES ASSUME NEW i \in Aggregators, pc'[i] \in InTx /\ ~late'[i]
                 PROVE  /\ \A u \in Past[pc'[i]] : gone'[i][u] = table'[u]
                        /\ waits'[i] # {} => waits'[i] = table'[pc'[i]]
      BY DEF Emptied
    <3>1. CASE i = j
      <4>1. pc'[j] = Cleared[t] /\ waits'[j] = {} /\ gone'[j][t] = seen \cap table[t]
            /\ \A u \in Names \ {t} : gone'[j][u] = gone[j][u]
        BY <1>1, <1>2, <1>4
      <4>2. Past[Cleared[t]] = Past[t] \cup {t} /\ Past[t] \subseteq Names
        BY <1>1, PastGrows DEF Past, Names
      <4>3. ~late[j]
        BY <1>1, <3>1
      <4> HIDE DEF t, seen
      <4>4. \A u \in Past[t] \cup {t} : gone'[j][u] = table[u]
        BY <1>3, <4>1, <4>2, <4>3
      <4> QED
        BY <1>1, <3>1, <4>1, <4>2, <4>4
    <3>2. CASE i # j
      <4>1. pc'[i] = pc[i] /\ waits'[i] = waits[i] /\ gone'[i] = gone[i]
        BY <1>2, <1>4, <3>2
      <4> QED
        BY <1>1, <4>1 DEF SnapshotInv, Emptied
    <3> QED
      BY <3>1, <3>2
  <2> QED
    BY <2>1, <2>2
<1>5. CASE waits' = [waits EXCEPT ![j] = seen] /\ UNCHANGED <<gone, pc>>
  <2>1. Computed'
    BY <1>1, <1>5 DEF SnapshotInv, Computed
  <2>2. Emptied'
    <3> SUFFICES ASSUME NEW i \in Aggregators, pc'[i] \in InTx /\ ~late'[i]
                 PROVE  /\ \A u \in Past[pc'[i]] : gone'[i][u] = table'[u]
                        /\ waits'[i] # {} => waits'[i] = table'[pc'[i]]
      BY DEF Emptied
    <3>1. CASE i = j
      <4>1. waits'[j] = seen /\ ~late[j]
        BY <1>1, <1>2, <1>5, <3>1
      <4> QED
        BY <1>1, <1>3, <1>5, <3>1, <4>1
    <3>2. CASE i # j
      <4>1. waits'[i] = waits[i]
        BY <1>2, <1>5, <3>2
      <4> QED
        BY <1>1, <1>5, <4>1 DEF SnapshotInv, Emptied
    <3> QED
      BY <3>1, <3>2
  <2> QED
    BY <2>1, <2>2
<1> QED
  BY <1>4, <1>5 DEF Clear, Goto

(* A commit shows the rows of its transaction; the others in a transaction *)
(* are late.                                                               *)
LEMMA CommitKeeps ==
    ASSUME Typed, SnapshotInv, NEW j \in Aggregators, Commit(j)
    PROVE  SnapshotInv'
<1>1. /\ pc[j] = "commit" /\ pc[j] \in InTx
      /\ table' = [t \in Names |-> (table[t] \ gone[j][t]) \cup rows[j][t]]
      /\ last' = [run |-> run[j], now |-> now[j], read |-> read[j]] /\ mixed' = late[j]
      /\ \A i \in Aggregators : late'[i] = (i # j /\ (late[i] \/ pc[i] \in Names \cup {"insert", "commit"}))
      /\ Over(j)
  BY DEF Commit, Replaced, InTx
<1>2. /\ pc'[j] \notin InTx
      /\ \A i \in Aggregators \ {j} :
           /\ pc'[i] = pc[i] /\ run'[i] = run[i] /\ now'[i] = now[i] /\ rows'[i] = rows[i]
           /\ read'[i] = read[i]
  BY <1>1, OverLeft
<1>3. rows[j] = RowsOf(Reference(read[j].logs, now[j], read[j].known), run[j])
  BY <1>1 DEF SnapshotInv, Computed
<1>4. Computed'
  <2> SUFFICES ASSUME NEW i \in Aggregators, pc'[i] \in InTx
               PROVE  rows'[i] = RowsOf(Reference(read'[i].logs, now'[i], read'[i].known), run'[i])
    BY DEF Computed
  <2>1. i \in Aggregators \ {j}
    BY <1>2
  <2>2. pc'[i] = pc[i] /\ run'[i] = run[i] /\ now'[i] = now[i] /\ rows'[i] = rows[i] /\ read'[i] = read[i]
    BY <1>2, <2>1
  <2> QED
    BY <2>2 DEF SnapshotInv, Computed
<1>5. Emptied'
  <2> SUFFICES ASSUME NEW i \in Aggregators, pc'[i] \in InTx
               PROVE  late'[i]
    BY DEF Emptied
  <2>1. i \in Aggregators \ {j}
    BY <1>2
  <2>2. pc[i] \in InTx
    BY <1>2, <2>1
  <2> QED
    BY <1>1, <2>1, <2>2 DEF InTx
<1>6. OneSnapshot'
  <2> SUFFICES /\ \A t \in Names : rows[j][t] \subseteq table'[t]
               /\ ~late[j] => table' = rows[j]
    BY <1>1, <1>3 DEF OneSnapshot
  <2>0. \A t \in Names : rows[j][t] \subseteq table'[t]
    BY <1>1
  <2> SUFFICES ASSUME ~late[j] PROVE table' = rows[j]
    BY <2>0
  <2>1. \A t \in Names : gone[j][t] = table[t]
    <3>1. Past[pc[j]] = Names
      BY <1>1 DEF Past
    <3> QED
      BY <1>1, <3>1 DEF SnapshotInv, Emptied
  <2>2. rows[j] = [t \in Names |-> rows[j][t]]
    BY <1>3 DEF RowsOf
  <2>3. \A t \in Names : (table[t] \ gone[j][t]) \cup rows[j][t] = rows[j][t]
    BY <2>1
  <2> QED
    BY <1>1, <2>2, <2>3
<1>7. PlatformRows'
  <2>1. Entries(rows[j]["platform"]) = Periods
    BY <1>3, PlatformEntries
  <2>2. table'["platform"] = (table["platform"] \ gone[j]["platform"]) \cup rows[j]["platform"]
    BY <1>1 DEF Names
  <2>3. Entries(table["platform"]) \subseteq Periods
    BY DEF SnapshotInv, PlatformRows
  <2>4. Entries(table'["platform"]) = Periods
    BY <2>1, <2>2, <2>3 DEF Entries
  <2> QED
    BY <2>4 DEF PlatformRows, NeverEmpty, Entries
<1> QED
  BY <1>4, <1>5, <1>6, <1>7 DEF SnapshotInv

(* Every step keeps the tables one reading of the log.                     *)
LEMMA SnapshotNext == Typed /\ ReadInv /\ SnapshotInv /\ [Next]_vars => SnapshotInv'
<1> SUFFICES ASSUME Typed, ReadInv, SnapshotInv, [Next]_vars PROVE SnapshotInv'
  OBVIOUS
<1>0. Computed /\ Emptied /\ OneSnapshot /\ PlatformRows
  BY DEF SnapshotInv
<1>t. /\ DOMAIN pc = Aggregators /\ DOMAIN run = Aggregators
      /\ DOMAIN now = Aggregators /\ DOMAIN view = Aggregators /\ DOMAIN rows = Aggregators
      /\ DOMAIN gone = Aggregators /\ DOMAIN waits = Aggregators /\ DOMAIN read = Aggregators
      /\ DOMAIN late = Aggregators /\ \A j \in Aggregators : waits[j] # {} => pc[j] \in Names
  BY DEF Typed, TypeOK, Shapes
<1>1. CASE Environment \/ UNCHANGED vars
  <2>1. UNCHANGED <<table, pc, run, now, rows, gone, waits, read, late, last, mixed>>
    BY <1>1 DEF Environment, local, vars
  <2>2. Computed' /\ Emptied'
    BY <1>0, <2>1 DEF Computed, Emptied
  <2> QED
    BY <1>0, <2>1, <2>2, TablesKept DEF SnapshotInv
<1>2. ASSUME NEW j \in Aggregators, Begin(j) PROVE SnapshotInv'
  <2>1. UNCHANGED <<table, last, mixed, rows, gone, waits, read>> /\ pc'[j] = "load"
    BY <1>2, <1>t DEF Begin, Goto
  <2>2. \A i \in Aggregators \ {j} :
           pc'[i] = pc[i] /\ run'[i] = run[i] /\ now'[i] = now[i] /\ late'[i] = late[i]
    BY <1>2, <1>t DEF Begin, Goto
  <2>3. \A i \in Aggregators : pc'[i] \in InTx => i \in Aggregators \ {j}
    BY <2>1 DEF InTx, Names
  <2>4. Computed' /\ Emptied'
    BY <1>0, <2>1, <2>2, <2>3 DEF Computed, Emptied
  <2> QED
    BY <1>0, <2>1, <2>4, TablesKept DEF SnapshotInv
<1>3. ASSUME NEW j \in Aggregators, LoadLogs(j) PROVE SnapshotInv'
  <2>1. UNCHANGED <<table, run, now, rows, gone, waits, read, late, last, mixed>>
        /\ pc'[j] \notin InTx /\ \A i \in Aggregators \ {j} : pc'[i] = pc[i]
    BY <1>3, <1>t DEF LoadLogs, Goto, InTx, Names
  <2>2. Computed' /\ Emptied'
    BY <1>0, <2>1, TxLeft
  <2> QED
    BY <1>0, <2>1, <2>2, TablesKept DEF SnapshotInv
<1>4. ASSUME NEW j \in Aggregators, LoadNames(j) PROVE SnapshotInv'
  <2>1. /\ UNCHANGED <<table, run, now, gone, waits, late, last, mixed>>
        /\ pc[j] = "names" /\ pc'[j] = "prefix"
        /\ rows'[j] = RowsOf(Aggregate(view[j], now[j], buckets), run[j])
        /\ read'[j] = [logs |-> ToSet(view[j]), known |-> buckets]
        /\ \A i \in Aggregators \ {j} : pc'[i] = pc[i] /\ rows'[i] = rows[i] /\ read'[i] = read[i]
    BY <1>4, <1>t DEF LoadNames, Goto
  <2>2. Aggregate(view[j], now[j], buckets) = Reference(ToSet(view[j]), now[j], buckets)
    BY <2>1, AggregateIsReference DEF ReadInv
  <2>3. Computed'
    <3> SUFFICES ASSUME NEW i \in Aggregators, pc'[i] \in InTx
                 PROVE  rows'[i] = RowsOf(Reference(read'[i].logs, now'[i], read'[i].known), run'[i])
      BY DEF Computed
    <3>1. CASE i = j
      BY <2>1, <2>2, <3>1
    <3>2. CASE i # j
      BY <1>0, <2>1, <3>2 DEF Computed
    <3> QED
      BY <3>1, <3>2
  <2>4. Emptied'
    <3> SUFFICES ASSUME NEW i \in Aggregators, pc'[i] \in InTx /\ ~late'[i]
                 PROVE  /\ \A u \in Past[pc'[i]] : gone'[i][u] = table'[u]
                        /\ waits'[i] # {} => waits'[i] = table'[pc'[i]]
      BY DEF Emptied
    <3>1. CASE i = j
      BY <1>t, <2>1, <3>1 DEF Past, Names
    <3>2. CASE i # j
      BY <1>0, <2>1, <3>2 DEF Emptied
    <3> QED
      BY <3>1, <3>2
  <2> QED
    BY <1>0, <2>1, <2>3, <2>4, TablesKept DEF SnapshotInv
<1>5. ASSUME NEW j \in Aggregators, Clear(j) PROVE SnapshotInv'
  <2>1. UNCHANGED <<table, last, mixed>>
    BY <1>5 DEF Clear
  <2> QED
    BY <1>0, <1>5, <2>1, ClearKeeps, TablesKept DEF SnapshotInv
<1>6. ASSUME NEW j \in Aggregators, Insert(j) PROVE SnapshotInv'
  <2>1. UNCHANGED <<table, late, last, mixed>> /\ pc[j] = "insert"
    BY <1>6 DEF Insert
  <2>2. CASE Over(j)
    <3>1. Computed' /\ Emptied'
      BY <1>0, <2>1, <2>2, OverLeft, TxLeft
    <3> QED
      BY <1>0, <2>1, <3>1, TablesKept DEF SnapshotInv
  <2>3. CASE Goto(j, "commit") /\ UNCHANGED <<run, now, view, rows, gone, waits, read>>
    <3>1. pc'[j] = "commit" /\ waits[j] = {} /\ \A i \in Aggregators \ {j} : pc'[i] = pc[i]
      BY <1>t, <2>1, <2>3 DEF Goto, Names
    <3>2. Past["commit"] = Past["insert"] /\ "insert" \in InTx
      BY DEF Past, InTx
    <3>3. Computed'
      BY <1>0, <2>1, <2>3, <3>1, <3>2 DEF Computed
    <3>4. Emptied'
      BY <1>0, <2>1, <2>3, <3>1, <3>2 DEF Emptied
    <3> QED
      BY <1>0, <2>1, <3>3, <3>4, TablesKept DEF SnapshotInv
  <2> QED
    BY <1>6, <2>2, <2>3 DEF Insert
<1>7. ASSUME NEW j \in Aggregators, Commit(j) PROVE SnapshotInv'
  BY <1>7, CommitKeeps
<1>8. ASSUME NEW j \in Aggregators, Rollback(j) PROVE SnapshotInv'
  <2>1. UNCHANGED <<table, late, last, mixed>> /\ Over(j)
    BY <1>8 DEF Rollback
  <2>2. Computed' /\ Emptied'
    BY <1>0, <2>1, OverLeft, TxLeft
  <2> QED
    BY <1>0, <2>1, <2>2, TablesKept DEF SnapshotInv
<1> QED
  BY <1>1, <1>2, <1>3, <1>4, <1>5, <1>6, <1>7, <1>8 DEF Next, Work


-----------------------------------------------------------------------------
(* loadLogs.                                                               *)
LEMMA SizedFits ==
    ASSUME AuditOK, NEW l \in LogRecords
    PROVE  /\ Sized(l) \in LogRecords /\ Sized(l).id = l.id /\ Sized(l).at = l.at
           /\ Sized(l).class = l.class /\ Sized(l).account = l.account
<1> DEFINE found == (l.bucket \X l.key) \cap DOMAIN size
           z == IF found = {} THEN 0 ELSE size[CHOOSE o \in found : TRUE]
<1>1. z \in Nat
  <2>1. found \subseteq DOMAIN size /\ \A o \in DOMAIN size : size[o] \in Nat
    BY DEF AuditOK
  <2>2. found # {} => (CHOOSE o \in found : TRUE) \in found
    OBVIOUS
  <2> HIDE DEF found
  <2> QED
    BY <2>1, <2>2
<1> HIDE DEF z
<1>2. Sized(l) = [l EXCEPT !.size = z]
  BY DEF Sized, z
<1> HIDE DEF found
<1> QED
  BY <1>1, <1>2 DEF LogRecords

(* The logs in another order are the same logs.                            *)
LEMMA ReverseLoaded ==
    ASSUME NEW s, NEW time, Loaded(s, time)
    PROVE  Loaded(Reverse(s), time) /\ ToSet(Reverse(s)) = ToSet(s)
<1> DEFINE n == Len(s)
           r == Reverse(s)
<1>1. n \in Nat /\ DOMAIN s = 1 .. n /\ \A i \in 1 .. n : s[i] \in LogRecords
  BY DEF Loaded
<1>2. r = [i \in 1 .. n |-> s[(n - i) + 1]]
  BY DEF Reverse
<1> HIDE DEF n, r
<1>3. \A i \in 1 .. n : (n - i) + 1 \in 1 .. n
  BY <1>1
<1>4. r \in Seq(LogRecords) /\ DOMAIN r = 1 .. n /\ \A i \in 1 .. n : r[i] = s[(n - i) + 1]
  BY <1>1, <1>2, <1>3
<1>5. \A i, j \in DOMAIN r : r[i] = r[j] => i = j
  <2> SUFFICES ASSUME NEW i \in 1 .. n, NEW j \in 1 .. n, r[i] = r[j] PROVE i = j
    BY <1>4
  <2>1. (n - i) + 1 = (n - j) + 1
    BY <1>1, <1>3, <1>4 DEF Loaded
  <2> QED
    BY <1>1, <2>1
<1>6. \A i \in DOMAIN r : OneAccount(r[i]) /\ r[i].at >= Since(time)
  BY <1>1, <1>3, <1>4 DEF Loaded
<1>7. ToSet(r) = ToSet(s)
  <2>1. \A i \in 1 .. n : s[i] = r[(n - i) + 1]
    <3> SUFFICES ASSUME NEW i \in 1 .. n PROVE s[i] = r[(n - i) + 1]
      OBVIOUS
    <3>1. (n - ((n - i) + 1)) + 1 = i
      BY <1>1
    <3> QED
      BY <1>3, <1>4, <3>1
  <2> QED
    BY <1>1, <1>3, <1>4, <2>1 DEF ToSet
<1> QED
  BY <1>4, <1>5, <1>6, <1>7 DEF Loaded, r

(* loadLogs returns every log of the longest period once.                  *)
LEMMA LogsLoaded ==
    ASSUME AuditOK, NEW j \in Aggregators, now[j] \in Int
    PROVE  LET ids == Sorted({n \in DOMAIN audit : audit[n].at >= Since(now[j])})
               found == [i \in DOMAIN ids |-> Sized(audit[ids[i]])]
           IN  \A s \in {found, Reverse(found)} :
                  Loaded(s, now[j]) /\ Traced(ToSet(s), now[j], audit)
<1> DEFINE N == {n \in DOMAIN audit : audit[n].at >= Since(now[j])}
           ids == Sorted(N)
           found == [i \in DOMAIN ids |-> Sized(audit[ids[i]])]
           c == Cardinality(N)
<1>1. /\ DOMAIN audit = 1 .. Len(audit) /\ Len(audit) \in Nat
      /\ \A n \in DOMAIN audit : audit[n] \in LogRecords /\ audit[n].id = n /\ OneAccount(audit[n])
  BY DEF AuditOK
<1>2. N \in SUBSET Int /\ N \subseteq 1 .. Len(audit)
  BY <1>1
<1>3. IsFiniteSet(N)
  <2>1. IsFiniteSet(1 .. Len(audit))
    BY <1>1, FS_Interval
  <2> QED
    BY <1>2, <2>1, FS_Subset
<1>4. c \in Nat
  BY <1>3, FS_CardinalityType
<1>5. /\ DOMAIN ids = 1 .. c /\ \A i \in 1 .. c : ids[i] \in N
      /\ \A k \in N : \E i \in 1 .. c : ids[i] = k
      /\ \A a, b \in 1 .. c : a < b => ids[a] < ids[b]
  <2>1. /\ ids \in Seq(N) /\ Len(ids) = c
        /\ \A k \in N : \E i \in 1 .. c : ids[i] = k
        /\ \A a, b \in 1 .. c : a < b => ids[a] < ids[b]
    BY <1>2, <1>3, SortedLists
  <2> HIDE DEF ids, c, N
  <2> QED
    BY <2>1
<1>6. \A n \in N : n \in DOMAIN audit /\ audit[n].at >= Since(now[j])
  OBVIOUS
<1>7. \A n \in DOMAIN audit : audit[n].at >= Since(now[j]) => n \in N
  OBVIOUS
<1>8. found = [i \in 1 .. c |-> Sized(audit[ids[i]])]
  BY <1>5
<1> HIDE DEF N, ids, found, c
<1>9. \A i \in 1 .. c :
         /\ found[i] \in LogRecords /\ found[i].id = ids[i] /\ OneAccount(found[i])
         /\ found[i].at = audit[ids[i]].at /\ found[i].class = audit[ids[i]].class
         /\ found[i].at >= Since(now[j])
  <2> SUFFICES ASSUME NEW i \in 1 .. c
               PROVE  /\ found[i] \in LogRecords /\ found[i].id = ids[i] /\ OneAccount(found[i])
                      /\ found[i].at = audit[ids[i]].at /\ found[i].class = audit[ids[i]].class
                      /\ found[i].at >= Since(now[j])
    OBVIOUS
  <2>1. ids[i] \in N /\ ids[i] \in DOMAIN audit /\ audit[ids[i]].at >= Since(now[j])
    BY <1>5, <1>6
  <2>2. audit[ids[i]] \in LogRecords /\ audit[ids[i]].id = ids[i] /\ OneAccount(audit[ids[i]])
    BY <1>1, <2>1
  <2>3. found[i] = Sized(audit[ids[i]])
    BY <1>8
  <2>4. /\ found[i] \in LogRecords /\ found[i].id = audit[ids[i]].id /\ found[i].at = audit[ids[i]].at
        /\ found[i].class = audit[ids[i]].class /\ found[i].account = audit[ids[i]].account
    BY <2>2, <2>3, SizedFits
  <2> QED
    BY <2>1, <2>2, <2>4 DEF OneAccount
<1>10. \A a, b \in 1 .. c : ids[a] = ids[b] => a = b
  <2> SUFFICES ASSUME NEW a \in 1 .. c, NEW b \in 1 .. c, ids[a] = ids[b], a # b PROVE FALSE
    OBVIOUS
  <2>1. ids[a] \in Int /\ ids[b] \in Int
    BY <1>2, <1>5
  <2>2. a < b \/ b < a
    BY <1>4
  <2> QED
    BY <1>5, <2>1, <2>2
<1>11. Loaded(found, now[j])
  <2>1. found \in Seq(LogRecords) /\ DOMAIN found = 1 .. c
    BY <1>4, <1>8, <1>9
  <2>2. \A a, b \in 1 .. c : found[a] = found[b] => a = b
    BY <1>9, <1>10
  <2> QED
    BY <1>9, <2>1, <2>2 DEF Loaded
<1>12. Traced(ToSet(found), now[j], audit)
  <2>1. ToSet(found) = {found[i] : i \in 1 .. c}
    BY <1>8 DEF ToSet
  <2>2. ToSet(found) \in SUBSET LogRecords /\ IsFiniteSet(ToSet(found))
    BY <1>11, ToSetFinite DEF Loaded
  <2>3. \A l \in ToSet(found) :
           /\ l.id \in DOMAIN audit /\ l.at = audit[l.id].at /\ l.class = audit[l.id].class
           /\ l.at >= Since(now[j])
    BY <1>5, <1>6, <1>9, <2>1
  <2>4. \A l, m \in ToSet(found) : l.id = m.id => l = m
    BY <1>9, <1>10, <2>1
  <2>5. \A n \in DOMAIN audit : audit[n].at >= Since(now[j]) => \E l \in ToSet(found) : l.id = n
    BY <1>5, <1>7, <1>9, <2>1
  <2> QED
    BY <2>2, <2>3, <2>4, <2>5 DEF Traced
<1>13. \A s \in {found, Reverse(found)} : Loaded(s, now[j]) /\ Traced(ToSet(s), now[j], audit)
  BY <1>11, <1>12, ReverseLoaded
<1> QED
  BY <1>13 DEF found, ids, N

(* A log that is written later is not one that was missed.                 *)
LEMMA TracedStays ==
    ASSUME NEW S, NEW time \in Int, NEW A \in Seq(LogRecords), Traced(S, time, A),
           NEW l \in LogRecords, l.at >= time
    PROVE  Traced(S, time, Append(A, l))
<1> DEFINE B == Append(A, l)
<1>1. /\ DOMAIN A = 1 .. Len(A) /\ Len(A) \in Nat /\ DOMAIN B = 1 .. Len(A) + 1
      /\ \A n \in 1 .. Len(A) : B[n] = A[n]
      /\ B[Len(A) + 1] = l
  OBVIOUS
<1> HIDE DEF B
<1>2. \A m \in S : m.id \in DOMAIN B /\ m.at = B[m.id].at /\ m.class = B[m.id].class
  BY <1>1 DEF Traced
<1>3. \A n \in DOMAIN B : B[n].at >= Since(time) /\ B[n].at < time => \E m \in S : m.id = n
  <2> SUFFICES ASSUME NEW n \in DOMAIN B, B[n].at >= Since(time) /\ B[n].at < time
               PROVE  \E m \in S : m.id = n
    OBVIOUS
  <2>1. n # Len(A) + 1
    <3>1. l.at \in Int /\ l.at >= time
      BY DEF LogRecords
    <3> QED
      BY <1>1, <3>1
  <2>2. n \in 1 .. Len(A)
    BY <1>1, <2>1
  <2> QED
    BY <1>1, <2>2 DEF Traced
<1>4. Traced(S, time, B)
  BY <1>2, <1>3 DEF Traced
<1> QED
  BY <1>4 DEF B


ReadPart(A) ==
    /\ \A j \in Aggregators :
         /\ pc[j] = "names" => Loaded(view[j], now[j]) /\ Traced(ToSet(view[j]), now[j], A)
         /\ pc[j] \in InTx => Traced(read[j].logs, now[j], A)
    /\ last.run # NoRun => Traced(last.read.logs, last.now, A)

(* Nothing has been read at the start.                                     *)
LEMMA ReadInit == Init => ReadInv
<1> SUFFICES ASSUME Init PROVE ReadInv
  OBVIOUS
<1>1. AuditOK
  BY TablesAssumption DEF Init, AuditOK
<1>2. TimesOK
  BY DEF Init, TimesOK, NoLast
<1>3. \A j \in Aggregators : pc[j] # "names" /\ pc[j] \notin InTx
  BY DEF Init, InTx, Names
<1>4. last.run = NoRun
  BY DEF Init, NoLast
<1> QED
  BY <1>1, <1>2, <1>3, <1>4 DEF ReadInv

(* A log that is written later changes nothing for those that have read.   *)
LEMMA WriteReads ==
    ASSUME Typed, ReadInv, Write, UNCHANGED <<local, last>>
    PROVE  ReadInv'
<1> DEFINE n == Len(audit) + 1
           l == [NewLogs[n - Len(OldLogs)] EXCEPT !.at = clock, !.id = n]
<1>1. /\ audit \in Seq(LogRecords) /\ Len(audit) >= Len(OldLogs) /\ Len(audit) \in Nat
      /\ Len(OldLogs) \in Nat /\ Len(NewLogs) \in Nat /\ clock \in Nat
  BY TablesAssumption DEF ReadInv, AuditOK, Typed, TypeOK
<1>2. n - Len(OldLogs) \in 1 .. Len(NewLogs)
  BY <1>1 DEF Write
<1>3. NewLogs[n - Len(OldLogs)] \in LogRecords /\ OneAccount(NewLogs[n - Len(OldLogs)])
  BY <1>2, TablesAssumption
<1>4. audit' = Append(audit, l) /\ UNCHANGED <<clock, size>>
  BY DEF Write
<1>5. n \in Nat
  BY <1>1
<1>6. l \in LogRecords /\ l.at = clock /\ l.id = n /\ OneAccount(l)
  <2> DEFINE o == NewLogs[n - Len(OldLogs)]
  <2>1. l = [o EXCEPT !.at = clock, !.id = n] /\ o \in LogRecords /\ OneAccount(o)
    BY <1>3
  <2> HIDE DEF l, o, n
  <2>2. l \in LogRecords /\ l.at = clock /\ l.id = n /\ l.account = o.account
    <3>1. clock \in Int /\ n \in Nat
      BY <1>1, <1>5
    <3>2. o \in LogRecords /\ l = [o EXCEPT !.at = clock, !.id = n]
      BY <2>1
    <3> QED
      BY <3>1, <3>2 DEF LogRecords
  <2> QED
    BY <2>1, <2>2 DEF OneAccount
<1> HIDE DEF l
<1>7. AuditOK'
  <2>1. /\ audit' \in Seq(LogRecords) /\ Len(audit') = n
        /\ \A m \in 1 .. Len(audit) : audit'[m] = audit[m]
        /\ audit'[n] = l /\ DOMAIN audit' = 1 .. n
    BY <1>1, <1>4, <1>6
  <2>2. \A m \in DOMAIN audit' : audit'[m].id = m /\ OneAccount(audit'[m])
    BY <1>1, <1>6, <2>1 DEF ReadInv, AuditOK
  <2> QED
    BY <1>1, <1>4, <2>1, <2>2 DEF ReadInv, AuditOK
<1>8. TimesOK'
  BY <1>4 DEF ReadInv, TimesOK, local
<1>9. ASSUME NEW S, NEW time \in Int, time <= clock, Traced(S, time, audit)
      PROVE  Traced(S, time, audit')
  <2>1. l.at >= time
    BY <1>1, <1>6, <1>9
  <2> QED
    BY <1>1, <1>4, <1>6, <1>9, <2>1, TracedStays
<1>10. \A j \in Aggregators : now[j] \in Int /\ now[j] <= clock
  BY DEF ReadInv, TimesOK
<1>11. last.now \in Int /\ last.now <= clock
  BY DEF ReadInv, TimesOK
<1>12. ReadPart(audit')
  <2>1. ASSUME NEW j \in Aggregators, pc[j] = "names"
        PROVE  Loaded(view[j], now[j]) /\ Traced(ToSet(view[j]), now[j], audit')
    BY <1>9, <1>10, <2>1 DEF ReadInv
  <2>2. ASSUME NEW j \in Aggregators, pc[j] \in InTx
        PROVE  Traced(read[j].logs, now[j], audit')
    BY <1>9, <1>10, <2>2 DEF ReadInv
  <2>3. ASSUME last.run # NoRun PROVE Traced(last.read.logs, last.now, audit')
    BY <1>9, <1>11, <2>3 DEF ReadInv
  <2> QED
    BY <2>1, <2>2, <2>3 DEF ReadPart
<1> QED
  BY <1>7, <1>8, <1>12 DEF ReadInv, ReadPart, local

(* An aggregation ends; a commit passes on what it has read.               *)
LEMMA OverReads ==
    ASSUME Typed, ReadInv, NEW j \in Aggregators, Over(j), UNCHANGED env, last' = last
           \/ (pc[j] = "commit" /\ last' = [run |-> run[j], now |-> now[j], read |-> read[j]])
    PROVE  ReadInv'
<1>1. /\ pc'[j] = "idle" /\ now'[j] = 0
      /\ \A i \in Aggregators \ {j} :
           pc'[i] = pc[i] /\ now'[i] = now[i] /\ view'[i] = view[i] /\ read'[i] = read[i]
  BY DEF Over, Goto, Typed, TypeOK, Shapes
<1>2. AuditOK' /\ UNCHANGED <<audit, clock>>
  BY DEF ReadInv, AuditOK, env
<1>3. clock \in Nat
  BY DEF Typed, TypeOK
<1>4. /\ last'.now \in Int /\ last'.now <= clock
      /\ last'.run # NoRun => Traced(last'.read.logs, last'.now, audit)
  <2>1. CASE last' = last
    BY <2>1 DEF ReadInv, TimesOK
  <2>2. CASE pc[j] = "commit" /\ last' = [run |-> run[j], now |-> now[j], read |-> read[j]]
    <3>1. pc[j] \in InTx
      BY <2>2 DEF InTx
    <3>2. last'.now = now[j] /\ last'.read = read[j]
      BY <2>2
    <3> QED
      BY <3>1, <3>2 DEF ReadInv, TimesOK
  <2> QED
    BY <2>1, <2>2
<1>5. TimesOK'
  <2>1. \A i \in Aggregators : now'[i] \in Int /\ now'[i] <= clock
    BY <1>1, <1>3 DEF ReadInv, TimesOK
  <2> QED
    BY <1>2, <1>4, <2>1 DEF TimesOK
<1>6. ASSUME NEW i \in Aggregators
      PROVE  /\ pc'[i] = "names" => Loaded(view'[i], now'[i]) /\ Traced(ToSet(view'[i]), now'[i], audit)
             /\ pc'[i] \in InTx => Traced(read'[i].logs, now'[i], audit)
  <2>1. CASE i = j
    BY <1>1, <2>1 DEF InTx, Names
  <2>2. CASE i # j
    BY <1>1, <2>2 DEF ReadInv
  <2> QED
    BY <2>1, <2>2
<1> QED
  BY <1>2, <1>4, <1>5, <1>6 DEF ReadInv

(* Every step keeps what was read.                                         *)
LEMMA ReadNext == Typed /\ ReadInv /\ [Next]_vars => ReadInv'
<1> SUFFICES ASSUME Typed, ReadInv, [Next]_vars PROVE ReadInv'
  OBVIOUS
<1>t. /\ DOMAIN pc = Aggregators /\ DOMAIN now = Aggregators /\ DOMAIN view = Aggregators
      /\ DOMAIN read = Aggregators /\ clock \in Nat
  BY DEF Typed, TypeOK, Shapes
<1>e. ASSUME UNCHANGED env PROVE AuditOK' /\ UNCHANGED <<audit, clock>>
  BY <1>e DEF ReadInv, AuditOK, env
<1>1. CASE Environment
  <2>1. UNCHANGED <<local, last>>
    BY <1>1 DEF Environment
  <2>2. CASE Write
    BY <2>1, <2>2, WriteReads
  <2>3. ASSUME UNCHANGED audit, size' \in [DOMAIN SizeOf -> Nat], clock' \in Int, clock <= clock'
        PROVE  ReadInv'
    <3>1. AuditOK'
      BY <2>3 DEF ReadInv, AuditOK
    <3>2. TimesOK'
      BY <1>t, <2>1, <2>3 DEF ReadInv, TimesOK, local
    <3> QED
      BY <2>1, <2>3, <3>1, <3>2 DEF ReadInv, local
  <2>4. size \in [DOMAIN SizeOf -> Nat]
    BY DEF ReadInv, AuditOK
  <2>5. CASE Tick
    <3>1. UNCHANGED <<audit, size>> /\ clock' = clock + 1
      BY <2>5 DEF Tick
    <3> QED
      BY <1>t, <2>3, <2>4, <3>1
  <2>6. ASSUME NEW b \in Buckets, DropBucket(b) PROVE ReadInv'
    BY <1>t, <2>3, <2>4, <2>6 DEF DropBucket
  <2>7. ASSUME NEW k \in DOMAIN SizeOf, DropObject(k) PROVE ReadInv'
    <3>1. UNCHANGED <<audit, clock>> /\ size' = [size EXCEPT ![k] = 0]
      BY <2>7 DEF DropObject
    <3>2. size' \in [DOMAIN SizeOf -> Nat]
      BY <2>4, <3>1
    <3> QED
      BY <1>t, <2>3, <3>1, <3>2
  <2> QED
    BY <1>1, <2>2, <2>5, <2>6, <2>7 DEF Environment
<1>2. ASSUME NEW j \in Aggregators, Begin(j) PROVE ReadInv'
  <2>1. /\ UNCHANGED <<env, view, read, last>> /\ pc'[j] = "load" /\ now'[j] = clock
        /\ \A i \in Aggregators \ {j} : pc'[i] = pc[i] /\ now'[i] = now[i]
    BY <1>2, <1>t DEF Begin, Goto
  <2>2. AuditOK' /\ UNCHANGED <<audit, clock>>
    BY <1>e, <2>1
  <2>3. TimesOK'
    BY <1>t, <2>1, <2>2 DEF ReadInv, TimesOK
  <2>4. \A i \in Aggregators : pc'[i] = "names" \/ pc'[i] \in InTx => i \in Aggregators \ {j}
    BY <2>1 DEF InTx, Names
  <2> QED
    BY <2>1, <2>2, <2>3, <2>4 DEF ReadInv
<1>3. ASSUME NEW j \in Aggregators, LoadLogs(j) PROVE ReadInv'
  <2>1. /\ UNCHANGED <<env, now, read, last>> /\ pc'[j] = "names"
        /\ \A i \in Aggregators \ {j} : pc'[i] = pc[i] /\ view'[i] = view[i]
    BY <1>3, <1>t DEF LoadLogs, Goto
  <2>2. AuditOK' /\ UNCHANGED <<audit, clock>>
    BY <1>e, <2>1
  <2>3. TimesOK'
    BY <2>1, <2>2 DEF ReadInv, TimesOK
  <2>4. Loaded(view'[j], now[j]) /\ Traced(ToSet(view'[j]), now[j], audit)
    <3> DEFINE ids == Sorted({n \in DOMAIN audit : audit[n].at >= Since(now[j])})
               found == [i \in DOMAIN ids |-> Sized(audit[ids[i]])]
    <3>1. view'[j] \in {found, Reverse(found)}
      BY <1>3, <1>t DEF LoadLogs
    <3>2. AuditOK /\ now[j] \in Int
      BY DEF ReadInv, TimesOK
    <3>3. \A s \in {found, Reverse(found)} : Loaded(s, now[j]) /\ Traced(ToSet(s), now[j], audit)
      BY <3>2, LogsLoaded
    <3> HIDE DEF found
    <3> QED
      BY <3>1, <3>3
  <2>5. ASSUME NEW i \in Aggregators
        PROVE  /\ pc'[i] = "names" => Loaded(view'[i], now[i]) /\ Traced(ToSet(view'[i]), now[i], audit)
               /\ pc'[i] \in InTx => Traced(read[i].logs, now[i], audit)
    <3>1. CASE i = j
      BY <2>1, <2>4, <3>1 DEF InTx, Names
    <3>2. CASE i # j
      BY <2>1, <3>2 DEF ReadInv
    <3> QED
      BY <3>1, <3>2
  <2> QED
    BY <2>1, <2>2, <2>3, <2>5 DEF ReadInv
<1>4. ASSUME NEW j \in Aggregators, LoadNames(j) PROVE ReadInv'
  <2>1. /\ UNCHANGED <<env, now, last>> /\ pc[j] = "names" /\ pc'[j] = "prefix"
        /\ read'[j] = [logs |-> ToSet(view[j]), known |-> buckets]
        /\ \A i \in Aggregators \ {j} : pc'[i] = pc[i] /\ view'[i] = view[i] /\ read'[i] = read[i]
    BY <1>4, <1>t DEF LoadNames, Goto
  <2>2. AuditOK' /\ UNCHANGED <<audit, clock>>
    BY <1>e, <2>1
  <2>3. TimesOK'
    BY <2>1, <2>2 DEF ReadInv, TimesOK
  <2>4. Traced(read'[j].logs, now[j], audit)
    BY <2>1 DEF ReadInv
  <2>5. ASSUME NEW i \in Aggregators
        PROVE  /\ pc'[i] = "names" => Loaded(view'[i], now[i]) /\ Traced(ToSet(view'[i]), now[i], audit)
               /\ pc'[i] \in InTx => Traced(read'[i].logs, now[i], audit)
    <3>1. CASE i = j
      BY <2>1, <2>4, <3>1
    <3>2. CASE i # j
      BY <2>1, <3>2 DEF ReadInv
    <3> QED
      BY <3>1, <3>2
  <2> QED
    BY <2>1, <2>2, <2>3, <2>5 DEF ReadInv
<1>5. ASSUME NEW j \in Aggregators, UNCHANGED <<env, now, view, read, last>>, pc[j] \in InTx,
             pc' = pc \/ \E p \in InTx : pc' = [pc EXCEPT ![j] = p]
      PROVE  ReadInv'
  <2>1. AuditOK' /\ UNCHANGED <<audit, clock>>
    BY <1>e, <1>5
  <2>2. TimesOK'
    BY <1>5, <2>1 DEF ReadInv, TimesOK
  <2>3. \A i \in Aggregators : (pc'[i] = "names" => pc[i] = "names") /\ (pc'[i] \in InTx => pc[i] \in InTx)
    <3>1. "names" \notin InTx
      BY DEF InTx, Names
    <3> QED
      BY <1>t, <1>5, <3>1
  <2> QED
    BY <1>5, <2>1, <2>2, <2>3 DEF ReadInv
<1>6. ASSUME NEW j \in Aggregators, Clear(j) PROVE ReadInv'
  <2>1. pc[j] \in Names /\ pc[j] \in InTx /\ UNCHANGED <<env, now, view, read, last>>
    BY <1>6 DEF Clear, InTx
  <2>2. Cleared[pc[j]] \in InTx
    BY <2>1, PastGrows
  <2>3. pc' = pc \/ \E p \in InTx : pc' = [pc EXCEPT ![j] = p]
    BY <1>6, <2>2 DEF Clear, Goto
  <2> QED
    BY <1>5, <2>1, <2>3
<1>7. ASSUME NEW j \in Aggregators, Insert(j) PROVE ReadInv'
  <2>1. UNCHANGED <<env, last>> /\ pc[j] \in InTx
    BY <1>7 DEF Insert, InTx
  <2>2. CASE Over(j)
    BY <2>1, <2>2, OverReads
  <2>3. CASE Goto(j, "commit") /\ UNCHANGED <<run, now, view, rows, gone, waits, read>>
    <3>1. \E p \in InTx : pc' = [pc EXCEPT ![j] = p]
      BY <2>3 DEF Goto, InTx
    <3> QED
      BY <1>5, <2>1, <2>3, <3>1
  <2> QED
    BY <1>7, <2>2, <2>3 DEF Insert
<1>8. ASSUME NEW j \in Aggregators, Commit(j) PROVE ReadInv'
  BY <1>8, OverReads DEF Commit
<1>9. ASSUME NEW j \in Aggregators, Rollback(j) PROVE ReadInv'
  BY <1>9, OverReads DEF Rollback
<1>10. CASE UNCHANGED vars
  BY <1>10 DEF ReadInv, AuditOK, TimesOK, vars, env, local
<1> QED
  BY <1>1, <1>2, <1>3, <1>4, <1>6, <1>7, <1>8, <1>9, <1>10 DEF Next, Work

StatsInv == Typed /\ ReadInv /\ SnapshotInv

(* The invariant holds.                                                    *)
LEMMA StatsInvariant == Spec => []StatsInv
<1>1. Init => StatsInv
  BY TypedInit, ReadInit, SnapshotInit DEF StatsInv
<1>2. StatsInv /\ [Next]_vars => StatsInv'
  BY TypedNext, ReadNext, SnapshotNext DEF StatsInv
<1> QED
  BY <1>1, <1>2, PTL DEF Spec

(* OneSnapshot: the tables have all rows of one reading of the audit log,  *)
(* counted right, and no others unless another transaction has committed   *)
(* during the last one: for any logs and periods, any number of            *)
(* overlapping aggregations and any failures.                              *)
THEOREM TablesShowOneReading == Spec => []OneSnapshot
<1>1. StatsInv => OneSnapshot
  BY DEF StatsInv, SnapshotInv
<1> QED
  BY <1>1, StatsInvariant, PTL

(* NeverEmpty: once there are statistics every period has its row, in      *)
(* every state that a reader can see.                                      *)
THEOREM PeriodsAlwaysShown == Spec => []NeverEmpty
<1>1. StatsInv => NeverEmpty
  BY DEF StatsInv, SnapshotInv, PlatformRows
<1> QED
  BY <1>1, StatsInvariant, PTL


-----------------------------------------------------------------------------
(* The days before the current one lie before the time of the aggregation, *)
(* and but for the oldest in the longest period.                           *)
LEMMA DayInside ==
    ASSUME NEW at \in Int, NEW time \in Int,
           NEW d \in DayCut(time) .. Day(time) - 1, Day(at) = d
    PROVE  at < time /\ (d # DayCut(time) => at >= Since(time))
<1> DEFINE a == Day(at)
           b == Day(time)
           w == RollupDays * DayLen
           h == Hours[Longest]
<1>1. DayLen \in Nat \ {0} /\ RollupDays \in Nat /\ h \in Nat /\ h >= w
  BY StatsAssumption
<1>2. a \in Int /\ b \in Int /\ w \in Int
  BY <1>1 DEF Day
<1>3. /\ at = a * DayLen + (at % DayLen) /\ at % DayLen \in 0 .. DayLen - 1
      /\ time = b * DayLen + (time % DayLen) /\ time % DayLen \in 0 .. DayLen - 1
  BY <1>1 DEF Day
<1>4. a <= b - 1 /\ (d # DayCut(time) => b - RollupDays + 1 <= a)
  BY <1>1, <1>2 DEF DayCut
<1> HIDE DEF a, b
<1>5. a * DayLen <= (b - 1) * DayLen
  BY <1>1, <1>2, <1>4
<1>6. (b - 1) * DayLen = b * DayLen - DayLen
  BY <1>1, <1>2
<1>7. b - RollupDays + 1 <= a => (b - RollupDays + 1) * DayLen <= a * DayLen
  BY <1>1, <1>2
<1>8. (b - RollupDays + 1) * DayLen = b * DayLen - w + DayLen
  BY <1>1, <1>2
<1> DEFINE x == a * DayLen
           y == b * DayLen
<1>9. x \in Int /\ y \in Int
  BY <1>1, <1>2
<1>10. /\ x <= y - DayLen /\ (d # DayCut(time) => y - w + DayLen <= x)
       /\ at = x + (at % DayLen) /\ time = y + (time % DayLen)
  BY <1>3, <1>4, <1>5, <1>6, <1>7, <1>8
<1> HIDE DEF x, y, w, h
<1>11. at < time
  BY <1>1, <1>2, <1>3, <1>9, <1>10
<1>12. d # DayCut(time) => at >= time - h
  BY <1>1, <1>2, <1>3, <1>9, <1>10
<1> QED
  BY <1>11, <1>12 DEF Since, h

(* The requests of a day that were read, and those of the audit log.       *)
ReadOn(S, d) == {l \in Requests(S) : Day(l.at) = d}
AuditOn(A, d, time) == {l \in ToSet(A) : Countable(l, d, time)}

(* The logs read for a day are as many as the audit log has.               *)
LEMMA DayTraced ==
    ASSUME NEW A \in Seq(LogRecords), \A n \in DOMAIN A : A[n].id = n,
           NEW time \in Int, NEW S, Traced(S, time, A),
           NEW d \in DayCut(time) .. Day(time) - 1
    PROVE  Cardinality(ReadOn(S, d)) = Cardinality(AuditOn(A, d, time))
<1> DEFINE T == {l \in Requests(S) : Day(l.at) = d}
           U == {l \in ToSet(A) : Countable(l, d, time)}
           f == [l \in T |-> A[l.id]]
<1>1. /\ \A l \in S : l.id \in DOMAIN A /\ l.at = A[l.id].at /\ l.class = A[l.id].class
      /\ \A l, m \in S : l.id = m.id => l = m
      /\ IsFiniteSet(S) /\ \A l \in S : l.at >= Since(time)
  BY DEF Traced
<1>2. ToSet(A) = {A[n] : n \in DOMAIN A}
  BY DEF ToSet
<1>3. T \subseteq S /\ \A l \in T : Day(l.at) = d /\ l.class # "skipped"
  BY DEF Requests
<1>4. IsFiniteSet(T)
  BY <1>1, <1>3, FS_Subset
<1>5. \A l \in T : f[l] \in U /\ f[l].id = l.id
  <2> SUFFICES ASSUME NEW l \in T PROVE f[l] \in U /\ f[l].id = l.id
    OBVIOUS
  <2>1. l \in S /\ f[l] = A[l.id]
    BY <1>3
  <2>2. l.id \in DOMAIN A /\ A[l.id].at = l.at /\ A[l.id].class = l.class /\ A[l.id].id = l.id
    BY <1>1, <2>1
  <2>3. Countable(A[l.id], d, time)
    BY <1>1, <1>3, <2>1, <2>2 DEF Countable, Since
  <2> QED
    BY <1>2, <2>1, <2>2, <2>3
<1>6. \A l, m \in T : f[l] = f[m] => l = m
  <2> SUFFICES ASSUME NEW l \in T, NEW m \in T, f[l] = f[m] PROVE l = m
    OBVIOUS
  <2>1. l.id = m.id
    BY <1>5
  <2> QED
    BY <1>1, <1>3, <2>1
<1>7. \A u \in U : \E l \in T : f[l] = u
  <2> SUFFICES ASSUME NEW u \in U PROVE \E l \in T : f[l] = u
    OBVIOUS
  <2>1. PICK n \in DOMAIN A : u = A[n]
    BY <1>2
  <2>2. u.at \in Int /\ Day(u.at) = d /\ u.class # "skipped" /\ u.id = n
    <3>1. u \in LogRecords
      BY <2>1
    <3> QED
      BY <2>1, <3>1 DEF LogRecords, Countable
  <2>3. u.at >= Since(time) /\ u.at < time
    <3>1. u.at < time /\ (d # DayCut(time) => u.at >= Since(time))
      BY <2>2, DayInside
    <3>2. d = DayCut(time) => u.at >= Since(time)
      BY DEF Countable, Since
    <3> QED
      BY <3>1, <3>2
  <2>4. PICK l \in S : l.id = n
    BY <2>1, <2>3 DEF Traced
  <2>5. l.at = u.at /\ l.class = u.class
    BY <1>1, <2>1, <2>4
  <2>6. l \in T
    BY <2>2, <2>4, <2>5 DEF Requests
  <2> QED
    BY <2>1, <2>4, <2>6
<1>8. ExistsBijection(T, U)
  <2>1. f \in [T -> U]
    BY <1>5
  <2> HIDE DEF f, T, U
  <2>2. f \in Bijection(T, U)
    BY <1>6, <1>7, <2>1 DEF Bijection, Injection, Surjection, IsInjective
  <2> QED
    BY <2>2 DEF ExistsBijection
<1> HIDE DEF T, U
<1>9. Cardinality(U) = Cardinality(T)
  BY <1>4, <1>8, FS_Bijection
<1> QED
  BY <1>9 DEF T, U, ReadOn, AuditOn

(* The rows of the days count all their requests.                          *)
LEMMA DaysCounted == StatsInv => DaysComplete
<1> SUFFICES ASSUME StatsInv, last.run # NoRun, ~mixed,
                    NEW d \in DayCut(last.now) .. Day(last.now) - 1
             PROVE  {r.value.requests : r \in {r \in table["daily"] : r.entry = d}}
                      = {Cardinality({l \in ToSet(audit) : Countable(l, d, last.now)})} \ {0}
  BY DEF DaysComplete
<1> DEFINE R == Requests(last.read.logs)
           T == {l \in R : Day(l.at) = d}
           L == DayLogs(R, last.now)
           C == Counts(L)
           Row(k) == [run |-> last.run, entry |-> k, value |-> C[k]]
           c == Cardinality(T)
<1>1. /\ audit \in Seq(LogRecords) /\ \A n \in DOMAIN audit : audit[n].id = n
      /\ last.now \in Int /\ Traced(last.read.logs, last.now, audit)
  BY DEF StatsInv, ReadInv, AuditOK, TimesOK
<1>2. c = Cardinality({l \in ToSet(audit) : Countable(l, d, last.now)})
  <2>1. Cardinality(ReadOn(last.read.logs, d)) = Cardinality(AuditOn(audit, d, last.now))
    BY <1>1, DayTraced
  <2> QED
    BY <2>1 DEF ReadOn, AuditOn
<1>3. table["daily"] = {Row(k) : k \in DOMAIN C}
  <2>1. table = RowsOf(Reference(last.read.logs, last.now, last.read.known), last.run)
    BY DEF StatsInv, SnapshotInv, OneSnapshot
  <2>2. Reference(last.read.logs, last.now, last.read.known)["daily"] = C
    BY DEF Reference
  <2> HIDE DEF C
  <2> QED
    BY <2>1, <2>2 DEF RowsOf, Names
<1>4. IsFiniteSet(T) /\ c \in Nat /\ (c = 0 <=> T = {})
  <2>1. IsFiniteSet(last.read.logs) /\ T \subseteq last.read.logs
    BY <1>1 DEF Traced, Requests
  <2>2. IsFiniteSet(T)
    BY <2>1, FS_Subset
  <2> QED
    BY <2>2, FS_CardinalityType, FS_EmptySet
<1>5. /\ DOMAIN L = {k \in {Day(l.at) : l \in R} : k >= DayCut(last.now)}
      /\ \A k \in DOMAIN L : L[k] = {l \in R : Day(l.at) = k}
  BY DEF DayLogs
<1>6. d >= DayCut(last.now)
  <2>1. Day(last.now) \in Int /\ DayCut(last.now) \in Int
    BY <1>1, StatsAssumption DEF Day, DayCut
  <2> QED
    BY <2>1
<1>7. d \in DOMAIN C <=> T # {}
  <2>1. d \in DOMAIN L <=> T # {}
    BY <1>5, <1>6
  <2>2. d \in DOMAIN L => L[d] = T
    BY <1>5
  <2> HIDE DEF L, T
  <2> QED
    BY <2>1, <2>2 DEF Counts, Present
<1>8. d \in DOMAIN C => C[d].requests = c
  <2>1. d \in DOMAIN C => d \in DOMAIN L /\ C[d] = Count(L[d])
    BY DEF Counts, Present
  <2>2. d \in DOMAIN L => L[d] = T
    BY <1>5
  <2>3. Count(T).requests = c
    BY DEF Count
  <2> HIDE DEF L, C, T
  <2> QED
    BY <2>1, <2>2, <2>3
<1>9. \A k : Row(k).entry = k /\ Row(k).value = C[k]
  OBVIOUS
<1> HIDE DEF R, T, L, C, Row, c
<1>10. {r \in table["daily"] : r.entry = d} = IF d \in DOMAIN C THEN {Row(d)} ELSE {}
  BY <1>3, <1>9
<1>11. CASE d \in DOMAIN C
  <2>1. {r.value.requests : r \in {r \in table["daily"] : r.entry = d}} = {c}
    BY <1>8, <1>9, <1>10, <1>11
  <2>2. c # 0
    BY <1>4, <1>7, <1>11
  <2> QED
    BY <1>2, <2>1, <2>2
<1>12. CASE d \notin DOMAIN C
  <2>1. {r.value.requests : r \in {r \in table["daily"] : r.entry = d}} = {}
    BY <1>10, <1>12
  <2>2. c = 0
    BY <1>4, <1>7, <1>12
  <2> QED
    BY <1>2, <2>1, <2>2
<1> QED
  BY <1>11, <1>12

(* DaysComplete: every request of the days before the current one is       *)
(* counted, of the oldest those in the longest period; for every length of *)
(* the day and of the periods.                                             *)
THEOREM DaysAreWhole == Spec => []DaysComplete
BY StatsInvariant, DaysCounted, PTL
=============================================================================
