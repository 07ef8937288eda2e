---------------------------- MODULE ListingProofs ---------------------------
(***************************************************************************)
(* Proofs about the folded listing, for every bucket, every length of a    *)
(* page and every scan cap.                                                *)
(***************************************************************************)
EXTENDS Listing, FiniteSetTheorems, TLAPS

(* The listing has left k behind and will not come back to it.             *)
Behind(k) == k <= after \/ (pc = "fold" /\ k <= token)

(* Tokens are keys that the listing has looked at.                         *)
Tokens ==
    /\ after \in Visible \cup {Start, Self}
    /\ pc = "fold" => token \in Visible \cup {Start, Self} /\ (token = Start \/ token > after)

(* The rows that are left lie ahead; what is ahead and not left is beyond  *)
(* them, and the page knows that there is more.                            *)
Ahead ==
    pc = "fold" =>
        /\ \A k \in left : k > after /\ k > token
        /\ \A k \in kept \cap Visible :
             (k > after /\ k > token /\ k \notin left) => (truncated /\ \A j \in left : j < k)
        /\ (truncated /\ left = {}) => token # Start

(* lastPrefix is the folder of the token, and that folder is listed.       *)
LastPrefix ==
    pc = "fold" =>
        /\ token \in Visible => last = Folder[token]
        /\ token \notin Visible => last = NoFolder /\ n = 0
        /\ last # NoFolder => last \in folders

(* Whatever is listed lies behind.                                         *)
Listed ==
    pc # "done" =>
        /\ \A k \in items : Behind(k)
        /\ \A f \in folders : \E j \in Visible : Folder[j] = f /\ Behind(j)

ListingInv == TypeOK /\ Tokens /\ Ahead /\ LastPrefix /\ Listed /\ NothingLost

-----------------------------------------------------------------------------
(* A page has at least one entry and at most MaxListKeys.                  *)
LEMMA LimitRange == \A m \in Requests : LimitOf(m) \in 1 .. MaxListKeys
  BY ListingAssumption DEF LimitOf

(* The first page starts with nothing listed.                              *)
LEMMA InitListing == Init => ListingInv
<1> SUFFICES ASSUME Init PROVE ListingInv
  OBVIOUS
<1>1. TypeOK
  <2>1. n \in 0 .. MaxListKeys
    BY ListingAssumption DEF Init
  <2> QED BY <2>1, Zenon DEF Init, TypeOK
<1>2. Tokens /\ Ahead /\ LastPrefix /\ Listed
  BY DEF Init, Tokens, Ahead, LastPrefix, Listed
<1>3. NothingLost
  BY DEF Init, NothingLost, Passed, Visible, Keys, Start
<1> QED BY <1>1, <1>2, <1>3 DEF ListingInv

(* The query: what it leaves out lies beyond what it returns.              *)
LEMMA QueryStep == ASSUME ListingInv, ListPrefix PROVE ListingInv'
<1>1. PICK S \in SUBSET Selected : IsFirst(S) /\ left' = S /\ truncated' = MoreInDB(S)
  BY DEF ListPrefix
<1>2. \A k \in S : k \in Keys \ Hidden /\ k > after
  BY DEF Selected, ListingInv, TypeOK
<1>3. S = {} => ~MoreInDB(S)
  BY FS_EmptySet, ListingAssumption DEF MoreInDB
<1>4. TypeOK'
  BY <1>1, <1>2, ListingAssumption DEF ListingInv, TypeOK, ListPrefix, MoreInDB, Start
<1>5. Tokens'
  BY DEF ListingInv, Tokens, ListPrefix, Visible
<1>6. Ahead'
  <2>1. ASSUME NEW k \in kept \cap Visible, k > after, k \notin S
        PROVE  MoreInDB(S) /\ \A j \in S : j < k
    <3>1. k \in Selected
      BY <2>1 DEF ListingInv, TypeOK, Selected, Visible
    <3>2. k \in Int /\ \A j \in S : j \in Int
      BY <1>2 DEF Visible, Keys
    <3>3. \A j \in S : j < k
      BY <1>1, <2>1, <3>1, <3>2 DEF IsFirst
    <3> QED BY <1>1, <2>1, <3>1, <3>3 DEF IsFirst, MoreInDB
  <2>2. \A k \in S : k > Start
    BY <1>2 DEF Keys, Start
  <2>3. kept' = kept /\ after' = after /\ token' = Start
    BY DEF ListPrefix
  <2> QED BY <1>1, <1>2, <1>3, <2>1, <2>2, <2>3 DEF Ahead
<1>7. LastPrefix'
  BY ListingAssumption DEF LastPrefix, ListPrefix, Start, Visible, Keys
<1>8. Listed'
  BY DEF ListingInv, Listed, ListPrefix, Behind
<1>9. NothingLost'
  <2>1. ASSUME NEW k \in kept \cap Visible, Passed(k)' PROVE Passed(k)
    BY <2>1 DEF Passed, ListPrefix, Start, Visible, Keys
  <2> QED BY <2>1 DEF ListingInv, NothingLost, ListPrefix, Shown
<1> QED BY <1>4, <1>5, <1>6, <1>7, <1>8, <1>9 DEF ListingInv

(* A key that is now behind the token is the one just folded, or was       *)
(* behind it before.                                                       *)
LEMMA OneKeyAtATime ==
  ASSUME ListingInv, pc = "fold", NEW k \in left, \A j \in left : k <= j,
         NEW x \in kept \cap Visible, x <= k, x # k
  PROVE  x <= after \/ x <= token
<1>1. /\ x \in Int /\ k \in Int /\ after \in Int /\ token \in Int
  BY DEF ListingInv, TypeOK, Visible, Keys, Start
<1>2. x \notin left
  BY <1>1 DEF ListingInv, TypeOK, Keys
<1> QED BY <1>1, <1>2 DEF ListingInv, Ahead

(* A key without an entry of its own.                                      *)
LEMMA SkipStep ==
  ASSUME ListingInv, FoldKey, NEW k \in left, \A j \in left : k <= j, Skip(k)
  PROVE  ListingInv'
<1>1. /\ k \in Keys \ Hidden /\ after \in Int /\ token \in Int
      /\ k > after /\ k > token /\ pc = "fold" /\ pc' = "fold"
      /\ left' = left \ {k} /\ token' = k
      /\ UNCHANGED <<rows, request, after, kept, truncated, n, last, items, folders>>
  BY DEF ListingInv, TypeOK, Ahead, FoldKey, Skip, Keys, Start
<1>2. k # Self => k \in Visible /\ Folder[k] = last /\ last # NoFolder
  BY <1>1 DEF Skip, Skipped, Visible
<1>3. k = Self => k \notin Visible /\ last = NoFolder /\ n = 0
  BY <1>1, ListingAssumption DEF ListingInv, Tokens, LastPrefix, Visible, Keys, Start
<1>4. TypeOK'
  BY <1>1 DEF ListingInv, TypeOK
<1>5. Tokens'
  BY <1>1, <1>2 DEF ListingInv, Tokens
<1>6. Ahead'
  <2>1. \A j \in left' : j > after /\ j > k
    BY <1>1 DEF ListingInv, TypeOK, Ahead, Keys
  <2>2. ASSUME NEW x \in kept \cap Visible, x > after, x > k, x \notin left'
        PROVE  truncated /\ \A j \in left' : j < x
    <3>1. x \in Int /\ k \in Int
      BY <1>1 DEF Visible, Keys
    <3>2. x > token /\ x \notin left
      BY <1>1, <2>2, <3>1
    <3> QED BY <1>1, <2>2, <3>2 DEF ListingInv, Ahead
  <2>3. k # Start
    BY <1>1 DEF Keys, Start
  <2> QED BY <1>1, <2>1, <2>2, <2>3 DEF Ahead
<1>7. LastPrefix'
  BY <1>1, <1>2, <1>3 DEF ListingInv, LastPrefix
<1>8. Listed'
  <2>1. ASSUME NEW x \in Visible, Behind(x) PROVE Behind(x)'
    BY <1>1, <2>1 DEF Behind, Visible, Keys
  <2> QED BY <1>1, <2>1 DEF ListingInv, Listed, TypeOK
<1>9. NothingLost'
  <2>1. ASSUME NEW x \in kept \cap Visible, Passed(x)' PROVE Shown(x)
    <3>1. CASE x = k
      BY <1>1, <1>2, <1>3, <3>1 DEF ListingInv, LastPrefix, Shown
    <3>2. CASE x # k
      <4>1. x <= after \/ x <= k
        BY <1>1, <2>1 DEF Passed
      <4>2. Passed(x)
        BY <1>1, <3>2, <4>1, OneKeyAtATime DEF Passed
      <4> QED BY <4>2 DEF ListingInv, NothingLost
    <3> QED BY <3>1, <3>2
  <2> QED BY <1>1, <2>1 DEF NothingLost, Shown
<1> QED BY <1>4, <1>5, <1>6, <1>7, <1>8, <1>9 DEF ListingInv

(* The page is full: it has a token, because it has an entry.              *)
LEMMA BreakStep ==
  ASSUME ListingInv, FoldKey, NEW k \in left, Break(k)
  PROVE  ListingInv'
<1>1. /\ pc = "fold" /\ pc' = "fold" /\ left' = {} /\ truncated' = TRUE
      /\ UNCHANGED <<rows, request, after, kept, token, n, last, items, folders>>
  BY DEF FoldKey, Break
<1>2. token # Start
  <2>1. n >= 1
    BY LimitRange DEF Break, ListingInv, TypeOK
  <2>2. token \in Visible
    BY <1>1, <2>1 DEF ListingInv, LastPrefix
  <2> QED BY <2>2 DEF Visible, Keys, Start
<1>3. TypeOK' /\ Tokens' /\ LastPrefix'
  BY <1>1 DEF ListingInv, TypeOK, Tokens, LastPrefix
<1>4. Ahead'
  BY <1>1, <1>2 DEF Ahead
<1>5. Listed' /\ NothingLost'
  BY <1>1 DEF ListingInv, Listed, Behind, NothingLost, Passed, Shown
<1> QED BY <1>3, <1>4, <1>5 DEF ListingInv

(* The end of a page.                                                      *)
LEMMA ReturnStep == ASSUME ListingInv, Return PROVE ListingInv'
<1>1. /\ pc = "fold" /\ left = {}
      /\ UNCHANGED <<rows, request, left, truncated, n, last, token, items, folders, kept>>
  BY DEF Return, page
<1>2. /\ after \in Int /\ token \in Int /\ Start \in Int
      /\ \A k \in Visible : k \in Int
  BY DEF ListingInv, TypeOK, Visible, Keys, Start
<1>3. CASE truncated
  <2>1. pc' = "query" /\ after' = token /\ token > after
    BY <1>1, <1>3 DEF ListingInv, Return, Ahead, Tokens
  <2>2. TypeOK' /\ Tokens' /\ Ahead' /\ LastPrefix'
    BY <1>1, <2>1 DEF ListingInv, TypeOK, Tokens, Ahead, LastPrefix
  <2>3. ASSUME NEW k \in Visible, k <= after \/ k <= token PROVE k <= token
    BY <1>2, <2>1, <2>3
  <2>4. Listed' /\ NothingLost'
    BY <1>1, <2>1, <2>3 DEF ListingInv, TypeOK, Listed, Behind, NothingLost, Passed, Shown
  <2> QED BY <2>2, <2>4 DEF ListingInv
<1>4. CASE ~truncated
  <2>1. pc' = "done" /\ after' = Start
    BY <1>4 DEF Return
  <2>2. TypeOK' /\ Tokens' /\ Ahead' /\ LastPrefix' /\ Listed'
    BY <1>1, <2>1 DEF ListingInv, TypeOK, Tokens, Ahead, LastPrefix, Listed
  <2>3. ASSUME NEW k \in kept \cap Visible PROVE Shown(k)
    <3>1. Passed(k)
      BY <1>1, <1>2, <1>4 DEF ListingInv, Ahead, Passed
    <3> QED BY <3>1 DEF ListingInv, NothingLost
  <2>4. NothingLost'
    BY <1>1, <2>3 DEF NothingLost, Shown
  <2> QED BY <2>2, <2>4 DEF ListingInv
<1> QED BY <1>3, <1>4 DEF ListingInv, TypeOK

(* An item, or a folder: the new entry.                                    *)
LEMMA EnterFacts ==
  ASSUME ListingInv, FoldKey, NEW k \in left, Enter(k)
  PROVE  /\ k \in Visible /\ after \in Int /\ token \in Int
         /\ k > after /\ k > token /\ pc = "fold" /\ pc' = "fold"
         /\ left' = left \ {k} /\ token' = k /\ last' = Folder[k] /\ n' = n + 1
         /\ Folder[k] = NoFolder => items' = items \cup {k} /\ folders' = folders
         /\ Folder[k] # NoFolder => folders' = folders \cup {Folder[k]} /\ items' = items
         /\ UNCHANGED <<rows, request, after, kept, truncated>>
<1>1. k \in Keys \ Hidden /\ after \in Int /\ token \in Int
  BY DEF ListingInv, TypeOK, Keys, Start
<1>2. k # Self
  BY DEF Enter, Skipped
<1> QED BY <1>1, <1>2 DEF ListingInv, Ahead, FoldKey, Enter, Visible

(* An entry added to the page.                                             *)
LEMMA EnterStep ==
  ASSUME ListingInv, FoldKey, NEW k \in left, \A j \in left : k <= j, Enter(k)
  PROVE  ListingInv'
<1>1. /\ k \in Visible /\ after \in Int /\ token \in Int
      /\ k > after /\ k > token /\ pc = "fold" /\ pc' = "fold"
      /\ left' = left \ {k} /\ token' = k /\ last' = Folder[k] /\ n' = n + 1
      /\ Folder[k] = NoFolder => items' = items \cup {k} /\ folders' = folders
      /\ Folder[k] # NoFolder => folders' = folders \cup {Folder[k]} /\ items' = items
      /\ UNCHANGED <<rows, request, after, kept, truncated>>
  BY EnterFacts
<1>2. k \in Int /\ k # Start /\ k \in Keys
  BY <1>1 DEF Visible, Keys, Start
<1>3. /\ items' \subseteq items \cup {k} /\ items \subseteq items'
      /\ folders' \subseteq folders \cup {Folder[k]} /\ folders \subseteq folders'
  BY <1>1
<1>4. TypeOK'
  <2>1. n' \in 0 .. MaxListKeys
    BY <1>1, LimitRange, ListingAssumption DEF Enter, ListingInv, TypeOK
  <2>2. items' \subseteq Visible /\ folders' \subseteq Names /\ last' \in Names \cup {NoFolder}
    BY <1>1, <1>2 DEF ListingInv, TypeOK, Names
  <2> QED BY <1>1, <1>2, <2>1, <2>2 DEF ListingInv, TypeOK
<1>5. Tokens'
  BY <1>1 DEF ListingInv, Tokens
<1>6. Ahead'
  <2>1. \A j \in left' : j > after /\ j > k
    BY <1>1, <1>2 DEF ListingInv, TypeOK, Ahead, Keys
  <2>2. ASSUME NEW x \in kept \cap Visible, x > after, x > k, x \notin left'
        PROVE  truncated /\ \A j \in left' : j < x
    <3>1. x \in Int
      BY DEF Visible, Keys
    <3>2. x > token /\ x \notin left
      BY <1>1, <1>2, <2>2, <3>1
    <3> QED BY <1>1, <2>2, <3>2 DEF ListingInv, Ahead
  <2> QED BY <1>1, <1>2, <2>1, <2>2 DEF Ahead
<1>7. LastPrefix'
  BY <1>1 DEF LastPrefix
<1>8. Listed'
  <2>1. ASSUME NEW x \in Visible, Behind(x) PROVE Behind(x)'
    BY <1>1, <1>2, <2>1 DEF Behind, Visible, Keys
  <2>2. Behind(k)'
    BY <1>1, <1>2 DEF Behind
  <2>3. \A x \in items' : Behind(x)'
    BY <1>1, <1>3, <2>1, <2>2 DEF ListingInv, Listed, TypeOK
  <2>4. \A f \in folders' : \E j \in Visible : Folder[j] = f /\ Behind(j)'
    BY <1>1, <1>3, <2>1, <2>2 DEF ListingInv, Listed
  <2> QED BY <2>3, <2>4 DEF Listed
<1>9. NothingLost'
  <2>1. ASSUME NEW x \in kept \cap Visible, Passed(x)' PROVE Shown(x)'
    <3>1. CASE x = k
      BY <1>1, <3>1 DEF Shown
    <3>2. CASE x # k
      <4>1. x <= after \/ x <= k
        BY <1>1, <2>1 DEF Passed
      <4>2. Passed(x)
        BY <1>1, <3>2, <4>1, OneKeyAtATime DEF Passed
      <4> QED BY <1>3, <4>2 DEF ListingInv, NothingLost, Shown
    <3> QED BY <3>1, <3>2
  <2> QED BY <1>1, <2>1 DEF NothingLost
<1> QED BY <1>4, <1>5, <1>6, <1>7, <1>8, <1>9 DEF ListingInv

(* Every step of the listing, and of those who write rows meanwhile.       *)
LEMMA ListingStep == ASSUME ListingInv, [Next]_vars PROVE ListingInv'
<1>1. CASE ListPrefix
  BY <1>1, QueryStep
<1>2. CASE FoldKey
  <2>1. PICK k \in left : (\A j \in left : k <= j) /\ (Skip(k) \/ Break(k) \/ Enter(k))
    BY <1>2 DEF FoldKey
  <2> QED BY <1>2, <2>1, SkipStep, BreakStep, EnterStep
<1>3. CASE Return
  BY <1>3, ReturnStep
<1>4. ASSUME NEW k \in Keys, Put(k) \/ Delete(k) PROVE ListingInv'
  <2>1. /\ kept' \subseteq kept /\ kept' \subseteq rows' /\ rows' \subseteq Keys
        /\ UNCHANGED <<request, pc, after, left, truncated, n, last, token, items, folders>>
    BY <1>4 DEF Put, Delete, page, ListingInv, TypeOK
  <2>2. TypeOK' /\ Tokens' /\ LastPrefix'
    BY <2>1 DEF ListingInv, TypeOK, Tokens, LastPrefix
  <2>3. Ahead' /\ Listed' /\ NothingLost'
    BY <2>1 DEF ListingInv, Ahead, Listed, Behind, NothingLost, Passed, Shown
  <2> QED BY <2>2, <2>3 DEF ListingInv
<1>5. CASE UNCHANGED vars
  BY <1>5 DEF vars, page, ListingInv, TypeOK, Tokens, Ahead, LastPrefix, Listed, Behind,
     NothingLost, Passed, Shown
<1> QED BY <1>1, <1>2, <1>3, <1>4, <1>5 DEF Next, Reading

(* The invariant holds.                                                    *)
LEMMA ListingInvariant == Spec => []ListingInv
  BY InitListing, ListingStep, PTL DEF Spec

(* Every listing types correctly: in particular only visible keys are      *)
(* listed, and no page is longer than maxListKeys.                         *)
THEOREM ListingTypeOK == Spec => []TypeOK
  BY ListingInvariant, PTL DEF ListingInv

(* No key that is there all the time is lost between the pages of          *)
(* Store.Folded, whatever the scan cap, the length of the pages and the    *)
(* rows that come and go.                                                  *)
THEOREM ListingLosesNothing == Spec => []NothingLost
  BY ListingInvariant, PTL DEF ListingInv

(* An entry that was listed before is the folder where the last page ended.*)
LEMMA EnterIsNew ==
  ASSUME ListingInv, FoldKey, NEW k \in left, Enter(k)
  PROVE  items' # items \/ folders' # folders \/ (n = 0 /\ after # Start /\ last' = Folder[after])
<1>1. /\ k \in Visible /\ after \in Int /\ token \in Int
      /\ k > after /\ k > token /\ pc = "fold" /\ last' = Folder[k]
      /\ Folder[k] = NoFolder => items' = items \cup {k} /\ folders' = folders
      /\ Folder[k] # NoFolder => folders' = folders \cup {Folder[k]} /\ items' = items
  BY EnterFacts
<1>2. k \in Int /\ \A j \in Visible : j \in Int /\ j # Start
  BY <1>1 DEF Visible, Keys, Start
<1>3. CASE Folder[k] = NoFolder
  <2>1. ~Behind(k)
    BY <1>1, <1>2 DEF Behind
  <2> QED BY <1>1, <1>3, <2>1 DEF ListingInv, Listed
<1>4. CASE Folder[k] # NoFolder /\ Folder[k] \notin folders
  BY <1>1, <1>4
<1>5. CASE Folder[k] # NoFolder /\ Folder[k] \in folders
  <2>1. PICK j \in Visible : Folder[j] = Folder[k] /\ (j <= after \/ j <= token)
    BY <1>1, <1>5 DEF ListingInv, Listed, Behind
  <2>2. \A i \in Visible : (j < i /\ i < k) => Folder[i] = Folder[k]
    BY <1>1, <1>5, <2>1, ListingAssumption
  <2>3. token \notin Visible
    <3>1. SUFFICES ASSUME token \in Visible PROVE FALSE
      OBVIOUS
    <3>2. j <= token
      BY <1>1, <1>2, <2>1, <3>1 DEF ListingInv, Tokens
    <3>3. Folder[token] = Folder[k]
      BY <1>1, <1>2, <2>1, <2>2, <3>1, <3>2
    <3> QED BY <1>1, <1>5, <3>1, <3>3 DEF ListingInv, LastPrefix, Enter, Skipped
  <2>4. n = 0 /\ token \in {Start, Self}
    BY <1>1, <2>3 DEF ListingInv, LastPrefix, Tokens
  <2>5. Self < j /\ j > Start /\ Self \in Int /\ j \in Int
    BY <2>1, ListingAssumption DEF Visible, Keys, Start
  <2>6. j <= after
    BY <2>1, <2>4, <2>5 DEF Start
  <2>7. after \in Visible
    BY <2>5, <2>6 DEF ListingInv, Tokens, Start
  <2>8. Folder[after] = Folder[k]
    BY <1>1, <1>2, <2>1, <2>2, <2>6, <2>7
  <2> QED BY <1>1, <1>2, <2>4, <2>7, <2>8
<1> QED BY <1>3, <1>4, <1>5

(* The pages of Store.Folded repeat nothing but the folder in which the    *)
(* page before has ended.                                                  *)
THEOREM ListingRepeatsNothing == Spec => NothingTwice
<1>1. ASSUME ListingInv, [Next]_vars, n' > n
      PROVE  items' # items \/ folders' # folders \/ (n = 0 /\ after # Start /\ last' = Folder[after])
  <2>1. n \in Int
    BY <1>1 DEF ListingInv, TypeOK
  <2>2. ~UNCHANGED n /\ ~ListPrefix
    BY <1>1, <2>1 DEF ListPrefix, ListingInv, TypeOK
  <2>3. FoldKey
    BY <1>1, <2>2 DEF Next, Reading, Return, Put, Delete, vars, page
  <2>4. PICK k \in left : Enter(k)
    BY <2>2, <2>3 DEF FoldKey, Skip, Break
  <2> QED BY <1>1, <2>3, <2>4, EnterIsNew
<1> QED BY <1>1, ListingInvariant, PTL DEF Spec, NothingTwice
=============================================================================
