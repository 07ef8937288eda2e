------------------------------- MODULE Listing ------------------------------
(***************************************************************************)
(* The folded listing of a bucket (internal/objects: Store.Folded,         *)
(* ListPrefix and foldList), read page by page by a caller that hands the  *)
(* token of one page to the next, while rows come and go.                  *)
(*                                                                         *)
(* A key is its position in the order of the database.  Folder[k] is the   *)
(* folder of k below the prefix that is listed, NoFolder for a key that is *)
(* an item.  Start stands for the empty key and for no token.              *)
(***************************************************************************)
EXTENDS Integers, FiniteSets

CONSTANTS
    MaxKey,       \* the keys of the bucket are 1 .. MaxKey
    Hidden,       \* keys in the trash, old versions, keys without the prefix
    Self,         \* the key that equals the prefix
    Folder, NoFolder,
    ScanCap,      \* scanCap
    MaxListKeys,  \* maxListKeys
    Requests      \* what callers ask for as the length of a page

Keys == 1 .. MaxKey
Start == 0
Visible == Keys \ (Hidden \cup {Self})

(* In byte order the prefix comes before the keys that begin with it, and  *)
(* the keys of a folder follow each other.                                 *)
ASSUME ListingAssumption ==
    /\ MaxKey \in Nat /\ ScanCap \in Nat \ {0} /\ MaxListKeys \in Nat \ {0}
    /\ Requests \subseteq Int /\ Self \in Nat /\ \A k \in Visible : Self < k
    /\ \A i, j, k \in Visible :
         (i < j /\ j < k /\ Folder[i] # NoFolder /\ Folder[i] = Folder[k]) => Folder[j] = Folder[i]

VARIABLES
    rows,      \* the keys in object_records
    request,   \* the length of a page that the caller asks for
    pc,        \* "query", "fold", or "done" after the last page
    after,     \* the token that the page starts from
    left,      \* recs: the rows of the page that are not folded yet
    truncated, \* moreInDB, and later truncated
    n,         \* the entries of the page
    last,      \* lastPrefix
    token,     \* tokenKey
    items,     \* history: the keys listed on any page
    folders,   \* history: the folders listed on any page
    kept       \* history: the keys that were there all the time

page == <<left, truncated, n, last, token>>
vars == <<rows, request, pc, after, page, items, folders, kept>>

Names == {Folder[k] : k \in Keys} \ {NoFolder}

TypeOK ==
    /\ rows \subseteq Keys /\ kept \subseteq rows /\ request \in Requests
    /\ pc \in {"query", "fold", "done"} /\ truncated \in BOOLEAN
    /\ after \in Keys \cup {Start} /\ token \in Keys \cup {Start}
    /\ left \subseteq Keys \ Hidden /\ n \in 0 .. MaxListKeys
    /\ last \in Names \cup {NoFolder}
    /\ items \subseteq Visible /\ folders \subseteq Names

Init ==
    /\ rows \in SUBSET Keys /\ kept = rows
    /\ request \in Requests
    /\ pc = "query" /\ after = Start
    /\ left = {} /\ truncated = FALSE /\ n = 0 /\ last = NoFolder /\ token = Start
    /\ items = {} /\ folders = {}

-----------------------------------------------------------------------------
(* A mutation of LimitOf: a page of length 0 is not refused.               *)
LimitOfAny(m) == IF m > MaxListKeys THEN MaxListKeys ELSE m

(* The bounds that Folded puts on the length of a page.                    *)
LimitOf(m) == IF m < 1 THEN 1 ELSE IF m > MaxListKeys THEN MaxListKeys ELSE m

(* moreInDB.                                                               *)
MoreInDB(S) == Cardinality(S) = ScanCap

(* ListPrefix, ORDER BY object_key LIMIT scanCap, and the start of         *)
(* foldList.                                                               *)
Selected == {k \in rows \ Hidden : k > after}
IsFirst(S) ==
    /\ \A k \in S, j \in Selected : j < k => j \in S
    /\ Cardinality(S) <= ScanCap /\ (S = Selected \/ Cardinality(S) = ScanCap)

ListPrefix ==
    /\ pc = "query"
    /\ \E S \in SUBSET Selected : IsFirst(S) /\ left' = S /\ truncated' = MoreInDB(S)
    /\ n' = 0 /\ last' = NoFolder /\ token' = Start
    /\ pc' = "fold"
    /\ UNCHANGED <<rows, request, after, items, folders, kept>>

(* A mutation of Skipped: the prefix itself is listed.                     *)
SkippedNotSelf(k) == k \in Hidden \/ (Folder[k] # NoFolder /\ Folder[k] = last)

(* Keys that add no entry to the page.                                     *)
Skipped(k) == k \in Hidden \/ k = Self \/ (Folder[k] # NoFolder /\ Folder[k] = last)

Skip(k) ==
    /\ Skipped(k)
    /\ token' = k /\ left' = left \ {k}
    /\ UNCHANGED <<truncated, n, last, items, folders>>

(* A mutation of Break: the token moves to the key that does not fit.      *)
BreakMoves(k) ==
    /\ ~Skipped(k) /\ n >= LimitOf(request)
    /\ truncated' = TRUE /\ left' = {} /\ token' = k
    /\ UNCHANGED <<n, last, items, folders>>

(* The page is full.                                                       *)
Break(k) ==
    /\ ~Skipped(k) /\ n >= LimitOf(request)
    /\ truncated' = TRUE /\ left' = {}
    /\ UNCHANGED <<n, last, token, items, folders>>

(* A mutation of Enter: the folder is not remembered.                      *)
EnterForgets(k) ==
    /\ ~Skipped(k) /\ n < LimitOf(request)
    /\ n' = n + 1 /\ token' = k /\ left' = left \ {k} /\ last' = NoFolder
    /\ IF Folder[k] = NoFolder THEN items' = items \cup {k} /\ UNCHANGED folders
       ELSE folders' = folders \cup {Folder[k]} /\ UNCHANGED items
    /\ UNCHANGED truncated

(* The key is an item, or the first one of a folder.                       *)
Enter(k) ==
    /\ ~Skipped(k) /\ n < LimitOf(request)
    /\ n' = n + 1 /\ token' = k /\ left' = left \ {k} /\ last' = Folder[k]
    /\ IF Folder[k] = NoFolder THEN items' = items \cup {k} /\ UNCHANGED folders
       ELSE folders' = folders \cup {Folder[k]} /\ UNCHANGED items
    /\ UNCHANGED truncated

(* One turn of the loop of foldList, for the next row.                     *)
FoldKey ==
    /\ pc = "fold"
    /\ \E k \in left : (\A j \in left : k <= j) /\ (Skip(k) \/ Break(k) \/ Enter(k))
    /\ UNCHANGED <<rows, request, pc, after, kept>>

(* The end of foldList: a truncated page has a token, from which the       *)
(* caller reads the next one.                                              *)
Return ==
    /\ pc = "fold" /\ left = {}
    /\ after' = (IF truncated THEN token ELSE Start)
    /\ pc' = (IF truncated THEN "query" ELSE "done")
    /\ UNCHANGED <<rows, request, page, items, folders, kept>>

Reading == ListPrefix \/ FoldKey \/ Return

(* Rows are written and removed.                                           *)
Put(k) ==
    /\ k \in Keys \ rows
    /\ rows' = rows \cup {k}
    /\ UNCHANGED <<request, pc, after, page, items, folders, kept>>

Delete(k) ==
    /\ k \in rows
    /\ rows' = rows \ {k} /\ kept' = kept \ {k}
    /\ UNCHANGED <<request, pc, after, page, items, folders>>

Next == Reading \/ \E k \in Keys : Put(k) \/ Delete(k)

Spec == Init /\ [][Next]_vars

(* The query returns and the caller goes on reading.                       *)
FairSpec == Spec /\ WF_vars(Reading)

-----------------------------------------------------------------------------
Shown(k) == k \in items \/ Folder[k] \in folders

(* The listing has passed k: on a page before this one, or in the loop.    *)
Passed(k) ==
    CASE pc = "done"  -> TRUE
      [] pc = "query" -> k <= after
      [] pc = "fold"  -> k <= after \/ k <= token

(* Nothing is lost between the pages: a key that is there all the time is  *)
(* listed, itself or by its folder, by the time the token has passed it,   *)
(* and at the latest when the listing ends.                                *)
NothingLost == \A k \in kept \cap Visible : Passed(k) => Shown(k)

(* No page repeats an item or a folder.  The exception is the folder in    *)
(* which the previous page has ended, since foldList begins every page     *)
(* without a last prefix: it may be the first entry of the next page.      *)
NothingTwice ==
    [][n' > n => \/ items' # items \/ folders' # folders
                 \/ n = 0 /\ after # Start /\ last' = Folder[after]]_vars

(* Every listing comes to an end, whatever length the caller asks for and  *)
(* whatever is written meanwhile.                                          *)
ListingEnds == <>(pc = "done")
=============================================================================
