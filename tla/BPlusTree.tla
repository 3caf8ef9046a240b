----------------------------- MODULE BPlusTree -----------------------------
(***************************************************************************)
(* The B+ tree of src/Main/DatabaseTable: MyDB_BPlusTreeReaderWriter, with *)
(* the page lists its range iterators walk.  A page is its type and its    *)
(* records in the order they lie on it; a capacity in records stands for   *)
(* the bytes of a page, so all the records of a table have one size.       *)
(* append is a loop down the tree and a recursion up internalStack: one    *)
(* action is one round of them, and no query runs before it is finished.   *)
(***************************************************************************)
EXTENDS FiniteSets, SequencesExt, StableSorting, TableIterators

CONSTANTS
    Keys,          \* values of the ordering attribute
    MaxKey,        \* createAttMax of its type
    LeafCapacity,  \* data records that fit on a page
    DirCapacity,   \* internal records that fit on a page
    MaxRecords,    \* bound: records appended
    RepeatedKeys   \* bound: keys that the records of a table may repeat

ASSUME ConstantsAssumption ==
    /\ Keys \subseteq Int
    /\ MaxKey \in Int
    /\ \A k \in Keys : k <= MaxKey
    /\ LeafCapacity \in Nat \ {0}
    /\ DirCapacity \in Nat /\ DirCapacity >= 3
    /\ MaxRecords \in Nat
    /\ RepeatedKeys \subseteq Keys

VARIABLES
    pages,          \* the pages of the table
    rootLocation,   \* rootLocation, the page of the root
    internalStack,  \* internalStack, the pages on the way down
    pc,             \* "idle", "append" on the way down, "split" on the way up
    appendMe,       \* the record append was called with
    target,         \* the directory page split was called with
    newKey,         \* the internal record split was called with
    stored          \* history: the records appended so far

vars == <<pages, rootLocation, internalStack, pc, appendMe, target, newKey, stored>>

Record == [key : Keys, id : 1 .. MaxRecords]
Entry == [key : Keys \cup {MaxKey}, ptr : Nat]
Leaf(s) == [type |-> "RegularPage", recs |-> s]
Directory(s) == [type |-> "DirectoryPage", recs |-> s]

lastPage == Cardinality(DOMAIN pages) - 1
IsLeaf(p) == pages[p].type = "RegularPage"
Recs(p) == pages[p].recs
Directories == {p \in DOMAIN pages : ~ IsLeaf(p)}
PageWith(p, s) == [pages[p] EXCEPT !.recs = s]

(* The constructor on a table that is new or has only its first page.      *)
EmptyTree == [p \in 0 .. 1 |-> IF p = 0 THEN Directory(<<[key |-> MaxKey, ptr |-> 1]>>)
                                        ELSE Leaf(<< >>)]

(* sortInPlace.                                                            *)
StableSort(s) == Arranged(s, [i \in DOMAIN s |-> s[i].key])

(***************************************************************************)
(* append: down to a leaf, at each directory page to the first entry whose *)
(* key is not smaller.                                                     *)
(***************************************************************************)
KeysOf(records) == {r.key : r \in records}

Distinct(records) == Cardinality(KeysOf(records)) = Cardinality(records)

(* Bounds the tables that are looked at: distinct keys, or few of them.    *)
Followed(records) == Distinct(records) \/ KeysOf(records) \subseteq RepeatedKeys

Begin(k) ==
    /\ pc = "idle"
    /\ Cardinality(stored) < MaxRecords
    /\ Followed(stored \cup {[key |-> k, id |-> Cardinality(stored) + 1]})
    /\ appendMe' = [key |-> k, id |-> Cardinality(stored) + 1]
    /\ internalStack' = <<rootLocation>>
    /\ pc' = "append"
    /\ UNCHANGED <<pages, rootLocation, target, newKey, stored>>

(* Mutant of FirstNotBelow: the two sides of the comparison swapped.       *)
FirstNotAbove(s, k, i) == s[i].key <= k /\ \A j \in 1 .. i - 1 : s[j].key > k

FirstNotBelow(s, k, i) == s[i].key >= k /\ \A j \in 1 .. i - 1 : s[j].key < k

Descend ==
    LET p == Last(internalStack) IN
    /\ pc = "append"
    /\ ~ IsLeaf(p)
    /\ \E i \in 1 .. Len(Recs(p)) :
          /\ FirstNotBelow(Recs(p), appendMe.key, i)
          /\ internalStack' = Append(internalStack, Recs(p)[i].ptr)
    /\ UNCHANGED <<pages, rootLocation, pc, appendMe, target, newKey, stored>>

AtLeaf == pc = "append" /\ IsLeaf(Last(internalStack))

(* Mutant of HasRoom: one record too many.                                 *)
HasRoomOffByOne(p) == Len(Recs(p)) <= IF IsLeaf(p) THEN LeafCapacity ELSE DirCapacity

HasRoom(p) == Len(Recs(p)) < IF IsLeaf(p) THEN LeafCapacity ELSE DirCapacity

AppendToLeaf ==
    LET p == Last(internalStack) IN
    /\ AtLeaf
    /\ HasRoom(p)
    /\ pages' = [pages EXCEPT ![p].recs = Append(@, appendMe)]
    /\ stored' = stored \cup {appendMe}
    /\ pc' = "idle"
    /\ internalStack' = << >>
    /\ UNCHANGED <<rootLocation, appendMe, target, newKey>>

(***************************************************************************)
(* A page that has no room, the new record r put in its place among its    *)
(* own: the lower half goes to a new page of the same type, the upper half *)
(* stays, and the key of the last record of the lower half goes up.        *)
(***************************************************************************)
(* Mutant of Half: every record goes to the new page.                      *)
HalfIsAll(n) == n

Half(n) == n \div 2

(* Mutant of Together: the page is not sorted.                             *)
TogetherUnsorted(p, r) == Append(Recs(p), r)

Together(p, r) == StableSort(Append(Recs(p), r))

LowerHalf(s) == SubSeq(s, 1, Half(Len(s)))

(* Mutant of UpperHalf: it starts one record late.                         *)
UpperHalfLosingOne(s) == SubSeq(s, Half(Len(s)) + 2, Len(s))

UpperHalf(s) == SubSeq(s, Half(Len(s)) + 1, Len(s))

(* Mutant of Halved: the upper half goes to the new page.                  *)
HalvedExchanged(p, s) ==
    [q \in 0 .. lastPage + 1 |-> CASE q = p            -> PageWith(p, LowerHalf(s))
                                   [] q = lastPage + 1 -> PageWith(p, UpperHalf(s))
                                   [] OTHER            -> pages[q]]

Halved(p, s) ==
    [q \in 0 .. lastPage + 1 |-> CASE q = p            -> PageWith(p, UpperHalf(s))
                                   [] q = lastPage + 1 -> PageWith(p, LowerHalf(s))
                                   [] OTHER            -> pages[q]]

EntryOfLower(s) == [key |-> s[Half(Len(s))].key, ptr |-> lastPage + 1]

SplitLeaf ==
    LET p == Last(internalStack)
        rest == Front(internalStack)
        all == Together(p, appendMe)
    IN  /\ AtLeaf
        /\ ~ HasRoom(p)
        /\ pages' = Halved(p, all)
        /\ newKey' = EntryOfLower(all)
        /\ stored' = stored \cup {appendMe}
        /\ pc' = "split"
        /\ internalStack' = rest
        /\ target' = Last(rest)
        /\ UNCHANGED <<rootLocation, appendMe>>

(***************************************************************************)
(* split.  The target of the first call is still on internalStack when it  *)
(* has no room either, so the next call has the same target.               *)
(***************************************************************************)
InsertEntry ==
    /\ pc = "split"
    /\ HasRoom(target)
    /\ pages' = [pages EXCEPT ![target].recs = Together(target, newKey)]
    /\ pc' = "idle"
    /\ internalStack' = << >>
    /\ UNCHANGED <<rootLocation, appendMe, target, newKey, stored>>

SplitDirectory ==
    LET all == Together(target, newKey) IN
    /\ pc = "split"
    /\ ~ HasRoom(target)
    /\ Len(internalStack) > 1
    /\ pages' = Halved(target, all)
    /\ newKey' = EntryOfLower(all)
    /\ target' = Last(internalStack)
    /\ internalStack' = Front(internalStack)
    /\ UNCHANGED <<rootLocation, pc, appendMe, stored>>

(* Mutant of NewRoot: the second entry points to the new page too.         *)
NewRootOverSelf(s) == Directory(<<EntryOfLower(s), [key |-> MaxKey, ptr |-> lastPage + 1]>>)

NewRoot(s) == Directory(<<EntryOfLower(s), [key |-> MaxKey, ptr |-> rootLocation]>>)

GrowRoot ==
    LET all == Together(target, newKey)
        root == lastPage + 2
    IN  /\ pc = "split"
        /\ ~ HasRoom(target)
        /\ Len(internalStack) <= 1
        /\ pages' = [q \in 0 .. root |-> IF q = root THEN NewRoot(all)
                                         ELSE Halved(target, all)[q]]
        /\ rootLocation' = root
        /\ pc' = "idle"
        /\ internalStack' = << >>
        /\ UNCHANGED <<appendMe, target, newKey, stored>>

(***************************************************************************)
(* discoverPages: the leaves with a record in the range, in the order the  *)
(* directory entries lead to them.  At each entry valid says that an       *)
(* earlier one was in the range and none beyond it.                        *)
(***************************************************************************)
InRange(r, low, high) == low <= r.key /\ r.key <= high

Matches(s, low, high) ==
    FlattenSeq([i \in 1 .. Len(s) |-> IF InRange(s[i], low, high) THEN <<s[i]>> ELSE << >>])

Visited(s, low, high) ==
    LET valid[i \in 0 .. Len(s)] ==
            i > 0 /\ s[i].key < high /\ (s[i].key >= low \/ valid[i - 1])
    IN  {i \in 1 .. Len(s) : valid[i] \/ s[i].key >= high}

(* found[<<n, p>>] is what a call on page p finds through n directory pages *)
(* under one another; there are no more of them than there are at all.     *)
Discovered(low, high) ==
    LET found[call \in Nat \X DOMAIN pages] ==
            LET n == call[1]
                p == call[2]
                visited == Visited(Recs(p), low, high)
            IN  IF IsLeaf(p)
                THEN IF Matches(Recs(p), low, high) = << >> THEN << >> ELSE <<p>>
                ELSE IF n = 0 THEN << >>
                ELSE FlattenSeq([i \in 1 .. Len(Recs(p)) |->
                        IF i \in visited THEN found[<<n - 1, Recs(p)[i].ptr>>] ELSE << >>])
    IN  found[<<Cardinality(Directories), rootLocation>>]

(***************************************************************************)
(* The two iterators.  Both copy the matching records of the first and the *)
(* last page; getRangeIteratorAlt gives all of the pages in between, the   *)
(* sorted one filters them and sorts each page in place when it gets there.*)
(***************************************************************************)
Middle(found) == {found[n] : n \in 2 .. Len(found) - 1}

(* Mutant of RangeResult: the last page is given as it is.                 *)
RangeResultUnfiltered(low, high) ==
    LET found == Discovered(low, high) IN
    FlattenSeq([n \in 1 .. Len(found) |->
        IF n = 1 THEN Matches(Recs(found[n]), low, high) ELSE Recs(found[n])])

RangeResult(low, high) ==
    LET found == Discovered(low, high) IN
    FlattenSeq([n \in 1 .. Len(found) |->
        IF n = 1 \/ n = Len(found) THEN Matches(Recs(found[n]), low, high)
        ELSE Recs(found[n])])

SortedRangeResult(low, high) ==
    LET found == Discovered(low, high) IN
    FlattenSeq([n \in 1 .. Len(found) |->
        Matches(StableSort(Recs(found[n])), low, high)])

(* The iterator of getSortedRangeIteratorAlt, run to its end over the pages *)
(* that discoverPages found.                                               *)
SortedScan(found) ==
    /\ pc = "idle" /\ stored # {}
    /\ pages' = [p \in DOMAIN pages |->
                    IF p \in Middle(found) THEN Leaf(StableSort(Recs(p))) ELSE pages[p]]
    /\ UNCHANGED <<rootLocation, internalStack, pc, appendMe, target, newKey, stored>>

-----------------------------------------------------------------------------
Init ==
    /\ pages = EmptyTree
    /\ rootLocation = 0
    /\ internalStack = << >>
    /\ pc = "idle"
    /\ appendMe = [key |-> MaxKey, id |-> 0]
    /\ target = 0
    /\ newKey = [key |-> MaxKey, ptr |-> 1]
    /\ stored = {}

AppendRecord ==
    \/ \E k \in Keys : Begin(k)
    \/ Descend
    \/ AppendToLeaf
    \/ SplitLeaf
    \/ InsertEntry
    \/ SplitDirectory
    \/ GrowRoot

Ranges == {x \in Keys \X Keys : x[1] <= x[2]}

Next == AppendRecord \/ \E found \in {Discovered(x[1], x[2]) : x \in Ranges} : SortedScan(found)

Spec == Init /\ [][Next]_vars /\ WF_vars(Descend \/ AppendToLeaf \/ SplitLeaf
                                           \/ InsertEntry \/ SplitDirectory \/ GrowRoot)

-----------------------------------------------------------------------------
Page == [type : {"RegularPage"}, recs : Seq(Record)] \cup
        [type : {"DirectoryPage"}, recs : Seq(Entry)]

(* Every variable of the tree keeps its type, and no page overflows.       *)
TypeOK ==
    /\ DOMAIN pages = 0 .. lastPage
    /\ \A p \in DOMAIN pages : pages[p] \in Page
    /\ \A p \in DOMAIN pages :
          Len(Recs(p)) <= IF IsLeaf(p) THEN LeafCapacity ELSE DirCapacity
    /\ rootLocation \in DOMAIN pages
    /\ internalStack \in Seq(DOMAIN pages)
    /\ pc \in {"idle", "append", "split"}
    /\ appendMe \in [key : Keys \cup {MaxKey}, id : 0 .. MaxRecords]
    /\ target \in DOMAIN pages
    /\ newKey \in Entry
    /\ stored \subseteq Record

(* The pages a walk from p comes to, over each directory page at most once.*)
Children(p) == IF IsLeaf(p) THEN {} ELSE {Recs(p)[i].ptr : i \in 1 .. Len(Recs(p))}

Below(p) == LET down[n \in Nat] ==
                    IF n = 0 THEN {p}
                    ELSE down[n - 1] \cup UNION {Children(q) : q \in down[n - 1]}
            IN  down[Cardinality(Directories)]

(* The lower half of a split page hangs on newKey until it has an entry.   *)
InTree == Below(rootLocation) \cup (IF pc = "split" THEN Below(newKey.ptr) ELSE {})

Positions == UNION {{<<p, i>> : i \in 1 .. Len(Recs(p))} : p \in {q \in InTree : IsLeaf(q)}}

(* Between any two steps of an append, of the splits it causes and of the  *)
(* sorts of a scan, each record appended is in one place of one leaf of    *)
(* the tree, and nothing else is.  An iterator over the whole table passes *)
(* over the directory pages and reads the same records.                    *)
RecordsKept ==
    LET scan == ScanAlt([p \in DOMAIN pages |-> Recs(p)], {p \in DOMAIN pages : IsLeaf(p)},
                        0, HighPage, lastPage)
    IN /\ {Recs(x[1])[x[2]] : x \in Positions} = stored
       /\ Cardinality(Positions) = Cardinality(stored)
       /\ pc = "idle" => ToSet(scan) = stored /\ Len(scan) = Cardinality(stored)

(* A page is the child of one entry only; the root, and a lower half that  *)
(* has no entry yet, of none; no page of the table is lost.                *)
EntriesTo(p) == {x \in UNION {{<<q, i>> : i \in 1 .. Len(Recs(q))} : q \in Directories} :
                    Recs(x[1])[x[2]].ptr = p}

Rootless == {rootLocation} \cup (IF pc = "split" THEN {newKey.ptr} ELSE {})

TreeShape ==
    /\ \A p \in DOMAIN pages : Cardinality(EntriesTo(p)) = IF p \in Rootless THEN 0 ELSE 1
    /\ InTree = DOMAIN pages

(* What an entry promises of the page it points to, split or not, and the  *)
(* order of the entries of a page: searches by key go the right way.       *)
UpTo(p, k) == \A i \in 1 .. Len(Recs(p)) : Recs(p)[i].key <= k

KeysBounded ==
    /\ \A p \in Directories :
          /\ \A i \in 1 .. Len(Recs(p)) : UpTo(Recs(p)[i].ptr, Recs(p)[i].key)
          /\ \A i, j \in 1 .. Len(Recs(p)) : i < j => Recs(p)[i].key <= Recs(p)[j].key
    /\ pc = "split" => UpTo(newKey.ptr, newKey.key)

(* Nothing is read past the records of a page: the scan of a directory     *)
(* page that append makes stops at an entry, and the iterators, which read *)
(* the first record of a page before they ask whether there is one, find   *)
(* no empty page in the tree once a record is stored.                      *)
ReadsStayOnPage ==
    /\ pc = "append" /\ ~ IsLeaf(Last(internalStack)) =>
          \E i \in 1 .. Len(Recs(Last(internalStack))) :
             Recs(Last(internalStack))[i].key >= appendMe.key
    /\ stored # {} => \A p \in InTree : Recs(p) # << >>

(* Every append comes to an end, however many pages it splits.             *)
AppendEnds == pc # "idle" ~> pc = "idle"

(* getRangeIteratorAlt finds every record in the range, duplicates and     *)
(* ranges that span several levels of a tree included.                     *)
RangeComplete ==
    pc = "idle" /\ stored # {} => \A x \in Ranges :
        {r \in stored : InRange(r, x[1], x[2])} \subseteq ToSet(RangeResult(x[1], x[2]))

(* MyDB_BPlusTreeReaderWriter.h:36, the range iterator returns the records *)
(* "in the range [low, high], inclusive", and no others.  The second is    *)
(* said of tables with distinct keys: a lower half is entered behind       *)
(* entries with its key, and with duplicates the range is complete only.   *)
RangeExact ==
    /\ RangeComplete
    /\ pc = "idle" /\ stored # {} /\ Distinct(stored) => \A x \in Ranges :
          ToSet(RangeResult(x[1], x[2])) \subseteq {r \in stored : InRange(r, x[1], x[2])}

(* :35-36, the records of the sorted iterator "must be sorted", again for  *)
(* distinct keys.                                                          *)
SortedInOrder ==
    pc = "idle" /\ stored # {} /\ Distinct(stored) => \A x \in Ranges :
        LET s == SortedRangeResult(x[1], x[2]) IN
        /\ {r \in stored : InRange(r, x[1], x[2])} = ToSet(s)
        /\ \A i, j \in 1 .. Len(s) : i < j => s[i].key <= s[j].key

(* README.md:22, "Handles node splitting and merging to maintain tree      *)
(* balance": every leaf is as deep as every other.                         *)
LevelsBelow(p) ==
    LET level[n \in 0 .. lastPage] ==
            IF n = 0 THEN {p} ELSE UNION {Children(q) : q \in level[n - 1]}
    IN  level

Balanced ==
    pc = "idle" => \A n \in 0 .. lastPage :
        \/ \A q \in LevelsBelow(rootLocation)[n] : IsLeaf(q)
        \/ \A q \in LevelsBelow(rootLocation)[n] : ~ IsLeaf(q)

=============================================================================
