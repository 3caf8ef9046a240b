---------------------------- MODULE ExternalSort ----------------------------
(***************************************************************************)
(* sort in src/Main/DatabaseTable/source/Sorting.cc: the pages of a run    *)
(* are sorted one by one, merged in pairs off a queue until one list is    *)
(* left, and the lists of all runs are merged into the output table by a   *)
(* priority queue.  One action is one round of a loop; pages are numbered  *)
(* from 1.  A page holds PageCapacity records; a page of the input may     *)
(* hold fewer, as records of different sizes leave it.                     *)
(***************************************************************************)
EXTENDS RecordIterators, StableSorting

CONSTANTS
    Tables,         \* the tables sort is called with: sequences of pages
    RunSizes,       \* the values of runSize
    PageCapacity,   \* records on a page
    MaxAppended     \* bound: records appended to the output table

Contents(list) == UNION {{list[p][s] : s \in DOMAIN list[p]} : p \in DOMAIN list}

Records == UNION {Contents(t) : t \in Tables}

(* A record is in one place of its table, and no page of it is empty.      *)
ASSUME SortAssumption ==
    /\ Tables \subseteq Seq(Seq(Records)) \ {<< >>}
    /\ \A t \in Tables : \A p, q \in DOMAIN t : t[p] # << >> /\
          \A i \in DOMAIN t[p], j \in DOMAIN t[q] : t[p][i] = t[q][j] => p = q /\ i = j
    /\ \A r \in Records \cup {Junk} : r.key \in Int
    /\ Junk \notin Records
    /\ RunSizes \subseteq Nat \ {0}
    /\ PageCapacity \in Nat \ {0}
    /\ MaxAppended \in Nat /\ \A t \in Tables : Cardinality(Contents(t)) <= MaxAppended

VARIABLES
    sortMe,         \* the pages of the input table
    runSize,        \* runSize
    phase,          \* "runs", "merge" in mergeIntoList, "file" in mergeIntoFile, "done"
    start,          \* start, the first page of the run
    next,           \* i, the page of the run that is sorted next
    pageQueue,      \* pageQueue
    leftIter,       \* the iterators mergeIntoList was called with;
    rightIter,      \*    Ended when leftEmpty or rightEmpty
    mergedList,     \* mergedList
    runIterList,    \* runIterList, then pq
    sortIntoMe      \* the records appended to the output table

vars == <<sortMe, runSize, phase, start, next, pageQueue, leftIter, rightIter,
          mergedList, runIterList, sortIntoMe>>

Ended == [pages |-> << >>, page |-> 1, slot |-> 1]

NumPages == Len(sortMe)
RunEnd == IF start + runSize <= NumPages + 1 THEN start + runSize ELSE NumPages + 1

-----------------------------------------------------------------------------
(* sortInPlace on the next page of the run.                                *)
SortedPage(s) == Arranged(s, [i \in DOMAIN s |-> s[i].key])

SortPage ==
    /\ phase = "runs" /\ next < RunEnd
    /\ sortMe' = [sortMe EXCEPT ![next] = SortedPage(@)]
    /\ pageQueue' = Append(pageQueue, Iterator(<<SortedPage(sortMe[next])>>))
    /\ next' = next + 1
    /\ UNCHANGED <<runSize, phase, start, leftIter, rightIter, mergedList, runIterList, sortIntoMe>>

(***************************************************************************)
(* mergeIntoList: the two front lists of the queue become one at its back. *)
(***************************************************************************)
BeginMerge ==
    /\ phase = "runs" /\ next = RunEnd /\ Len(pageQueue) > 1
    /\ leftIter' = pageQueue[1] /\ rightIter' = pageQueue[2]
    /\ pageQueue' = SubSeq(pageQueue, 3, Len(pageQueue))
    /\ mergedList' = << << >> >>
    /\ phase' = "merge"
    /\ UNCHANGED <<sortMe, runSize, start, next, runIterList, sortIntoMe>>

(* Mutant of WithAppended: a page that is full is replaced, not kept.      *)
WithAppendedInPlace(list, r) ==
    LET n == Len(list) IN
    IF Len(list[n]) < PageCapacity THEN [list EXCEPT ![n] = Append(@, r)]
    ELSE [list EXCEPT ![n] = <<r>>]

(* append to the last page, or to a new one when it is full.               *)
WithAppended(list, r) ==
    LET n == Len(list) IN
    IF Len(list[n]) < PageCapacity THEN [list EXCEPT ![n] = Append(@, r)]
    ELSE Append(list, <<r>>)

Rest(it, n) == IF Advances(it, n) THEN Advanced(it, n) ELSE Ended

(* Mutant of LeftFirst: the comparison is forgotten.                       *)
LeftFirstAlways == leftIter # Ended

(* The left record goes first when it is smaller: of equals, the right.    *)
LeftFirst ==
    /\ leftIter # Ended
    /\ rightIter # Ended => Current(leftIter).key < Current(rightIter).key

MergeLeft ==
    /\ phase = "merge" /\ LeftFirst
    /\ mergedList' = WithAppended(mergedList, Current(leftIter))
    /\ \E n \in SizesRead(leftIter) : leftIter' = Rest(leftIter, n)
    /\ UNCHANGED <<sortMe, runSize, phase, start, next, pageQueue, rightIter, runIterList, sortIntoMe>>

MergeRight ==
    /\ phase = "merge" /\ rightIter # Ended /\ ~ LeftFirst
    /\ mergedList' = WithAppended(mergedList, Current(rightIter))
    /\ \E n \in SizesRead(rightIter) : rightIter' = Rest(rightIter, n)
    /\ UNCHANGED <<sortMe, runSize, phase, start, next, pageQueue, leftIter, runIterList, sortIntoMe>>

EndMerge ==
    /\ phase = "merge" /\ leftIter = Ended /\ rightIter = Ended
    /\ pageQueue' = Append(pageQueue, Iterator(mergedList))
    /\ mergedList' = << >>
    /\ phase' = "runs"
    /\ UNCHANGED <<sortMe, runSize, start, next, leftIter, rightIter, runIterList, sortIntoMe>>

(* Mutant of EndRun: a run is built from the same pages again.             *)
EndRunInPlace ==
    /\ phase = "runs" /\ next = RunEnd /\ Len(pageQueue) = 1
    /\ runIterList' = runIterList \cup {pageQueue[1]}
    /\ pageQueue' = << >>
    /\ next' = start
    /\ UNCHANGED <<sortMe, runSize, phase, start, leftIter, rightIter, mergedList, sortIntoMe>>

EndRun ==
    /\ phase = "runs" /\ next = RunEnd /\ Len(pageQueue) = 1
    /\ runIterList' = runIterList \cup {pageQueue[1]}
    /\ pageQueue' = << >>
    /\ start' = start + runSize /\ next' = start + runSize
    /\ phase' = IF start + runSize <= NumPages THEN "runs" ELSE "file"
    /\ UNCHANGED <<sortMe, runSize, leftIter, rightIter, mergedList, sortIntoMe>>

(***************************************************************************)
(* mergeIntoFile: the top of the priority queue is an iterator with a      *)
(* smallest current record.  It is taken off, and comes back when there is *)
(* more behind it.                                                         *)
(***************************************************************************)
Back(it, n) == IF Advances(it, n) THEN {Advanced(it, n)} ELSE {}

(* Mutant of Top: the order of the priority queue is the other way round.  *)
TopIsLargest(it) == \A other \in runIterList : Current(it).key >= Current(other).key

Top(it) == \A other \in runIterList : Current(it).key <= Current(other).key

AppendTop ==
    /\ phase = "file" /\ Len(sortIntoMe) < MaxAppended
    /\ \E it \in runIterList :
          /\ Top(it)
          /\ sortIntoMe' = Append(sortIntoMe, Current(it))
          /\ \E n \in SizesRead(it) : runIterList' = (runIterList \ {it}) \cup Back(it, n)
    /\ UNCHANGED <<sortMe, runSize, phase, start, next, pageQueue, leftIter, rightIter, mergedList>>

Finish ==
    /\ phase = "file" /\ runIterList = {}
    /\ phase' = "done"
    /\ UNCHANGED <<sortMe, runSize, start, next, pageQueue, leftIter, rightIter, mergedList,
                   runIterList, sortIntoMe>>

-----------------------------------------------------------------------------
Init ==
    /\ sortMe \in Tables
    /\ runSize \in RunSizes
    /\ phase = "runs"
    /\ start = 1 /\ next = 1
    /\ pageQueue = << >>
    /\ leftIter = Ended /\ rightIter = Ended
    /\ mergedList = << >>
    /\ runIterList = {}
    /\ sortIntoMe = << >>

Next == \/ SortPage \/ BeginMerge \/ MergeLeft \/ MergeRight \/ EndMerge \/ EndRun
        \/ AppendTop \/ Finish

Spec == Init /\ [][Next]_vars /\ WF_vars(Next)

-----------------------------------------------------------------------------
(* Where the records of the input are: on pages not sorted yet, on pages   *)
(* an iterator has not left, in the list being merged, in the output.      *)
OnPages(name, list) ==
    UNION {{<<name, p, s, list[p][s]>> : s \in DOMAIN list[p]} : p \in DOMAIN list}

OnIterator(name, it) == {<<name, x[1], x[2], At(it, x)>> : x \in Ahead(it)}

Places ==
    UNION { {x \in OnPages(<<"page", 0>>, sortMe) : x[2] >= next},
            UNION {OnIterator(<<"queue", n>>, pageQueue[n]) : n \in DOMAIN pageQueue},
            OnIterator(<<"left", 0>>, leftIter),
            OnIterator(<<"right", 0>>, rightIter),
            OnPages(<<"merged", 0>>, mergedList),
            UNION {OnIterator(<<"run", it>>, it) : it \in runIterList},
            OnPages(<<"out", 0>>, <<sortIntoMe>>) }

(* Between any two rounds of any of the loops each record of the table is  *)
(* in exactly one of these places: no merge, no end of a page or of a run  *)
(* loses a record or hands it on twice; and no merged page overflows.      *)
EachInOnePlace ==
    /\ {x[4] : x \in Places} = Contents(sortMe)
    /\ Cardinality(Places) = Cardinality(Contents(sortMe))
    /\ \A p \in DOMAIN mergedList : Len(mergedList[p]) <= PageCapacity

(* Sorting.h:29-31, mergeIntoList assumes its inputs are sorted and gives  *)
(* a sorted list: every list that waits for a merge is in order, and what  *)
(* was merged so far comes before all that is still to be merged.          *)
ListsInOrder ==
    /\ \A n \in DOMAIN pageQueue : InOrder(pageQueue[n])
    /\ \A it \in runIterList \cup {leftIter, rightIter} : InOrder(it)
    /\ phase = "merge" =>
          /\ InOrder(Iterator(mergedList))
          /\ \A m \in Contents(mergedList), it \in {leftIter, rightIter} \ {Ended} :
                m.key <= Current(it).key

(* The sort gives all of the records of the table in the order of their    *)
(* keys, whatever the run size and however the runs end, and comes to its  *)
(* end: it implements SortSpec.                                            *)
Sorting == INSTANCE SortSpec WITH
    remaining <- Contents(sortMe) \ {sortIntoMe[n] : n \in DOMAIN sortIntoMe},
    sorted <- sortIntoMe

SortsTable == Sorting!Spec

(* sort returns, for every table and every run size.                       *)
SortReturns == <>(phase = "done")

=============================================================================
