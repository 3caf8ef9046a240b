--------------------------- MODULE SortMergeJoin ---------------------------
(***************************************************************************)
(* SortMergeJoin::run (src/Main/RelOps/source/SortMergeJoin.cc) over two   *)
(* iterators of sorted runs (MyDB_RunQueueIteratorAlt.cc).  The function   *)
(* that builds those is declared in Sorting.h and defined nowhere: it is   *)
(* modelled as that header describes it.  A record is its place in its     *)
(* table and the value of the equality check.                              *)
(***************************************************************************)
EXTENDS AttValues, StableSorting

CONSTANTS
    LeftTables, RightTables,  \* sequences of the values of the equality check
    RunSize,                  \* the records in a sorted run
    Rejections                \* sets of the pairs the rest of the final predicate rejects

(* The groups are collected by the text of their keys, so keys are taken   *)
(* to be equal when their texts are, as those of one type are: as 5 and    *)
(* 5.000000 equal keys of an int and a double are told apart, and matches  *)
(* are lost.                                                               *)
ASSUME JoinAssumption ==
    /\ RunSize \in Nat \ {0}
    /\ LeftTables \cup RightTables \subseteq Seq({"int", "double"} \X Int)
    /\ \A v, w \in UNION {ToSet(t) : t \in LeftTables \cup RightTables} :
          As("string", v) = As("string", w) <=> InParts(v) = InParts(w)

VARIABLES
    phase,             \* where run is: "begin", "compare", "left", "right", "cross", or how it ended
    left, right,       \* the two tables
    rejected,          \* pairs that match but are not accepted
    ptrLeft, ptrRight, \* iterators: [top (the run on top of the queue), others, firstTime]
    recordLeft, recordRight,
    keyValue,          \* keyValue: the group's text
    leftBuffers, rightBuffers,
    bottomLeft, bottomRight,   \* reachBottomLeft, reachBottomRight
    pair,              \* the places of leftItr and rightItr
    output

vars == <<phase, left, right, rejected, ptrLeft, ptrRight, recordLeft, recordRight, keyValue,
          leftBuffers, rightBuffers, bottomLeft, bottomRight, pair, output>>

inputs == <<left, right, rejected>>
groups == <<keyValue, leftBuffers, rightBuffers, bottomLeft, bottomRight, pair>>

Less(r, s) == InParts(r.key) < InParts(s.key)
Equal(r, s) == InParts(r.key) = InParts(s.key)
Text(r) == As("string", r.key)

RecordsOf(table) == {[id |-> n, key |-> table[n]] : n \in DOMAIN table}

-----------------------------------------------------------------------------
(* Any of the runs whose first record is least may be on top of the queue. *)
Least(runs) == {run \in runs : \A other \in runs : ~ Less(Head(other), Head(run))}

NoRun == << >>

Queues(runs, first) ==
    IF runs = {} THEN {[top |-> NoRun, others |-> {}, firstTime |-> first]}
    ELSE {[top |-> run, others |-> runs \ {run}, firstTime |-> first] : run \in Least(runs)}

(* buildItertorOverSortedRuns: RunSize records at a time are sorted.       *)
Run(table, first) ==
    [n \in 1 .. Min({RunSize, Len(table) - first + 1}) |->
        [id |-> first + n - 1, key |-> table[first + n - 1]]]

Sorted(run) == Arranged(run, [n \in DOMAIN run |-> InParts(run[n].key)])

SortedRuns(table) ==
    {Sorted(Run(table, first)) : first \in {n \in DOMAIN table : (n - 1) % RunSize = 0}}

(* Mutant of Advanced: the run that was on top is not put back.            *)
AdvancedDropping(it) ==
    IF it.firstTime THEN {[it EXCEPT !.firstTime = FALSE]} ELSE Queues(it.others, FALSE)

(* advance: the first call does not move.                                  *)
Advanced(it) ==
    IF it.firstTime THEN {[it EXCEPT !.firstTime = FALSE]}
    ELSE Queues(it.others \cup (IF Len(it.top) > 1 THEN {Tail(it.top)} ELSE {}), FALSE)

HasCurrent(it) == it.top # NoRun

Current(it) == Head(it.top)

-----------------------------------------------------------------------------
(* Before the loop both iterators are read; there is nothing on top of the *)
(* queue of an empty one.                                                  *)
Begin ==
    /\ phase = "begin"
    /\ IF HasCurrent(ptrLeft) /\ HasCurrent(ptrRight)
       THEN /\ phase' = "compare"
            /\ ptrLeft' \in Advanced(ptrLeft) /\ ptrRight' \in Advanced(ptrRight)
            /\ recordLeft' = Current(ptrLeft') /\ recordRight' = Current(ptrRight')
       ELSE /\ phase' = "undefined"
            /\ UNCHANGED <<ptrLeft, ptrRight, recordLeft, recordRight>>
    /\ UNCHANGED <<inputs, groups, output>>

(* The keys are equal: a group of each side begins with its record.        *)
BeginGroups ==
    /\ phase = "compare" /\ Equal(recordLeft, recordRight)
    /\ phase' = "left"
    /\ keyValue' = Text(recordLeft)
    /\ leftBuffers' = <<recordLeft>> /\ rightBuffers' = <<recordRight>>
    /\ bottomLeft' = TRUE /\ bottomRight' = TRUE
    /\ UNCHANGED <<inputs, ptrLeft, ptrRight, recordLeft, recordRight, pair, output>>

SkipRight ==
    /\ phase = "compare" /\ Less(recordRight, recordLeft)
    /\ ptrRight' \in Advanced(ptrRight)
    /\ IF HasCurrent(ptrRight') THEN recordRight' = Current(ptrRight') /\ UNCHANGED phase
       ELSE phase' = "done" /\ UNCHANGED recordRight
    /\ UNCHANGED <<inputs, groups, ptrLeft, recordLeft, output>>

(* Mutant of SkipLeft: the loop goes on when there is no next record.      *)
SkipLeftOnward ==
    /\ phase = "compare" /\ Less(recordLeft, recordRight)
    /\ ptrLeft' \in Advanced(ptrLeft)
    /\ recordLeft' = IF HasCurrent(ptrLeft') THEN Current(ptrLeft') ELSE recordLeft
    /\ UNCHANGED <<phase, inputs, groups, ptrRight, recordRight, output>>

SkipLeft ==
    /\ phase = "compare" /\ Less(recordLeft, recordRight)
    /\ ptrLeft' \in Advanced(ptrLeft)
    /\ IF HasCurrent(ptrLeft') THEN recordLeft' = Current(ptrLeft') /\ UNCHANGED phase
       ELSE phase' = "done" /\ UNCHANGED recordLeft
    /\ UNCHANGED <<inputs, groups, ptrRight, recordRight, output>>

(* Mutant of InGroup: the first record of the next group is one of this.   *)
InGroupByOrder(record) == TRUE

InGroup(record) == Text(record) = keyValue

(* Until a record has another key, or there is none.                       *)
ExtendLeft ==
    /\ phase = "left"
    /\ ptrLeft' \in Advanced(ptrLeft)
    /\ recordLeft' = IF HasCurrent(ptrLeft') THEN Current(ptrLeft') ELSE recordLeft
    /\ IF HasCurrent(ptrLeft') /\ InGroup(recordLeft')
       THEN leftBuffers' = Append(leftBuffers, recordLeft') /\ UNCHANGED <<phase, bottomLeft>>
       ELSE phase' = "right" /\ bottomLeft' = ~ HasCurrent(ptrLeft') /\ UNCHANGED leftBuffers
    /\ UNCHANGED <<inputs, ptrRight, recordRight, keyValue, rightBuffers, bottomRight, pair, output>>

ExtendRight ==
    /\ phase = "right"
    /\ ptrRight' \in Advanced(ptrRight)
    /\ recordRight' = IF HasCurrent(ptrRight') THEN Current(ptrRight') ELSE recordRight
    /\ IF HasCurrent(ptrRight') /\ InGroup(recordRight')
       THEN rightBuffers' = Append(rightBuffers, recordRight') /\ UNCHANGED <<phase, bottomRight, pair>>
       ELSE /\ phase' = "cross" /\ bottomRight' = ~ HasCurrent(ptrRight')
            /\ pair' = <<1, 1>>
            /\ UNCHANGED rightBuffers
    /\ UNCHANGED <<inputs, ptrLeft, recordLeft, keyValue, leftBuffers, bottomLeft, output>>

-----------------------------------------------------------------------------
(* The equality check is part of the final predicate.                      *)
Accepted(l, r) == Equal(l, r) /\ <<l.id, r.id>> \notin rejected

(* The next round of the two do loops.                                     *)
MorePairs == pair # <<Len(leftBuffers), Len(rightBuffers)>>

(* Mutant of NextPair: one record too many on the right.                   *)
NextPairOffByOne == IF pair[2] <= Len(rightBuffers) THEN <<pair[1], pair[2] + 1>> ELSE <<pair[1] + 1, 1>>

NextPair == IF pair[2] < Len(rightBuffers) THEN <<pair[1], pair[2] + 1>> ELSE <<pair[1] + 1, 1>>

Ends == bottomLeft \/ bottomRight

(* Both records are loaded from the buffers; back at the loop's head they  *)
(* are loaded from the iterators again.                                    *)
Cross ==
    /\ phase = "cross"
    /\ LET l == leftBuffers[pair[1]]
           r == rightBuffers[pair[2]]
       IN /\ output' = IF Accepted(l, r) THEN Append(output, <<l.id, r.id>>) ELSE output
          /\ IF MorePairs
             THEN pair' = NextPair /\ recordLeft' = l /\ recordRight' = r /\ UNCHANGED phase
             ELSE IF Ends
             THEN phase' = "done" /\ recordLeft' = l /\ recordRight' = r /\ UNCHANGED pair
             ELSE /\ phase' = "compare"
                  /\ recordLeft' = Current(ptrLeft) /\ recordRight' = Current(ptrRight)
                  /\ UNCHANGED pair
    /\ UNCHANGED <<inputs, ptrLeft, ptrRight, keyValue, leftBuffers, rightBuffers, bottomLeft, bottomRight>>

-----------------------------------------------------------------------------
NoRecord == [id |-> 0, key |-> Oops]

Init ==
    /\ phase = "begin"
    /\ left \in LeftTables /\ right \in RightTables /\ rejected \in Rejections
    /\ ptrLeft \in Queues(SortedRuns(left), TRUE) /\ ptrRight \in Queues(SortedRuns(right), TRUE)
    /\ recordLeft = NoRecord /\ recordRight = NoRecord
    /\ keyValue = Oops
    /\ leftBuffers = << >> /\ rightBuffers = << >>
    /\ bottomLeft = TRUE /\ bottomRight = TRUE
    /\ pair = <<1, 1>>
    /\ output = << >>

Next == Begin \/ BeginGroups \/ SkipLeft \/ SkipRight \/ ExtendLeft \/ ExtendRight \/ Cross

(* Nothing else runs: the loop goes on until it breaks.                    *)
Spec == Init /\ [][Next]_vars /\ WF_vars(Next)

-----------------------------------------------------------------------------
TypeOK ==
    /\ phase \in {"begin", "compare", "left", "right", "cross", "done", "undefined"}
    /\ recordLeft \in RecordsOf(left) \cup {NoRecord} /\ recordRight \in RecordsOf(right) \cup {NoRecord}
    /\ ToSet(leftBuffers) \subseteq RecordsOf(left) /\ ToSet(rightBuffers) \subseteq RecordsOf(right)
    /\ phase = "cross" => pair \in (DOMAIN leftBuffers) \X (DOMAIN rightBuffers)
    /\ phase \in {"compare", "left"} => HasCurrent(ptrLeft)
    /\ phase \in {"compare", "left", "right"} => HasCurrent(ptrRight)

Pending(it) == UNION {ToSet(run) : run \in {it.top} \cup it.others}

(* SortMergeJoin.cc:85-119: when the combinations are explored the buffers *)
(* hold all records of one key, of either side, each once; the iterators   *)
(* hold those of larger keys and no other.                                 *)
WholeGroup(buffers, table, it) ==
    /\ IsInjective(buffers)
    /\ ToSet(buffers) = {r \in RecordsOf(table) : Equal(r, Head(buffers))}
    /\ Pending(it) = {r \in RecordsOf(table) : Less(Head(buffers), r)}

GroupsWhole ==
    phase = "cross" => WholeGroup(leftBuffers, left, ptrLeft) /\ WholeGroup(rightBuffers, right, ptrRight)

Answer == {<<l.id, r.id>> : l \in RecordsOf(left), r \in RecordsOf(right)}

Matching == {p \in Answer \ rejected : InParts(left[p[1]]) = InParts(right[p[2]])}

Join == INSTANCE JoinSpec WITH Pairs <- Nat \X Nat, remaining <- Matching \ ToSet(output)

(* SortMergeJoin.h:16-34: every accepted pair comes out exactly once.      *)
JoinsOnce == Join!Spec

(* The join returns; over an empty input, in undefined behaviour.          *)
JoinReturns == <>(phase = "done" \/ (phase = "undefined" /\ << >> \in {left, right}))

=============================================================================
