----------------------------- MODULE Aggregate -----------------------------
(***************************************************************************)
(* Aggregate::run in src/Main/RelOps/source/Aggregate.cc: the accepted     *)
(* records are projected into the output table, split into groups by a     *)
(* hash of their grouping attributes, the output table is emptied, and one *)
(* record for each hash value is appended to it.                           *)
(***************************************************************************)
EXTENDS Integers, FiniteSets, SequencesExt

CONSTANTS
    Inputs,     \* the tables: sequences of records [group, args], both sequences
    Accepts,    \* the records selectionPredicate accepts
    Aggs,       \* aggsToCompute: a sequence of "sum", "avg", "cnt"
    HashXor(_, _) \* ^ on numbers

(* A record: the values it is grouped by, and one for each aggregate.      *)
Rows == [group : Seq(Nat), args : [1 .. Len(Aggs) -> Int]]

ASSUME AggregateAssumption ==
    /\ Aggs \in Seq({"sum", "avg", "cnt"}) /\ Aggs # << >>
    /\ Inputs \subseteq Seq(Rows)
    /\ \A t \in Inputs : \E n \in DOMAIN t : t[n] \in Accepts

VARIABLES
    input,              \* the input table
    phase,              \* "project", "group", "aggregate", "done"
    output,             \* the records of the output table
    next,               \* the record tableItr stands at
    pagesByGroups,      \* pagesByGroups: the records under each hash value
    aggRec              \* aggRec, the aggregates of the group

vars == <<input, phase, output, next, pagesByGroups, aggRec>>

NumAggs == Len(Aggs)

Zero == [i \in 1 .. NumAggs |-> 0]

-----------------------------------------------------------------------------
(* The records of a sequence that are in a set.                            *)
Selected(s, P) == FoldLeft(LAMBDA t, r : IF r \in P THEN Append(t, r) ELSE t, << >>, s)

(* RegularSelection of input into output, which is empty before.           *)
Project ==
    /\ phase = "project"
    /\ output' = Selected(input, Accepts)
    /\ phase' = "group"
    /\ UNCHANGED <<input, next, pagesByGroups, aggRec>>

(* hash of a number is the number.                                         *)
HashVal(r) == FoldLeft(HashXor, 0, r.group)

(* Mutant of WithRecord: the group is made anew.                           *)
WithRecordOnly(h, r) ==
    [k \in DOMAIN pagesByGroups \cup {h} |-> IF k = h THEN <<r>> ELSE pagesByGroups[k]]

WithRecord(h, r) ==
    [k \in DOMAIN pagesByGroups \cup {h} |->
        IF k \notin DOMAIN pagesByGroups THEN <<r>>
        ELSE IF k = h THEN Append(pagesByGroups[k], r) ELSE pagesByGroups[k]]

GroupRecord ==
    /\ phase = "group" /\ next <= Len(output)
    /\ pagesByGroups' = WithRecord(HashVal(output[next]), output[next])
    /\ next' = next + 1
    /\ UNCHANGED <<input, phase, output, aggRec>>

ClearOutput ==
    /\ phase = "group" /\ next > Len(output)
    /\ output' = << >>
    /\ phase' = "aggregate"
    /\ UNCHANGED <<input, next, pagesByGroups, aggRec>>

(* The aggregates of a group with one more record.                         *)
Added(aggs, r) == [i \in 1 .. NumAggs |-> IF Aggs[i] = "cnt" THEN aggs[i] + 1
                                          ELSE aggs[i] + r.args[i]]

(* Mutant of Totals: the aggregates are not set to zero.                   *)
TotalsOnTop(rows) == FoldLeft(Added, aggRec, rows)

Totals(rows) == FoldLeft(Added, Zero, rows)

(* A result is a quotient: an average is divided by the last aggregate.    *)
Result(i, totals) == <<totals[i], IF Aggs[i] = "avg" THEN totals[NumAggs] ELSE 1>>

(* unordered_map gives the groups in any order.                            *)
AggregateGroup ==
    /\ phase = "aggregate"
    /\ \E h \in DOMAIN pagesByGroups :
          LET rows == pagesByGroups[h] IN
          /\ aggRec' = Totals(rows)
          /\ output' = Append(output, [group |-> Last(rows).group,
                                       aggs  |-> [i \in 1 .. NumAggs |-> Result(i, aggRec')]])
          /\ pagesByGroups' = [k \in DOMAIN pagesByGroups \ {h} |-> pagesByGroups[k]]
    /\ UNCHANGED <<input, phase, next>>

Return ==
    /\ phase = "aggregate" /\ DOMAIN pagesByGroups = {}
    /\ phase' = "done"
    /\ UNCHANGED <<input, output, next, pagesByGroups, aggRec>>

-----------------------------------------------------------------------------
Init ==
    /\ input \in Inputs
    /\ phase = "project"
    /\ output = << >>
    /\ next = 1
    /\ pagesByGroups = << >>
    /\ aggRec = Zero

Next == Project \/ GroupRecord \/ ClearOutput \/ AggregateGroup \/ Return

Spec == Init /\ [][Next]_vars

-----------------------------------------------------------------------------
Accepted == Selected(input, Accepts)

Members(g) == Selected(Accepted, {r \in ToSet(Accepted) : r.group = g})

Groups == {r.group : r \in ToSet(Accepted)}

(* A group whose hash value no other group has.                            *)
Alone(g) == \A other \in Groups \ {g} : HashVal([group |-> other]) # HashVal([group |-> g])

(* SELECT ... GROUP BY, from its definition.                               *)
Sum(numbers) == FoldLeft(LAMBDA m, n : m + n, 0, numbers)

SumOf(i, rows) == Sum([n \in DOMAIN rows |-> rows[n].args[i]])

Expected(g) ==
    [group |-> g,
     aggs  |-> [i \in 1 .. NumAggs |->
                   CASE Aggs[i] = "sum" -> <<SumOf(i, Members(g)), 1>>
                     [] Aggs[i] = "avg" -> <<SumOf(i, Members(g)), Len(Members(g))>>
                     [] Aggs[i] = "cnt" -> <<Len(Members(g)), 1>>]]

(* Aggregate.h:19-45: the result has one record for each group with the    *)
(* sums, averages and counts of its accepted records, provided that its    *)
(* hash value is its own and that a count is the last of the aggregates.   *)
GroupsExact ==
    phase = "done" => \A g \in Groups : Alone(g) =>
        /\ \E n \in DOMAIN output : output[n].group = g
        /\ \A n \in DOMAIN output : output[n].group = g => output[n] = Expected(g)

(* Whatever the hash values are, once the output table is emptied each     *)
(* accepted record is in one group or counted in one record of the result. *)
EachCountedOnce ==
    phase \in {"aggregate", "done"} =>
        MapThenSumSet(LAMBDA h : Len(pagesByGroups[h]), DOMAIN pagesByGroups)
        + Sum([n \in DOMAIN output |-> output[n].aggs[NumAggs][1]]) = Len(Accepted)

=============================================================================
