--------------------------- MODULE QueryExecution ---------------------------
(***************************************************************************)
(* A query is optimized and its plan executed: the execute methods of      *)
(* src/Main/Execution/source/MyDB_LogicalOps.cc with RegularSelection,     *)
(* ScanJoin and SortMergeJoin.  Every operator writes a temporary table; a *)
(* join kills those of its inputs.  A row maps attributes to numbers.      *)
(***************************************************************************)
EXTENDS QueryOptimizer, Bitwise

CONSTANTS
    Queries,    \* records [select, from, where]
    RowsOnPage, \* the rows that fit a page of a temporary table
    NumFrames,  \* the frames of the buffer manager
    Buckets     \* values that are equal modulo Buckets have one hash value

ASSUME ExecutionAssumption == RowsOnPage > 0 /\ NumFrames > 0 /\ Buckets > 0

VARIABLES
    db, query,
    phase,      \* "optimize", "execute", "probe" or how it ended
    best,       \* the plan and its cost
    todo,       \* the nodes of the plan still to be executed, as paths from its root
    temp,       \* the temporary tables, by the paths of their nodes
    myHash,     \* myHash of ScanJoin: hash values to places in the smaller table
    next        \* the place of myIterAgain in the other table

vars == <<db, query, phase, best, todo, temp, myHash, next>>

-----------------------------------------------------------------------------
RECURSIVE PostOrder(_, _)
PostOrder(plan, path) ==
    IF plan.kind = "scan" THEN <<path>>
    ELSE PostOrder(plan.left, Append(path, "left"))
         \o PostOrder(plan.right, Append(path, "right")) \o <<path>>

Node(path) == FoldLeft(LAMBDA plan, side : plan[side], best.plan, path)

Value(operand, row) == FoldLeft(LAMBDA n, a : n + row[a], operand.lit, operand.ids)

Holds(c, row) ==
    LET l == Value(c.lhs, row)
        r == Value(c.rhs, row)
    IN CASE c.op = "=" -> l = r [] c.op = "<>" -> l # r [] c.op = "<" -> l < r [] c.op = ">" -> l > r

Accepted(cnf, row) == \A p \in ToSet(cnf) : \E c \in ToSet(p) : Holds(c, row)

(* Every attribute that is compiled, in a <> too.                          *)
Compiled(cnf) == UNION {IdsOf(c.lhs) \cup IdsOf(c.rhs) : c \in UNION {ToSet(p) : p \in ToSet(cnf)}}

Projected(row, schema) == [a \in schema |-> row[a]]

-----------------------------------------------------------------------------
Optimize ==
    /\ phase = "optimize"
    /\ best' = OptimizeQueryPlan(db, TopSchema(db, query), query.from, query.where)
    /\ IF best'.plan \in {NoPlan, Undefined}
       THEN phase' = best'.plan.kind /\ todo' = << >>
       ELSE phase' = "execute" /\ todo' = PostOrder(best'.plan, << >>)
    /\ UNCHANGED <<db, query, temp, myHash, next>>

Aliased(t, row) == [a \in {t.alias} \X DOMAIN row |-> row[a[2]]]

(* LogicalTableScan::execute, by RegularSelection::run.                    *)
ExecuteScan ==
    /\ phase = "execute" /\ todo # << >>
    /\ LET scan == Node(Head(todo))
           rows == [n \in DOMAIN db[scan.table.name].rows |->
                       Aliased(scan.table, db[scan.table.name].rows[n])]
           kept == SelectSeq(rows, LAMBDA r : Accepted(scan.preds, r))
       IN /\ scan.kind = "scan"
          /\ temp' = Head(todo) :> [n \in DOMAIN kept |-> Projected(kept[n], scan.schema)] @@ temp
          /\ todo' = Tail(todo)
    /\ UNCHANGED <<db, query, phase, best, myHash, next>>

-----------------------------------------------------------------------------
LeftPath == Append(Head(todo), "left")
RightPath == Append(Head(todo), "right")

NumPages(rows) == IF rows = << >> THEN 1 ELSE (Len(rows) + RowsOnPage - 1) \div RowsOnPage

(* Only the attribute's name is compared, and getId of a sum is its first. *)
AttInLeft(operand, schema) ==
    operand.ids # << >> /\ \E a \in schema : a[2] = operand.ids[1][2]

EqualityChecks(join) ==
    LET eqs == SelectSeq(join.preds, IsEq)
    IN [n \in DOMAIN eqs |-> LET c == eqs[n][1] IN IF AttInLeft(c.lhs, join.left.schema)
                                                   THEN <<c.lhs, c.rhs>> ELSE <<c.rhs, c.lhs>>]

(* The constructor of ScanJoin takes the table with fewer pages as left.   *)
Swapped == NumPages(temp[LeftPath]) >= NumPages(temp[RightPath])

Smaller == IF Swapped THEN RightPath ELSE LeftPath
Larger == IF Swapped THEN LeftPath ELSE RightPath

(* What ScanJoin compiles must be there: an attribute that is not gives    *)
(* index -1 and no type (MyDB_Schema.cc:21).                               *)
Compiles(join, checks) ==
    /\ \A check \in ToSet(checks) :
          IdsOf(check[1]) \subseteq join.left.schema /\ IdsOf(check[2]) \subseteq join.right.schema
    /\ Compiled(join.preds) \cup join.schema \subseteq join.left.schema \cup join.right.schema

HashVal(join, side, row) ==
    FoldLeft(LAMBDA h, check : h ^^ (Value(check[side], row) % Buckets), 0, EqualityChecks(join))

(* The sides of the checks over the smaller and over the larger table.     *)
SmallerSide == IF Swapped THEN 2 ELSE 1
LargerSide == 3 - SmallerSide

Hashed(join) ==
    LET rows == temp[Smaller]
        values == {HashVal(join, SmallerSide, rows[n]) : n \in DOMAIN rows}
    IN [h \in values |-> {n \in DOMAIN rows : HashVal(join, SmallerSide, rows[n]) = h}]

FitsInHalf ==
    LET l == NumPages(temp[LeftPath])
        r == NumPages(temp[RightPath])
    IN (IF l < r THEN l ELSE r) <= NumFrames \div 2

(* LogicalJoin::execute up to the first loop of ScanJoin::run.             *)
BeginScanJoin ==
    /\ phase = "execute" /\ todo # << >> /\ Node(Head(todo)).kind = "join" /\ FitsInHalf
    /\ IF Compiles(Node(Head(todo)), EqualityChecks(Node(Head(todo))))
       THEN /\ phase' = "probe"
            /\ myHash' = Hashed(Node(Head(todo)))
            /\ next' = 1
            /\ temp' = Head(todo) :> << >> @@ temp
       ELSE phase' = "undefined" /\ UNCHANGED <<myHash, next, temp>>
    /\ UNCHANGED <<db, query, best, todo>>

(* Mutant of Matches: the final predicate is not asked.                    *)
MatchesByHash(join, row) ==
    LET h == HashVal(join, LargerSide, row)
    IN IF h \in DOMAIN myHash THEN SetToSortSeq(myHash[h], <) ELSE << >>

Matches(join, row) ==
    LET h == HashVal(join, LargerSide, row)
    IN IF h \notin DOMAIN myHash THEN << >>
       ELSE SetToSortSeq({n \in myHash[h] : Accepted(join.preds, temp[Smaller][n] @@ row)}, <)

ProbeRight ==
    /\ phase = "probe" /\ next <= Len(temp[Larger])
    /\ LET join == Node(Head(todo))
           row == temp[Larger][next]
           found == Matches(join, row)
       IN temp' = [temp EXCEPT ![Head(todo)] =
                      @ \o [n \in DOMAIN found |-> Projected(temp[Smaller][found[n]] @@ row, join.schema)]]
    /\ next' = next + 1
    /\ UNCHANGED <<db, query, phase, best, todo, myHash>>

(* Mutant of Killed: one of the two is forgotten.                          *)
KilledLeft == {LeftPath}

Killed == {LeftPath, RightPath}

EndScanJoin ==
    /\ phase = "probe" /\ next > Len(temp[Larger])
    /\ temp' = [path \in DOMAIN temp \ Killed |-> temp[path]]
    /\ todo' = Tail(todo)
    /\ phase' = "execute"
    /\ myHash' = << >>
    /\ UNCHANGED <<db, query, best, next>>

(* Every accepted pair once, as SortMergeJoin!JoinsOnce has it; in which   *)
(* order is not followed.                                                  *)
MergeJoined(join) ==
    LET Matching(l) == SelectSeq([n \in DOMAIN temp[RightPath] |-> l @@ temp[RightPath][n]],
                                 LAMBDA row : Accepted(join.preds, row))
        rows == FlattenSeq([n \in DOMAIN temp[LeftPath] |-> Matching(temp[LeftPath][n])])
    IN [n \in DOMAIN rows |-> Projected(rows[n], join.schema)]

(* The call takes the first check of what may be none.                     *)
ExecuteSortMergeJoin ==
    /\ phase = "execute" /\ todo # << >> /\ Node(Head(todo)).kind = "join" /\ ~ FitsInHalf
    /\ LET join == Node(Head(todo))
           checks == EqualityChecks(join)
       IN IF checks # << >> /\ Compiles(join, SubSeq(checks, 1, 1))
          THEN /\ temp' = Head(todo) :> MergeJoined(join)
                              @@ [path \in DOMAIN temp \ Killed |-> temp[path]]
               /\ todo' = Tail(todo)
               /\ UNCHANGED phase
          ELSE phase' = "undefined" /\ UNCHANGED <<temp, todo>>
    /\ UNCHANGED <<db, query, best, myHash, next>>

Return ==
    /\ phase = "execute" /\ todo = << >>
    /\ phase' = "done"
    /\ UNCHANGED <<db, query, best, todo, temp, myHash, next>>

-----------------------------------------------------------------------------
Init ==
    /\ db \in Databases
    /\ query \in Queries
    /\ phase = "optimize"
    /\ best = [plan |-> NoPlan, cost |-> MaxDouble]
    /\ todo = << >>
    /\ temp = << >>
    /\ myHash = << >>
    /\ next = 1

Next == Optimize \/ ExecuteScan \/ BeginScanJoin \/ ExecuteSortMergeJoin
        \/ ProbeRight \/ EndScanJoin \/ Return

Spec == Init /\ [][Next]_vars

-----------------------------------------------------------------------------
Planned == best.plan \notin {NoPlan, Undefined}

Paths == ToSet(PostOrder(best.plan, << >>))

TablesOf(path) == {t \in ToSet(query.from) :
                      \E p \in Paths : IsPrefix(path, p) /\ Node(p).kind = "scan" /\ Node(p).table = t}

AliasesOf(path) == {t.alias : t \in TablesOf(path)}

(* SFWQuery.cc:105-127: every table is scanned once, and every predicate   *)
(* is evaluated at one node, the lowest whose tables it can do with; one   *)
(* that names no table, at the root.                                       *)
PredicatesOnce ==
    Planned /\ temp = << >> =>
        /\ \A t \in ToSet(query.from) :
              Cardinality({p \in Paths : Node(p).kind = "scan" /\ Node(p).table = t}) = 1
        /\ \A p \in ToSet(query.where) :
              LET needed == {a[1] : a \in References(p)}
                  places == {path \in Paths : p \in ToSet(Node(path).preds)}
              IN \E path \in Paths :
                    /\ places = {path}
                    /\ needed \subseteq AliasesOf(path)
                    /\ needed = {} => path = << >>
                    /\ needed # {} => \A q \in Paths :
                          needed \subseteq AliasesOf(q) => IsPrefix(q, path)

(* Every plan: a table, or two plans for the parts of the tables.          *)
RECURSIVE Plans(_, _)
Plans(tables, root) ==
    LET Over1(p, ts) == \E t \in ts : \E a \in References(p) : a[1] = t.alias
        Inside(p, ts) == Over1(p, ts) /\ ~ Over1(p, ToSet(query.from) \ ts)
        Here(parts) == SelectSeq(query.where, LAMBDA p :
                           (Inside(p, tables) \/ (root /\ References(p) = {}))
                           /\ \A ts \in parts : ~ Inside(p, ts))
    IN IF Cardinality(tables) = 1
       THEN LET stats == CostSelection(TableStats(db, CHOOSE t \in tables : TRUE), Here({}))
            IN {[stats |-> stats, cost |-> stats.count]}
       ELSE UNION {LET right == tables \ left
                       Join(l, r) == CostJoin(l.stats, Here({left, right}), r.stats)
                   IN {[stats |-> Join(l, r), cost |-> Plus(Plus(l.cost, r.cost), Join(l, r).count)]
                          : l \in Plans(left, FALSE), r \in Plans(right, FALSE)}
                     : left \in (SUBSET tables) \ {{}, tables}}

(* SFWQuery.cc:180-184: no plan over the query's tables has a lower cost.  *)
PlanIsCheapest ==
    Planned /\ temp = << >> => \A plan \in Plans(ToSet(query.from), TRUE) : ~ Greater(best.cost, plan.cost)

(* The rows of the answer by the meaning of the query, one for each choice *)
(* of a row from every table.                                              *)
RowChoices ==
    {choice \in [ToSet(query.from) -> 1 .. 3] :
        \A t \in ToSet(query.from) : choice[t] \in DOMAIN db[t.name].rows}

CombinedRow(choice) ==
    LET Chosen(t) == db[t.name].rows[choice[t]]
    IN [a \in UNION {{t.alias} \X DOMAIN Chosen(t) : t \in ToSet(query.from)} |->
           Chosen(CHOOSE t \in ToSet(query.from) : t.alias = a[1])[a[2]]]

Answers(row) ==
    Cardinality({choice \in RowChoices : Accepted(query.where, CombinedRow(choice))
                                      /\ Projected(CombinedRow(choice), best.plan.schema) = row})

(* SFWQuery.h:36-38, MyDB_LogicalOps.h:25: executing the plan gives the    *)
(* answer of the query, each row as often as it is in it.                  *)
Answered ==
    phase = "done" =>
        /\ best.plan.schema = query.select
        /\ \A row \in ToSet(temp[<< >>]) \cup
                {Projected(CombinedRow(choice), query.select) : choice \in RowChoices} :
              Answers(row) = Len(SelectSeq(temp[<< >>], LAMBDA r : r = row))

(* MyDB_LogicalOps.cc:101-104: the temporary tables are those of the nodes *)
(* whose parents have yet to read them; in the end, the answer.            *)
TemporariesLive ==
    phase \in {"execute", "done"} =>
        DOMAIN temp = {path \in Paths \ ToSet(todo) : path = << >> \/ Front(path) \in ToSet(todo)}

(* Only these queries end without a plan or in undefined behaviour: those *)
(* with a <>, whose attributes are dropped below the join; with an equality*)
(* of attributes of one name, or of an expression over several tables,     *)
(* whose sides are taken for each other's; with an equality that is not    *)
(* between two attributes, when it is costed as a join; and those with a   *)
(* join without an equality of two tables larger than half the buffer.     *)
OneNamed(p) == \E a, b \in References(p) : a[1] # b[1] /\ a[2] = b[2]

OthersAnswered ==
    phase \in {"none", "undefined"} =>
      \/ todo # << >> /\ ~ FitsInHalf /\ EqualityChecks(Node(Head(todo))) = << >>
      \/ \E p \in ToSet(query.where) :
        \/ \E c \in ToSet(p) : c.op = "<>"
        \/ IsEq(p) /\ (OneNamed(p) \/ ~ (IsId(p[1].lhs) /\ IsId(p[1].rhs)))

=============================================================================
