--------------------------- MODULE QueryOptimizer ---------------------------
(***************************************************************************)
(* SFWQuery::optimizeQueryPlan in src/Main/Execution/source/SFWQuery.cc,   *)
(* the statistics of MyDB_Stats.cc and what both ask of an expression      *)
(* (src/Main/SQL/headers/ExprTree.h).  An attribute is a pair              *)
(* <<alias, name>>; an operand is a sum of attributes and a number; a      *)
(* disjunction is a sequence of comparisons, the last of which is the      *)
(* right hand side of the outermost OR.                                    *)
(***************************************************************************)
EXTENDS Integers, FiniteSets, SequencesExt

CONSTANT Databases  \* [table name -> [count, vals (attribute -> distinct values), rows]]

-----------------------------------------------------------------------------
(* Doubles, as reduced fractions; a fraction over zero is an infinity, or  *)
(* NaN when it is 0 over 0.  No sum of two infinities is compared.         *)
RECURSIVE Gcd(_, _)
Gcd(a, b) == IF b = 0 THEN a ELSE Gcd(b, a % b)

Magnitude(n) == IF n < 0 THEN -n ELSE n

Num(n, d) == LET g == Gcd(Magnitude(n), d) IN IF g = 0 THEN <<0, 0>> ELSE <<n \div g, d \div g>>

Plus(a, b) == Num(a[1] * b[2] + b[1] * a[2], a[2] * b[2])
Minus(a, b) == Num(a[1] * b[2] - b[1] * a[2], a[2] * b[2])
Times(a, b) == Num(a[1] * b[1], a[2] * b[2])
Over(a, b) == IF b[1] < 0 THEN Num(-a[1] * b[2], -a[2] * b[1]) ELSE Num(a[1] * b[2], a[2] * b[1])
Greater(a, b) == a[1] * b[2] > b[1] * a[2]

Least(a, b) == IF Greater(a, b) THEN b ELSE a

Nothing == <<0, 1>>
One == <<1, 1>>
IsNone(a) == a[1] <= 0 /\ a # <<0, 0>>
MaxDouble == <<1000000, 1>>   \* a bound that every finite cost of an instance is below

-----------------------------------------------------------------------------
IsId(operand) == Len(operand.ids) = 1 /\ operand.lit = 0

(* EqOp::isEq; an OR is not one, whatever it is made of.                   *)
IsEq(p) == Len(p) = 1 /\ p[1].op = "="

IdsOf(operand) == ToSet(operand.ids)

(* referencesAtt: NeqOp does not override it.                              *)
References(p) ==
    UNION {IdsOf(p[n].lhs) \cup IdsOf(p[n].rhs) : n \in {k \in DOMAIN p : p[k].op # "<>"}}

ReferencesTable(p, tables) == \E t \in ToSet(tables) : \E a \in References(p) : a[1] = t.alias

-----------------------------------------------------------------------------
(* Statistics: the number of tuples and of the values of each attribute.   *)
AttVals(stats, a) == IF a \in DOMAIN stats.vals THEN stats.vals[a] ELSE Nothing

NoStats == [count |-> Nothing, vals |-> << >>]

(* Every count is cut down to the number of tuples, but those of own.      *)
Capped(stats, count, own, n) ==
    [count |-> count,
     vals  |-> [a \in DOMAIN stats.vals |-> IF a \in own THEN n ELSE Least(stats.vals[a], count)]]

TableStats(db, t) ==
    [count |-> <<db[t.name].count, 1>>,
     vals  |-> [a \in {t.alias} \X DOMAIN db[t.name].vals |-> <<db[t.name].vals[a[2]], 1>>]]

(* The statistics after a comparison.                                      *)
Filtered(stats, c) ==
    LET id == IF IsId(c.lhs) THEN c.lhs.ids[1] ELSE c.rhs.ids[1]
        share == Over(stats.count, AttVals(stats, id))
    IN CASE c.op = "=" /\ (IsId(c.lhs) \/ IsId(c.rhs)) -> Capped(stats, share, {id}, One)
         [] c.op = "<>" /\ (IsId(c.lhs) \/ IsId(c.rhs)) ->
              Capped(stats, Minus(stats.count, share), {id}, Minus(AttVals(stats, id), One))
         [] c.op \in {"<", ">"} -> Capped(stats, Over(stats.count, <<3, 1>>), {}, Nothing)
         [] OTHER -> stats

(* The last disjunction is costed first, by its last comparison.           *)
CostSelection(stats, cnf) == FoldRight(LAMBDA p, s : Filtered(s, Last(p)), cnf, stats)

CrossProduct(left, right) ==
    [count |-> Times(left.count, right.count), vals |-> left.vals @@ right.vals]

(* The first equality is the join predicate.  If its sides are not two     *)
(* attributes that have values, the statistics are left empty.             *)
EquiJoined(left, right, c) ==
    LET swap == IsNone(AttVals(left, c.lhs.ids[1]))
        l == IF swap THEN right ELSE left
        r == IF swap THEN left ELSE right
        nl == AttVals(l, c.lhs.ids[1])
        nr == AttVals(r, c.rhs.ids[1])
        count == Times(Times(Over(l.count, nl), Over(r.count, nr)), Least(nl, nr))
    IN IF IsId(c.lhs) /\ IsId(c.rhs) /\ Greater(nl, Nothing) /\ Greater(nr, Nothing)
       THEN Capped(CrossProduct(left, right), count, {c.lhs.ids[1], c.rhs.ids[1]}, Least(nl, nr))
       ELSE NoStats

CostJoin(left, cnf, right) ==
    LET n == SelectInSeq(cnf, IsEq)
    IN IF n = 0 THEN CostSelection(CrossProduct(left, right), cnf)
       ELSE CostSelection(EquiJoined(left, right, cnf[n][1]), RemoveAt(cnf, n))

-----------------------------------------------------------------------------
(* Plans.  A call that reads the statistics of a missing plan is undefined.*)
NoPlan == [kind |-> "none"]

Undefined == [kind |-> "undefined"]

TopSchema(db, query) ==
    {a \in UNION {{t.alias} \X DOMAIN db[t.name].vals : t \in ToSet(query.from)} : a \in query.select}

RECURSIVE GenerateCombinations(_, _, _)
GenerateCombinations(items, group1, group2) ==
    IF items = << >>
    THEN IF group1 = << >> \/ group2 = << >> THEN << >> ELSE <<[left |-> group1, right |-> group2]>>
    ELSE GenerateCombinations(Tail(items), Append(group1, Head(items)), group2)
         \o GenerateCombinations(Tail(items), group1, Append(group2, Head(items)))

(* Mutant of OnlyOver: a predicate over both sides is sent down too.       *)
OnlyOverWithout(cnf, tables, others) == SelectSeq(cnf, LAMBDA p : ReferencesTable(p, tables))

OnlyOver(cnf, tables, others) ==
    SelectSeq(cnf, LAMBDA p : ReferencesTable(p, tables) /\ ~ ReferencesTable(p, others))

OnTop(cnf, result) ==
    SelectSeq(cnf, LAMBDA p : ReferencesTable(p, result.left) = ReferencesTable(p, result.right))

(* Mutant of InputSchema: what the predicates on top need is forgotten.    *)
InputSchemaOfTop(db, tables, top, topCNF) ==
    UNION {{t.alias} \X DOMAIN db[t.name].vals : t \in ToSet(tables)} \cap top

InputSchema(db, tables, top, topCNF) ==
    UNION {{t.alias} \X DOMAIN db[t.name].vals : t \in ToSet(tables)}
        \cap (top \cup UNION {References(p) : p \in ToSet(topCNF)})

TableScan(db, t, top, cnf) ==
    LET stats == CostSelection(TableStats(db, t), cnf)
    IN [plan |-> [kind |-> "scan", table |-> t, schema |-> top, preds |-> cnf, stats |-> stats],
        cost |-> stats.count]

(* Mutant of Better: the last plan is taken.                               *)
BetterIsLast(best, cost) == Greater(MaxDouble, cost)

Better(best, cost) == Greater(best, cost)

RECURSIVE OptimizeQueryPlan(_, _, _, _)

(* One turn of the loop over the combinations.                             *)
Try(db, top, cnf, best, result) ==
    LET topCNF == OnTop(cnf, result)
        lhs == OptimizeQueryPlan(db, InputSchema(db, result.left, top, topCNF), result.left,
                                 OnlyOver(cnf, result.left, result.right))
        rhs == OptimizeQueryPlan(db, InputSchema(db, result.right, top, topCNF), result.right,
                                 OnlyOver(cnf, result.right, result.left))
        stats == CostJoin(lhs.plan.stats, topCNF, rhs.plan.stats)
        cost == Plus(Plus(lhs.cost, rhs.cost), stats.count)
    IN IF best.plan = Undefined \/ {lhs.plan, rhs.plan} \cap {NoPlan, Undefined} # {}
       THEN [best EXCEPT !.plan = Undefined]
       ELSE IF Better(best.cost, cost)
       THEN [plan |-> [kind |-> "join", left |-> lhs.plan, right |-> rhs.plan,
                       schema |-> top, preds |-> topCNF, stats |-> stats],
             cost |-> cost]
       ELSE best

OptimizeQueryPlan(db, top, tables, cnf) ==
    IF Len(tables) = 1 THEN TableScan(db, tables[1], top, cnf)
    ELSE FoldLeft(LAMBDA best, result : Try(db, top, cnf, best, result),
                  [plan |-> NoPlan, cost |-> MaxDouble],
                  GenerateCombinations(tables, << >>, << >>))

=============================================================================
