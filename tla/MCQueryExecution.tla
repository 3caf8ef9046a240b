-------------------------- MODULE MCQueryExecution --------------------------
(***************************************************************************)
(* Queries over up to three tables, one of them twice, for QueryExecution; *)
(* the tables have up to three rows, with duplicates, or none.             *)
(***************************************************************************)
EXTENDS QueryExecution

Row(a, x, b, y) == a :> x @@ b :> y

Stats(count, a, n, b, m) == [count |-> count, vals |-> a :> n @@ b :> m]

Table(stats, rows) == [count |-> stats.count, vals |-> stats.vals, rows |-> rows]

R(rows) == Table(Stats(40, "x", 20, "y", 4), rows)
S(rows) == Table(Stats(10, "u", 5, "v", 10), rows)
T(rows) == Table(Stats(200, "w", 2, "x", 100), rows)

MCDatabases ==
    {"R" :> R(<<Row("x", 1, "y", 0), Row("x", 2, "y", 1), Row("x", 1, "y", 0)>>)
       @@ "S" :> S(<<Row("u", 1, "v", 1), Row("u", 3, "v", 2)>>)
       @@ "T" :> T(<<Row("w", 2, "x", 1), Row("w", 0, "x", 2), Row("w", 1, "x", 1)>>),
     "R" :> R(<<Row("x", 1, "y", 2), Row("x", 3, "y", 2)>>)
       @@ "S" :> S(<<Row("u", 1, "v", 2), Row("u", 3, "v", 2), Row("u", 1, "v", 2)>>)
       @@ "T" :> T(<<Row("w", 2, "x", 3)>>),
     "R" :> R(<<Row("x", 0, "y", 0)>>) @@ "S" :> S(<< >>)
       @@ "T" :> T(<<Row("w", 0, "x", 0), Row("w", 0, "x", 0)>>)}

Att(t, a) == [ids |-> << <<t, a>> >>, lit |-> 0]
Const(n) == [ids |-> << >>, lit |-> n]
SumOf(t, a, u, b) == [ids |-> << <<t, a>>, <<u, b>> >>, lit |-> 0]

Compare(l, op, r) == [op |-> op, lhs |-> l, rhs |-> r]

Predicates ==
    {<<Compare(Att("r", "x"), "=", Att("s", "u"))>>,
     <<Compare(Att("s", "v"), "=", Att("r", "y"))>>,
     <<Compare(Att("r", "x"), "=", Att("t", "x"))>>,
     <<Compare(Att("t", "w"), "=", Att("s", "v"))>>,
     <<Compare(Att("r", "x"), "<", Const(2)), Compare(Att("s", "u"), "=", Const(3))>>,
     <<Compare(Att("t", "w"), ">", Att("r", "y"))>>,
     <<Compare(Att("s", "u"), "=", Const(1))>>,
     <<Compare(Att("s", "v"), "<>", Att("r", "x"))>>,
     <<Compare(SumOf("r", "x", "r", "y"), "=", Att("s", "v"))>>,
     <<Compare(SumOf("r", "x", "s", "u"), "=", Const(2))>>,
     <<Compare(Att("r", "x"), "=", Att("q", "y"))>>,
     <<Compare(Att("q", "x"), "=", Att("r", "x"))>>,
     <<Compare(Const(0), "=", Const(0))>>}

Aliases == [r |-> "R", s |-> "S", t |-> "T", q |-> "R"]

From(aliases) == [n \in DOMAIN aliases |-> [name |-> Aliases[aliases[n]], alias |-> aliases[n]]]

Froms == {<<"r">>, <<"r", "s">>, <<"s", "r">>, <<"r", "q">>, <<"t", "s", "r">>}

IsOver(p, from) == \A c \in ToSet(p) : \A a \in IdsOf(c.lhs) \cup IdsOf(c.rhs) : a[1] \in ToSet(from)

Wheres(from) ==
    LET over == {p \in Predicates : IsOver(p, from)}
    IN {<<p>> : p \in over} \cup {<<p, q>> : p \in over, q \in over}

MCQueries ==
    UNION {{[select |-> select, from |-> From(from), where |-> where]
               : select \in {{<<"r", "y">>}, {<<"r", "x">>, <<"r", "y">>}}, where \in {w \in Wheres(from) : Len(w) = 1 \/ w[1] # w[2]}}
           : from \in Froms}

=============================================================================
