--------------------------- MODULE MCComputations ---------------------------
(***************************************************************************)
(* Two tables with an attribute of every type, every operator over every   *)
(* two of their attributes and some literals, and deeper expressions.      *)
(***************************************************************************)
EXTENDS Computations

MCLeftAtts == << << <<"l", "i">>, "int">>, << <<"l", "d">>, "double">>, << <<"l", "s">>, "string">>,
                 << <<"l", "b">>, "bool">> >>

MCRightAtts == << << <<"r", "i">>, "int">>, << <<"r", "d">>, "double">> >>

(* The double is twice 2.0 and then -2.5; the strings are "2" and "t".     *)
MCLeftRecords ==
    << << <<"int", 2>>, <<"double", 128>>, <<"string", <<50>> >>, <<"bool", TRUE>> >>,
       << <<"int", -5>>, <<"double", -160>>, <<"string", <<116>> >>, <<"bool", FALSE>> >> >>

MCRightRecords == << << <<"int", 10>>, <<"double", 128>> >>, << <<"int", 0>>, <<"double", 32>> >> >>

Leaves == {Identifier(MCLeftAtts[n][1][1], MCLeftAtts[n][1][2]) : n \in DOMAIN MCLeftAtts}
              \cup {IntLiteral(2), DoubleLiteral(96), StringLiteral(<<50>>), BoolLiteral(FALSE)}

RightLeaves == {Identifier("r", "i"), Identifier("r", "d")}

Binaries(lhss, rhss) ==
    UNION {{MinusOp(l, r), PlusOp(l, r), TimesOp(l, r), DivideOp(l, r), GtOp(l, r), LtOp(l, r),
            NeqOp(l, r), OrOp(l, r), EqOp(l, r), ExploreSelections(<<l, r>>)} : l \in lhss, r \in rhss}

(* Unary minus is no expression of the parser: its text is written by hand.*)
UnaryMinus(child) ==
    Tree("um", <<child>>, <<Symbol("um"), Symbol("(")>> \o child.text \o <<Symbol(")")>>, << >>, child.atts)

Prefixed(trees) == {NotOp(t) : t \in trees} \cup {UnaryMinus(t) : t \in trees}

Flat == Binaries(Leaves, Leaves) \cup Prefixed(Leaves) \cup Leaves \cup {ExploreSelections(<< >>)}

(* Over both tables, with a nested operand on either side.                 *)
Deep ==
    LET inner == {PlusOp(Identifier("l", "i"), Identifier("l", "d")), LtOp(Identifier("l", "s"), IntLiteral(7)),
                  DivideOp(Identifier("l", "i"), Identifier("r", "i")), NeqOp(Identifier("r", "d"), Identifier("l", "d")),
                  EqOp(Identifier("r", "i"), Identifier("l", "b"))}
    IN Binaries(inner, RightLeaves \cup inner) \cup Binaries(RightLeaves, inner) \cup Prefixed(inner)

(* A <> does not tell that it references the right table as well: one side *)
(* needs an attribute that is not there, before or after the process ends. *)
Untold ==
    LET absent == {OrOp(l, Identifier("r", "i")) : l \in Leaves} \cup {MinusOp(l, Identifier("r", "d")) : l \in Leaves}
                      \cup {PlusOp(Identifier("r", "i"), Identifier("l", "b")), Identifier("r", "d")}
        bad == {MinusOp(Identifier("l", "s"), Identifier("l", "i")), OrOp(Identifier("l", "b"), Identifier("l", "i"))}
    IN {NeqOp(t, u) : t \in absent, u \in bad} \cup {NeqOp(u, t) : t \in absent, u \in bad}

Aliases(record) == IF record = "both" THEN {"l", "r"} ELSE IF record = "right" THEN {"r"} ELSE {"l"}

(* An expression is compiled over a record of the tables it references.    *)
Job(record, tree, out) == [record |-> record, tree |-> tree, out |-> out]

Fits(record, tree) == {a[1] : a \in tree.atts} \subseteq Aliases(record)

Singles ==
    {<<Job("left", t, "string")>> : t \in Flat}
        \cup {<<Job("compare", t, "bool")>> : t \in {u \in Flat : u.kind \in {"+", "/", "==", "identifier"}}}
        \cup {<<Job("both", t, "string")>> : t \in Deep}
        \cup {<<Job(record, t, "string")>> : record \in {"left", "right"},
                  t \in {u \in Deep : u.kind \in {"||", "!", "um"}}}
        \cup {<<Job(record, t, "string")>> : record \in {"left", "both"}, t \in Untold}
        \cup {<<Job("left", t, out)>> : t \in Leaves, out \in {"int", "double", "bool"}}

Some == {Identifier("l", "i"), PlusOp(Identifier("l", "i"), IntLiteral(2)), Identifier("l", "d"),
         TimesOp(Identifier("l", "d"), Identifier("l", "i"))}

Pairs == {<<Job("left", t, "double"), Job(record, u, "double")>> :
             record \in {"left", "both"}, t \in Some, u \in Some}

MCJobs == {j \in Singles \cup Pairs : \A n \in DOMAIN j : j[n].record # "compare" => Fits(j[n].record, j[n].tree)}

=============================================================================
