-------------------------- MODULE MCTableSessions --------------------------
(***************************************************************************)
(* A table with an attribute, and statements that create a tree, the table *)
(* again with another type and attribute, and a tree on an attribute that  *)
(* there is not.                                                           *)
(***************************************************************************)
EXTENDS TableSessions

T == Symbol("t")
A == Symbol("a")
B == Symbol("b")

MCNewDescriptor == NewTable(T, <<Symbol("t.bin")>>, << <<A, "int">> >>)

Statement(t, atts, sortAtt) == [tableName |-> t, atts |-> atts, sortAtt |-> sortAtt]

MCStatements ==
    {Statement(Symbol("u"), << <<A, "int">> >>, A),
     Statement(T, << <<B, "bool">>, <<A, "double">> >>, Symbol("none")),
     Statement(Symbol("v"), << <<A, "int">> >>, B)}

=============================================================================
