---------------------------- MODULE MCAggregate ----------------------------
(***************************************************************************)
(* Tables of one to three records for Aggregate: two grouping attributes   *)
(* and one argument, the same for every aggregate but the count.           *)
(***************************************************************************)
EXTENDS Aggregate, Bitwise

MCXor(a, b) == a ^^ b

MCAggs == <<"sum", "avg", "cnt">>

Record(a, b, x) == [group |-> <<a, b>>, args |-> <<x, x, 0>>]

Records == {Record(a, b, x) : a \in 1 .. 2, b \in 1 .. 2, x \in 1 .. 3}

MCAccepts == {r \in Records : r.args[1] # 3}

MCInputs == {t \in UNION {[1 .. n -> Records] : n \in 1 .. 3} :
                \E n \in DOMAIN t : t[n] \in MCAccepts}

=============================================================================
