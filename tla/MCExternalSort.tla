--------------------------- MODULE MCExternalSort ---------------------------
(***************************************************************************)
(* Small tables for ExternalSort: up to MaxPages pages, each with one      *)
(* record up to PageCapacity; the id of a record is its place. A table     *)
(* without records is left out: its first record is read all the same.     *)
(***************************************************************************)
EXTENDS ExternalSort

CONSTANTS SortKeys, MaxPages

Shapes == UNION {[1 .. n -> UNION {[1 .. m -> SortKeys] : m \in 1 .. PageCapacity}] :
                    n \in 1 .. MaxPages}

TableOf(shape) == [p \in DOMAIN shape |->
                      [s \in DOMAIN shape[p] |-> [key |-> shape[p][s], id |-> <<p, s>>]]]

MCTables == {TableOf(shape) : shape \in Shapes}

MCJunk == [key |-> 0, id |-> <<0, 0>>]

=============================================================================
