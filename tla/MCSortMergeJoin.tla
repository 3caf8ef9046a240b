-------------------------- MODULE MCSortMergeJoin --------------------------
(***************************************************************************)
(* Tables of up to four records with up to three keys, in runs of two.     *)
(***************************************************************************)
EXTENDS SortMergeJoin

Keys == {<<"double", 32 * n>> : n \in {1, 2, 4}}

MCLeftTables == UNION {[1 .. n -> Keys] : n \in 0 .. 3}

MCRightTables == MCLeftTables \cup {[n \in 1 .. 4 |-> IF n = odd THEN k ELSE j] : odd \in 0 .. 4, k \in Keys, j \in Keys}

MCRejections == {{}, {<<1, 1>>, <<2, 1>>}}

=============================================================================
