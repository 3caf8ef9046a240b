------------------------------ MODULE JoinSpec ------------------------------
(***************************************************************************)
(* What a join promises (SortMergeJoin.h:16-34): every pair of records     *)
(* that the final predicate accepts comes out once, in any order.          *)
(***************************************************************************)
EXTENDS Sequences

CONSTANT Pairs     \* the pairs there may be

VARIABLES
    remaining,     \* the accepted pairs still to come
    output         \* the pairs that came out

Init == remaining \in SUBSET Pairs /\ output = << >>

Emit == \E p \in remaining :
           /\ output' = Append(output, p)
           /\ remaining' = remaining \ {p}

(* What may happen; that it does, as long as a pair is still to come.      *)
Steps == Init /\ [][Emit]_<<remaining, output>>

Spec == Steps /\ WF_<<remaining, output>>(Emit)

=============================================================================
