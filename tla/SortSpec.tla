------------------------------ MODULE SortSpec ------------------------------
(***************************************************************************)
(* What Sorting.h promises of sort: the records of the table, each once,   *)
(* come out in the order of their keys.  Records with equal keys may come  *)
(* in any order.                                                           *)
(***************************************************************************)
EXTENDS Integers, Sequences

CONSTANT Records   \* the records a table may hold, each with its key

VARIABLES
    remaining,     \* the records still to come
    sorted         \* the records that came out

Init == remaining \in SUBSET Records /\ sorted = << >>

Emit == \E r \in remaining :
           /\ \A s \in remaining : r.key <= s.key
           /\ sorted' = Append(sorted, r)
           /\ remaining' = remaining \ {r}

(* What comes out, without saying that anything does.                      *)
Steps == Init /\ [][Emit]_<<remaining, sorted>>

Spec == Steps /\ WF_<<remaining, sorted>>(Emit)

=============================================================================
