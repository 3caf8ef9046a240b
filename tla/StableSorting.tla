--------------------------- MODULE StableSorting ---------------------------
(***************************************************************************)
(* std::stable_sort by key: i comes before j when its key is smaller, or   *)
(* equal and i was before j already.                                       *)
(***************************************************************************)
EXTENDS Integers, FiniteSets

Earlier(keys, i, j) == keys[i] < keys[j] \/ (keys[i] = keys[j] /\ i < j)

Rank(keys, i) == Cardinality({j \in DOMAIN keys : j = i \/ Earlier(keys, j, i)})

(* The sequence s, in the order of the keys of its elements.               *)
Arranged(s, keys) == [n \in DOMAIN s |-> s[CHOOSE i \in DOMAIN s : Rank(keys, i) = n]]

=============================================================================
