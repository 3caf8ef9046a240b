--------------------------- MODULE BPlusTreeLoad ---------------------------
(***************************************************************************)
(* loadFromTextFile on a B+ tree.  It is the method of the base class, and *)
(* append is not virtual: the records go to pages 0, 1, ... of the file in *)
(* the order of the text, rootLocation stays as it was.                    *)
(***************************************************************************)
EXTENDS BPlusTree

LoadFromTextFile(lines) ==
    LET record(n) == [key |-> lines[n], id |-> n]
        upTo == (Len(lines) - 1) \div LeafCapacity
    IN  /\ pc = "idle" /\ stored = {}
        /\ pages' = [p \in 0 .. upTo |->
                        Leaf([n \in 1 .. IF p < upTo THEN LeafCapacity
                                         ELSE Len(lines) - upTo * LeafCapacity
                                |-> record(p * LeafCapacity + n)])]
        /\ stored' = {record(n) : n \in 1 .. Len(lines)}
        /\ UNCHANGED <<rootLocation, internalStack, pc, appendMe, target, newKey>>

LoadNext == \E n \in 1 .. MaxRecords : \E lines \in [1 .. n -> Keys] : LoadFromTextFile(lines)

LoadSpec == Init /\ [][LoadNext]_vars

(* BPlusQUnit.cc:43-92 loads a text file and expects each range query to   *)
(* count every record of its range.                                        *)
LoadedIsFound == RangeComplete

=============================================================================
