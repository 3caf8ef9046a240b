--------------------------- MODULE MCRecordBuffer ---------------------------
(***************************************************************************)
(* Records of two strings around a number.                                 *)
(***************************************************************************)
EXTENDS RecordBuffer

MCTypes == <<"string", "number", "string">>

MCNumbers == {<<1>>, <<2>>}

(* Of two lengths, so that an attribute grows and shrinks.                 *)
MCStrings == {<< >>, <<7>>}

=============================================================================
