---------------------------- MODULE RecordBuffer ----------------------------
(***************************************************************************)
(* A record and the buffer its binary form is cached in (MyDB_Record,      *)
(* MyDB_AttVal).  An attribute has its value in itself or is a pointer     *)
(* into the buffer; writing the attributes back goes from left to right    *)
(* through the same buffer the pointers point into.  The buffer is a       *)
(* sequence of cells: a number takes one, a string one for each character  *)
(* and one for its end, and the length before each of them takes one.      *)
(***************************************************************************)
EXTENDS Integers, SequencesExt

CONSTANTS
    Types,          \* of the attributes in order: "number" or "string"
    Numbers,        \* the values of a number, each a sequence of one cell
    Strings,        \* the values of a string, sequences of characters
    InitialSize     \* allocatedSize of a new record

ASSUME RecordAssumption ==
    /\ Types \in Seq({"number", "string"}) /\ Types # << >>
    /\ Numbers \subseteq [{1} -> Nat \ {0}] /\ Strings \subseteq Seq(Nat \ {0})
    /\ InitialSize \in Nat \ {0}

VARIABLES
    value,          \* value of each MyDB_AttVal
    myData,         \* myData: a place in the buffer, NoPointer or Dangling
    buffer,         \* buffer; its length is allocatedSize
    recSize,        \* recSize
    bufferOld,      \* bufferOld
    content,        \* history: what the client set or read last
    unmarked,       \* history: set, and recordContentHasChanged not called
    moved           \* history: an attribute was written away from its place

vars == <<value, myData, buffer, recSize, bufferOld, content, unmarked, moved>>

Atts == DOMAIN Types

NoPointer == 0
Dangling == -1
End == 0       \* the character that ends a string
Junk == 0      \* a cell nobody wrote

Contents == {c \in [Atts -> Numbers \cup Strings] :
                \A a \in Atts : c[a] \in (IF Types[a] = "number" THEN Numbers ELSE Strings)}

Payload(a, v) == IF Types[a] = "number" THEN v ELSE v \o <<End>>

Cells(a, v) == <<Len(Payload(a, v)) + 1>> \o Payload(a, v)

(* The binary form of a record: its size, then its attributes.             *)
Binary(c) == LET body == FlattenSeq([a \in Atts |-> Cells(a, c[a])])
             IN  <<Len(body) + 1>> \o body

-----------------------------------------------------------------------------
(* A string goes to the first end behind its place.                        *)
ReadAt(b, a, place) ==
    IF Types[a] = "number" THEN <<b[place]>>
    ELSE LET ends == {n \in place .. Len(b) : b[n] = End}
             last == IF ends = {} THEN Len(b) ELSE Min(ends) - 1
         IN  SubSeq(b, place, last)

(* toInt, toString.  The bytes of a freed buffer are anything; a record    *)
(* that was written from them counts as moved and is not looked at.        *)
Value(a, b, data) ==
    CASE data[a] = NoPointer -> value[a]
      [] data[a] = Dangling  -> IF Types[a] = "number" THEN <<Junk>> ELSE << >>
      [] OTHER               -> ReadAt(b, a, data[a])

(* extendBuffer copies the buffer and frees the old one; nobody corrects   *)
(* the pointers into it.                                                   *)
Extended(s, n) ==
    IF s.size + n <= Len(s.buffer) THEN s
    ELSE [s EXCEPT !.buffer = @ \o [m \in 1 .. 2 * (s.size + n) - Len(@) |-> Junk],
                   !.data = [a \in Atts |-> IF @[a] = NoPointer THEN NoPointer ELSE Dangling]]

Written(b, from, cells) ==
    [n \in DOMAIN b |-> IF n \in from .. from + Len(cells) - 1 THEN cells[n - from + 1] ELSE b[n]]

(* serialize: a number writes its length before it reads itself, a string  *)
(* is copied first.  A pointer is kept as it is.                           *)
Serialized(s, a) ==
    IF Types[a] = "number"
    THEN LET t == Extended(s, 2)
             b == Written(t.buffer, t.size + 1, <<2>>)
         IN  [t EXCEPT !.buffer = Written(b, t.size + 2, Value(a, b, t.data)),
                       !.size = @ + 2,
                       !.moved = @ \/ t.data[a] \notin {NoPointer, t.size + 2}]
    ELSE LET cells == Cells(a, Value(a, s.buffer, s.data))
             t == Extended(s, Len(cells))
         IN  [t EXCEPT !.buffer = Written(@, t.size + 1, cells),
                       !.size = @ + Len(cells),
                       !.moved = @ \/ t.data[a] \notin {NoPointer, t.size + 2}]

Serial == FoldLeft(Serialized, [buffer |-> buffer, size |-> 1, data |-> myData, moved |-> moved],
                   [n \in Atts |-> n])

(* Bound: what happens to a record after an attribute was written away     *)
(* from its place is followed until it is to be written once more.         *)
Followed == ~ moved

(* getBinarySize and toBinary bring the buffer up to date; toBinary then   *)
(* copies its first recSize bytes.                                         *)
ToBinary ==
    /\ bufferOld
    /\ Followed
    /\ buffer' = Written(Serial.buffer, 1, <<Serial.size>>)
    /\ recSize' = Serial.size
    /\ myData' = Serial.data
    /\ moved' = (Serial.moved
                  \/ \E a \in Atts : myData'[a] = Dangling)
    /\ bufferOld' = FALSE
    /\ UNCHANGED <<value, content, unmarked>>

(* Mutant of PlaceOf: the length before a value is forgotten.              *)
PlaceOfLength(c, a) == 2 + Len(FlattenSeq([n \in 1 .. a - 1 |-> Cells(n, c[n])]))

(* Where fromBinary leaves the pointer of an attribute.                    *)
PlaceOf(c, a) == 3 + Len(FlattenSeq([n \in 1 .. a - 1 |-> Cells(n, c[n])]))

(* A record with the same schema is read from a page.                      *)
FromBinary(c) ==
    LET n == Len(Binary(c))
        room == IF n > Len(buffer) THEN [m \in 1 .. 2 * n |-> Junk] ELSE buffer
    IN  /\ buffer' = Written(room, 1, Binary(c))
        /\ recSize' = n
        /\ myData' = [a \in Atts |-> PlaceOf(c, a)]
        /\ bufferOld' = FALSE
        /\ content' = c /\ unmarked' = FALSE /\ moved' = FALSE
        /\ UNCHANGED value

(* Mutant of FromString: the buffer is taken to be up to date.             *)
FromStringUnmarked(c) ==
    /\ value' = c
    /\ myData' = [a \in Atts |-> NoPointer]
    /\ content' = c /\ unmarked' = FALSE /\ moved' = FALSE
    /\ UNCHANGED <<buffer, recSize, bufferOld>>

FromString(c) ==
    /\ value' = c
    /\ myData' = [a \in Atts |-> NoPointer]
    /\ bufferOld' = TRUE
    /\ content' = c /\ unmarked' = FALSE /\ moved' = FALSE
    /\ UNCHANGED <<buffer, recSize>>

SetAtt(a, v) ==
    /\ value' = [value EXCEPT ![a] = v]
    /\ myData' = [myData EXCEPT ![a] = NoPointer]
    /\ content' = [content EXCEPT ![a] = v]
    /\ unmarked' = TRUE
    /\ UNCHANGED <<buffer, recSize, bufferOld, moved>>

RecordContentHasChanged ==
    /\ bufferOld' = TRUE
    /\ unmarked' = FALSE
    /\ UNCHANGED <<value, myData, buffer, recSize, content, moved>>

-----------------------------------------------------------------------------
(* A new record's attributes have the values of their constructors; the    *)
(* model begins when the first ones were read from a string.               *)
Init ==
    /\ value \in Contents
    /\ myData = [a \in Atts |-> NoPointer]
    /\ buffer = [n \in 1 .. InitialSize |-> Junk]
    /\ recSize = 0
    /\ bufferOld = TRUE
    /\ content = value /\ unmarked = FALSE /\ moved = FALSE

Next == \/ ToBinary \/ RecordContentHasChanged
        \/ \E c \in Contents : FromBinary(c) \/ FromString(c)
        \/ \E c \in Contents, a \in Atts : SetAtt(a, c[a])

Spec == Init /\ [][Next]_vars

-----------------------------------------------------------------------------
(* An attribute reads as what was set or read last, wherever its value is, *)
(* until it is written away from its place: while it is a pointer no       *)
(* attribute before it may take more or less room than before.             *)
ReadsBack == ~ moved => \A a \in Atts : Value(a, buffer, myData) = content[a]

(* What the next append copies to a page is the record, through any mix of *)
(* reading, setting some of its attributes, and writing.                   *)
WritesContent ==
    ~ bufferOld /\ ~ unmarked /\ ~ moved => SubSeq(buffer, 1, recSize) = Binary(content)

(* MyDB_Record.h:48-53: a record whose attributes were changed after       *)
(* fromBinary is written as it is when recordContentHasChanged was called. *)
ChangedRecordIsWritten ==
    ~ bufferOld /\ ~ unmarked => SubSeq(buffer, 1, recSize) = Binary(content)

=============================================================================
