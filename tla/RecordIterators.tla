--------------------------- MODULE RecordIterators ---------------------------
(***************************************************************************)
(* Pages of records and MyDB_PageListIteratorAlt, the iterator over a list *)
(* of pages, with the page iterator it holds.  A page is the sequence of   *)
(* its records; the iterator's place on its page, bytesConsumed, is the    *)
(* number of the record it stands at.                                      *)
(***************************************************************************)
EXTENDS Integers, FiniteSets, Sequences

CONSTANT Junk   \* what fromBinary makes of bytes that nobody wrote

Iterator(list) == [pages |-> list, page |-> 1, slot |-> 1]

PageOf(it) == it.pages[it.page]

(* getCurrent asks nobody whether there is a record.                       *)
AtRecord(it) == it.slot \in DOMAIN PageOf(it)

Current(it) == IF AtRecord(it) THEN PageOf(it)[it.slot] ELSE Junk

(* advance moves by the size getCurrent found, which is zero or not when   *)
(* there was no record, and compares with the bytes in use for equality.   *)
SizesRead(it) == IF AtRecord(it) THEN {1} ELSE {0, 1}

MoreOnPage(it, n) == it.slot + n # Len(PageOf(it)) + 1

(* The pages behind the current one that are not empty: advance calls      *)
(* itself until it is on one of them or at the end of the list.            *)
PagesBehind(it) == {p \in it.page + 1 .. Len(it.pages) : it.pages[p] # << >>}

Advances(it, n) == MoreOnPage(it, n) \/ PagesBehind(it) # {}

Advanced(it, n) ==
    IF MoreOnPage(it, n) THEN [it EXCEPT !.slot = @ + n]
    ELSE [it EXCEPT !.page = CHOOSE p \in PagesBehind(it) : \A q \in PagesBehind(it) : p <= q,
                    !.slot = 1]

(* The places of the records an iterator has not left behind, and whether  *)
(* the records there are in the order of their keys.                       *)
Ahead(it) == {x \in UNION {{p} \X (DOMAIN it.pages[p]) : p \in it.page .. Len(it.pages)} :
                 x[1] = it.page => x[2] >= it.slot}

At(it, x) == it.pages[x[1]][x[2]]

Before(x, y) == x[1] < y[1] \/ (x[1] = y[1] /\ x[2] < y[2])

InOrder(it) == \A x, y \in Ahead(it) : Before(x, y) => At(it, x).key <= At(it, y).key

=============================================================================
