--------------------------- MODULE TableIterators ---------------------------
(***************************************************************************)
(* MyDB_TableRecIteratorAlt and MyDB_TableRecIterator with the page        *)
(* iterators they hold: what a loop over them reads.  pages maps each page *)
(* number to the records of the page; the place on a page, bytesConsumed,  *)
(* is the number of the next record.                                       *)
(***************************************************************************)
EXTENDS Integers, Sequences

(* advance compares for equality: it is called where the last record ends. *)
MoreOn(page, slot) == slot # Len(page) + 1

(* What the iterator of one page reads.                                    *)
OnPage(page) ==
    LET advance[slot \in 1 .. Len(page) + 1] ==
            IF MoreOn(page, slot) THEN <<page[slot]>> \o advance[slot + 1] ELSE << >>
    IN advance[1]

(* while (advance ()) getCurrent (): pages low to high, but not behind the *)
(* last; regular are the pages that are not directory pages.               *)
ScanAlt(pages, regular, low, high, last) ==
    LET advance[page \in low .. last] ==
            (IF page \in regular THEN OnPage(pages[page]) ELSE << >>)
            \o (IF page = last \/ page = high THEN << >> ELSE advance[page + 1])
    IN advance[low]

HighPage == 1999999999

(* while (hasNext ()) getNext (): all pages, whatever their type.          *)
Scan(pages, last) ==
    LET next[page \in 0 .. last + 1] ==
            IF page > last THEN << >> ELSE OnPage(pages[page]) \o next[page + 1]
    IN next[0]

=============================================================================
