------------------------- MODULE ExternalSortProofs -------------------------
(***************************************************************************)
(* Proofs about ExternalSort, for all tables, run sizes and page sizes.    *)
(***************************************************************************)
EXTENDS ExternalSort, SequenceLemmas

-----------------------------------------------------------------------------
(* Lists of pages: no record is twice on the pages of a list, no page of   *)
(* it is empty.                                                            *)
Lists == Seq(Seq(Records))

Apart(list) ==
    \A p, q \in DOMAIN list : \A i \in DOMAIN list[p], j \in DOMAIN list[q] :
       list[p][i] = list[q][j] => p = q /\ i = j

Full(list) == \A p \in DOMAIN list : list[p] # << >>

(* The keys of records are numbers.                                        *)
LEMMA KeysOfRecords == \A r \in Records : r.key \in Int
BY SortAssumption

(* The pages of a list and the records on them.                            *)
LEMMA InLists ==
    ASSUME NEW list \in Lists
    PROVE  /\ Len(list) \in Nat /\ DOMAIN list = 1 .. Len(list)
           /\ \A p \in DOMAIN list : /\ list[p] \in Seq(Records)
                                     /\ Len(list[p]) \in Nat /\ DOMAIN list[p] = 1 .. Len(list[p])
                                     /\ \A s \in DOMAIN list[p] : list[p][s] \in Records
                                     /\ list[p] # << >> => Len(list[p]) >= 1
<1>1. Len(list) \in Nat /\ DOMAIN list = 1 .. Len(list)
  BY LenProperties DEF Lists
<1>2. ASSUME NEW p \in DOMAIN list
      PROVE  /\ list[p] \in Seq(Records)
             /\ Len(list[p]) \in Nat /\ DOMAIN list[p] = 1 .. Len(list[p])
             /\ \A s \in DOMAIN list[p] : list[p][s] \in Records
             /\ list[p] # << >> => Len(list[p]) >= 1
  <2>1. list[p] \in Seq(Records)
    BY <1>1, <1>2, ElementOfSeq DEF Lists
  <2>2. Len(list[p]) \in Nat /\ DOMAIN list[p] = 1 .. Len(list[p])
    BY <2>1, LenProperties
  <2>3. \A s \in DOMAIN list[p] : list[p][s] \in Records
    BY <2>1, <2>2, ElementOfSeq
  <2>4. list[p] # << >> => Len(list[p]) >= 1
    BY <2>1, <2>2, EmptySeq
  <2> QED BY <2>1, <2>2, <2>3, <2>4
<1> QED
  BY <1>1, <1>2

(* The place <<p, s>> is ahead of an iterator.                             *)
IsAhead(it, p, s) ==
    /\ p \in it.page .. Len(it.pages) /\ s \in DOMAIN it.pages[p]
    /\ p = it.page => s >= it.slot

(* The places ahead, one by one.                                           *)
LEMMA AheadIs ==
    ASSUME NEW it, NEW x
    PROVE  x \in Ahead(it) <=> \E p, s : IsAhead(it, p, s) /\ x = <<p, s>>
<1>1. ASSUME x \in Ahead(it)
      PROVE  \E p, s : IsAhead(it, p, s) /\ x = <<p, s>>
  <2>1. PICK p \in it.page .. Len(it.pages) : x \in {p} \X DOMAIN it.pages[p]
    BY <1>1 DEF Ahead
  <2>2. PICK s \in DOMAIN it.pages[p] : x = <<p, s>>
    BY <2>1
  <2>3. x[1] = p /\ x[2] = s
    BY <2>2
  <2>4. p = it.page => s >= it.slot
    BY <1>1, <2>3 DEF Ahead
  <2> QED BY <2>2, <2>4 DEF IsAhead
<1>2. ASSUME NEW p, NEW s, IsAhead(it, p, s), x = <<p, s>>
      PROVE  x \in Ahead(it)
  <2>1. x[1] = p /\ x[2] = s
    BY <1>2
  <2>2. x \in {p} \X DOMAIN it.pages[p]
    BY <1>2 DEF IsAhead
  <2> QED BY <1>2, <2>1, <2>2 DEF Ahead, IsAhead
<1> QED
  BY <1>1, <1>2

(* The records an iterator has not left behind.                            *)
Held(it) == {At(it, x) : x \in Ahead(it)}

(* The records held, one by one.                                           *)
LEMMA HeldIs ==
    ASSUME NEW it, NEW r
    PROVE  r \in Held(it) <=> \E p, s : IsAhead(it, p, s) /\ r = it.pages[p][s]
<1>1. ASSUME r \in Held(it)
      PROVE  \E p, s : IsAhead(it, p, s) /\ r = it.pages[p][s]
  <2>1. PICK x \in Ahead(it) : r = At(it, x)
    BY <1>1 DEF Held
  <2>2. PICK p, s : IsAhead(it, p, s) /\ x = <<p, s>>
    BY <2>1, AheadIs
  <2>3. x[1] = p /\ x[2] = s
    BY <2>2
  <2> QED BY <2>1, <2>2, <2>3 DEF At
<1>2. ASSUME NEW p, NEW s, IsAhead(it, p, s), r = it.pages[p][s]
      PROVE  r \in Held(it)
  <2>1. PICK x : x = <<p, s>>
    OBVIOUS
  <2>2. x[1] = p /\ x[2] = s /\ x \in Ahead(it)
    BY <1>2, <2>1, AheadIs
  <2> QED BY <1>2, <2>2 DEF Held, At
<1> QED
  BY <1>1, <1>2

(* The records ahead are in order.                                         *)
Ordered(it) ==
    \A p, s, q, t : /\ IsAhead(it, p, s) /\ IsAhead(it, q, t)
                    /\ p < q \/ (p = q /\ s < t)
                    => it.pages[p][s].key <= it.pages[q][t].key

(* InOrder, said of page and slot.                                         *)
LEMMA OrderedIs ==
    ASSUME NEW it
    PROVE  InOrder(it) <=> Ordered(it)
<1>1. ASSUME InOrder(it)
      PROVE  Ordered(it)
  <2> SUFFICES ASSUME NEW p, NEW s, NEW q, NEW t, IsAhead(it, p, s), IsAhead(it, q, t),
                      p < q \/ (p = q /\ s < t)
               PROVE  it.pages[p][s].key <= it.pages[q][t].key
    BY DEF Ordered
  <2>1. PICK x, y : x = <<p, s>> /\ y = <<q, t>>
    OBVIOUS
  <2>2. x[1] = p /\ x[2] = s /\ y[1] = q /\ y[2] = t /\ x \in Ahead(it) /\ y \in Ahead(it)
    BY <2>1, AheadIs
  <2> QED BY <1>1, <2>2 DEF InOrder, Before, At
<1>2. ASSUME Ordered(it)
      PROVE  InOrder(it)
  <2> SUFFICES ASSUME NEW x \in Ahead(it), NEW y \in Ahead(it), Before(x, y)
               PROVE  At(it, x).key <= At(it, y).key
    BY DEF InOrder
  <2>1. PICK p, s : IsAhead(it, p, s) /\ x = <<p, s>>
    BY AheadIs
  <2>2. PICK q, t : IsAhead(it, q, t) /\ y = <<q, t>>
    BY AheadIs
  <2>3. x[1] = p /\ x[2] = s /\ y[1] = q /\ y[2] = t
    BY <2>1, <2>2
  <2> QED BY <1>2, <2>1, <2>2, <2>3 DEF Ordered, Before, At
<1> QED
  BY <1>1, <1>2

-----------------------------------------------------------------------------
(* An iterator that stands at a record of a sorted list.                   *)
Stands(it) ==
    /\ it \in [pages : Lists, page : Nat, slot : Nat]
    /\ it.page \in 1 .. Len(it.pages) /\ it.slot \in 1 .. Len(it.pages[it.page])
    /\ Full(it.pages) /\ Apart(it.pages) /\ Ordered(it)

(* It reads the least of the records it has not left behind.               *)
LEMMA StandsAtLeast ==
    ASSUME NEW it, Stands(it)
    PROVE  /\ SizesRead(it) = {1} /\ it # Ended
           /\ Current(it) = it.pages[it.page][it.slot]
           /\ IsAhead(it, it.page, it.slot)
           /\ Current(it) \in Records /\ Current(it) \in Held(it)
           /\ Held(it) \subseteq Records
           /\ \A r \in Held(it) : r.key \in Int /\ Current(it).key <= r.key
<1>1. it.pages \in Lists /\ it.page \in Nat /\ it.slot \in Nat
  BY DEF Stands
<1>2. /\ Len(it.pages) \in Nat /\ DOMAIN it.pages = 1 .. Len(it.pages)
      /\ \A p \in DOMAIN it.pages :
            /\ Len(it.pages[p]) \in Nat /\ DOMAIN it.pages[p] = 1 .. Len(it.pages[p])
            /\ \A s \in DOMAIN it.pages[p] : it.pages[p][s] \in Records
  BY <1>1, InLists
<1>3. it.page \in DOMAIN it.pages /\ it.slot \in DOMAIN it.pages[it.page]
  BY <1>2 DEF Stands
<1>4. SizesRead(it) = {1} /\ Current(it) = it.pages[it.page][it.slot]
  BY <1>3 DEF SizesRead, Current, AtRecord, PageOf
<1>5. IsAhead(it, it.page, it.slot)
  BY <1>1, <1>2, <1>3 DEF IsAhead
<1>6. Current(it) \in Records /\ Current(it) \in Held(it)
  BY <1>2, <1>3, <1>4, <1>5, HeldIs
<1>7. ASSUME NEW r \in Held(it)
      PROVE  r \in Records /\ Current(it).key <= r.key
  <2>1. PICK p, s : IsAhead(it, p, s) /\ r = it.pages[p][s]
    BY HeldIs
  <2>2. p \in DOMAIN it.pages /\ s \in DOMAIN it.pages[p] /\ p \in Nat /\ s \in Nat
    BY <1>1, <1>2, <1>3, <2>1 DEF IsAhead
  <2>3. r \in Records
    BY <1>2, <2>1, <2>2
  <2>4. CASE p = it.page /\ s = it.slot
    BY <1>4, <1>6, <2>1, <2>4, KeysOfRecords
  <2>5. CASE ~ (p = it.page /\ s = it.slot)
    <3>1. it.page < p \/ (it.page = p /\ it.slot < s)
      BY <1>1, <2>1, <2>2, <2>5 DEF IsAhead
    <3>2. it.pages[it.page][it.slot].key <= it.pages[p][s].key
      BY <1>5, <2>1, <3>1, Zenon DEF Stands, Ordered
    <3> QED BY <1>4, <2>1, <2>3, <3>2, Zenon
  <2> QED BY <2>3, <2>4, <2>5
<1>8. it # Ended
  BY <1>3, <1>1 DEF Ended
<1> QED
  BY <1>4, <1>5, <1>6, <1>7, <1>8, KeysOfRecords

(* At the end there is nothing ahead.                                      *)
LEMMA EndedHoldsNothing == Held(Ended) = {} /\ Ordered(Ended)
<1>1. \A p, s : ~ IsAhead(Ended, p, s)
  BY DEF IsAhead, Ended
<1> QED
  BY <1>1, HeldIs DEF Ordered

(* What an iterator moves on to: the one record it leaves behind is the    *)
(* one it read, and where there was no other it is at its end.             *)
LEMMA MovesOn ==
    ASSUME NEW it, Stands(it)
    PROVE  /\ Advances(it, 1) => /\ Stands(Advanced(it, 1))
                                 /\ Held(Advanced(it, 1)) = Held(it) \ {Current(it)}
           /\ ~ Advances(it, 1) => Held(it) = {Current(it)}
<1>1. it.pages \in Lists /\ it.page \in Nat /\ it.slot \in Nat
      /\ it = [pages |-> it.pages, page |-> it.page, slot |-> it.slot]
  BY DEF Stands
<1>2. /\ Len(it.pages) \in Nat /\ DOMAIN it.pages = 1 .. Len(it.pages)
      /\ \A p \in DOMAIN it.pages :
            /\ Len(it.pages[p]) \in Nat /\ DOMAIN it.pages[p] = 1 .. Len(it.pages[p])
            /\ Len(it.pages[p]) >= 1
  BY <1>1, InLists DEF Stands, Full
<1>3. it.page \in DOMAIN it.pages /\ it.slot \in DOMAIN it.pages[it.page]
  BY <1>2 DEF Stands
<1>4. Current(it) = it.pages[it.page][it.slot] /\ Current(it) \in Held(it)
  BY StandsAtLeast
<1>5. ASSUME NEW p, NEW s, IsAhead(it, p, s), it.pages[p][s] = Current(it)
      PROVE  p = it.page /\ s = it.slot
  <2>1. p \in DOMAIN it.pages /\ s \in DOMAIN it.pages[p]
    BY <1>1, <1>2, <1>3, <1>5 DEF IsAhead
  <2> QED BY <1>3, <1>4, <1>5, <2>1 DEF Stands, Apart
<1>6. ASSUME NEW u, NEW page \in Nat, NEW slot \in Nat,
             u = [pages |-> it.pages, page |-> page, slot |-> slot],
             page \in 1 .. Len(it.pages), slot \in 1 .. Len(it.pages[page]),
             \A p, s : IsAhead(u, p, s) <=> IsAhead(it, p, s) /\ ~ (p = it.page /\ s = it.slot)
      PROVE  Stands(u) /\ Held(u) = Held(it) \ {Current(it)}
  <2>1. u.pages = it.pages /\ u.page = page /\ u.slot = slot
    BY <1>6
  <2>2. Ordered(u)
    BY <1>6, <2>1 DEF Ordered, Stands
  <2>3. Stands(u)
    BY <1>1, <1>6, <2>1, <2>2 DEF Stands
  <2>4. ASSUME NEW r
        PROVE  r \in Held(u) <=> r \in Held(it) \ {Current(it)}
    <3>1. r \in Held(u) <=> \E p, s : IsAhead(u, p, s) /\ r = it.pages[p][s]
      BY <2>1, HeldIs
    <3>2. r \in Held(it) <=> \E p, s : IsAhead(it, p, s) /\ r = it.pages[p][s]
      BY HeldIs
    <3> QED BY <1>4, <1>5, <1>6, <3>1, <3>2
  <2> QED BY <2>3, <2>4
<1>7. CASE MoreOnPage(it, 1)
  <2>1. it.slot + 1 \in 1 .. Len(it.pages[it.page])
    BY <1>1, <1>2, <1>3, <1>7 DEF MoreOnPage, PageOf
  <2> DEFINE u == [pages |-> it.pages, page |-> it.page, slot |-> it.slot + 1]
  <2>2. Advances(it, 1) /\ Advanced(it, 1) = u
    BY <1>1, <1>7 DEF Advances, Advanced
  <2>3. \A p, s : IsAhead(u, p, s) <=> IsAhead(it, p, s) /\ ~ (p = it.page /\ s = it.slot)
    BY <1>1, <1>2, <1>3 DEF IsAhead
  <2>4. Stands(u) /\ Held(u) = Held(it) \ {Current(it)}
    <3> HIDE DEF u
    <3>1. u = [pages |-> it.pages, page |-> it.page, slot |-> it.slot + 1]
      BY DEF u
    <3> QED BY <1>1, <1>6, <2>1, <2>3, <3>1, <1>3, <1>2
  <2> QED BY <2>2, <2>4
<1>8. CASE ~ MoreOnPage(it, 1)
  <2>1. it.slot = Len(it.pages[it.page])
    BY <1>1, <1>2, <1>3, <1>8 DEF MoreOnPage, PageOf
  <2>2. PagesBehind(it) = it.page + 1 .. Len(it.pages)
    BY <1>1, <1>2 DEF PagesBehind, Stands, Full
  <2>3. CASE PagesBehind(it) # {}
    <3>1. it.page + 1 \in 1 .. Len(it.pages) /\ it.page + 1 \in PagesBehind(it)
      BY <1>1, <1>2, <1>3, <2>2, <2>3
    <3>2. (CHOOSE p \in PagesBehind(it) : \A q \in PagesBehind(it) : p <= q) = it.page + 1
      BY <1>1, <1>2, <2>2, <3>1
    <3> DEFINE u == [pages |-> it.pages, page |-> it.page + 1, slot |-> 1]
    <3>3. Advances(it, 1) /\ Advanced(it, 1) = u
      BY <1>1, <1>8, <2>3, <3>2 DEF Advances, Advanced
    <3>4. \A p, s : IsAhead(u, p, s) <=> IsAhead(it, p, s) /\ ~ (p = it.page /\ s = it.slot)
      <4> SUFFICES ASSUME NEW p, NEW s
                   PROVE  IsAhead(u, p, s) <=> IsAhead(it, p, s) /\ ~ (p = it.page /\ s = it.slot)
        OBVIOUS
      <4>1. CASE p \in 1 .. Len(it.pages)
        BY <1>1, <1>2, <1>3, <2>1, <4>1 DEF IsAhead
      <4>2. CASE p \notin 1 .. Len(it.pages)
        BY <1>1, <1>2, <1>3, <4>2 DEF IsAhead
      <4> QED BY <4>1, <4>2
    <3>5. Stands(u) /\ Held(u) = Held(it) \ {Current(it)}
      <4> HIDE DEF u
      <4>1. u = [pages |-> it.pages, page |-> it.page + 1, slot |-> 1]
        BY DEF u
      <4>2. 1 \in 1 .. Len(it.pages[it.page + 1]) /\ it.page + 1 \in Nat /\ 1 \in Nat
        BY <1>1, <1>2, <3>1
      <4> QED BY <1>6, <3>1, <3>4, <4>1, <4>2
    <3> QED BY <3>3, <3>5
  <2>4. CASE PagesBehind(it) = {}
    <3>1. ~ Advances(it, 1) /\ it.page = Len(it.pages)
      <4>1. it.page = Len(it.pages)
        <5>1. it.page + 1 \notin it.page + 1 .. Len(it.pages)
          BY <2>2, <2>4
        <5> QED BY <1>1, <1>2, <1>3, <5>1
      <4> QED BY <1>8, <2>4, <4>1 DEF Advances
    <3>2. \A p, s : IsAhead(it, p, s) => p = it.page /\ s = it.slot
      BY <1>1, <1>2, <1>3, <2>1, <3>1 DEF IsAhead
    <3>3. Held(it) \subseteq {Current(it)}
      BY <1>4, <3>2, HeldIs
    <3> QED BY <1>4, <3>1, <3>3
  <2> QED BY <2>3, <2>4
<1> QED
  BY <1>7, <1>8

-----------------------------------------------------------------------------
(* The places of a list.                                                   *)
Cell(list, p, s) == p \in DOMAIN list /\ s \in DOMAIN list[p]

(* The contents of a list, one by one.                                     *)
LEMMA ContentsAre ==
    ASSUME NEW list, NEW r
    PROVE  r \in Contents(list) <=> \E p, s : Cell(list, p, s) /\ r = list[p][s]
BY DEF Contents, Cell

(* A list holds records.                                                   *)
LEMMA ContentsAreRecords ==
    ASSUME NEW list \in Lists
    PROVE  Contents(list) \subseteq Records
BY InLists, ContentsAre DEF Cell

(* An iterator at the start of a list has all of it ahead.                 *)
LEMMA FromTheStart ==
    ASSUME NEW list \in Lists
    PROVE  /\ \A p, s : IsAhead(Iterator(list), p, s) <=> Cell(list, p, s)
           /\ Held(Iterator(list)) = Contents(list)
           /\ list # << >> /\ Full(list) /\ Apart(list) /\ Ordered(Iterator(list))
                 => Stands(Iterator(list))
<1>1. /\ Len(list) \in Nat /\ DOMAIN list = 1 .. Len(list)
      /\ \A p \in DOMAIN list : /\ Len(list[p]) \in Nat /\ DOMAIN list[p] = 1 .. Len(list[p])
                                /\ list[p] # << >> => Len(list[p]) >= 1
  BY InLists
<1>2. /\ Iterator(list) \in [pages : Lists, page : Nat, slot : Nat]
      /\ Iterator(list).pages = list /\ Iterator(list).page = 1 /\ Iterator(list).slot = 1
  BY DEF Iterator
<1>3. \A p, s : IsAhead(Iterator(list), p, s) <=> Cell(list, p, s)
  BY <1>1, <1>2 DEF IsAhead, Cell
<1>4. Held(Iterator(list)) = Contents(list)
  <2> SUFFICES ASSUME NEW r
               PROVE  r \in Held(Iterator(list)) <=> r \in Contents(list)
    OBVIOUS
  <2>1. r \in Held(Iterator(list)) <=> \E p, s : IsAhead(Iterator(list), p, s) /\ r = list[p][s]
    BY <1>2, HeldIs
  <2> QED BY <1>3, <2>1, ContentsAre
<1>5. ASSUME list # << >>, Full(list), Apart(list), Ordered(Iterator(list))
      PROVE  Stands(Iterator(list))
  <2>1. Len(list) >= 1
    BY <1>1, <1>5, EmptySeq DEF Lists
  <2>2. 1 \in DOMAIN list /\ Len(list[1]) >= 1
    BY <1>1, <1>5, <2>1 DEF Full
  <2> QED BY <1>1, <1>2, <1>5, <2>1, <2>2 DEF Stands
<1> QED
  BY <1>3, <1>4, <1>5

(* The record r is put behind all others, at the place <<P, S>>.           *)
Behind(list, r, new, P, S) ==
    /\ \A p, s : Cell(new, p, s) <=> Cell(list, p, s) \/ (p = P /\ s = S)
    /\ \A p, s : Cell(list, p, s) => new[p][s] = list[p][s] /\ (p < P \/ (p = P /\ s < S))
    /\ new[P][S] = r /\ P \in Nat /\ S \in Nat

(* Putting a record behind all others adds it and nothing else, keeps the  *)
(* records apart, and keeps the order when no key is larger than its own.  *)
LEMMA PutBehind ==
    ASSUME NEW list \in Lists, NEW new \in Lists, NEW r \in Records, NEW P, NEW S,
           Behind(list, r, new, P, S)
    PROVE  /\ Contents(new) = Contents(list) \cup {r}
           /\ Apart(list) /\ r \notin Contents(list) => Apart(new)
           /\ Ordered(Iterator(list)) /\ (\A m \in Contents(list) : m.key <= r.key)
                 => Ordered(Iterator(new))
<1>1. Contents(new) = Contents(list) \cup {r}
  <2> SUFFICES ASSUME NEW m
               PROVE  m \in Contents(new) <=> m \in Contents(list) \/ m = r
    OBVIOUS
  <2>1. m \in Contents(new) <=> \E p, s : Cell(new, p, s) /\ m = new[p][s]
    BY ContentsAre
  <2>2. m \in Contents(list) <=> \E p, s : Cell(list, p, s) /\ m = list[p][s]
    BY ContentsAre
  <2> QED BY <2>1, <2>2 DEF Behind
<1>2. ASSUME Apart(list), r \notin Contents(list)
      PROVE  Apart(new)
  <2> SUFFICES ASSUME NEW p, NEW i, NEW q, NEW j, Cell(new, p, i), Cell(new, q, j),
                      new[p][i] = new[q][j]
               PROVE  p = q /\ i = j
    BY DEF Apart, Cell
  <2>1. \A a, b : Cell(list, a, b) => list[a][b] # r
    BY <1>2, ContentsAre
  <2>2. CASE Cell(list, p, i) /\ Cell(list, q, j)
    <3>1. list[p][i] = list[q][j]
      BY <2>2 DEF Behind
    <3> QED BY <1>2, <2>2, <3>1 DEF Apart, Cell
  <2>3. CASE Cell(list, p, i) /\ ~ Cell(list, q, j)
    BY <2>1, <2>3 DEF Behind
  <2>4. CASE ~ Cell(list, p, i) /\ Cell(list, q, j)
    BY <2>1, <2>4 DEF Behind
  <2>5. CASE ~ Cell(list, p, i) /\ ~ Cell(list, q, j)
    BY <2>5 DEF Behind
  <2> QED BY <2>2, <2>3, <2>4, <2>5
<1>3. ASSUME Ordered(Iterator(list)), \A m \in Contents(list) : m.key <= r.key
      PROVE  Ordered(Iterator(new))
  <2>1. Iterator(new).pages = new /\ Iterator(list).pages = list
    BY DEF Iterator
  <2> SUFFICES ASSUME NEW p, NEW i, NEW q, NEW j, Cell(new, p, i), Cell(new, q, j),
                      p < q \/ (p = q /\ i < j)
               PROVE  new[p][i].key <= new[q][j].key
    BY <2>1, FromTheStart DEF Ordered
  <2>2. CASE Cell(list, p, i) /\ Cell(list, q, j)
    <3>1. IsAhead(Iterator(list), p, i) /\ IsAhead(Iterator(list), q, j)
      BY <2>2, FromTheStart
    <3>2. list[p][i].key <= list[q][j].key
      BY <1>3, <2>1, <3>1 DEF Ordered
    <3> QED BY <2>2, <3>2 DEF Behind
  <2>3. CASE Cell(list, p, i) /\ ~ Cell(list, q, j)
    <3>1. new[q][j] = r /\ new[p][i] = list[p][i]
      BY <2>3 DEF Behind
    <3>2. list[p][i] \in Contents(list)
      BY <2>3, ContentsAre
    <3> QED BY <1>3, <3>1, <3>2
  <2>4. CASE ~ Cell(list, p, i)
    <3>1. p = P /\ i = S
      BY <2>4 DEF Behind
    <3>2. CASE Cell(list, q, j)
      <4>1. q < P \/ (q = P /\ j < S)
        BY <3>2 DEF Behind
      <4>2. q \in Int /\ j \in Int /\ P \in Int /\ S \in Int
        BY <3>2, InLists DEF Behind, Cell
      <4> QED BY <3>1, <4>1, <4>2
    <3>3. CASE ~ Cell(list, q, j)
      <4>1. q = P /\ j = S /\ P \in Int /\ S \in Int
        BY <3>3 DEF Behind
      <4> QED BY <3>1, <4>1
    <3> QED BY <3>2, <3>3
  <2> QED BY <2>2, <2>3, <2>4
<1> QED
  BY <1>1, <1>2, <1>3

(* append to a merged list: nothing but the record is added, behind all    *)
(* others; pages stay within their capacity.                               *)
LEMMA AppendedBehind ==
    ASSUME NEW list \in Lists, NEW r \in Records, list # << >>,
           Full(list) \/ list = << << >> >>,
           \A p \in DOMAIN list : Len(list[p]) <= PageCapacity
    PROVE  /\ WithAppended(list, r) \in Lists /\ WithAppended(list, r) # << >>
           /\ Full(WithAppended(list, r))
           /\ \A p \in DOMAIN WithAppended(list, r) : Len(WithAppended(list, r)[p]) <= PageCapacity
           /\ \E P, S : Behind(list, r, WithAppended(list, r), P, S)
<1> DEFINE n == Len(list)
           k == Len(list[n])
<1>1. /\ n \in Nat /\ DOMAIN list = 1 .. n
      /\ \A p \in DOMAIN list : /\ list[p] \in Seq(Records)
                                /\ Len(list[p]) \in Nat /\ DOMAIN list[p] = 1 .. Len(list[p])
  BY InLists
<1>2. n >= 1 /\ n \in DOMAIN list /\ k \in Nat /\ DOMAIN list[n] = 1 .. k /\ k = Len(list[n])
      /\ list[n] \in Seq(Records)
  <2>1. n >= 1
    BY <1>1, EmptySeq DEF Lists
  <2> QED BY <1>1, <2>1
<1>3. PageCapacity \in Nat \ {0}
  BY SortAssumption
<1>4. \A p \in DOMAIN list : p # n => list[p] # << >>
  <2>1. CASE Full(list)
    BY <2>1 DEF Full
  <2>2. CASE list = << << >> >>
    <3>1. n = 1
      BY <2>2
    <3> QED BY <1>1, <3>1
  <2> QED BY <2>1, <2>2
<1> DEFINE new == WithAppended(list, r)
<1>7. new = IF k < PageCapacity THEN [list EXCEPT ![n] = Append(list[n], r)] ELSE Append(list, <<r>>)
  BY DEF WithAppended
<1> HIDE DEF n, k, new
<1>5. CASE k < PageCapacity
  <2> DEFINE page == Append(list[n], r)
  <2>1. new = [list EXCEPT ![n] = page]
    BY <1>5, <1>7
  <2>2. /\ page \in Seq(Records) /\ Len(page) = k + 1 /\ DOMAIN page = 1 .. k + 1
        /\ \A s \in 1 .. k : page[s] = list[n][s]
        /\ page[k + 1] = r /\ page # << >>
    <3>1. /\ page \in Seq(Records) /\ Len(page) = k + 1
          /\ \A s \in 1 .. k : page[s] = list[n][s]
          /\ page[k + 1] = r
      BY <1>1, <1>2, AppendProperties
    <3>2. DOMAIN page = 1 .. Len(page)
      BY <3>1, LenProperties
    <3>3. page # << >>
      BY <1>1, <1>2, <3>1, EmptySeq
    <3> QED BY <3>1, <3>2, <3>3
  <2> HIDE DEF page
  <2>3. /\ new \in Lists /\ DOMAIN new = 1 .. n /\ Len(new) = n
        /\ new[n] = page /\ \A p \in 1 .. n : p # n => new[p] = list[p]
    <3>1. /\ DOMAIN new = 1 .. n /\ new[n] = page
          /\ \A p \in 1 .. n : new[p] \in Seq(Records) /\ (p # n => new[p] = list[p])
      BY <1>1, <1>2, <2>1, <2>2
    <3>2. new \in Lists /\ Len(new) = n
      BY <1>1, <1>2, <2>1, <2>2, ExceptSeq DEF Lists, n
    <3> QED BY <3>1, <3>2
  <2>4. new # << >> /\ Full(new)
    BY <1>1, <1>2, <1>4, <2>2, <2>3, EmptySeq DEF Full, Lists
  <2>5. \A p \in DOMAIN new : Len(new[p]) <= PageCapacity
    <3>1. k + 1 <= PageCapacity
      BY <1>1, <1>2, <1>3, <1>5
    <3> QED BY <1>1, <2>2, <2>3, <3>1
  <2>6. Behind(list, r, new, n, k + 1)
    <3>1. ASSUME NEW p, NEW s
          PROVE  Cell(new, p, s) <=> Cell(list, p, s) \/ (p = n /\ s = k + 1)
      <4>1. CASE p = n
        BY <1>1, <1>2, <2>2, <2>3, <4>1 DEF Cell
      <4>2. CASE p # n
        BY <1>1, <2>3, <4>2 DEF Cell
      <4> QED BY <4>1, <4>2
    <3>2. ASSUME NEW p, NEW s, Cell(list, p, s)
          PROVE  new[p][s] = list[p][s] /\ (p < n \/ (p = n /\ s < k + 1))
      <4>1. CASE p = n
        BY <1>1, <1>2, <2>2, <2>3, <3>2, <4>1 DEF Cell
      <4>2. CASE p # n
        BY <1>1, <2>3, <3>2, <4>2 DEF Cell
      <4> QED BY <4>1, <4>2
    <3>3. new[n][k + 1] = r /\ n \in Nat /\ k + 1 \in Nat
      BY <1>1, <1>2, <2>2, <2>3
    <3> QED BY <3>1, <3>2, <3>3 DEF Behind
  <2> QED BY <2>3, <2>4, <2>5, <2>6 DEF new
<1>6. CASE ~ (k < PageCapacity)
  <2>1. new = Append(list, <<r>>)
    BY <1>6, <1>7
  <2>2. /\ <<r>> \in Seq(Records) /\ Len(<<r>>) = 1 /\ DOMAIN <<r>> = 1 .. 1 /\ <<r>>[1] = r
        /\ <<r>> # << >>
    OBVIOUS
  <2> DEFINE page == <<r>>
  <2> HIDE DEF page
  <2>3. /\ new \in Lists /\ DOMAIN new = 1 .. n + 1 /\ Len(new) = n + 1
        /\ new[n + 1] = page /\ \A p \in 1 .. n : new[p] = list[p]
    <3>1. page \in Seq(Records) /\ new = Append(list, page)
      BY <2>1, <2>2 DEF page
    <3>2. /\ new \in Lists /\ Len(new) = n + 1
          /\ new[n + 1] = page /\ \A p \in 1 .. n : new[p] = list[p]
      BY <3>1, AppendProperties DEF Lists, n
    <3>3. DOMAIN new = 1 .. Len(new)
      BY <3>2, InLists
    <3> QED BY <3>2, <3>3
  <2>4. /\ page \in Seq(Records) /\ Len(page) = 1 /\ DOMAIN page = 1 .. 1 /\ page[1] = r
        /\ page # << >>
    BY <2>2 DEF page
  <2>5. k # 0 /\ list[n] # << >>
    BY <1>1, <1>2, <1>3, <1>6, EmptySeq
  <2>6. new # << >> /\ Full(new)
    BY <1>1, <1>2, <1>4, <2>3, <2>4, <2>5, EmptySeq DEF Full, Lists
  <2>7. \A p \in DOMAIN new : Len(new[p]) <= PageCapacity
    <3>1. \A p \in 1 .. n + 1 : p \in 1 .. n \/ p = n + 1
      BY <1>1
    <3>2. Len(page) <= PageCapacity
      BY <1>3, <2>4
    <3> QED BY <1>1, <2>3, <3>1, <3>2
  <2>8. Behind(list, r, new, n + 1, 1)
    <3>1. ASSUME NEW p, NEW s
          PROVE  Cell(new, p, s) <=> Cell(list, p, s) \/ (p = n + 1 /\ s = 1)
      <4>1. CASE p = n + 1
        BY <1>1, <2>3, <2>4, <4>1 DEF Cell
      <4>2. CASE p # n + 1
        BY <1>1, <2>3, <4>2 DEF Cell
      <4> QED BY <4>1, <4>2
    <3>2. ASSUME NEW p, NEW s, Cell(list, p, s)
          PROVE  new[p][s] = list[p][s] /\ p < n + 1
      BY <1>1, <2>3, <3>2 DEF Cell
    <3>3. new[n + 1][1] = r /\ n + 1 \in Nat /\ 1 \in Nat
      BY <1>1, <2>3, <2>4
    <3> QED BY <3>1, <3>2, <3>3 DEF Behind
  <2> QED BY <2>3, <2>6, <2>7, <2>8 DEF new
<1> QED
  BY <1>5, <1>6 DEF new

(* sortInPlace on a page: its records, each where the order of the keys    *)
(* puts it.                                                                *)
LEMMA PageSorted ==
    ASSUME NEW s \in Seq(Records)
    PROVE  /\ SortedPage(s) \in Seq(Records) /\ Len(SortedPage(s)) = Len(s)
           /\ DOMAIN SortedPage(s) = 1 .. Len(s)
           /\ \A i \in 1 .. Len(s) : \E m \in 1 .. Len(s) : SortedPage(s)[m] = s[i]
           /\ \E p \in [1 .. Len(s) -> 1 .. Len(s)] :
                 /\ \A a, b \in 1 .. Len(s) : p[a] = p[b] => a = b
                 /\ \A a \in 1 .. Len(s) : SortedPage(s)[a] = s[p[a]]
           /\ \A a, b \in 1 .. Len(s) : a < b => SortedPage(s)[a].key <= SortedPage(s)[b].key
<1> DEFINE n == Len(s)
           keys == [i \in DOMAIN s |-> s[i].key]
           t == SortedPage(s)
<1>1. n \in Nat /\ DOMAIN s = 1 .. n /\ \A i \in 1 .. n : s[i] \in Records /\ s[i].key \in Int
  <2>1. n \in Nat /\ DOMAIN s = 1 .. n
    BY LenProperties
  <2>2. \A i \in 1 .. n : s[i] \in Records
    BY <2>1, ElementOfSeq
  <2> QED BY <2>1, <2>2, KeysOfRecords
<1>2. keys \in [1 .. n -> Int] /\ \A i \in 1 .. n : keys[i] = s[i].key
  BY <1>1
<1>3. t = Arranged(s, keys)
  BY DEF SortedPage
<1> HIDE DEF keys, n, t
<1>4. PICK p : Arranges(p, n, keys) /\ t = [m \in 1 .. n |-> s[p[m]]]
  <2>1. n \in Nat /\ DOMAIN s = 1 .. n
    BY <1>1
  <2>2. keys \in [1 .. n -> Int]
    BY <1>2
  <2> QED BY <1>3, <2>1, <2>2, ArrangedIsPermuted
<1>5. p \in [1 .. n -> 1 .. n] /\ \A a, b \in 1 .. n : p[a] = p[b] => a = b
  BY <1>4 DEF Arranges
<1>6. DOMAIN t = 1 .. n /\ \A a \in 1 .. n : t[a] = s[p[a]] /\ t[a] \in Records
  BY <1>1, <1>3, <1>4, <1>5
<1>7. t \in Seq(Records) /\ Len(t) = n
  <2>1. t = [m \in 1 .. n |-> s[p[m]]] /\ \A m \in 1 .. n : s[p[m]] \in Records
    BY <1>3, <1>4, <1>1, <1>5
  <2> QED BY <1>1, <2>1
<1>8. ASSUME NEW i \in 1 .. n
      PROVE  \E m \in 1 .. n : t[m] = s[i]
  <2>1. PICK m \in 1 .. n : p[m] = i
    BY <1>4 DEF Arranges
  <2> QED BY <1>6, <2>1
<1>9. ASSUME NEW a \in 1 .. n, NEW b \in 1 .. n, a < b
      PROVE  t[a].key <= t[b].key
  <2>1. Earlier(keys, p[a], p[b])
    BY <1>4, <1>9 DEF Arranges
  <2>2. p[a] \in 1 .. n /\ p[b] \in 1 .. n
    BY <1>5
  <2>3. s[p[a]].key <= s[p[b]].key
    BY <1>1, <1>2, <2>1, <2>2 DEF Earlier
  <2> QED BY <1>6, <2>3
<1> QED
  BY <1>5, <1>6, <1>7, <1>8, <1>9 DEF n, t

(* A page that sortInPlace sorted is a sorted list.                        *)
LEMMA SortedPageStands ==
    ASSUME NEW s \in Seq(Records), s # << >>,
           \A i, j \in DOMAIN s : s[i] = s[j] => i = j
    PROVE  /\ Stands(Iterator(<<SortedPage(s)>>))
           /\ Held(Iterator(<<SortedPage(s)>>)) = ToSet(s)
<1> DEFINE t == SortedPage(s)
           list == <<t>>
<1>1. Len(s) \in Nat \ {0} /\ DOMAIN s = 1 .. Len(s)
  BY EmptySeq, LenProperties
<1>2. /\ t \in Seq(Records) /\ Len(t) = Len(s) /\ DOMAIN t = 1 .. Len(s)
      /\ \A i \in 1 .. Len(s) : \E m \in 1 .. Len(s) : t[m] = s[i]
      /\ \E p \in [1 .. Len(s) -> 1 .. Len(s)] :
            /\ \A a, b \in 1 .. Len(s) : p[a] = p[b] => a = b
            /\ \A a \in 1 .. Len(s) : t[a] = s[p[a]]
      /\ \A a, b \in 1 .. Len(s) : a < b => t[a].key <= t[b].key
  BY PageSorted
<1> HIDE DEF t
<1>10. PICK from \in [1 .. Len(s) -> 1 .. Len(s)] :
          /\ \A a, b \in 1 .. Len(s) : from[a] = from[b] => a = b
          /\ \A a \in 1 .. Len(s) : t[a] = s[from[a]]
  BY <1>2
<1>3. list \in Lists /\ Len(list) = 1 /\ DOMAIN list = {1} /\ list[1] = t /\ list # << >>
  BY <1>2 DEF Lists
<1>4. t # << >>
  BY <1>1, <1>2, EmptySeq
<1>5. Contents(list) = ToSet(s)
  <2>1. Contents(list) = ToSet(t)
    BY <1>3 DEF Contents, ToSet
  <2>2. ToSet(t) \subseteq ToSet(s)
    BY <1>1, <1>2, <1>10 DEF ToSet
  <2>3. ToSet(s) \subseteq ToSet(t)
    <3> SUFFICES ASSUME NEW i \in 1 .. Len(s)
                 PROVE  s[i] \in ToSet(t)
      BY <1>1 DEF ToSet
    <3>1. PICK m \in 1 .. Len(s) : t[m] = s[i]
      BY <1>2
    <3> QED BY <1>2, <3>1 DEF ToSet
  <2> QED BY <2>1, <2>2, <2>3
<1>6. Apart(list)
  <2>1. ASSUME NEW i \in 1 .. Len(s), NEW j \in 1 .. Len(s), t[i] = t[j]
        PROVE  i = j
    <3>1. from[i] \in DOMAIN s /\ from[j] \in DOMAIN s /\ s[from[i]] = s[from[j]]
      BY <1>1, <1>10, <2>1
    <3> QED BY <1>10, <3>1
  <2> SUFFICES ASSUME NEW i \in DOMAIN t, NEW j \in DOMAIN t, t[i] = t[j]
               PROVE  i = j
    BY <1>3 DEF Apart
  <2> QED BY <1>2, <2>1
<1> HIDE DEF list
<1>7. Ordered(Iterator(list))
  <2>1. Iterator(list).pages = list
    BY DEF Iterator
  <2> SUFFICES ASSUME NEW p, NEW i, NEW q, NEW j, Cell(list, p, i), Cell(list, q, j),
                      p < q \/ (p = q /\ i < j)
               PROVE  list[p][i].key <= list[q][j].key
    BY <1>3, <2>1, FromTheStart DEF Ordered
  <2>2. p = 1 /\ q = 1 /\ i \in 1 .. Len(s) /\ j \in 1 .. Len(s)
    BY <1>2, <1>3 DEF Cell
  <2>3. i < j
    BY <2>2
  <2> QED BY <1>2, <1>3, <2>2, <2>3
<1>8. Full(list)
  BY <1>3, <1>4 DEF Full
<1>9. Stands(Iterator(list)) /\ Held(Iterator(list)) = Contents(list)
  BY <1>3, <1>6, <1>7, <1>8, FromTheStart
<1> QED
  BY <1>5, <1>9 DEF list, t

-----------------------------------------------------------------------------
(* The queue of sorted lists, and the set of the runs: no record is in two *)
(* of them.                                                                *)
Iters == [pages : Lists, page : Nat, slot : Nat]

Queue(queue) ==
    /\ queue \in Seq(Iters)
    /\ \A n \in DOMAIN queue : Stands(queue[n])
    /\ \A m, n \in DOMAIN queue : \A r : r \in Held(queue[m]) /\ r \in Held(queue[n]) => m = n

Queued(queue) == UNION {Held(queue[n]) : n \in DOMAIN queue}

(* A list is put at the back of the queue.                                 *)
LEMMA ListQueued ==
    ASSUME NEW queue, Queue(queue), NEW it, Stands(it), Held(it) \cap Queued(queue) = {}
    PROVE  /\ Queue(Append(queue, it))
           /\ Queued(Append(queue, it)) = Queued(queue) \cup Held(it)
<1> DEFINE new == Append(queue, it)
           n == Len(queue)
<1>1. queue \in Seq(Iters) /\ it \in Iters /\ n \in Nat /\ DOMAIN queue = 1 .. n
  BY LenProperties DEF Queue, Stands, Iters
<1>2. /\ new \in Seq(Iters) /\ Len(new) = n + 1 /\ new[n + 1] = it
      /\ \A i \in 1 .. n : new[i] = queue[i]
  BY <1>1, AppendProperties
<1>3. DOMAIN new = 1 .. n + 1
  BY <1>2, LenProperties
<1> HIDE DEF new, n
<1>4. \A i \in 1 .. n + 1 : i \in 1 .. n \/ i = n + 1
  BY <1>1
<1>5. n + 1 \in 1 .. n + 1 /\ \A i \in 1 .. n : i \in 1 .. n + 1 /\ i # n + 1
  BY <1>1
<1>6. Queued(new) = Queued(queue) \cup Held(it)
  BY <1>1, <1>2, <1>3, <1>4, <1>5 DEF Queued
<1>7. \A i \in DOMAIN new : Stands(new[i])
  BY <1>1, <1>2, <1>3, <1>4 DEF Queue
<1>8. ASSUME NEW i \in 1 .. n + 1, NEW j \in 1 .. n + 1, NEW r, r \in Held(new[i]), r \in Held(new[j])
      PROVE  i = j
  <2>1. \A m \in 1 .. n : ~ (r \in Held(queue[m]) /\ r \in Held(it))
    BY <1>1 DEF Queued
  <2>2. CASE i \in 1 .. n /\ j \in 1 .. n
    BY <1>1, <1>2, <1>8, <2>2 DEF Queue
  <2>3. CASE i \in 1 .. n /\ j = n + 1
    BY <1>2, <1>8, <2>1, <2>3
  <2>4. CASE i = n + 1 /\ j \in 1 .. n
    BY <1>2, <1>8, <2>1, <2>4
  <2> QED BY <1>4, <2>2, <2>3, <2>4
<1> QED
  BY <1>2, <1>3, <1>6, <1>7, <1>8 DEF Queue, new

(* Two lists are taken off the front of the queue.                         *)
LEMMA ListsTaken ==
    ASSUME NEW queue, Queue(queue), Len(queue) > 1
    PROVE  /\ Stands(queue[1]) /\ Stands(queue[2])
           /\ Held(queue[1]) \cap Held(queue[2]) = {}
           /\ Queue(SubSeq(queue, 3, Len(queue)))
           /\ Queued(SubSeq(queue, 3, Len(queue))) =
                 Queued(queue) \ (Held(queue[1]) \cup Held(queue[2]))
           /\ Held(queue[1]) \cup Held(queue[2]) \subseteq Queued(queue)
<1> DEFINE n == Len(queue)
           rest == SubSeq(queue, 3, n)
<1>1. queue \in Seq(Iters) /\ n \in Nat /\ n > 1 /\ DOMAIN queue = 1 .. n
  BY LenProperties DEF Queue
<1>2. /\ rest \in Seq(Iters) /\ Len(rest) = n - 2
      /\ \A i \in 1 .. n - 2 : rest[i] = queue[i + 2]
  BY <1>1
<1>3. DOMAIN rest = 1 .. n - 2
  BY <1>2, LenProperties
<1> HIDE DEF n, rest
<1>4. 1 \in 1 .. n /\ 2 \in 1 .. n
  BY <1>1
<1>5. \A i \in 1 .. n : i = 1 \/ i = 2 \/ (i - 2 \in 1 .. n - 2 /\ (i - 2) + 2 = i)
  BY <1>1
<1>6. \A i \in 1 .. n - 2 : i + 2 \in 1 .. n /\ i + 2 # 1 /\ i + 2 # 2
  BY <1>1
<1>7. \A i \in 1 .. n, j \in 1 .. n : \A r : r \in Held(queue[i]) /\ r \in Held(queue[j]) => i = j
  BY <1>1 DEF Queue
<1>8. Stands(queue[1]) /\ Stands(queue[2]) /\ Held(queue[1]) \cap Held(queue[2]) = {}
  BY <1>1, <1>4, <1>7 DEF Queue
<1>9. ASSUME NEW r
      PROVE  /\ r \in Queued(queue) <=> \E i \in 1 .. n : r \in Held(queue[i])
             /\ r \in Queued(rest) <=> \E i \in 1 .. n - 2 : r \in Held(queue[i + 2])
  BY <1>1, <1>2, <1>3 DEF Queued
<1>10. ASSUME NEW r
       PROVE  r \in Queued(rest) <=> r \in Queued(queue) \ (Held(queue[1]) \cup Held(queue[2]))
  <2>1. ASSUME r \in Queued(rest)
        PROVE  r \in Queued(queue) \ (Held(queue[1]) \cup Held(queue[2]))
    <3>1. PICK i \in 1 .. n - 2 : r \in Held(queue[i + 2])
      BY <1>9, <2>1
    <3> QED BY <1>4, <1>6, <1>7, <1>9, <3>1
  <2>2. ASSUME r \in Queued(queue) \ (Held(queue[1]) \cup Held(queue[2]))
        PROVE  r \in Queued(rest)
    <3>1. PICK i \in 1 .. n : r \in Held(queue[i])
      BY <1>9, <2>2
    <3>2. i - 2 \in 1 .. n - 2 /\ (i - 2) + 2 = i
      BY <1>5, <2>2, <3>1
    <3> QED BY <1>9, <3>1, <3>2
  <2> QED BY <2>1, <2>2
<1>11. Queue(rest)
  <2>1. \A i \in 1 .. n - 2 : Stands(rest[i])
    BY <1>1, <1>2, <1>6 DEF Queue
  <2>2. ASSUME NEW i \in 1 .. n - 2, NEW j \in 1 .. n - 2, NEW r,
               r \in Held(rest[i]), r \in Held(rest[j])
        PROVE  i = j
    <3>1. i + 2 = j + 2
      BY <1>2, <1>6, <1>7, <2>2
    <3> QED BY <3>1
  <2> QED BY <1>2, <1>3, <2>1, <2>2 DEF Queue
<1>12. Held(queue[1]) \cup Held(queue[2]) \subseteq Queued(queue)
  BY <1>4, <1>9
<1>13. Queued(rest) = Queued(queue) \ (Held(queue[1]) \cup Held(queue[2]))
  BY <1>10
<1> QED
  BY <1>8, <1>11, <1>12, <1>13 DEF rest, n

(* The runs behind the priority queue.                                     *)
Runs(runs) ==
    /\ \A it \in runs : Stands(it)
    /\ \A it, other \in runs : \A r : r \in Held(it) /\ r \in Held(other) => it = other

Running(runs) == UNION {Held(it) : it \in runs}

(* The list of a run that ended joins them.                                *)
LEMMA RunAdded ==
    ASSUME NEW runs, Runs(runs), NEW it, Stands(it), Held(it) \cap Running(runs) = {}
    PROVE  /\ Runs(runs \cup {it})
           /\ Running(runs \cup {it}) = Running(runs) \cup Held(it)
<1>1. \A other \in runs : \A r : ~ (r \in Held(other) /\ r \in Held(it))
  BY DEF Running
<1>2. Running(runs \cup {it}) = Running(runs) \cup Held(it)
  BY DEF Running
<1>3. Runs(runs \cup {it})
  BY <1>1 DEF Runs
<1> QED
  BY <1>2, <1>3

(* The iterator on top is read and put back when there is more behind.     *)
LEMMA RunRead ==
    ASSUME NEW runs, Runs(runs), NEW it \in runs
    PROVE  /\ Runs((runs \ {it}) \cup Back(it, 1))
           /\ Running((runs \ {it}) \cup Back(it, 1)) = Running(runs) \ {Current(it)}
           /\ Current(it) \in Running(runs)
<1>1. Stands(it)
  BY DEF Runs
<1>2. Current(it) \in Held(it)
  BY <1>1, StandsAtLeast
<1>3. Runs(runs \ {it}) /\ Running(runs) = Running(runs \ {it}) \cup Held(it)
      /\ Running(runs \ {it}) \cap Held(it) = {}
  <2>1. \A other \in runs \ {it} : \A r : ~ (r \in Held(other) /\ r \in Held(it))
    BY DEF Runs
  <2>2. Runs(runs \ {it})
    BY DEF Runs
  <2> QED BY <2>1, <2>2 DEF Running
<1>4. CASE Advances(it, 1)
  <2>1. /\ Stands(Advanced(it, 1)) /\ Held(Advanced(it, 1)) = Held(it) \ {Current(it)}
        /\ Back(it, 1) = {Advanced(it, 1)}
    BY <1>1, <1>4, MovesOn DEF Back
  <2>2. Held(Advanced(it, 1)) \cap Running(runs \ {it}) = {}
    BY <1>3, <2>1
  <2>3. /\ Runs((runs \ {it}) \cup Back(it, 1))
        /\ Running((runs \ {it}) \cup Back(it, 1)) = Running(runs \ {it}) \cup Held(Advanced(it, 1))
    BY <1>3, <2>1, <2>2, RunAdded
  <2> QED BY <1>2, <1>3, <2>1, <2>3
<1>5. CASE ~ Advances(it, 1)
  <2>1. Held(it) = {Current(it)} /\ (runs \ {it}) \cup Back(it, 1) = runs \ {it}
    BY <1>1, <1>5, MovesOn DEF Back
  <2> QED BY <1>2, <1>3, <2>1
<1> QED
  BY <1>4, <1>5

(* The records of the pages from one on, and what is left of them when     *)
(* that page is sorted.                                                    *)
Unsorted(list, from) == UNION {ToSet(list[p]) : p \in {q \in DOMAIN list : q >= from}}

(* The unsorted records, one by one.                                       *)
LEMMA UnsortedAre ==
    ASSUME NEW list, NEW from, NEW r
    PROVE  r \in Unsorted(list, from) <=> \E p, s : Cell(list, p, s) /\ p >= from /\ r = list[p][s]
BY DEF Unsorted, Cell, ToSet

(* One page of a list is sorted.                                           *)
OneSorted(new, list, n) == new = [list EXCEPT ![n] = SortedPage(list[n])]

(* Sorting one page neither loses a record nor adds one, and what is not   *)
(* sorted yet is less by this page.                                        *)
LEMMA PageTaken ==
    ASSUME NEW list \in Lists, Full(list), Apart(list), NEW n \in DOMAIN list,
           NEW new, OneSorted(new, list, n)
    PROVE  /\ new \in Lists /\ Full(new) /\ Apart(new) /\ Len(new) = Len(list)
           /\ Contents(new) = Contents(list)
           /\ Unsorted(new, n + 1) = Unsorted(list, n) \ ToSet(list[n])
           /\ ToSet(list[n]) \subseteq Unsorted(list, n)
<1> DEFINE s == list[n]
           t == SortedPage(s)
           k == Len(s)
<1>1. /\ Len(list) \in Nat /\ DOMAIN list = 1 .. Len(list) /\ n \in 1 .. Len(list)
      /\ s \in Seq(Records) /\ k \in Nat /\ DOMAIN s = 1 .. k /\ k >= 1
  BY InLists DEF Full
<1>2. /\ t \in Seq(Records) /\ Len(t) = k /\ DOMAIN t = 1 .. k
      /\ \A i \in 1 .. k : \E m \in 1 .. k : t[m] = s[i]
  BY <1>1, PageSorted
<1>3. PICK perm \in [1 .. k -> 1 .. k] :
         /\ \A a, b \in 1 .. k : perm[a] = perm[b] => a = b
         /\ \A a \in 1 .. k : t[a] = s[perm[a]]
  BY <1>1, PageSorted
<1>4. new = [list EXCEPT ![n] = t]
  BY DEF OneSorted
<1> HIDE DEF t, k
<1>5. /\ new \in Lists /\ Len(new) = Len(list) /\ DOMAIN new = DOMAIN list
      /\ new[n] = t /\ \A p \in DOMAIN list : p # n => new[p] = list[p]
  BY <1>1, <1>2, <1>4, ExceptSeq DEF Lists
<1>6. ASSUME NEW p, NEW i
      PROVE  Cell(new, p, i) <=> Cell(list, p, i)
  BY <1>1, <1>2, <1>5 DEF Cell
<1>7. ASSUME NEW p, NEW i, Cell(list, p, i)
      PROVE  \E j : Cell(list, p, j) /\ new[p][j] = list[p][i]
  <2>1. CASE p = n
    BY <1>1, <1>2, <1>5, <1>7, <2>1 DEF Cell
  <2>2. CASE p # n
    BY <1>5, <1>7, <2>2 DEF Cell
  <2> QED BY <2>1, <2>2
<1> DEFINE Was(p, i) == IF p = n THEN perm[i] ELSE i
<1>8. ASSUME NEW p, NEW i, Cell(list, p, i)
      PROVE  Cell(list, p, Was(p, i)) /\ new[p][i] = list[p][Was(p, i)]
  <2>1. CASE p = n
    BY <1>1, <1>2, <1>3, <1>5, <1>8, <2>1 DEF Cell
  <2>2. CASE p # n
    BY <1>5, <1>8, <2>2 DEF Cell
  <2> QED BY <2>1, <2>2
<1>9. ASSUME NEW p, NEW i, NEW j, Cell(list, p, i), Cell(list, p, j), Was(p, i) = Was(p, j)
      PROVE  i = j
  BY <1>1, <1>3, <1>9 DEF Cell
<1> HIDE DEF Was
<1>10. Full(new)
  BY <1>1, <1>2, <1>5, EmptySeq DEF Full
<1>11. Apart(new)
  <2> SUFFICES ASSUME NEW p, NEW i, NEW q, NEW j, Cell(list, p, i), Cell(list, q, j),
                      new[p][i] = new[q][j]
               PROVE  p = q /\ i = j
    BY <1>6 DEF Apart, Cell
  <2>1. list[p][Was(p, i)] = list[q][Was(q, j)] /\ Cell(list, p, Was(p, i)) /\ Cell(list, q, Was(q, j))
    BY <1>8
  <2>2. p = q /\ Was(p, i) = Was(q, j)
    BY <2>1 DEF Apart, Cell
  <2> QED BY <1>9, <2>2
<1>12. Contents(new) = Contents(list)
  <2> SUFFICES ASSUME NEW r
               PROVE  r \in Contents(new) <=> r \in Contents(list)
    OBVIOUS
  <2>1. r \in Contents(new) <=> \E p, i : Cell(new, p, i) /\ r = new[p][i]
    BY ContentsAre
  <2>2. r \in Contents(list) <=> \E p, i : Cell(list, p, i) /\ r = list[p][i]
    BY ContentsAre
  <2>3. r \in Contents(new) => r \in Contents(list)
    BY <1>6, <1>8, <2>1, <2>2
  <2>4. r \in Contents(list) => r \in Contents(new)
    BY <1>6, <1>7, <2>1, <2>2
  <2> QED BY <2>3, <2>4
<1>13. ASSUME NEW r
       PROVE  r \in ToSet(s) <=> \E i : Cell(list, n, i) /\ r = list[n][i]
  BY DEF ToSet, Cell
<1>14. ToSet(s) \subseteq Unsorted(list, n)
  <2> SUFFICES ASSUME NEW r \in ToSet(s)
               PROVE  r \in Unsorted(list, n)
    OBVIOUS
  <2>1. n >= n
    BY <1>1
  <2> QED BY <1>13, <2>1, UnsortedAre
<1>15. ASSUME NEW r
       PROVE  r \in Unsorted(new, n + 1) <=> r \in Unsorted(list, n) \ ToSet(s)
  <2>1. r \in Unsorted(new, n + 1) <=> \E p, i : Cell(new, p, i) /\ p >= n + 1 /\ r = new[p][i]
    BY UnsortedAre
  <2>2. r \in Unsorted(list, n) <=> \E p, i : Cell(list, p, i) /\ p >= n /\ r = list[p][i]
    BY UnsortedAre
  <2>3. ASSUME r \in Unsorted(new, n + 1)
        PROVE  r \in Unsorted(list, n) \ ToSet(s)
    <3>1. PICK p, i : Cell(list, p, i) /\ p >= n + 1 /\ r = new[p][i]
      BY <1>6, <2>1, <2>3
    <3>2. p # n /\ p >= n /\ p \in DOMAIN list
      BY <1>1, <3>1 DEF Cell
    <3>3. r = list[p][i]
      BY <1>5, <3>1, <3>2
    <3>4. r \notin ToSet(s)
      BY <1>13, <3>1, <3>2, <3>3 DEF Apart, Cell
    <3> QED BY <2>2, <3>1, <3>2, <3>3, <3>4
  <2>4. ASSUME r \in Unsorted(list, n) \ ToSet(s)
        PROVE  r \in Unsorted(new, n + 1)
    <3>1. PICK p, i : Cell(list, p, i) /\ p >= n /\ r = list[p][i]
      BY <2>2, <2>4
    <3>2. p # n
      BY <1>13, <2>4, <3>1
    <3>3. p >= n + 1 /\ p \in DOMAIN list
      BY <1>1, <3>1, <3>2 DEF Cell
    <3> QED BY <1>5, <1>6, <2>1, <3>1, <3>2, <3>3
  <2> QED BY <2>3, <2>4
<1>16. Unsorted(new, n + 1) = Unsorted(list, n) \ ToSet(s)
  BY <1>15
<1> QED
  BY <1>5, <1>10, <1>11, <1>12, <1>14, <1>16

-----------------------------------------------------------------------------
(* The inductive invariant.  The loops over pages and runs:                *)
Looping ==
    /\ sortMe \in Lists /\ Full(sortMe) /\ Apart(sortMe)
    /\ runSize \in Nat \ {0} /\ start \in Nat \ {0} /\ next \in Nat \ {0}
    /\ phase \in {"runs", "merge", "file", "done"}
    /\ phase \in {"runs", "merge"} => start <= NumPages /\ start <= next /\ next <= RunEnd
    /\ phase \in {"file", "done"} => next > NumPages /\ pageQueue = << >>
    /\ phase # "merge" => mergedList = << >> /\ leftIter = Ended /\ rightIter = Ended

(* the iterators of all lists stand at a record, those of a merge at one   *)
(* or at their end; nothing was written twice;                             *)
Proper(it) == it = Ended \/ Stands(it)

Standing ==
    /\ Queue(pageQueue) /\ Runs(runIterList)
    /\ Proper(leftIter) /\ Proper(rightIter)
    /\ sortIntoMe \in Seq(Records)
    /\ \A i, j \in DOMAIN sortIntoMe : sortIntoMe[i] = sortIntoMe[j] => i = j

(* the list being merged is in order and comes before all still to be      *)
(* merged;                                                                 *)
NotAhead(list, it) == it # Ended => \A m \in Contents(list) : m.key <= Current(it).key

Merged(list) ==
    /\ list # << >>
    /\ Full(list) \/ (list = << << >> >> /\ leftIter # Ended /\ rightIter # Ended)
    /\ Ordered(Iterator(list))
    /\ NotAhead(list, leftIter) /\ NotAhead(list, rightIter)

Merging ==
    /\ mergedList \in Lists /\ Apart(mergedList)
    /\ \A p \in DOMAIN mergedList : Len(mergedList[p]) <= PageCapacity
    /\ phase = "merge" => Merged(mergedList)

(* and each record of the table is in one of the places records pass.      *)
Parted(whole, a, b, c, d, e, f, g) ==
    /\ whole = a \cup b \cup c \cup d \cup e \cup f \cup g
    /\ a \cap (b \cup c \cup d \cup e \cup f \cup g) = {}
    /\ b \cap (c \cup d \cup e \cup f \cup g) = {}
    /\ c \cap (d \cup e \cup f \cup g) = {}
    /\ d \cap (e \cup f \cup g) = {}
    /\ e \cap (f \cup g) = {}
    /\ f \cap g = {}

EachSomewhere ==
    Parted(Contents(sortMe), Unsorted(sortMe, next), Queued(pageQueue), Held(leftIter),
           Held(rightIter), Contents(mergedList), Running(runIterList), ToSet(sortIntoMe))

IInv == Looping /\ Standing /\ Merging /\ EachSomewhere

(* The sort begins with all pages unsorted.                                *)
LEMMA InitInvariant == Init => IInv
<1> SUFFICES ASSUME Init
             PROVE  IInv
  OBVIOUS
<1>1. sortMe \in Lists /\ sortMe # << >> /\ Full(sortMe) /\ Apart(sortMe)
  BY SortAssumption DEF Init, Lists, Full, Apart
<1>2. Len(sortMe) \in Nat \ {0}
  BY <1>1, EmptySeq DEF Lists
<1>3. Looping
  <2>1. runSize \in Nat \ {0}
    BY SortAssumption DEF Init
  <2>2. 1 <= RunEnd /\ 1 <= NumPages
    BY <1>2, <2>1 DEF RunEnd, NumPages, Init
  <2> QED BY <1>1, <2>1, <2>2 DEF Looping, Init
<1>4. Standing
  <2>1. Queue(<< >>)
    BY DEF Queue
  <2>2. Runs({})
    BY DEF Runs
  <2> QED BY <2>1, <2>2 DEF Standing, Init, Proper
<1>5. Merging
  BY DEF Merging, Init, Lists, Apart
<1>6. EachSomewhere
  <2>1. Unsorted(sortMe, 1) = Contents(sortMe)
    <3>1. \A p \in DOMAIN sortMe : p >= 1
      BY <1>1, InLists
    <3> QED BY <3>1 DEF Unsorted, Contents, ToSet
  <2>2. Queued(<< >>) = {} /\ Contents(<< >>) = {} /\ Running({}) = {} /\ ToSet(<< >>) = {}
    BY DEF Queued, Contents, Running, ToSet
  <2> QED BY <2>1, <2>2, EndedHoldsNothing DEF EachSomewhere, Parted, Init
<1> QED
  BY <1>3, <1>4, <1>5, <1>6 DEF IInv

(* A page is sorted and queued.                                            *)
LEMMA SortPageKeeps ==
    ASSUME IInv, SortPage
    PROVE  IInv'
<1>1. /\ sortMe \in Lists /\ Full(sortMe) /\ Apart(sortMe) /\ next \in Nat \ {0} /\ start \in Nat \ {0}
      /\ runSize \in Nat \ {0} /\ phase = "runs" /\ next < RunEnd /\ start <= NumPages /\ start <= next
  BY DEF IInv, Looping, SortPage
<1>2. Len(sortMe) \in Nat /\ DOMAIN sortMe = 1 .. Len(sortMe)
  BY <1>1, InLists
<1>3. next \in DOMAIN sortMe
  BY <1>1, <1>2 DEF RunEnd, NumPages
<1>4. /\ sortMe[next] \in Seq(Records) /\ sortMe[next] # << >>
      /\ \A i, j \in DOMAIN sortMe[next] : sortMe[next][i] = sortMe[next][j] => i = j
  <2>1. sortMe[next] \in Seq(Records)
    BY <1>1, <1>3, InLists
  <2> QED BY <1>1, <1>3, <2>1 DEF Full, Apart
<1>5. OneSorted(sortMe', sortMe, next)
  BY DEF SortPage, OneSorted
<1>6. /\ sortMe' \in Lists /\ Full(sortMe') /\ Apart(sortMe') /\ Len(sortMe') = Len(sortMe)
      /\ Contents(sortMe') = Contents(sortMe)
      /\ Unsorted(sortMe', next + 1) = Unsorted(sortMe, next) \ ToSet(sortMe[next])
      /\ ToSet(sortMe[next]) \subseteq Unsorted(sortMe, next)
  <2>1. PICK new : new = sortMe'
    OBVIOUS
  <2>2. OneSorted(new, sortMe, next)
    BY <1>5, <2>1
  <2>3. /\ new \in Lists /\ Full(new) /\ Apart(new) /\ Len(new) = Len(sortMe)
        /\ Contents(new) = Contents(sortMe)
        /\ Unsorted(new, next + 1) = Unsorted(sortMe, next) \ ToSet(sortMe[next])
        /\ ToSet(sortMe[next]) \subseteq Unsorted(sortMe, next)
    BY <1>1, <1>3, <2>2, PageTaken
  <2> QED BY <2>1, <2>3
<1>7. PICK it : it = Iterator(<<SortedPage(sortMe[next])>>)
  OBVIOUS
<1>8. Stands(it) /\ Held(it) = ToSet(sortMe[next])
  BY <1>4, <1>7, SortedPageStands
<1>9. pageQueue' = Append(pageQueue, it) /\ next' = next + 1
  BY <1>7 DEF SortPage
<1>10. /\ UNCHANGED <<runSize, phase, start, leftIter, rightIter, mergedList, runIterList, sortIntoMe>>
  BY DEF SortPage
<1>11. Looping'
  <2>1. NumPages' = NumPages /\ RunEnd' = RunEnd /\ next + 1 <= RunEnd
    BY <1>1, <1>2, <1>6, <1>10 DEF NumPages, RunEnd
  <2> QED BY <1>1, <1>6, <1>9, <1>10, <2>1 DEF IInv, Looping
<1>12. Queue(pageQueue') /\ Queued(pageQueue') = Queued(pageQueue) \cup Held(it)
  <2>1. Held(it) \cap Queued(pageQueue) = {}
    BY <1>6, <1>8 DEF IInv, EachSomewhere, Parted
  <2> QED BY <1>8, <1>9, <2>1, ListQueued DEF IInv, Standing
<1>13. Standing'
  BY <1>10, <1>12 DEF IInv, Standing
<1>14. Merging'
  BY <1>1, <1>10 DEF IInv, Merging
<1>15. EachSomewhere'
  BY <1>6, <1>8, <1>9, <1>10, <1>12 DEF IInv, EachSomewhere, Parted
<1> QED
  BY <1>11, <1>13, <1>14, <1>15 DEF IInv

(* Two lists are taken off the queue to be merged.                         *)
LEMMA BeginMergeKeeps ==
    ASSUME IInv, BeginMerge
    PROVE  IInv'
<1>1. /\ Queue(pageQueue) /\ Len(pageQueue) > 1 /\ phase = "runs" /\ mergedList = << >>
      /\ leftIter = Ended /\ rightIter = Ended
  BY DEF IInv, Standing, Looping, BeginMerge
<1>2. /\ Stands(pageQueue[1]) /\ Stands(pageQueue[2])
      /\ Held(pageQueue[1]) \cap Held(pageQueue[2]) = {}
      /\ Queue(SubSeq(pageQueue, 3, Len(pageQueue)))
      /\ Queued(SubSeq(pageQueue, 3, Len(pageQueue))) =
            Queued(pageQueue) \ (Held(pageQueue[1]) \cup Held(pageQueue[2]))
      /\ Held(pageQueue[1]) \cup Held(pageQueue[2]) \subseteq Queued(pageQueue)
  BY <1>1, ListsTaken
<1>3. PICK it, other, rest : /\ it = pageQueue[1] /\ other = pageQueue[2]
                             /\ rest = SubSeq(pageQueue, 3, Len(pageQueue))
  OBVIOUS
<1>4. /\ Stands(it) /\ Stands(other) /\ Held(it) \cap Held(other) = {}
      /\ Queue(rest) /\ Queued(rest) = Queued(pageQueue) \ (Held(it) \cup Held(other))
      /\ Held(it) \cup Held(other) \subseteq Queued(pageQueue)
  BY <1>2, <1>3
<1>5. /\ leftIter' = it /\ rightIter' = other /\ pageQueue' = rest
      /\ mergedList' = << << >> >> /\ phase' = "merge"
      /\ UNCHANGED <<sortMe, runSize, start, next, runIterList, sortIntoMe>>
  BY <1>3 DEF BeginMerge
<1>6. it # Ended /\ other # Ended
  BY <1>4, StandsAtLeast
<1>7. Looping'
  BY <1>1, <1>5 DEF IInv, Looping, NumPages, RunEnd
<1>8. Standing'
  BY <1>4, <1>5 DEF IInv, Standing, Proper
<1>9. PICK list : list = << << >> >>
  OBVIOUS
<1>10. /\ list \in Lists /\ list # << >> /\ Len(list) = 1 /\ DOMAIN list = {1} /\ list[1] = << >>
  BY <1>9 DEF Lists
<1>11. Contents(list) = {} /\ Apart(list) /\ Ordered(Iterator(list))
  <2>1. \A p, s : ~ Cell(list, p, s)
    BY <1>10 DEF Cell
  <2>2. Contents(list) = {}
    BY <2>1, ContentsAre
  <2>3. Ordered(Iterator(list))
    BY <1>10, <2>1, FromTheStart DEF Ordered
  <2>4. Apart(list)
    BY <2>1 DEF Apart, Cell
  <2> QED BY <2>2, <2>3, <2>4
<1>12. Merging'
  <2>1. NotAhead(list, it) /\ NotAhead(list, other)
    BY <1>11 DEF NotAhead
  <2>2. \A p \in DOMAIN list : Len(list[p]) <= PageCapacity
    BY <1>10, SortAssumption
  <2> QED BY <1>5, <1>6, <1>9, <1>10, <1>11, <2>1, <2>2 DEF Merging, Merged
<1>13. EachSomewhere'
  <2>1. Contents(mergedList) = {} /\ Contents(mergedList') = {}
    BY <1>1, <1>5, <1>9, <1>11 DEF Contents
  <2> QED BY <1>1, <1>4, <1>5, <2>1, EndedHoldsNothing DEF IInv, EachSomewhere, Parted
<1> QED
  BY <1>7, <1>8, <1>12, <1>13 DEF IInv

(* One record is merged: the least of those ahead of both iterators.       *)
LEMMA OneMerged ==
    ASSUME NEW list \in Lists, Apart(list), list # << >>, Full(list) \/ list = << << >> >>,
           \A p \in DOMAIN list : Len(list[p]) <= PageCapacity, Ordered(Iterator(list)),
           NEW it, Stands(it), NEW other, Proper(other),
           NotAhead(list, it), NotAhead(list, other),
           other # Ended => Current(it).key <= Current(other).key,
           Current(it) \notin Contents(list),
           NEW new, new = WithAppended(list, Current(it))
    PROVE  /\ new \in Lists /\ Apart(new) /\ new # << >> /\ Full(new) /\ Ordered(Iterator(new))
           /\ \A p \in DOMAIN new : Len(new[p]) <= PageCapacity
           /\ Contents(new) = Contents(list) \cup {Current(it)}
           /\ Proper(Rest(it, 1)) /\ Held(Rest(it, 1)) = Held(it) \ {Current(it)}
           /\ NotAhead(new, Rest(it, 1)) /\ NotAhead(new, other)
<1> DEFINE r == Current(it)
<1>1. /\ r \in Records /\ r \in Held(it) /\ it # Ended
      /\ \A m \in Held(it) : m.key \in Int /\ r.key <= m.key
  BY StandsAtLeast
<1> HIDE DEF r
<1>2. new = WithAppended(list, r) /\ r \notin Contents(list)
  BY DEF r
<1>3. /\ new \in Lists /\ new # << >> /\ Full(new)
      /\ \A p \in DOMAIN new : Len(new[p]) <= PageCapacity
      /\ \E P, S : Behind(list, r, new, P, S)
  <2>1. /\ WithAppended(list, r) \in Lists /\ WithAppended(list, r) # << >>
        /\ Full(WithAppended(list, r))
        /\ \A p \in DOMAIN WithAppended(list, r) : Len(WithAppended(list, r)[p]) <= PageCapacity
        /\ \E P, S : Behind(list, r, WithAppended(list, r), P, S)
    BY <1>1, AppendedBehind
  <2> QED BY <1>2, <2>1
<1>4. \A m \in Contents(list) : m.key \in Int /\ m.key <= r.key
  <2>1. \A m \in Contents(list) : m.key <= r.key
    BY <1>1 DEF NotAhead, r
  <2> QED BY <2>1, ContentsAreRecords, KeysOfRecords
<1>5. Contents(new) = Contents(list) \cup {r} /\ Apart(new) /\ Ordered(Iterator(new))
  <2>1. PICK P, S : Behind(list, r, new, P, S)
    BY <1>3
  <2> QED BY <1>1, <1>2, <1>3, <1>4, <2>1, PutBehind
<1>6. Proper(Rest(it, 1)) /\ Held(Rest(it, 1)) = Held(it) \ {r}
  BY <1>1, MovesOn, EndedHoldsNothing DEF Rest, Proper, r
<1>7. NotAhead(new, Rest(it, 1))
  <2> SUFFICES ASSUME Rest(it, 1) # Ended, NEW m \in Contents(new)
               PROVE  m.key <= Current(Rest(it, 1)).key
    BY DEF NotAhead
  <2>1. Current(Rest(it, 1)) \in Held(it)
    BY <1>6, StandsAtLeast DEF Proper
  <2>2. r.key <= Current(Rest(it, 1)).key /\ Current(Rest(it, 1)).key \in Int /\ r.key \in Int
    BY <1>1, <2>1
  <2>3. m.key \in Int /\ m.key <= r.key
    BY <1>4, <1>5, <2>2
  <2> QED BY <2>2, <2>3
<1>8. NotAhead(new, other)
  BY <1>5 DEF NotAhead, r
<1> QED
  BY <1>3, <1>5, <1>6, <1>7, <1>8 DEF r

(* What the invariant says of a merge.                                     *)
LEMMA WhileMerging ==
    ASSUME IInv, phase = "merge"
    PROVE  /\ mergedList \in Lists /\ Apart(mergedList) /\ mergedList # << >>
           /\ Full(mergedList) \/ mergedList = << << >> >>
           /\ \A p \in DOMAIN mergedList : Len(mergedList[p]) <= PageCapacity
           /\ Ordered(Iterator(mergedList))
           /\ Proper(leftIter) /\ Proper(rightIter)
           /\ NotAhead(mergedList, leftIter) /\ NotAhead(mergedList, rightIter)
BY DEF IInv, Merging, Merged, Standing

(* The left record is merged.                                              *)
LEMMA MergeLeftKeeps ==
    ASSUME IInv, MergeLeft
    PROVE  IInv'
<1>1. /\ phase = "merge" /\ leftIter # Ended
      /\ rightIter # Ended => Current(leftIter).key < Current(rightIter).key
  BY DEF MergeLeft, LeftFirst
<1>2. Stands(leftIter) /\ SizesRead(leftIter) = {1} /\ Current(leftIter) \in Held(leftIter)
      /\ Current(leftIter) \in Records
  BY <1>1, WhileMerging, StandsAtLeast DEF Proper
<1>3. PICK new, it : new = WithAppended(mergedList, Current(leftIter)) /\ it = Rest(leftIter, 1)
  OBVIOUS
<1>4. /\ mergedList' = new /\ leftIter' = it
      /\ UNCHANGED <<sortMe, runSize, phase, start, next, pageQueue, rightIter, runIterList, sortIntoMe>>
  BY <1>2, <1>3 DEF MergeLeft
<1>5. rightIter # Ended => Current(leftIter).key <= Current(rightIter).key
  <2>1. ASSUME rightIter # Ended
        PROVE  Current(rightIter).key \in Int
    BY <1>1, <2>1, WhileMerging, StandsAtLeast DEF Proper
  <2> QED BY <1>1, <1>2, <2>1, KeysOfRecords
<1>6. Current(leftIter) \notin Contents(mergedList)
  BY <1>2 DEF IInv, EachSomewhere, Parted
<1>7. /\ new \in Lists /\ Apart(new) /\ new # << >> /\ Full(new) /\ Ordered(Iterator(new))
      /\ \A p \in DOMAIN new : Len(new[p]) <= PageCapacity
      /\ Contents(new) = Contents(mergedList) \cup {Current(leftIter)}
      /\ Proper(it) /\ Held(it) = Held(leftIter) \ {Current(leftIter)}
      /\ NotAhead(new, it) /\ NotAhead(new, rightIter)
  BY <1>1, <1>2, <1>3, <1>5, <1>6, WhileMerging, OneMerged
<1>8. Looping'
  BY <1>1, <1>4 DEF IInv, Looping, NumPages, RunEnd
<1>9. Standing'
  BY <1>4, <1>7 DEF IInv, Standing, Proper
<1>10. Merging'
  BY <1>4, <1>7 DEF Merging, Merged
<1>11. EachSomewhere'
  BY <1>2, <1>4, <1>7 DEF IInv, EachSomewhere, Parted
<1> QED
  BY <1>8, <1>9, <1>10, <1>11 DEF IInv

(* The right record is merged.                                             *)
LEMMA MergeRightKeeps ==
    ASSUME IInv, MergeRight
    PROVE  IInv'
<1>1. /\ phase = "merge" /\ rightIter # Ended
      /\ leftIter # Ended => ~ (Current(leftIter).key < Current(rightIter).key)
  BY DEF MergeRight, LeftFirst
<1>2. Stands(rightIter) /\ SizesRead(rightIter) = {1} /\ Current(rightIter) \in Held(rightIter)
      /\ Current(rightIter) \in Records
  BY <1>1, WhileMerging, StandsAtLeast DEF Proper
<1>3. PICK new, it : new = WithAppended(mergedList, Current(rightIter)) /\ it = Rest(rightIter, 1)
  OBVIOUS
<1>4. /\ mergedList' = new /\ rightIter' = it
      /\ UNCHANGED <<sortMe, runSize, phase, start, next, pageQueue, leftIter, runIterList, sortIntoMe>>
  BY <1>2, <1>3 DEF MergeRight
<1>5. leftIter # Ended => Current(rightIter).key <= Current(leftIter).key
  <2>1. ASSUME leftIter # Ended
        PROVE  Current(leftIter).key \in Int
    BY <1>1, <2>1, WhileMerging, StandsAtLeast DEF Proper
  <2> QED BY <1>1, <1>2, <2>1, KeysOfRecords
<1>6. Current(rightIter) \notin Contents(mergedList)
  BY <1>2 DEF IInv, EachSomewhere, Parted
<1>7. /\ new \in Lists /\ Apart(new) /\ new # << >> /\ Full(new) /\ Ordered(Iterator(new))
      /\ \A p \in DOMAIN new : Len(new[p]) <= PageCapacity
      /\ Contents(new) = Contents(mergedList) \cup {Current(rightIter)}
      /\ Proper(it) /\ Held(it) = Held(rightIter) \ {Current(rightIter)}
      /\ NotAhead(new, it) /\ NotAhead(new, leftIter)
  BY <1>1, <1>2, <1>3, <1>5, <1>6, WhileMerging, OneMerged
<1>8. Looping'
  BY <1>1, <1>4 DEF IInv, Looping, NumPages, RunEnd
<1>9. Standing'
  BY <1>4, <1>7 DEF IInv, Standing, Proper
<1>10. Merging'
  BY <1>4, <1>7 DEF Merging, Merged
<1>11. EachSomewhere'
  BY <1>2, <1>4, <1>7 DEF IInv, EachSomewhere, Parted
<1> QED
  BY <1>8, <1>9, <1>10, <1>11 DEF IInv

(* The merged list goes to the back of the queue.                          *)
LEMMA EndMergeKeeps ==
    ASSUME IInv, EndMerge
    PROVE  IInv'
<1>1. phase = "merge" /\ leftIter = Ended /\ rightIter = Ended
  BY DEF EndMerge
<1>2. PICK it : it = Iterator(mergedList)
  OBVIOUS
<1>3. /\ pageQueue' = Append(pageQueue, it) /\ mergedList' = << >> /\ phase' = "runs"
      /\ UNCHANGED <<sortMe, runSize, start, next, leftIter, rightIter, runIterList, sortIntoMe>>
  BY <1>2 DEF EndMerge
<1>4. Stands(it) /\ Held(it) = Contents(mergedList)
  <2>1. Full(mergedList)
    BY <1>1 DEF IInv, Merging, Merged
  <2> QED BY <1>1, <1>2, <2>1, WhileMerging, FromTheStart
<1>5. Queue(pageQueue') /\ Queued(pageQueue') = Queued(pageQueue) \cup Held(it)
  <2>1. Held(it) \cap Queued(pageQueue) = {}
    BY <1>4 DEF IInv, EachSomewhere, Parted
  <2> QED BY <1>3, <1>4, <2>1, ListQueued DEF IInv, Standing
<1>6. Looping'
  BY <1>1, <1>3 DEF IInv, Looping, NumPages, RunEnd
<1>7. Standing'
  BY <1>3, <1>5 DEF IInv, Standing, Proper
<1>8. Contents(<< >>) = {} /\ << >> \in Lists /\ Apart(<< >>)
  BY DEF Contents, Lists, Apart
<1>9. Merging'
  BY <1>3, <1>8 DEF Merging
<1>10. EachSomewhere'
  BY <1>3, <1>4, <1>5, <1>8 DEF IInv, EachSomewhere, Parted
<1> QED
  BY <1>6, <1>7, <1>9, <1>10 DEF IInv

(* The one list of a run that ended joins the runs; the next run begins    *)
(* where it ended.                                                         *)
LEMMA EndRunKeeps ==
    ASSUME IInv, EndRun
    PROVE  IInv'
<1>1. /\ phase = "runs" /\ next = RunEnd /\ Len(pageQueue) = 1 /\ Queue(pageQueue)
      /\ start \in Nat \ {0} /\ runSize \in Nat \ {0} /\ sortMe \in Lists
      /\ start <= NumPages /\ mergedList = << >> /\ leftIter = Ended /\ rightIter = Ended
  BY DEF IInv, Looping, Standing, EndRun
<1>2. PICK it : it = pageQueue[1]
  OBVIOUS
<1>3. /\ runIterList' = runIterList \cup {it} /\ pageQueue' = << >>
      /\ start' = start + runSize /\ next' = start + runSize
      /\ phase' = (IF start + runSize <= NumPages THEN "runs" ELSE "file")
      /\ UNCHANGED <<sortMe, runSize, leftIter, rightIter, mergedList, sortIntoMe>>
  BY <1>2 DEF EndRun
<1>4. Len(sortMe) \in Nat /\ DOMAIN sortMe = 1 .. Len(sortMe)
  BY <1>1, InLists
<1>5. DOMAIN pageQueue = {1}
  BY <1>1, LenProperties DEF Queue
<1>6. Stands(it) /\ Queued(pageQueue) = Held(it)
  BY <1>1, <1>2, <1>5 DEF Queue, Queued
<1>7. Runs(runIterList') /\ Running(runIterList') = Running(runIterList) \cup Held(it)
  <2>1. Held(it) \cap Running(runIterList) = {}
    BY <1>6 DEF IInv, EachSomewhere, Parted
  <2> QED BY <1>3, <1>6, <2>1, RunAdded DEF IInv, Standing
<1>8. Unsorted(sortMe, next') = Unsorted(sortMe, next)
  <2>1. CASE start + runSize <= NumPages
    <3>1. next = start + runSize
      BY <1>1, <1>4, <2>1 DEF RunEnd, NumPages
    <3> QED BY <1>3, <3>1
  <2>2. CASE ~ (start + runSize <= NumPages)
    <3>1. next >= NumPages + 1 /\ start + runSize >= NumPages + 1 /\ NumPages \in Nat /\ next \in Nat
      BY <1>1, <1>4, <2>2 DEF RunEnd, NumPages
    <3>2. \A p \in DOMAIN sortMe : ~ (p >= next) /\ ~ (p >= start + runSize)
      BY <1>1, <1>4, <3>1 DEF NumPages
    <3> QED BY <1>3, <3>2 DEF Unsorted
  <2> QED BY <2>1, <2>2
<1>9. Looping'
  <2>1. NumPages' = NumPages /\ NumPages \in Nat
    BY <1>3, <1>4 DEF NumPages
  <2>2. CASE start + runSize <= NumPages
    <3>1. next' <= RunEnd'
      BY <1>1, <1>3, <2>1, <2>2 DEF RunEnd
    <3> QED BY <1>1, <1>3, <2>1, <2>2, <3>1 DEF IInv, Looping
  <2>3. CASE ~ (start + runSize <= NumPages)
    <3>1. next' > NumPages'
      BY <1>1, <1>3, <2>1, <2>3
    <3> QED BY <1>1, <1>3, <2>1, <2>3, <3>1 DEF IInv, Looping
  <2> QED BY <2>2, <2>3
<1>10. Queue(<< >>) /\ Queued(<< >>) = {}
  BY DEF Queue, Queued
<1>11. Standing'
  BY <1>3, <1>7, <1>10 DEF IInv, Standing, Proper
<1>12. Merging'
  BY <1>1, <1>3 DEF IInv, Merging
<1>13. EachSomewhere'
  <2>1. Unsorted(sortMe, next)' = Unsorted(sortMe, next) /\ Contents(sortMe)' = Contents(sortMe)
    BY <1>3, <1>8
  <2>2. /\ Held(leftIter)' = Held(leftIter) /\ Held(rightIter)' = Held(rightIter)
        /\ Contents(mergedList)' = Contents(mergedList) /\ ToSet(sortIntoMe)' = ToSet(sortIntoMe)
        /\ Queued(pageQueue)' = {}
    BY <1>3, <1>10
  <2> QED BY <1>6, <1>7, <2>1, <2>2 DEF IInv, EachSomewhere, Parted
<1> QED
  BY <1>9, <1>11, <1>12, <1>13 DEF IInv

(* When the runs are merged there is nothing left but in the runs and in   *)
(* the output.                                                             *)
LEMMA AllInRuns ==
    ASSUME IInv, phase \in {"file", "done"}
    PROVE  /\ Contents(sortMe) = Running(runIterList) \cup ToSet(sortIntoMe)
           /\ Running(runIterList) \cap ToSet(sortIntoMe) = {}
<1>1. Unsorted(sortMe, next) = {}
  <2>1. \A p \in DOMAIN sortMe : ~ (p >= next)
    BY InLists DEF IInv, Looping, NumPages
  <2> QED BY <2>1 DEF Unsorted
<1>2. Queued(<< >>) = {} /\ Contents(<< >>) = {}
  BY DEF Queued, Contents
<1>3. pageQueue = << >> /\ mergedList = << >> /\ leftIter = Ended /\ rightIter = Ended
  BY DEF IInv, Looping
<1> QED
  BY <1>1, <1>2, <1>3, EndedHoldsNothing DEF IInv, EachSomewhere, Parted

(* The least record of all runs is written.                                *)
LEMMA AppendTopKeeps ==
    ASSUME IInv, AppendTop
    PROVE  IInv'
<1>1. PICK it \in runIterList :
         /\ sortIntoMe' = Append(sortIntoMe, Current(it))
         /\ \E n \in SizesRead(it) : runIterList' = (runIterList \ {it}) \cup Back(it, n)
  BY DEF AppendTop
<1>2. /\ phase = "file"
      /\ UNCHANGED <<sortMe, runSize, phase, start, next, pageQueue, leftIter, rightIter, mergedList>>
  BY DEF AppendTop
<1>3. Runs(runIterList) /\ sortIntoMe \in Seq(Records)
      /\ \A i, j \in DOMAIN sortIntoMe : sortIntoMe[i] = sortIntoMe[j] => i = j
  BY DEF IInv, Standing
<1>4. Stands(it)
  BY <1>3 DEF Runs
<1>5. PICK r : r = Current(it)
  OBVIOUS
<1>6. r \in Records /\ SizesRead(it) = {1}
  BY <1>4, <1>5, StandsAtLeast
<1>7. runIterList' = (runIterList \ {it}) \cup Back(it, 1) /\ sortIntoMe' = Append(sortIntoMe, r)
  BY <1>1, <1>5, <1>6
<1>8. /\ Runs(runIterList') /\ Running(runIterList') = Running(runIterList) \ {r}
      /\ r \in Running(runIterList)
  BY <1>3, <1>5, <1>7, RunRead
<1>9. sortIntoMe' \in Seq(Records) /\ ToSet(sortIntoMe') = ToSet(sortIntoMe) \cup {r}
  BY <1>3, <1>6, <1>7, AppendedSet
<1>10. r \notin ToSet(sortIntoMe)
  BY <1>8 DEF IInv, EachSomewhere, Parted
<1>11. ASSUME NEW i \in DOMAIN sortIntoMe', NEW j \in DOMAIN sortIntoMe', sortIntoMe'[i] = sortIntoMe'[j]
       PROVE  i = j
  <2>1. /\ Len(sortIntoMe) \in Nat /\ DOMAIN sortIntoMe = 1 .. Len(sortIntoMe)
        /\ Len(sortIntoMe') = Len(sortIntoMe) + 1 /\ DOMAIN sortIntoMe' = 1 .. Len(sortIntoMe')
        /\ \A n \in 1 .. Len(sortIntoMe) : sortIntoMe'[n] = sortIntoMe[n]
        /\ sortIntoMe'[Len(sortIntoMe) + 1] = r
    BY <1>3, <1>6, <1>7, <1>9, LenProperties, AppendProperties
  <2>2. \A n \in 1 .. Len(sortIntoMe) : sortIntoMe[n] # r
    BY <1>10, <2>1 DEF ToSet
  <2>3. CASE i \in 1 .. Len(sortIntoMe) /\ j \in 1 .. Len(sortIntoMe)
    BY <1>3, <1>11, <2>1, <2>3
  <2>4. CASE i \notin 1 .. Len(sortIntoMe) \/ j \notin 1 .. Len(sortIntoMe)
    BY <1>11, <2>1, <2>2, <2>4
  <2> QED BY <2>3, <2>4
<1>12. Looping'
  BY <1>2 DEF IInv, Looping, NumPages, RunEnd
<1>13. Standing'
  BY <1>2, <1>8, <1>9, <1>11 DEF IInv, Standing
<1>14. Merging'
  BY <1>2 DEF IInv, Merging
<1>15. EachSomewhere'
  BY <1>2, <1>8, <1>9 DEF IInv, EachSomewhere, Parted
<1> QED
  BY <1>12, <1>13, <1>14, <1>15 DEF IInv

(* The sort returns when no run is left.                                   *)
LEMMA FinishKeeps ==
    ASSUME IInv, Finish
    PROVE  IInv'
BY DEF Finish, IInv, Looping, Standing, Merging, EachSomewhere, NumPages, RunEnd

(* A step that changes nothing, and every step of the sort.                *)
LEMMA StutterKeeps ==
    ASSUME IInv, UNCHANGED vars
    PROVE  IInv'
BY DEF vars, IInv, Looping, Standing, Merging, Merged, EachSomewhere, NumPages, RunEnd

(* Every step keeps the invariant.                                         *)
LEMMA NextKeeps == IInv /\ [Next]_vars => IInv'
BY SortPageKeeps, BeginMergeKeeps, MergeLeftKeeps, MergeRightKeeps, EndMergeKeeps, EndRunKeeps,
   AppendTopKeeps, FinishKeeps, StutterKeeps DEF Next

(* The inductive invariant holds in every state of the sort.               *)
LEMMA Invariant == Spec => []IInv
BY InitInvariant, NextKeeps, PTL DEF Spec

-----------------------------------------------------------------------------
(* Every list that waits for a merge is in order, and what a merge gave so *)
(* far comes before all that is still to be merged (Sorting.h:29-31), for  *)
(* all tables, run sizes and page sizes.                                   *)
THEOREM EachListInOrder == Spec => []ListsInOrder
<1>1. IInv => ListsInOrder
  <2> SUFFICES ASSUME IInv
               PROVE  ListsInOrder
    OBVIOUS
  <2>1. \A it : Proper(it) => InOrder(it)
    BY OrderedIs, EndedHoldsNothing DEF Proper, Stands
  <2>2. \A n \in DOMAIN pageQueue : InOrder(pageQueue[n])
    BY <2>1 DEF IInv, Standing, Queue, Proper
  <2>3. \A it \in runIterList \cup {leftIter, rightIter} : InOrder(it)
    BY <2>1 DEF IInv, Standing, Runs, Proper
  <2>4. ASSUME phase = "merge"
        PROVE  /\ InOrder(Iterator(mergedList))
               /\ \A m \in Contents(mergedList), it \in {leftIter, rightIter} \ {Ended} :
                     m.key <= Current(it).key
    BY <2>4, WhileMerging, OrderedIs DEF NotAhead
  <2> QED BY <2>2, <2>3, <2>4 DEF ListsInOrder
<1> QED
  BY <1>1, Invariant, PTL

(* The records that came out are those of the output table.                *)
LEMMA Remaining ==
    ASSUME IInv
    PROVE  {sortIntoMe[n] : n \in DOMAIN sortIntoMe} = ToSet(sortIntoMe)
BY DEF ToSet

(* Writing the top of the queue emits a least of the records to come; no   *)
(* other step changes what came out or is to come.                         *)
LEMMA StepEmits ==
    ASSUME IInv, [Next]_vars
    PROVE  [Sorting!Emit]_<<Contents(sortMe) \ ToSet(sortIntoMe), sortIntoMe>>
<1>1. CASE AppendTop
  <2>1. PICK it \in runIterList :
           /\ Top(it) /\ sortIntoMe' = Append(sortIntoMe, Current(it))
    BY <1>1 DEF AppendTop
  <2>2. phase = "file" /\ UNCHANGED sortMe
    BY <1>1 DEF AppendTop
  <2>3. Stands(it) /\ sortIntoMe \in Seq(Records)
    BY DEF IInv, Standing, Runs
  <2>4. PICK r : r = Current(it)
    OBVIOUS
  <2>5. r \in Records /\ r \in Held(it) /\ r.key \in Int
    BY <2>3, <2>4, StandsAtLeast, KeysOfRecords
  <2>6. Contents(sortMe) \ ToSet(sortIntoMe) = Running(runIterList)
    BY <2>2, AllInRuns
  <2>7. r \in Running(runIterList)
    BY <2>5 DEF Running
  <2>8. ASSUME NEW s \in Running(runIterList)
        PROVE  r.key <= s.key
    <3>1. PICK other \in runIterList : s \in Held(other)
      BY DEF Running
    <3>2. Stands(other)
      BY DEF IInv, Standing, Runs
    <3>3. Current(other).key <= s.key /\ s.key \in Int /\ Current(other).key \in Int
      BY <3>1, <3>2, StandsAtLeast, KeysOfRecords
    <3>4. r.key <= Current(other).key
      BY <2>1, <2>4 DEF Top
    <3> QED BY <2>5, <3>3, <3>4
  <2>9. sortIntoMe' = Append(sortIntoMe, r) /\ ToSet(sortIntoMe') = ToSet(sortIntoMe) \cup {r}
    BY <2>1, <2>3, <2>4, <2>5, AppendedSet
  <2>10. (Contents(sortMe) \ ToSet(sortIntoMe))' = (Contents(sortMe) \ ToSet(sortIntoMe)) \ {r}
    BY <2>2, <2>9
  <2> QED BY <2>6, <2>7, <2>8, <2>9, <2>10 DEF Sorting!Emit, ToSet
<1>2. CASE SortPage
  <2>1. /\ sortMe \in Lists /\ Full(sortMe) /\ Apart(sortMe) /\ next \in DOMAIN sortMe
    BY <1>2, InLists DEF IInv, Looping, SortPage, RunEnd, NumPages
  <2>2. PICK new : new = sortMe'
    OBVIOUS
  <2>3. OneSorted(new, sortMe, next)
    BY <1>2, <2>2 DEF SortPage, OneSorted
  <2>4. Contents(new) = Contents(sortMe)
    BY <2>1, <2>3, PageTaken
  <2> QED BY <1>2, <2>2, <2>4 DEF SortPage
<1>3. CASE BeginMerge \/ MergeLeft \/ MergeRight \/ EndMerge \/ EndRun \/ Finish \/ UNCHANGED vars
  BY <1>3 DEF BeginMerge, MergeLeft, MergeRight, EndMerge, EndRun, Finish, vars
<1> QED
  BY <1>1, <1>2, <1>3 DEF Next

(* The sort implements SortSpec but for its fairness: the records come out *)
(* each once, a least one of those to come at a time, for all tables, run  *)
(* sizes and page sizes (what Sorting.h:10-12 promises of sort).           *)
THEOREM ImplementsSorting == Spec => Sorting!Steps
<1>1. IInv => {sortIntoMe[n] : n \in DOMAIN sortIntoMe} = ToSet(sortIntoMe)
  BY Remaining
<1>2. Init => Sorting!Init
  <2> SUFFICES ASSUME Init
               PROVE  Sorting!Init
    OBVIOUS
  <2>1. Contents(sortMe) \subseteq Records
    BY InitInvariant, ContentsAreRecords DEF IInv, Looping
  <2> QED BY <2>1 DEF Init, Sorting!Init
<1>3. IInv /\ [Next]_vars =>
         [Sorting!Emit]_<<Contents(sortMe) \ {sortIntoMe[n] : n \in DOMAIN sortIntoMe}, sortIntoMe>>
  BY StepEmits DEF ToSet
<1> QED
  BY <1>2, <1>3, Invariant, PTL DEF Spec, Sorting!Steps

-----------------------------------------------------------------------------
(* Counting places: the last component of a place is the record there.  A  *)
(* set of places marks a set of records when each of them is at one place  *)
(* and there are no others.                                                *)
Marks(places, S) ==
    /\ \A x \in places : x[4] \in S
    /\ \A x, y \in places : x[4] = y[4] => x = y
    /\ \A r \in S : \E x \in places : x[4] = r

(* Two such sets make one when no record is in both.                       *)
LEMMA MarksJoined ==
    ASSUME NEW P, NEW Q, NEW S, NEW T, Marks(P, S), Marks(Q, T), S \cap T = {}
    PROVE  Marks(P \cup Q, S \cup T)
BY DEF Marks

(* All the sets of a family.                                               *)
AllOf(sets, I) == UNION {sets[i] : i \in I}

(* So do any number of them.                                               *)
LEMMA MarksOfMany ==
    ASSUME NEW I, NEW P, NEW S, \A i \in I : Marks(P[i], S[i]),
           \A i, j \in I : \A r : r \in S[i] /\ r \in S[j] => i = j
    PROVE  Marks(AllOf(P, I), AllOf(S, I))
<1>1. \A x \in UNION {P[i] : i \in I} : x[4] \in UNION {S[i] : i \in I}
  BY DEF Marks
<1>2. ASSUME NEW x, NEW y, NEW i \in I, NEW j \in I, x \in P[i], y \in P[j], x[4] = y[4]
      PROVE  x = y
  <2>1. x[4] \in S[i] /\ y[4] \in S[j]
    BY <1>2 DEF Marks
  <2>2. i = j
    BY <1>2, <2>1
  <2> QED BY <1>2, <2>2 DEF Marks
<1>3. \A r \in UNION {S[i] : i \in I} : \E x \in UNION {P[i] : i \in I} : x[4] = r
  <2> SUFFICES ASSUME NEW i \in I, NEW r \in S[i]
               PROVE  \E x \in UNION {P[j] : j \in I} : x[4] = r
    OBVIOUS
  <2>1. PICK x \in P[i] : x[4] = r
    BY DEF Marks
  <2> QED BY <2>1
<1> QED
  BY <1>1, <1>2, <1>3 DEF Marks, AllOf

(* The places of a list, one by one.                                       *)
LEMMA OnPagesAre ==
    ASSUME NEW name, NEW list, NEW x
    PROVE  x \in OnPages(name, list) <=>
              \E p, s : Cell(list, p, s) /\ x = <<name, p, s, list[p][s]>>
BY DEF OnPages, Cell

(* The places ahead of an iterator, one by one.                            *)
LEMMA OnIteratorAre ==
    ASSUME NEW name, NEW it, NEW x
    PROVE  x \in OnIterator(name, it) <=>
              \E p, s : IsAhead(it, p, s) /\ x = <<name, p, s, it.pages[p][s]>>
<1>1. ASSUME x \in OnIterator(name, it)
      PROVE  \E p, s : IsAhead(it, p, s) /\ x = <<name, p, s, it.pages[p][s]>>
  <2>1. PICK y \in Ahead(it) : x = <<name, y[1], y[2], At(it, y)>>
    BY <1>1 DEF OnIterator
  <2>2. PICK p, s : IsAhead(it, p, s) /\ y = <<p, s>>
    BY AheadIs
  <2>3. y[1] = p /\ y[2] = s
    BY <2>2
  <2> QED BY <2>1, <2>2, <2>3 DEF At
<1>2. ASSUME NEW p, NEW s, IsAhead(it, p, s), x = <<name, p, s, it.pages[p][s]>>
      PROVE  x \in OnIterator(name, it)
  <2>1. PICK y : y = <<p, s>>
    OBVIOUS
  <2>2. y[1] = p /\ y[2] = s /\ y \in Ahead(it)
    BY <1>2, <2>1, AheadIs
  <2> QED BY <1>2, <2>2 DEF OnIterator, At
<1> QED
  BY <1>1, <1>2

(* The places of a list, from one page on, mark its records.               *)
LEMMA PagesMark ==
    ASSUME NEW name, NEW list, Apart(list)
    PROVE  /\ Marks(OnPages(name, list), Contents(list))
           /\ \A from : Marks({x \in OnPages(name, list) : x[2] >= from}, Unsorted(list, from))
<1>1. ASSUME NEW x \in OnPages(name, list)
      PROVE  \E p, s : /\ Cell(list, p, s) /\ x = <<name, p, s, list[p][s]>>
                       /\ x[2] = p /\ x[4] = list[p][s]
  <2>1. PICK p, s : Cell(list, p, s) /\ x = <<name, p, s, list[p][s]>>
    BY OnPagesAre
  <2>2. x[2] = p /\ x[4] = list[p][s]
    BY <2>1
  <2> QED BY <2>1, <2>2
<1>2. ASSUME NEW p, NEW s, Cell(list, p, s)
      PROVE  \E x \in OnPages(name, list) : x[2] = p /\ x[4] = list[p][s]
  <2>1. PICK x : x = <<name, p, s, list[p][s]>>
    OBVIOUS
  <2>2. x[2] = p /\ x[4] = list[p][s] /\ x \in OnPages(name, list)
    BY <1>2, <2>1, OnPagesAre
  <2> QED BY <2>2
<1>3. \A x, y \in OnPages(name, list) : x[4] = y[4] => x = y
  <2> SUFFICES ASSUME NEW x \in OnPages(name, list), NEW y \in OnPages(name, list), x[4] = y[4]
               PROVE  x = y
    OBVIOUS
  <2>1. PICK p, s : Cell(list, p, s) /\ x = <<name, p, s, list[p][s]>> /\ x[4] = list[p][s]
    BY <1>1
  <2>2. PICK q, t : Cell(list, q, t) /\ y = <<name, q, t, list[q][t]>> /\ y[4] = list[q][t]
    BY <1>1
  <2>3. list[p][s] = list[q][t]
    BY <2>1, <2>2
  <2>4. p = q /\ s = t
    BY <2>1, <2>2, <2>3 DEF Apart, Cell
  <2> QED BY <2>1, <2>2, <2>4
<1>4. Marks(OnPages(name, list), Contents(list))
  <2>1. \A x \in OnPages(name, list) : x[4] \in Contents(list)
    BY <1>1, ContentsAre
  <2>2. \A r \in Contents(list) : \E x \in OnPages(name, list) : x[4] = r
    BY <1>2, ContentsAre
  <2> QED BY <1>3, <2>1, <2>2 DEF Marks
<1>5. ASSUME NEW from
      PROVE  Marks({x \in OnPages(name, list) : x[2] >= from}, Unsorted(list, from))
  <2>1. \A x \in OnPages(name, list) : x[2] >= from => x[4] \in Unsorted(list, from)
    BY <1>1, UnsortedAre
  <2>2. \A r \in Unsorted(list, from) : \E x \in OnPages(name, list) : x[2] >= from /\ x[4] = r
    BY <1>2, UnsortedAre
  <2> QED BY <1>3, <2>1, <2>2 DEF Marks
<1> QED
  BY <1>4, <1>5

(* The places ahead of an iterator mark the records it has not left.       *)
LEMMA IteratorMarks ==
    ASSUME NEW name, NEW it, Proper(it)
    PROVE  Marks(OnIterator(name, it), Held(it))
<1>1. ASSUME NEW x \in OnIterator(name, it)
      PROVE  \E p, s : /\ IsAhead(it, p, s) /\ x = <<name, p, s, it.pages[p][s]>>
                       /\ x[4] = it.pages[p][s]
  <2>1. PICK p, s : IsAhead(it, p, s) /\ x = <<name, p, s, it.pages[p][s]>>
    BY OnIteratorAre
  <2>2. x[4] = it.pages[p][s]
    BY <2>1
  <2> QED BY <2>1, <2>2
<1>2. ASSUME NEW p, NEW s, IsAhead(it, p, s)
      PROVE  \E x \in OnIterator(name, it) : x[4] = it.pages[p][s]
  <2>1. PICK x : x = <<name, p, s, it.pages[p][s]>>
    OBVIOUS
  <2>2. x[4] = it.pages[p][s] /\ x \in OnIterator(name, it)
    BY <1>2, <2>1, OnIteratorAre
  <2> QED BY <2>2
<1>3. ASSUME NEW p, NEW s, IsAhead(it, p, s)
      PROVE  Cell(it.pages, p, s) /\ Apart(it.pages)
  <2>1. it # Ended
    BY <1>3 DEF IsAhead, Ended
  <2>2. Stands(it)
    BY <2>1 DEF Proper
  <2>3. it.pages \in Lists /\ it.page \in Nat /\ it.page \in 1 .. Len(it.pages) /\ Apart(it.pages)
    BY <2>2 DEF Stands
  <2> QED BY <1>3, <2>3, InLists DEF IsAhead, Cell
<1>4. \A x, y \in OnIterator(name, it) : x[4] = y[4] => x = y
  <2> SUFFICES ASSUME NEW x \in OnIterator(name, it), NEW y \in OnIterator(name, it), x[4] = y[4]
               PROVE  x = y
    OBVIOUS
  <2>1. PICK p, s : IsAhead(it, p, s) /\ x = <<name, p, s, it.pages[p][s]>> /\ x[4] = it.pages[p][s]
    BY <1>1
  <2>2. PICK q, t : IsAhead(it, q, t) /\ y = <<name, q, t, it.pages[q][t]>> /\ y[4] = it.pages[q][t]
    BY <1>1
  <2>3. it.pages[p][s] = it.pages[q][t]
    BY <2>1, <2>2
  <2>4. p = q /\ s = t
    BY <1>3, <2>1, <2>2, <2>3 DEF Apart, Cell
  <2> QED BY <2>1, <2>2, <2>4
<1>5. \A x \in OnIterator(name, it) : x[4] \in Held(it)
  BY <1>1, HeldIs
<1>6. \A r \in Held(it) : \E x \in OnIterator(name, it) : x[4] = r
  BY <1>2, HeldIs
<1> QED
  BY <1>4, <1>5, <1>6 DEF Marks

(* A set of records on pages is finite.                                    *)
LEMMA FiniteContents ==
    ASSUME NEW list \in Lists
    PROVE  IsFiniteSet(Contents(list))
<1> DEFINE flat == FlattenSeq(list)
<1>1. flat \in Seq(Records) /\ ToSet(flat) = UNION {ToSet(list[p]) : p \in DOMAIN list}
  BY Flattened DEF Lists
<1>2. Contents(list) = ToSet(flat)
  BY <1>1 DEF Contents, ToSet
<1> HIDE DEF flat
<1>3. Len(flat) \in Nat /\ DOMAIN flat = 1 .. Len(flat) /\ IsFiniteSet(1 .. Len(flat))
  BY <1>1, LenProperties, FS_Interval
<1>4. flat \in Surjection(1 .. Len(flat), ToSet(flat))
  <2>1. flat \in [1 .. Len(flat) -> ToSet(flat)]
    BY <1>1, <1>3, LenProperties DEF ToSet
  <2>2. \A r \in ToSet(flat) : \E n \in 1 .. Len(flat) : flat[n] = r
    BY <1>3 DEF ToSet
  <2> QED BY <2>1, <2>2 DEF Surjection
<1> QED
  BY <1>2, <1>3, <1>4, FS_Surjection

(* Between any two rounds of any of the loops each record of the table is  *)
(* in exactly one place: on a page not sorted yet, on a page an iterator   *)
(* has not left, in the list being merged, or in the output; for all       *)
(* tables, run sizes and page sizes.                                       *)
THEOREM NoRecordIsLost == Spec => []EachInOnePlace
<1>1. ASSUME IInv
      PROVE  EachInOnePlace
  <2> DEFINE unsorted == {x \in OnPages(<<"page", 0>>, sortMe) : x[2] >= next}
             queued == UNION {OnIterator(<<"queue", n>>, pageQueue[n]) : n \in DOMAIN pageQueue}
             lefts == OnIterator(<<"left", 0>>, leftIter)
             rights == OnIterator(<<"right", 0>>, rightIter)
             merged == OnPages(<<"merged", 0>>, mergedList)
             running == UNION {OnIterator(<<"run", it>>, it) : it \in runIterList}
             written == OnPages(<<"out", 0>>, <<sortIntoMe>>)
  <2>1. Places = unsorted \cup queued \cup lefts \cup rights \cup merged \cup running \cup written
    BY DEF Places
  <2>2. Marks(unsorted, Unsorted(sortMe, next))
    BY <1>1, PagesMark DEF IInv, Looping
  <2>3. Marks(merged, Contents(mergedList))
    BY <1>1, PagesMark DEF IInv, Merging
  <2>4. Marks(written, ToSet(sortIntoMe))
    <3>1. Contents(<<sortIntoMe>>) = ToSet(sortIntoMe)
      BY DEF Contents, ToSet
    <3>2. Apart(<<sortIntoMe>>)
      BY <1>1 DEF IInv, Standing, Apart
    <3> QED BY <3>1, <3>2, PagesMark
  <2>5. Marks(lefts, Held(leftIter)) /\ Marks(rights, Held(rightIter))
    BY <1>1, IteratorMarks DEF IInv, Standing
  <2>6. Marks(queued, Queued(pageQueue))
    <3>1. \A n \in DOMAIN pageQueue : Marks(OnIterator(<<"queue", n>>, pageQueue[n]), Held(pageQueue[n]))
      BY <1>1, IteratorMarks DEF IInv, Standing, Queue, Proper
    <3>2. \A m, n \in DOMAIN pageQueue : \A r :
             r \in Held(pageQueue[m]) /\ r \in Held(pageQueue[n]) => m = n
      BY <1>1 DEF IInv, Standing, Queue
    <3> DEFINE P == [n \in DOMAIN pageQueue |-> OnIterator(<<"queue", n>>, pageQueue[n])]
               S == [n \in DOMAIN pageQueue |-> Held(pageQueue[n])]
               I == DOMAIN pageQueue
    <3>3. /\ \A i \in I : Marks(P[i], S[i])
          /\ \A i, j \in I : \A r : r \in S[i] /\ r \in S[j] => i = j
      BY <3>1, <3>2
    <3>4. queued = AllOf(P, I) /\ Queued(pageQueue) = AllOf(S, I)
      BY DEF Queued, AllOf
    <3> HIDE DEF P, S, I, queued
    <3> QED BY <3>3, <3>4, MarksOfMany
  <2>7. Marks(running, Running(runIterList))
    <3>1. \A it \in runIterList : Marks(OnIterator(<<"run", it>>, it), Held(it))
      BY <1>1, IteratorMarks DEF IInv, Standing, Runs, Proper
    <3>2. \A it, other \in runIterList : \A r : r \in Held(it) /\ r \in Held(other) => it = other
      BY <1>1 DEF IInv, Standing, Runs
    <3> DEFINE P == [it \in runIterList |-> OnIterator(<<"run", it>>, it)]
               S == [it \in runIterList |-> Held(it)]
    <3>3. /\ \A it \in runIterList : Marks(P[it], S[it])
          /\ \A it, other \in runIterList : \A r : r \in S[it] /\ r \in S[other] => it = other
      BY <3>1, <3>2
    <3>4. /\ running = AllOf(P, runIterList)
          /\ Running(runIterList) = AllOf(S, runIterList)
      BY DEF Running, AllOf
    <3> HIDE DEF P, S, running
    <3> QED BY <3>3, <3>4, MarksOfMany
  <2> HIDE DEF unsorted, queued, lefts, rights, merged, running, written
  <2>8. Marks(Places, Contents(sortMe))
    <3> DEFINE f6 == Running(runIterList) \cup ToSet(sortIntoMe)
               f5 == Contents(mergedList) \cup f6
               f4 == Held(rightIter) \cup f5
               f3 == Held(leftIter) \cup f4
               f2 == Queued(pageQueue) \cup f3
               p6 == running \cup written
               p5 == merged \cup p6
               p4 == rights \cup p5
               p3 == lefts \cup p4
               p2 == queued \cup p3
    <3>1. Parted(Contents(sortMe), Unsorted(sortMe, next), Queued(pageQueue), Held(leftIter),
                 Held(rightIter), Contents(mergedList), Running(runIterList), ToSet(sortIntoMe))
      BY <1>1 DEF IInv, EachSomewhere
    <3>2. Marks(p6, f6)
      BY <2>4, <2>7, <3>1, MarksJoined DEF Parted
    <3>3. Contents(mergedList) \cap f6 = {} /\ Held(rightIter) \cap f5 = {} /\ Held(leftIter) \cap f4 = {}
          /\ Queued(pageQueue) \cap f3 = {} /\ Unsorted(sortMe, next) \cap f2 = {}
          /\ Contents(sortMe) = Unsorted(sortMe, next) \cup f2
      BY <3>1 DEF Parted
    <3>4. Places = unsorted \cup p2
      BY <2>1
    <3> HIDE DEF f6, p6
    <3>5. Marks(p5, f5)
      BY <2>3, <3>2, <3>3, MarksJoined
    <3> HIDE DEF f5, p5
    <3>6. Marks(p4, f4)
      BY <2>5, <3>3, <3>5, MarksJoined
    <3> HIDE DEF f4, p4
    <3>7. Marks(p3, f3)
      BY <2>5, <3>3, <3>6, MarksJoined
    <3> HIDE DEF f3, p3
    <3>8. Marks(p2, f2)
      BY <2>6, <3>3, <3>7, MarksJoined
    <3> HIDE DEF f2, p2
    <3> QED BY <2>2, <3>3, <3>4, <3>8, MarksJoined
  <2>9. {x[4] : x \in Places} = Contents(sortMe)
    BY <2>8 DEF Marks
  <2>10. Cardinality(Places) = Cardinality(Contents(sortMe))
    <3> DEFINE f == [x \in Places |-> x[4]]
    <3>1. f \in [Places -> Contents(sortMe)] /\ (\A x, y \in Places : f[x] = f[y] => x = y)
          /\ \A r \in Contents(sortMe) : \E x \in Places : f[x] = r
      BY <2>8 DEF Marks
    <3> HIDE DEF f
    <3>2. f \in Bijection(Places, Contents(sortMe))
      BY <3>1 DEF Bijection, Injection, Surjection, IsInjective
    <3>3. ExistsBijection(Contents(sortMe), Places)
      BY <3>2, Fun_ExistsBijSymmetric DEF ExistsBijection
    <3>4. IsFiniteSet(Contents(sortMe))
      BY <1>1, FiniteContents DEF IInv, Looping
    <3> QED BY <3>3, <3>4, FS_Bijection
  <2>11. \A p \in DOMAIN mergedList : Len(mergedList[p]) <= PageCapacity
    BY <1>1 DEF IInv, Merging
  <2> QED BY <2>9, <2>10, <2>11 DEF EachInOnePlace
<1> QED
  BY <1>1, Invariant, PTL

=============================================================================
