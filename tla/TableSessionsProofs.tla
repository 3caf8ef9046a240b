------------------------- MODULE TableSessionsProofs -------------------------
(***************************************************************************)
(* Proofs about a table over several sessions, for any capacity of a page, *)
(* any number of pages, records, statements and crashes: what is read from *)
(* a table, that a catalog file reads back as the map that was saved, and  *)
(* what the files hold after a crash and after an orderly end.             *)
(***************************************************************************)
EXTENDS TableSessions, SequenceLemmas

-----------------------------------------------------------------------------
(* The pages low to high hold sequences of records.                        *)
Holding(pages, low, high, S) == \A p \in low .. high : pages[p] \in Seq(S)

(* The records on the pages low to high: none if there is no page.         *)
LEMMA BetweenNone ==
    ASSUME NEW low \in Nat, NEW high \in Int, high < low, NEW pages
    PROVE  Between(low, high, pages) = << >>
<1>1. 1 .. high - low + 1 = {}
  OBVIOUS
<1>2. [n \in 1 .. high - low + 1 |-> pages[low + n - 1]] = << >>
  BY <1>1
<1>3. FlattenSeq(<< >>) = << >>
  BY DEF FlattenSeq
<1> QED
  BY <1>2, <1>3 DEF Between

(* The records on the pages low to high: with the last page its records    *)
(* come behind those before it.                                            *)
LEMMA BetweenLast ==
    ASSUME NEW S, NEW low \in Nat, NEW high \in Int, NEW pages,
           Holding(pages, low, high, S)
    PROVE  /\ Between(low, high, pages) \in Seq(S)
           /\ low <= high => Between(low, high, pages) = Between(low, high - 1, pages) \o pages[high]
<1> DEFINE seqs(h) == [n \in 1 .. h - low + 1 |-> pages[low + n - 1]]
<1>1. ASSUME NEW h \in Int, low <= h + 1, h <= high
      PROVE  /\ seqs(h) \in Seq(Seq(S)) /\ Len(seqs(h)) = h - low + 1
             /\ \A n \in 1 .. h - low + 1 : seqs(h)[n] = pages[low + n - 1]
  <2>1. h - low + 1 \in Nat /\ \A n \in 1 .. h - low + 1 : low + n - 1 \in low .. high
    BY <1>1
  <2>2. seqs(h) \in [1 .. h - low + 1 -> Seq(S)]
    BY <2>1 DEF Holding
  <2> PICK s : s = seqs(h)
    OBVIOUS
  <2>3. s \in Seq(Seq(S)) /\ Len(s) = h - low + 1
    <3>1. /\ h - low + 1 \in Nat /\ s \in [1 .. h - low + 1 -> Seq(S)]
      BY <2>1, <2>2
    <3> HIDE DEF seqs
    <3> PICK k \in Nat : k = h - low + 1
      BY <3>1
    <3> QED BY <3>1, LenProperties, IsASeq
  <2> QED BY <2>1, <2>3
<1>2. CASE high < low
  <2>1. Between(low, high, pages) = << >> /\ << >> \in Seq(S)
    BY <1>2, BetweenNone
  <2>2. ~ (low <= high)
    BY <1>2
  <2> QED BY <2>1, <2>2
<1>3. CASE low <= high
  <2>1. low <= (high - 1) + 1 /\ high - 1 <= high /\ low <= high + 1 /\ high <= high /\ high - 1 \in Int
    BY <1>3
  <2> PICK short, long : short = seqs(high - 1) /\ long = seqs(high)
    OBVIOUS
  <2>2. /\ short \in Seq(Seq(S)) /\ Len(short) = (high - 1) - low + 1
        /\ \A n \in 1 .. (high - 1) - low + 1 : short[n] = pages[low + n - 1]
    BY <1>1, <2>1
  <2>3. /\ long \in Seq(Seq(S)) /\ Len(long) = high - low + 1
        /\ \A n \in 1 .. high - low + 1 : long[n] = pages[low + n - 1]
    BY <1>1, <2>1
  <2> HIDE DEF seqs
  <2>4. Len(long) = Len(short) + 1 /\ Len(long) \in 1 .. high - low + 1 /\ low + Len(long) - 1 = high
    <3>1. high - low + 1 = ((high - 1) - low + 1) + 1 /\ low + (high - low + 1) - 1 = high
      OBVIOUS
    <3>2. high - low + 1 \in 1 .. high - low + 1
      BY <1>3
    <3> QED BY <2>2, <2>3, <3>1, <3>2
  <2>5. long[Len(long)] = pages[high] /\ \A i \in 1 .. Len(short) : long[i] = short[i]
    <3>1. \A i \in 1 .. Len(short) : i \in 1 .. (high - 1) - low + 1 /\ i \in 1 .. high - low + 1
      BY <1>3, <2>2
    <3> QED BY <2>2, <2>3, <2>4, <3>1
  <2>6. pages[high] \in Seq(S)
    BY <1>3 DEF Holding
  <2>7. FlattenSeq(long) = FlattenSeq(short) \o pages[high]
    BY <2>2, <2>3, <2>4, <2>5, <2>6, FlattenedLast, ZenonT(60)
  <2>8. FlattenSeq(long) \in Seq(S)
    BY <2>3, Flattened
  <2>9. /\ Between(low, high, pages) = FlattenSeq(long)
        /\ Between(low, high - 1, pages) = FlattenSeq(short)
    BY DEF Between, seqs
  <2> PICK b, c : b = Between(low, high, pages) /\ c = Between(low, high - 1, pages)
    OBVIOUS
  <2>10. b = c \o pages[high] /\ b \in Seq(S)
    BY <2>7, <2>8, <2>9, Zenon
  <2>11. ~ (high < low)
    BY <1>3
  <2> QED BY <2>10, <2>11
<1> HIDE DEF seqs
<1>4. high < low \/ low <= high
  OBVIOUS
<1> QED
  BY <1>2, <1>3, <1>4

(* Pages that are the same hold the same records.                          *)
LEMMA BetweenSame ==
    ASSUME NEW low \in Nat, NEW high \in Int, NEW pages, NEW others,
           \A p \in low .. high : pages[p] = others[p]
    PROVE  Between(low, high, pages) = Between(low, high, others)
<1>1. \A n \in 1 .. high - low + 1 : low + n - 1 \in low .. high
  OBVIOUS
<1>2. [n \in 1 .. high - low + 1 |-> pages[low + n - 1]] = [n \in 1 .. high - low + 1 |-> others[low + n - 1]]
  BY <1>1
<1> QED
  BY <1>2 DEF Between

(* And with the first page its records before those behind it.             *)
FirstIsBefore(low, high, pages) ==
    Between(low, high, pages) = pages[low] \o Between(low + 1, high, pages)

(* The first page of several can be read before the others.                *)
LEMMA BetweenFirst ==
    ASSUME NEW S, NEW low \in Nat, NEW high \in Nat, low <= high, NEW pages,
           Holding(pages, low, high, S)
    PROVE  FirstIsBefore(low, high, pages)
<1> DEFINE First(h) == Between(low, h, pages) = pages[low] \o Between(low + 1, h, pages)
<1>1. \A h \in low .. high : /\ h \in Int /\ low \in Nat /\ low + 1 \in Nat
                             /\ Holding(pages, low, h, S) /\ Holding(pages, low + 1, h, S)
                             /\ pages[h] \in Seq(S)
  BY DEF Holding
<1>2. First(low)
  <2>1. low \in low .. high /\ low <= low
    OBVIOUS
  <2>2. Between(low, low, pages) = Between(low, low - 1, pages) \o pages[low]
    BY <1>1, <2>1, BetweenLast
  <2>3. Between(low, low - 1, pages) = << >> /\ Between(low + 1, low, pages) = << >>
    <3>1. low - 1 < low /\ low < low + 1 /\ low - 1 \in Int /\ low + 1 \in Nat /\ low \in Int
      OBVIOUS
    <3> QED BY <3>1, BetweenNone
  <2>4. pages[low] \in Seq(S)
    BY <1>1, <2>1
  <2>5. pages[low] \o << >> = pages[low] /\ << >> \o pages[low] = pages[low]
    BY <2>4, ConcatEmptySeq
  <2> QED BY <2>2, <2>3, <2>5
<1>3. ASSUME NEW h \in low .. high, NEW g \in low .. high, h = g + 1, First(g)
      PROVE  First(h)
  <2>1. h - 1 = g /\ low <= h /\ low + 1 <= h /\ low \in low .. high
    BY <1>3
  <2> PICK short, long : short = Between(low + 1, g, pages) /\ long = Between(low + 1, h, pages)
    OBVIOUS
  <2>2. Between(low, h, pages) = Between(low, h - 1, pages) \o pages[h]
    BY <1>1, <2>1, BetweenLast, ZenonT(60)
  <2>3. long = short \o pages[h]
    BY <1>1, <2>1, BetweenLast, ZenonT(60)
  <2>4. short \in Seq(S)
    BY <1>1, BetweenLast
  <2>5. \A a, b, c \in Seq(S) : (a \o b) \o c = a \o (b \o c)
    <3> TAKE a, b, c \in Seq(S)
    <3> QED BY ConcatAssociative, SMTT(60), ZenonT(60)
  <2>6. (pages[low] \o short) \o pages[h] = pages[low] \o (short \o pages[h])
    <3>1. pages[low] \in Seq(S) /\ pages[h] \in Seq(S)
      BY <1>1, <2>1
    <3> QED BY <2>4, <2>5, <3>1, Zenon
  <2> QED BY <1>3, <2>1, <2>2, <2>3, <2>6
<1> HIDE DEF First
<1>4. \A h \in low .. high : First(h)
  <2> DEFINE T == {d \in Nat : low + d <= high => First(low + d)}
  <2>1. 0 \in T
    <3>1. low + 0 = low
      OBVIOUS
    <3> QED BY <1>2, <3>1
  <2>2. \A d \in Nat : d \in T => d + 1 \in T
    <3> SUFFICES ASSUME NEW d \in Nat, low + d <= high => First(low + d), low + (d + 1) <= high
                 PROVE  First(low + (d + 1))
      OBVIOUS
    <3>1. low + d \in low .. high /\ low + (d + 1) \in low .. high /\ low + (d + 1) = (low + d) + 1
      OBVIOUS
    <3> QED BY <1>3, <3>1
  <2>3. Nat \subseteq T
    <3> HIDE DEF T
    <3> QED BY <2>1, <2>2, SetInduction
  <2> TAKE h \in low .. high
  <2> PICK d \in Nat : low + d = h
    <3>1. h - low \in Nat /\ low + (h - low) = h
      OBVIOUS
    <3> QED BY <3>1
  <2>4. d \in T
    BY <2>3
  <2> QED BY <2>4
<1>5. high \in low .. high
  OBVIOUS
<1> QED
  BY <1>4, <1>5 DEF First, FirstIsBefore

(* The records of a table that ends on page n.                             *)
LEMMA VisibleLast ==
    ASSUME NEW S, NEW n \in Int, NEW pages, Holding(pages, 0, n, S)
    PROVE  /\ Visible(n, pages) \in Seq(S)
           /\ 0 <= n => Visible(n, pages) = Visible(n - 1, pages) \o pages[n]
           /\ n < 0 => Visible(n, pages) = << >>
<1> PICK low \in Nat : low = 0
  OBVIOUS
<1>1. Holding(pages, low, n, S)
  OBVIOUS
<1>2. /\ Between(low, n, pages) \in Seq(S)
      /\ low <= n => Between(low, n, pages) = Between(low, n - 1, pages) \o pages[n]
  BY <1>1, BetweenLast
<1>3. n < low => Between(low, n, pages) = << >>
  BY BetweenNone
<1> QED
  BY <1>2, <1>3 DEF Visible

(* Pages that are the same make the same table.                            *)
LEMMA VisibleSame ==
    ASSUME NEW n \in Int, NEW pages, NEW others, \A p \in 0 .. n : pages[p] = others[p]
    PROVE  Visible(n, pages) = Visible(n, others)
<1> PICK low \in Nat : low = 0
  OBVIOUS
<1>1. \A p \in low .. n : pages[p] = others[p]
  OBVIOUS
<1>2. Between(low, n, pages) = Between(low, n, others)
  BY <1>1, BetweenSame
<1> QED
  BY <1>2 DEF Visible

(* A table that ends earlier is the beginning of one that ends later.      *)
LEMMA VisiblePrefix ==
    ASSUME NEW S, NEW n \in Int, NEW m \in Int, -1 <= n, n <= m, NEW pages,
           Holding(pages, 0, m, S)
    PROVE  IsPrefix(Visible(n, pages), Visible(m, pages))
<1> DEFINE Begins(h) == IsPrefix(Visible(n, pages), Visible(h, pages))
<1>1. \A h \in n .. m : /\ h \in Int /\ 0 \in Nat /\ Holding(pages, 0, h, S)
                        /\ 0 <= h => pages[h] \in Seq(S)
  BY DEF Holding
<1>2. \A h \in n .. m : Visible(h, pages) \in Seq(S)
  BY <1>1, BetweenLast DEF Visible
<1>3. n \in n .. m /\ m \in n .. m
  OBVIOUS
<1>4. Begins(n)
  BY <1>2, <1>3, PrefixTransitive
<1>5. ASSUME NEW h \in n .. m, NEW g \in n .. m, h = g + 1, Begins(g)
      PROVE  Begins(h)
  <2>1. h - 1 = g /\ 0 <= h /\ pages[h] \in Seq(S)
    BY <1>1, <1>5
  <2>2. Visible(h, pages) = Visible(g, pages) \o pages[h]
    BY <1>1, <2>1, BetweenLast DEF Visible
  <2> PICK first, short : first = Visible(n, pages) /\ short = Visible(g, pages)
    OBVIOUS
  <2>3. first \in Seq(S) /\ short \in Seq(S) /\ short \o pages[h] \in Seq(S)
    BY <1>2, <1>3, <2>1, ConcatProperties
  <2>4. IsPrefix(short, short \o pages[h])
    BY <2>1, <2>3, PrefixOfConcat
  <2>5. IsPrefix(first, short \o pages[h])
    BY <1>5, <2>3, <2>4, PrefixTransitive
  <2> QED BY <2>2, <2>5
<1> HIDE DEF Begins
<1>6. \A h \in n .. m : Begins(h)
  <2> DEFINE T == {d \in Nat : n + d <= m => Begins(n + d)}
  <2>1. 0 \in T
    <3>1. n + 0 = n
      OBVIOUS
    <3> QED BY <1>4, <3>1
  <2>2. \A d \in Nat : d \in T => d + 1 \in T
    <3> SUFFICES ASSUME NEW d \in Nat, n + d <= m => Begins(n + d), n + (d + 1) <= m
                 PROVE  Begins(n + (d + 1))
      OBVIOUS
    <3>1. n + d \in n .. m /\ n + (d + 1) \in n .. m /\ n + (d + 1) = (n + d) + 1
      OBVIOUS
    <3> QED BY <1>5, <3>1
  <2>3. Nat \subseteq T
    <3> HIDE DEF T
    <3> QED BY <2>1, <2>2, SetInduction
  <2> TAKE h \in n .. m
  <2> PICK d \in Nat : n + d = h
    <3>1. h - n \in Nat /\ n + (h - n) = h
      OBVIOUS
    <3> QED BY <3>1
  <2>4. d \in T
    BY <2>3
  <2> QED BY <2>4
<1> QED
  BY <1>3, <1>6 DEF Begins

(* An iterator that goes on from page to page reads what is on the pages   *)
(* up to the one where it ends.                                            *)
LEMMA GoesOnReads ==
    ASSUME NEW S, NEW pages, NEW regular, NEW low \in Nat, NEW high \in Nat, NEW last \in Nat, NEW end \in Nat,
           end = (IF high <= last THEN high ELSE last), low <= end, low .. last \subseteq regular,
           Holding(pages, low, last, S), NEW advance, GoesOn(advance, pages, regular, low, high, last)
    PROVE  advance[low] = Between(low, end, pages)
<1> DEFINE Reads(p) == advance[p] = Between(p, end, pages)
<1>1. \A p \in low .. end : /\ p \in Nat /\ p <= end /\ pages[p] \in Seq(S) /\ Holding(pages, p, end, S)
                            /\ Between(p, end, pages) \in Seq(S)
  <2> TAKE p \in low .. end
  <2>1. /\ p \in Nat /\ p <= end /\ pages[p] \in Seq(S) /\ Holding(pages, p, end, S) /\ end \in Int
    BY DEF Holding
  <2> QED BY <2>1, BetweenLast
<1>2. \A p \in low .. end : advance[p] = pages[p] \o (IF p = end THEN << >> ELSE advance[p + 1])
  <2> TAKE p \in low .. end
  <2>1. p \in low .. last /\ (p = last \/ p = high <=> p = end) /\ p \in regular
    OBVIOUS
  <2> QED BY <2>1 DEF GoesOn, OwnRecords
<1>3. Reads(end)
  <2>1. end \in low .. end /\ Between(end, end, pages) = pages[end] \o Between(end + 1, end, pages)
    <3>1. end \in low .. end /\ end <= end
      OBVIOUS
    <3>2. Holding(pages, end, end, S)
      BY <1>1, <3>1
    <3>3. FirstIsBefore(end, end, pages)
      BY <3>1, <3>2, BetweenFirst
    <3> QED BY <3>1, <3>3 DEF FirstIsBefore
  <2>2. Between(end + 1, end, pages) = << >>
    <3>1. end + 1 \in Nat /\ end \in Int /\ end < end + 1
      OBVIOUS
    <3> QED BY <3>1, BetweenNone
  <2>3. advance[end] = pages[end] \o << >>
    BY <1>2, <2>1
  <2> QED BY <2>1, <2>2, <2>3
<1>4. ASSUME NEW p \in low .. end, NEW q \in low .. end, q = p + 1, Reads(q)
      PROVE  Reads(p)
  <2>1. Between(p, end, pages) = pages[p] \o Between(p + 1, end, pages)
    <3>1. p \in Nat /\ p <= end /\ Holding(pages, p, end, S)
      BY <1>1
    <3>2. FirstIsBefore(p, end, pages)
      BY <3>1, BetweenFirst
    <3> QED BY <3>2 DEF FirstIsBefore
  <2>2. p # end
    BY <1>4
  <2>3. advance[p] = pages[p] \o advance[p + 1]
    BY <1>2, <2>2
  <2> QED BY <1>4, <2>1, <2>3
<1> HIDE DEF Reads
<1> DEFINE T == {d \in Nat : low <= end - d => Reads(end - d)}
<1>5. 0 \in T
  <2>1. end - 0 = end
    OBVIOUS
  <2> QED BY <1>3, <2>1
<1>6. \A d \in Nat : d \in T => d + 1 \in T
  <2> SUFFICES ASSUME NEW d \in Nat, low <= end - d => Reads(end - d), low <= end - (d + 1)
               PROVE  Reads(end - (d + 1))
    OBVIOUS
  <2>1. end - d \in low .. end /\ end - (d + 1) \in low .. end /\ end - d = (end - (d + 1)) + 1
    OBVIOUS
  <2> QED BY <1>4, <2>1
<1>7. Nat \subseteq T
  <2> HIDE DEF T
  <2> QED BY <1>5, <1>6, SetInduction
<1> PICK d \in Nat : end - d = low
  <2>1. end - low \in Nat /\ end - (end - low) = low
    OBVIOUS
  <2> QED BY <2>1
<1>8. d \in T
  BY <1>7
<1> QED
  BY <1>8 DEF Reads

(* The iterator over the pages low to high.                                *)
LEMMA ScanAltReads ==
    ASSUME NEW S, NEW pages, NEW regular, NEW low \in Nat, NEW high \in Nat, NEW last \in Nat,
           low <= high, low <= last, low .. last \subseteq regular, Holding(pages, low, last, S)
    PROVE  ScanAlt(pages, regular, low, high, last) = Between(low, IF high <= last THEN high ELSE last, pages)
<1>1. PICK advance : /\ GoesOn(advance, pages, regular, low, high, last)
                     /\ ScanAlt(pages, regular, low, high, last) = advance[low]
  BY ScanGoesOn DEF Holding
<1> PICK end \in Nat : end = (IF high <= last THEN high ELSE last) /\ low <= end
  OBVIOUS
<1>2. advance[low] = Between(low, end, pages)
  BY <1>1, GoesOnReads
<1> QED
  BY <1>1, <1>2

(* The iterator over the whole table.                                      *)
LEMMA ScanReads ==
    ASSUME NEW S, NEW pages, NEW last \in Nat, Holding(pages, 0, last, S)
    PROVE  Scan(pages, last) = Visible(last, pages)
<1> DEFINE next[page \in 0 .. last + 1] ==
               IF page > last THEN << >> ELSE OnPage(pages[page]) \o next[page + 1]
           g == [page \in 0 .. last + 1 |-> Between(page, last, pages)]
<1>1. \A page \in 0 .. last : OnPage(pages[page]) = pages[page] /\ pages[page] \in Seq(S)
  BY OnPageReads DEF Holding
<1>2. ASSUME NEW page \in 0 .. last + 1
      PROVE  g[page] = IF page > last THEN << >> ELSE OnPage(pages[page]) \o g[page + 1]
  <2>1. page \in Nat /\ last \in Int /\ Holding(pages, page, last, S)
    BY DEF Holding
  <2>2. CASE page > last
    <3>1. last < page
      BY <2>2
    <3>2. Between(page, last, pages) = << >>
      BY <2>1, <3>1, BetweenNone
    <3> QED BY <2>2, <3>2
  <2>3. CASE ~ (page > last)
    <3>1. page <= last /\ page \in 0 .. last /\ page + 1 \in 0 .. last + 1
      BY <2>1, <2>3
    <3>2. Between(page, last, pages) = pages[page] \o Between(page + 1, last, pages)
      <4>1. FirstIsBefore(page, last, pages)
        BY <2>1, <3>1, BetweenFirst
      <4> QED BY <4>1 DEF FirstIsBefore
    <3> QED BY <1>1, <2>3, <3>1, <3>2
  <2> QED BY <2>2, <2>3
<1>3. g = [page \in 0 .. last + 1 |-> IF page > last THEN << >> ELSE OnPage(pages[page]) \o g[page + 1]]
  <2>1. g = [page \in 0 .. last + 1 |-> g[page]]
    OBVIOUS
  <2> HIDE DEF g
  <2> QED BY <1>2, <2>1, Zenon
<1>4. next = [page \in 0 .. last + 1 |-> IF page > last THEN << >> ELSE OnPage(pages[page]) \o next[page + 1]]
  <2> HIDE DEF g
  <2> QED BY <1>3
<1>5. Scan(pages, last) = next[0]
  BY DEF Scan
<1> HIDE DEF next, g
<1>6. GoesOn(next, pages, 0 .. last, 0, last, last)
  <2> SUFFICES ASSUME NEW page \in 0 .. last
               PROVE  next[page] = OwnRecords(pages, 0 .. last, page)
                                   \o (IF page = last THEN << >> ELSE next[page + 1])
    BY DEF GoesOn
  <2>1. page \in 0 .. last + 1 /\ ~ (page > last) /\ last + 1 \in 0 .. last + 1 /\ last + 1 > last
    OBVIOUS
  <2>2. next[page] = pages[page] \o next[page + 1] /\ next[last + 1] = << >>
    BY <1>1, <1>4, <2>1
  <2> QED BY <2>1, <2>2 DEF OwnRecords
<1>7. next[0] = Between(0, last, pages)
  <2>1. 0 \in Nat /\ last = (IF last <= last THEN last ELSE last) /\ 0 <= last /\ 0 .. last \subseteq 0 .. last
    OBVIOUS
  <2> QED BY <1>6, <2>1, GoesOnReads
<1> QED
  BY <1>5, <1>7 DEF Visible

-----------------------------------------------------------------------------
(* p is the first place, from a given one on, of a token in a text.        *)
FirstAt(token, text, from, p) ==
    /\ Len(text) \in Nat /\ from \in Nat /\ p \in from .. Len(text) - 1
    /\ text[p + 1] = token
    /\ \A q \in from .. p - 1 : text[q + 1] # token

(* find gives the first place there is.                                    *)
LEMMA FindFirst ==
    ASSUME NEW token, NEW text, NEW from, NEW p, FirstAt(token, text, from, p)
    PROVE  Find(token, text, from) = p
<1> DEFINE places == {q \in from .. Len(text) - 1 : text[q + 1] = token}
<1>1. p \in places /\ \A q \in places : p <= q
  <2> SUFFICES ASSUME NEW q \in places, q < p
               PROVE  FALSE
    BY DEF FirstAt
  <2>1. q \in from .. p - 1
    BY DEF FirstAt
  <2> QED BY <2>1 DEF FirstAt
<1>2. Min(places) = p
  <2>1. Min(places) = CHOOSE x \in places : \A y \in places : x <= y
    BY DEF Min
  <2>2. places \subseteq Int
    BY DEF FirstAt
  <2> HIDE DEF places
  <2>3. \A x \in places : (\A y \in places : x <= y) <=> x = p
    BY <1>1, <2>2
  <2>4. \E x \in places : \A y \in places : x <= y
    BY <1>1
  <2> QED BY <2>1, <2>3, <2>4, Zenon
<1> QED
  BY <1>1, <1>2 DEF Find

(* What is cut out of a text.                                              *)
LEMMA CutOut ==
    ASSUME NEW S, NEW text \in Seq(S), NEW t \in Seq(S), NEW from \in Nat, NEW length, length = Len(t),
           from + Len(t) <= Len(text), \A i \in 1 .. Len(t) : text[from + i] = t[i]
    PROVE  Substr(text, from, length) = t
<1>1. Len(t) \in Nat /\ Len(text) \in Nat
  BY LenProperties
<1> DEFINE u == SubSeq(text, from + 1, from + Len(t))
<1>2. \A i \in from + 1 .. from + Len(t) : i \in 1 .. Len(text)
  BY <1>1
<1>3. /\ u \in Seq(S) /\ Len(u) = Len(t)
      /\ \A i \in 1 .. Len(t) : u[i] = text[from + i]
  <2>1. (from + Len(t)) - (from + 1) + 1 = Len(t)
    BY <1>1
  <2>2. \A i \in 1 .. Len(t) : (from + 1) + i - 1 = from + i
    BY <1>1
  <2>3. from + 1 \in Int /\ from + Len(t) \in Int /\ from + 1 <= from + Len(t) + 1
    BY <1>1
  <2> PICK m, n : m = from + 1 /\ n = from + Len(t)
    OBVIOUS
  <2>4. /\ SubSeq(text, m, n) \in Seq(S)
        /\ Len(SubSeq(text, m, n)) = IF m <= n THEN n - m + 1 ELSE 0
        /\ \A i \in 1 .. n - m + 1 : SubSeq(text, m, n)[i] = text[m + i - 1]
    BY <1>1, <1>2, <2>3, SubSeqProperties
  <2> QED BY <1>1, <2>1, <2>2, <2>4
<1> HIDE DEF u
<1>4. u = t
  BY <1>1, <1>3, SeqEqual
<1> QED
  BY <1>4 DEF Substr, u

(* A line of the catalog file.                                             *)
LineOf(key, value) == <<Pipe>> \o key \o <<Pipe>> \o value \o <<Pipe>>

(* The constructor cuts a line where save put it together.                 *)
LEMMA LineCut ==
    ASSUME NEW W, Pipe \notin W, NEW key \in Seq(W), NEW value \in Seq(W)
    PROVE  /\ KeyOf(LineOf(key, value)) = key
           /\ ValueOf(LineOf(key, value)) = value
<1> DEFINE line == LineOf(key, value)
<1> PICK m, n : m = Len(key) /\ n = Len(value)
  OBVIOUS
<1>1. /\ m \in Nat /\ n \in Nat
      /\ \A i \in 1 .. m : key[i] # Pipe
      /\ \A i \in 1 .. n : value[i] # Pipe
  <2>1. /\ m \in Nat /\ n \in Nat
        /\ \A i \in 1 .. m : key[i] \in W
        /\ \A i \in 1 .. n : value[i] \in W
    BY LenProperties, ElementOfSeq
  <2> QED BY <2>1
<1> DEFINE V == W \cup {Pipe}
<1>2. key \in Seq(V) /\ value \in Seq(V) /\ <<Pipe>> \in Seq(V) /\ Len(<<Pipe>>) = 1 /\ <<Pipe>>[1] = Pipe
  OBVIOUS
<1> HIDE DEF V
<1> PICK a : a = <<Pipe>> \o key
  OBVIOUS
<1>3. /\ a \in Seq(V) /\ Len(a) = m + 1 /\ a[1] = Pipe
      /\ \A i \in 1 .. m : a[i + 1] = key[i]
  <2>1. /\ a \in Seq(V) /\ Len(a) = 1 + m
        /\ \A i \in 1 .. 1 + m : a[i] = IF i <= 1 THEN <<Pipe>>[i] ELSE key[i - 1]
    BY <1>2, ConcatProperties
  <2>2. ASSUME NEW i \in 1 .. m
        PROVE  a[i + 1] = key[i]
    <3>1. i + 1 \in 1 .. 1 + m /\ ~ (i + 1 <= 1) /\ (i + 1) - 1 = i
      BY <1>1
    <3> QED BY <2>1, <3>1
  <2>3. 1 \in 1 .. 1 + m
    BY <1>1
  <2> QED BY <1>1, <1>2, <2>1, <2>2, <2>3
<1> PICK b : b = a \o <<Pipe>>
  OBVIOUS
<1>4. /\ b \in Seq(V) /\ Len(b) = m + 2 /\ b[1] = Pipe /\ b[m + 2] = Pipe
      /\ \A i \in 1 .. m : b[i + 1] = key[i]
  <2>1. /\ b \in Seq(V) /\ Len(b) = (m + 1) + 1
        /\ \A i \in 1 .. (m + 1) + 1 : b[i] = IF i <= m + 1 THEN a[i] ELSE <<Pipe>>[i - (m + 1)]
    BY <1>2, <1>3, ConcatProperties
  <2>2. \A i \in 1 .. m + 1 : b[i] = a[i]
    BY <1>1, <2>1
  <2>3. m + 2 \in 1 .. (m + 1) + 1 /\ ~ (m + 2 <= m + 1) /\ (m + 2) - (m + 1) = 1
    BY <1>1
  <2>4. b[m + 2] = Pipe
    BY <1>2, <2>1, <2>3
  <2>5. 1 \in 1 .. m + 1 /\ \A i \in 1 .. m : i + 1 \in 1 .. m + 1
    BY <1>1
  <2> QED BY <1>1, <1>3, <2>1, <2>2, <2>4, <2>5
<1> PICK c : c = b \o value
  OBVIOUS
<1>5. /\ c \in Seq(V) /\ Len(c) = m + 2 + n /\ c[1] = Pipe /\ c[m + 2] = Pipe
      /\ \A i \in 1 .. m : c[i + 1] = key[i]
      /\ \A i \in 1 .. n : c[m + 2 + i] = value[i]
  <2>1. /\ c \in Seq(V) /\ Len(c) = (m + 2) + n
        /\ \A i \in 1 .. (m + 2) + n : c[i] = IF i <= m + 2 THEN b[i] ELSE value[i - (m + 2)]
    BY <1>2, <1>4, ConcatProperties
  <2>2. \A i \in 1 .. m + 2 : c[i] = b[i]
    BY <1>1, <2>1
  <2>3. ASSUME NEW i \in 1 .. n
        PROVE  c[m + 2 + i] = value[i]
    <3>1. m + 2 + i \in 1 .. (m + 2) + n /\ ~ (m + 2 + i <= m + 2) /\ (m + 2 + i) - (m + 2) = i
      BY <1>1
    <3> QED BY <2>1, <3>1
  <2>4. 1 \in 1 .. m + 2 /\ m + 2 \in 1 .. m + 2 /\ \A i \in 1 .. m : i + 1 \in 1 .. m + 2
    BY <1>1
  <2> QED BY <1>1, <1>4, <2>1, <2>2, <2>3, <2>4
<1>6. /\ line \in Seq(V) /\ Len(line) = m + n + 3
      /\ line[1] = Pipe /\ line[m + 2] = Pipe /\ line[m + n + 3] = Pipe
      /\ \A i \in 1 .. m : line[i + 1] = key[i]
      /\ \A i \in 1 .. n : line[m + 2 + i] = value[i]
  <2>1. line = c \o <<Pipe>>
    BY DEF LineOf
  <2> HIDE DEF line
  <2>2. /\ line \in Seq(V) /\ Len(line) = (m + 2 + n) + 1
        /\ \A i \in 1 .. (m + 2 + n) + 1 :
              line[i] = IF i <= m + 2 + n THEN c[i] ELSE <<Pipe>>[i - (m + 2 + n)]
    BY <1>2, <1>5, <2>1, ConcatProperties
  <2>3. \A i \in 1 .. m + 2 + n : line[i] = c[i]
    BY <1>1, <2>2
  <2>4. /\ m + n + 3 \in 1 .. (m + 2 + n) + 1 /\ ~ (m + n + 3 <= m + 2 + n)
        /\ (m + n + 3) - (m + 2 + n) = 1
    BY <1>1
  <2>5. line[m + n + 3] = Pipe
    BY <1>2, <2>2, <2>4
  <2>6. /\ 1 \in 1 .. m + 2 + n /\ m + 2 \in 1 .. m + 2 + n
        /\ \A i \in 1 .. m : i + 1 \in 1 .. m + 2 + n
        /\ \A i \in 1 .. n : m + 2 + i \in 1 .. m + 2 + n
    BY <1>1
  <2> QED BY <1>1, <1>5, <2>2, <2>3, <2>5, <2>6
<1> HIDE DEF line
<1>7. Find(Pipe, line, 0) = 0
  <2>1. Len(line) \in Nat /\ 0 \in Nat /\ 0 \in 0 .. Len(line) - 1
    BY <1>1, <1>6
  <2>2. line[0 + 1] = Pipe /\ \A q \in 0 .. 0 - 1 : line[q + 1] # Pipe
    BY <1>6
  <2>3. FirstAt(Pipe, line, 0, 0)
    BY <2>1, <2>2 DEF FirstAt
  <2> QED BY <2>3, FindFirst
<1>8. Find(Pipe, line, 1) = m + 1
  <2>1. Len(line) \in Nat /\ 1 \in Nat /\ m + 1 \in 1 .. Len(line) - 1 /\ (m + 1) + 1 = m + 2
    BY <1>1, <1>6
  <2>2. ASSUME NEW q \in 1 .. (m + 1) - 1
        PROVE  line[q + 1] # Pipe
    <3>1. q \in 1 .. m
      BY <1>1
    <3> QED BY <1>1, <1>6, <3>1
  <2>3. line[(m + 1) + 1] = Pipe
    BY <1>6, <2>1
  <2>4. FirstAt(Pipe, line, 1, m + 1)
    BY <2>1, <2>2, <2>3 DEF FirstAt
  <2> QED BY <2>4, FindFirst
<1>9. Find(Pipe, line, m + 2) = m + n + 2
  <2>1. /\ Len(line) \in Nat /\ m + 2 \in Nat /\ m + n + 2 \in m + 2 .. Len(line) - 1
        /\ (m + n + 2) + 1 = m + n + 3
    BY <1>1, <1>6
  <2>2. ASSUME NEW q \in m + 2 .. (m + n + 2) - 1
        PROVE  line[q + 1] # Pipe
    <3> PICK i \in 1 .. n : q + 1 = m + 2 + i
      <4>1. m \in Nat /\ n \in Nat
        BY <1>1
      <4>2. q \in Int /\ q - m - 1 \in Int
        BY <4>1
      <4> PICK i \in Int : i = q - m - 1
        BY <4>2
      <4>3. i \in 1 .. n /\ q + 1 = m + 2 + i
        BY <4>1
      <4> QED BY <4>3
    <3> QED BY <1>1, <1>6
  <2>3. line[(m + n + 2) + 1] = Pipe
    BY <1>6, <2>1
  <2>4. FirstAt(Pipe, line, m + 2, m + n + 2)
    BY <2>1, <2>2, <2>3 DEF FirstAt
  <2> QED BY <2>4, FindFirst
<1>10. Substr(line, 1, m) = key
  <2>1. line \in Seq(V) /\ key \in Seq(V) /\ 1 \in Nat /\ m = Len(key) /\ 1 + Len(key) <= Len(line)
    BY <1>1, <1>2, <1>6
  <2>2. \A i \in 1 .. Len(key) : line[1 + i] = key[i]
    <3>1. \A i \in 1 .. m : 1 + i = i + 1
      BY <1>1
    <3> QED BY <1>6, <3>1
  <2> QED BY <2>1, <2>2, CutOut
<1>11. Substr(line, m + 2, n) = value
  <2>1. /\ line \in Seq(V) /\ value \in Seq(V) /\ m + 2 \in Nat /\ n = Len(value)
        /\ m + 2 + Len(value) <= Len(line)
    BY <1>1, <1>2, <1>6
  <2>2. \A i \in 1 .. Len(value) : line[m + 2 + i] = value[i]
    BY <1>6
  <2> QED BY <2>1, <2>2, CutOut
<1>12. /\ 0 + 1 = 1 /\ (m + 1) - 0 - 1 = m /\ (m + 1) + 1 = m + 2
       /\ (m + n + 2) - (m + 1) - 1 = n
  BY <1>1
<1>13. KeyOf(line) = key
  BY <1>7, <1>8, <1>10, <1>12 DEF KeyOf
<1>14. ValueOf(line) = value
  BY <1>7, <1>8, <1>9, <1>11, <1>12 DEF ValueOf
<1> QED
  BY <1>13, <1>14 DEF line

(* What a catalog can hold: finitely many texts under keys that are texts, *)
(* all without the separator.                                              *)
Storable(data, W) ==
    /\ IsFiniteSet(DOMAIN data) /\ data = [key \in DOMAIN data |-> data[key]]
    /\ \A key \in DOMAIN data : key \in Seq(W) /\ data[key] \in Seq(W)

(* The part of a map under some keys.                                      *)
Part(data, keys) == [key \in keys |-> data[key]]

(* The lines of some keys.                                                 *)
LinesOf(data, keys) == {LineOf(key, data[key]) : key \in keys}

(* What save wrote the constructor reads, of all keys and of some.         *)
LEMMA PartReadBack ==
    ASSUME NEW W, Pipe \notin W, NEW data, Storable(data, W), NEW keys \in SUBSET DOMAIN data
    PROVE  ReadLines(LinesOf(data, keys)) = Part(data, keys)
<1> DEFINE lines == LinesOf(data, keys)
           Keys(s) == {KeyOf(line) : line \in s}
           read[s \in SUBSET lines] ==
              IF s = {} THEN << >>
              ELSE LET line == CHOOSE x \in s : TRUE IN Put(read[s \ {line}], KeyOf(line), ValueOf(line))
           parts == [s \in SUBSET lines |-> Part(data, Keys(s))]
<1>1. \A line \in lines : /\ KeyOf(line) \in keys /\ line = LineOf(KeyOf(line), data[KeyOf(line)])
                          /\ ValueOf(line) = data[KeyOf(line)]
  <2> SUFFICES ASSUME NEW key \in keys
               PROVE  /\ KeyOf(LineOf(key, data[key])) = key
                      /\ ValueOf(LineOf(key, data[key])) = data[key]
    BY DEF LinesOf
  <2>1. key \in Seq(W) /\ data[key] \in Seq(W)
    BY DEF Storable
  <2> QED BY <2>1, LineCut
<1>2. Keys({}) = {} /\ Keys(lines) = keys
  <2>1. \A key \in keys : LineOf(key, data[key]) \in lines /\ KeyOf(LineOf(key, data[key])) = key
    <3> TAKE key \in keys
    <3>1. key \in Seq(W) /\ data[key] \in Seq(W)
      BY DEF Storable
    <3>2. KeyOf(LineOf(key, data[key])) = key
      BY <3>1, LineCut
    <3> QED BY <3>2 DEF LinesOf
  <2> QED BY <1>1, <2>1
<1> HIDE DEF lines
<1>3. ASSUME NEW s \in SUBSET lines, NEW line \in s
      PROVE  Part(data, Keys(s)) = Put(Part(data, Keys(s \ {line})), KeyOf(line), ValueOf(line))
  <2>1. Keys(s) = Keys(s \ {line}) \cup {KeyOf(line)} /\ ValueOf(line) = data[KeyOf(line)]
    BY <1>1
  <2> PICK k, rest : k = KeyOf(line) /\ rest = Keys(s \ {line})
    OBVIOUS
  <2> HIDE DEF Keys
  <2>2. Put(Part(data, rest), k, data[k]) = [x \in {k} \cup rest |-> data[x]]
    <3> DEFINE others == Part(data, rest)
    <3>1. DOMAIN others = rest /\ \A x \in rest : others[x] = data[x]
      BY DEF Part
    <3>2. Put(others, k, data[k]) = [x \in DOMAIN others \cup {k} |-> IF x = k THEN data[k] ELSE others[x]]
      BY DEF Put
    <3> HIDE DEF others
    <3>3. Put(others, k, data[k]) = [x \in {k} \cup rest |-> IF x = k THEN data[k] ELSE others[x]]
      BY <3>1, <3>2
    <3>4. \A x \in {k} \cup rest : (IF x = k THEN data[k] ELSE others[x]) = data[x]
      BY <3>1
    <3> QED BY <3>3, <3>4 DEF others
  <2>3. {k} \cup rest = rest \cup {k}
    OBVIOUS
  <2> QED BY <2>1, <2>2, <2>3 DEF Part
<1>4. parts = [s \in SUBSET lines |->
                 IF s = {} THEN << >>
                 ELSE LET line == CHOOSE x \in s : TRUE IN Put(parts[s \ {line}], KeyOf(line), ValueOf(line))]
  <2>1. parts[{}] = << >>
    BY <1>2 DEF Part
  <2>2. ASSUME NEW s \in SUBSET lines, s # {}, NEW line \in s
        PROVE  parts[s] = Put(parts[s \ {line}], KeyOf(line), ValueOf(line))
    <3>1. s \ {line} \in SUBSET lines
      OBVIOUS
    <3> QED BY <1>3, <3>1
  <2>3. parts = [s \in SUBSET lines |-> parts[s]]
    OBVIOUS
  <2>4. \A s \in SUBSET lines : s # {} => (CHOOSE x \in s : TRUE) \in s
    OBVIOUS
  <2> HIDE DEF parts
  <2> QED BY <2>1, <2>2, <2>3, <2>4, Zenon
<1>5. read = [s \in SUBSET lines |->
                 IF s = {} THEN << >>
                 ELSE LET line == CHOOSE x \in s : TRUE IN Put(read[s \ {line}], KeyOf(line), ValueOf(line))]
  <2> HIDE DEF parts
  <2> QED BY <1>4
<1>6. ReadLines(lines) = read[lines]
  BY DEF ReadLines, FoldSet, MapThenFoldSet, read
<1> HIDE DEF read
<1>7. IsFiniteSet(lines)
  <2>1. IsFiniteSet(keys)
    BY FS_Subset DEF Storable
  <2>2. lines = {LineOf(key, data[key]) : key \in keys}
    BY DEF lines, LinesOf
  <2> DEFINE f == [key \in keys |-> LineOf(key, data[key])]
  <2>3. f \in Surjection(keys, lines)
    BY <2>2 DEF Surjection
  <2> HIDE DEF f
  <2> QED BY <2>1, <2>3, FS_Surjection
<1> DEFINE P == {s \in SUBSET lines : read[s] = Part(data, Keys(s))}
<1>8. {} \in P
  BY <1>2, <1>5 DEF Part
<1>9. ASSUME NEW s \in SUBSET lines, s # {}, \A x \in s : s \ {x} \in P
      PROVE  s \in P
  <2> PICK line \in s : line = CHOOSE x \in s : TRUE
    BY <1>9
  <2>1. read[s] = Put(read[s \ {line}], KeyOf(line), ValueOf(line))
    BY <1>5, <1>9
  <2>2. read[s \ {line}] = Part(data, Keys(s \ {line}))
    BY <1>9
  <2> QED BY <1>3, <2>1, <2>2
<1>10. SUBSET lines \subseteq P
  <2> HIDE DEF P
  <2> QED BY <1>7, <1>8, <1>9, SubsetInduction
<1>11. read[lines] = Part(data, keys)
  BY <1>2, <1>10
<1> QED
  BY <1>6, <1>11 DEF lines

-----------------------------------------------------------------------------
(* The catalog file is read back whole, or the lines of some keys of it.   *)
LEMMA LinesReadBack ==
    ASSUME NEW W, Pipe \notin W, NEW data, Storable(data, W)
    PROVE  /\ ReadLines(Lines(data)) = data
           /\ \A key : ReadLines({line \in Lines(data) : KeyOf(line) = key})
                          = Part(data, {key} \cap DOMAIN data)
<1>1. Lines(data) = LinesOf(data, DOMAIN data)
  BY DEF Lines, LinesOf, LineOf
<1>2. ReadLines(LinesOf(data, DOMAIN data)) = Part(data, DOMAIN data)
  BY PartReadBack
<1>3. ASSUME NEW key
      PROVE  ReadLines({line \in Lines(data) : KeyOf(line) = key}) = Part(data, {key} \cap DOMAIN data)
  <2>1. \A k \in DOMAIN data : KeyOf(LineOf(k, data[k])) = k
    BY LineCut DEF Storable
  <2>2. {line \in Lines(data) : KeyOf(line) = key} = LinesOf(data, {key} \cap DOMAIN data)
    BY <1>1, <2>1 DEF LinesOf
  <2>3. {key} \cap DOMAIN data \in SUBSET DOMAIN data
    OBVIOUS
  <2> QED BY <2>2, <2>3, PartReadBack
<1>4. Part(data, DOMAIN data) = data
  BY DEF Part, Storable
<1> QED
  BY <1>1, <1>2, <1>3, <1>4

(* What PutStringList writes of a list of names, each of one token.        *)
ListText(list) == FlattenSeq([n \in DOMAIN list |-> Append(list[n], Hash)])

(* Names of one token.                                                     *)
Singles(W) == {<<x>> : x \in W}

(* A name and a hash in turn.                                              *)
LEMMA ListTextPlaces ==
    ASSUME NEW W, NEW list \in Seq(Singles(W))
    PROVE  /\ ListText(list) \in Seq(W \cup {Hash}) /\ Len(ListText(list)) = 2 * Len(list)
           /\ \A n \in 1 .. Len(list) : /\ ListText(list)[2 * n - 1] = list[n][1] /\ list[n][1] \in W
                                        /\ ListText(list)[2 * n] = Hash
<1> DEFINE V == W \cup {Hash}
           first(k) == [n \in 1 .. k |-> Append(list[n], Hash)]
           text(k) == FlattenSeq(first(k))
           Places(k) == /\ text(k) \in Seq(V) /\ Len(text(k)) = 2 * k
                        /\ \A n \in 1 .. k : text(k)[2 * n - 1] = list[n][1] /\ text(k)[2 * n] = Hash
<1>1. Len(list) \in Nat /\ DOMAIN list = 1 .. Len(list) /\ \A n \in 1 .. Len(list) : list[n] \in Singles(W)
  BY LenProperties, ElementOfSeq
<1> PICK m \in Nat : m = Len(list)
  BY <1>1
<1>2. \A n \in 1 .. m : /\ list[n][1] \in W /\ Append(list[n], Hash) = <<list[n][1], Hash>>
                        /\ Append(list[n], Hash) \in Seq(V)
  <2> TAKE n \in 1 .. m
  <2> PICK x \in W : list[n] = <<x>>
    BY <1>1 DEF Singles
  <2>1. x \in V /\ Hash \in V
    OBVIOUS
  <2> HIDE DEF V
  <2>2. <<x, Hash>> \in Seq(V)
    BY <2>1
  <2> PICK one, a, pair : one = <<x>> /\ a = Append(one, Hash) /\ pair = <<x, Hash>>
    OBVIOUS
  <2>3. one \in Seq(V) /\ Len(one) = 1 /\ one[1] = x
    BY <2>1
  <2>4. pair \in Seq(V) /\ Len(pair) = 2 /\ pair[1] = x /\ pair[2] = Hash
    BY <2>1
  <2>5. a \in Seq(V) /\ Len(a) = 2 /\ a[1] = x /\ a[2] = Hash
    <3>1. /\ a \in Seq(V) /\ Len(a) = Len(one) + 1 /\ a[Len(one) + 1] = Hash
          /\ \A i \in 1 .. Len(one) : a[i] = one[i]
      BY <2>1, <2>3, AppendProperties
    <3> QED BY <2>3, <3>1
  <2>6. a = pair
    <3>1. \A i \in 1 .. 2 : a[i] = pair[i]
      BY <2>4, <2>5
    <3> QED BY <2>4, <2>5, <3>1, SeqEqual
  <2> QED BY <2>2, <2>3, <2>6
<1>3. \A k \in 0 .. m : first(k) \in Seq(Seq(V)) /\ Len(first(k)) = k
  <2> TAKE k \in 0 .. m
  <2>1. k \in Nat /\ first(k) \in [1 .. k -> Seq(V)]
    BY <1>2
  <2> HIDE DEF V, first
  <2> QED BY <2>1, LenProperties, IsASeq
<1>4. Places(0)
  <2>1. first(0) = << >> /\ FlattenSeq(<< >>) = << >>
    BY DEF FlattenSeq
  <2>2. text(0) = << >> /\ << >> \in Seq(V) /\ Len(<< >>) = 2 * 0 /\ 1 .. 0 = {}
    BY <2>1
  <2> HIDE DEF text, V
  <2> QED BY <2>2
<1>5. ASSUME NEW k \in 0 .. m, k + 1 <= m, Places(k)
      PROVE  Places(k + 1)
  <2> PICK s, h : s = first(k) /\ h = first(k + 1)
    OBVIOUS
  <2>1. /\ k + 1 \in 0 .. m /\ s \in Seq(Seq(V)) /\ Len(s) = k /\ h \in Seq(Seq(V)) /\ Len(h) = k + 1
    <3>1. k + 1 \in 0 .. m
      BY <1>5
    <3> HIDE DEF first, V
    <3> QED BY <1>3, <3>1
  <2>2. /\ h[k + 1] = Append(list[k + 1], Hash)
        /\ \A i \in 1 .. k : h[i] = s[i]
    <3>1. k + 1 \in 1 .. k + 1 /\ \A i \in 1 .. k : i \in 1 .. k + 1
      OBVIOUS
    <3> QED BY <3>1
  <2> PICK x : x = list[k + 1][1]
    OBVIOUS
  <2>3. x \in W /\ h[k + 1] = <<x, Hash>> /\ <<x, Hash>> \in Seq(V)
    <3>1. k + 1 \in 1 .. m
      BY <1>5
    <3> QED BY <1>2, <2>2, <3>1
  <2>4. FlattenSeq(h) = FlattenSeq(s) \o <<x, Hash>>
    <3>1. /\ Len(h) = Len(s) + 1 /\ h[Len(h)] = <<x, Hash>>
          /\ \A i \in 1 .. Len(s) : h[i] = s[i]
      BY <2>1, <2>2, <2>3
    <3> HIDE DEF V
    <3> QED BY <2>1, <2>3, <3>1, FlattenedLast
  <2> PICK a, b : a = text(k) /\ b = text(k + 1)
    OBVIOUS
  <2>5. b = a \o <<x, Hash>> /\ a \in Seq(V) /\ Len(a) = 2 * k
    BY <1>5, <2>4
  <2>6. /\ b \in Seq(V) /\ Len(b) = 2 * k + 2
        /\ \A i \in 1 .. 2 * k + 2 : b[i] = IF i <= 2 * k THEN a[i] ELSE <<x, Hash>>[i - 2 * k]
    <3> PICK pair : pair = <<x, Hash>>
      OBVIOUS
    <3>1. pair \in Seq(V) /\ Len(pair) = 2
      BY <2>3
    <3> HIDE DEF V
    <3> PICK n \in Nat : n = 2 * k
      OBVIOUS
    <3>2. Len(a) = n /\ a \in Seq(V) /\ b = a \o pair
      BY <2>5
    <3>3. /\ a \o pair \in Seq(V) /\ Len(a \o pair) = Len(a) + Len(pair)
          /\ \A i \in 1 .. Len(a) + Len(pair) : (a \o pair)[i] = IF i <= Len(a) THEN a[i] ELSE pair[i - Len(a)]
      BY <3>1, <3>2, ConcatProperties
    <3>4. /\ b \in Seq(V) /\ Len(b) = n + 2
          /\ \A i \in 1 .. n + 2 : b[i] = IF i <= n THEN a[i] ELSE pair[i - n]
      BY <3>1, <3>2, <3>3
    <3> QED BY <3>4
  <2>7. ASSUME NEW n \in 1 .. k + 1
        PROVE  b[2 * n - 1] = list[n][1] /\ b[2 * n] = Hash
    <3>1. CASE n = k + 1
      <4>1. /\ 2 * n - 1 \in 1 .. 2 * k + 2 /\ ~ (2 * n - 1 <= 2 * k) /\ (2 * n - 1) - 2 * k = 1
            /\ 2 * n \in 1 .. 2 * k + 2 /\ ~ (2 * n <= 2 * k) /\ 2 * n - 2 * k = 2
        BY <3>1
      <4>2. b[2 * n - 1] = <<x, Hash>>[1] /\ b[2 * n] = <<x, Hash>>[2]
        BY <2>6, <4>1
      <4> QED BY <3>1, <4>2
    <3>2. CASE n # k + 1
      <4>1. /\ n \in 1 .. k /\ 2 * n - 1 \in 1 .. 2 * k + 2 /\ 2 * n - 1 <= 2 * k
            /\ 2 * n \in 1 .. 2 * k + 2 /\ 2 * n <= 2 * k
        BY <3>2
      <4>2. b[2 * n - 1] = a[2 * n - 1] /\ b[2 * n] = a[2 * n]
        BY <2>6, <4>1
      <4> QED BY <1>5, <4>1, <4>2
    <3> QED BY <3>1, <3>2
  <2>8. 2 * (k + 1) = 2 * k + 2
    OBVIOUS
  <2> QED BY <2>6, <2>7, <2>8
<1> HIDE DEF Places
<1>6. \A k \in 0 .. m : Places(k)
  <2> DEFINE T == {k \in Nat : k <= m => Places(k)}
  <2>1. 0 \in T
    BY <1>4
  <2>2. \A k \in Nat : k \in T => k + 1 \in T
    <3> SUFFICES ASSUME NEW k \in Nat, k <= m => Places(k), k + 1 <= m
                 PROVE  Places(k + 1)
      OBVIOUS
    <3>1. k \in 0 .. m /\ k <= m
      OBVIOUS
    <3> QED BY <1>5, <3>1
  <2>3. Nat \subseteq T
    <3> HIDE DEF T
    <3> QED BY <2>1, <2>2, SetInduction
  <2> QED BY <2>3
<1>7. Places(m)
  BY <1>6
<1>8. text(m) = ListText(list)
  BY <1>1 DEF ListText
<1> QED
  BY <1>2, <1>7, <1>8 DEF Places

(* One token cut out of a text.                                            *)
LEMMA CutOne ==
    ASSUME NEW S, NEW text \in Seq(S), NEW p \in Nat, p + 1 <= Len(text)
    PROVE  Substr(text, p, 1) = <<text[p + 1]>>
<1> PICK t : t = <<text[p + 1]>>
  OBVIOUS
<1>1. p + 1 \in 1 .. Len(text) /\ Len(text) \in Nat
  BY LenProperties
<1>2. t \in Seq(S) /\ Len(t) = 1 /\ t[1] = text[p + 1]
  BY <1>1, ElementOfSeq
<1>3. p + Len(t) <= Len(text) /\ \A i \in 1 .. Len(t) : text[p + i] = t[i]
  BY <1>1, <1>2
<1> PICK n : n = Len(t)
  OBVIOUS
<1>4. Substr(text, p, n) = t
  BY <1>2, <1>3, CutOut, ZenonT(60)
<1> QED
  BY <1>2, <1>4

(* GetStringList reads the list that PutStringList wrote.                  *)
LEMMA ListReadBack ==
    ASSUME NEW W, Hash \notin W, NEW list \in Seq(Singles(W)),
           NEW data, NEW key \in DOMAIN data, data[key] = ListText(list)
    PROVE  GetStringList(data, key) = list
<1> PICK text, m : text = ListText(list) /\ m = Len(list)
  OBVIOUS
<1> DEFINE V == W \cup {Hash}
<1>1. /\ m \in Nat /\ text \in Seq(V) /\ Len(text) = 2 * m
      /\ \A n \in 1 .. m : /\ text[2 * n - 1] = list[n][1] /\ list[n][1] \in W /\ text[2 * n] = Hash
                           /\ list[n] \in Singles(W)
  BY ListTextPlaces, LenProperties, ElementOfSeq
<1>2. Singles(W) \subseteq Seq(V)
  <2> SUFFICES ASSUME NEW x \in W
               PROVE  <<x>> \in Seq(V)
    BY DEF Singles
  <2>1. x \in V
    OBVIOUS
  <2> HIDE DEF V
  <2> QED BY <2>1
<1> HIDE DEF V
<1> PICK len \in Nat : len = 2 * m
  BY <1>1
<1>3. \A k \in 0 .. m - 1 : k \in Nat /\ k + 1 \in 1 .. m /\ 2 * k \in Nat /\ 2 * k + 1 \in Nat /\ 2 * k + 2 \in Nat
                            /\ 2 * k + 2 <= len /\ 2 * (k + 1) = 2 * k + 2 /\ 2 * (k + 1) - 1 = 2 * k + 1
  BY <1>1
<1>4. ASSUME NEW k \in 0 .. m - 1
      PROVE  /\ Find(Hash, text, 2 * k + 1) = 2 * k + 1
             /\ Substr(text, 2 * k, (2 * k + 1) - 2 * k) = list[k + 1]
  <2> PICK p \in Nat : p = 2 * k
    BY <1>3
  <2>1. /\ text[p + 1] = list[k + 1][1] /\ text[p + 2] = Hash /\ list[k + 1] \in Singles(W)
        /\ p + 2 <= Len(text)
    BY <1>1, <1>3
  <2>2. FirstAt(Hash, text, p + 1, p + 1)
    <3>1. Len(text) \in Nat /\ p + 1 \in Nat /\ p + 1 \in p + 1 .. Len(text) - 1 /\ (p + 1) + 1 = p + 2
          /\ p + 1 .. (p + 1) - 1 = {}
      BY <1>1, <2>1
    <3>2. text[(p + 1) + 1] = Hash
      BY <2>1, <3>1
    <3> QED BY <3>1, <3>2 DEF FirstAt
  <2>3. Find(Hash, text, p + 1) = p + 1
    BY <2>2, FindFirst
  <2>4. Substr(text, p, 1) = list[k + 1]
    <3>1. Substr(text, p, 1) = <<text[p + 1]>>
      BY <1>1, <2>1, CutOne
    <3> PICK x : list[k + 1] = <<x>>
      BY <2>1 DEF Singles
    <3> QED BY <2>1, <3>1
  <2>5. (p + 1) - p = 1
    OBVIOUS
  <2> QED BY <2>3, <2>4, <2>5
<1>5. ASSUME NEW k \in 0 .. m - 1
      PROVE  \E q \in 0 .. m : Find(Hash, text, 2 * k + 2) + 1 = 2 * q
  <2>1. CASE k = m - 1
    <3>1. 2 * k + 2 .. Len(text) - 1 = {}
      BY <1>1, <2>1
    <3>2. Find(Hash, text, 2 * k + 2) = -1
      BY <3>1 DEF Find
    <3> QED BY <1>1, <3>2
  <2>2. CASE k # m - 1
    <3> PICK p \in Nat : p = 2 * k
      BY <1>3
    <3>1. k + 2 \in 1 .. m /\ 2 * (k + 2) = p + 4 /\ 2 * (k + 2) - 1 = p + 3 /\ p + 4 <= Len(text)
      BY <1>1, <2>2
    <3>2. text[p + 4] = Hash /\ text[p + 3] # Hash
      BY <1>1, <3>1
    <3>3. FirstAt(Hash, text, p + 2, p + 3)
      <4>1. /\ Len(text) \in Nat /\ p + 2 \in Nat /\ p + 3 \in p + 2 .. Len(text) - 1 /\ (p + 3) + 1 = p + 4
            /\ \A q \in p + 2 .. (p + 3) - 1 : q + 1 = p + 3
        BY <1>1, <3>1
      <4>2. text[(p + 3) + 1] = Hash /\ \A q \in p + 2 .. (p + 3) - 1 : text[q + 1] # Hash
        BY <3>2, <4>1
      <4> QED BY <4>1, <4>2 DEF FirstAt
    <3>4. Find(Hash, text, p + 2) = p + 3
      BY <3>3, FindFirst
    <3>5. (p + 3) + 1 = 2 * (k + 2)
      OBVIOUS
    <3> QED BY <3>1, <3>4, <3>5
  <2> QED BY <2>1, <2>2
<1> DEFINE hash(pos) == Find(Hash, text, pos + 1)
           Read(f) == [pos \in 0 .. Len(text) |->
                         IF pos = Len(text) THEN << >>
                         ELSE <<Substr(text, pos, hash(pos) - pos)>> \o f[hash(pos) + 1]]
           rest == [k \in 0 .. m |-> SubSeq(list, k + 1, m)]
           half(p) == CHOOSE k \in 0 .. m : p = 2 * k
           known == [pos \in 0 .. Len(text) |->
                       IF \E k \in 0 .. m : pos = 2 * k THEN rest[half(pos)]
                       ELSE <<Substr(text, pos, hash(pos) - pos)>> \o rest[half(hash(pos) + 1)]]
<1>6. \A k \in 0 .. m : half(2 * k) = k /\ 2 * k \in 0 .. Len(text)
  BY <1>1
<1>7. /\ rest[m] = << >>
      /\ \A k \in 0 .. m - 1 : rest[k] = <<list[k + 1]>> \o rest[k + 1]
  <2>1. rest[m] = SubSeq(list, m + 1, m) /\ SubSeq(list, m + 1, m) = << >>
    BY <1>1, SubSeqEmpty
  <2>2. ASSUME NEW k \in 0 .. m - 1
        PROVE  rest[k] = <<list[k + 1]>> \o rest[k + 1]
    <3>1. /\ k + 1 \in 1 .. Len(list) /\ m \in k + 1 .. Len(list) /\ k \in 0 .. m /\ k + 1 \in 0 .. m
      BY <1>1
    <3>2. SubSeq(list, k + 1, m) = <<list[k + 1]>> \o SubSeq(list, (k + 1) + 1, m)
      BY <3>1, SubSeqRecursiveFirst
    <3> QED BY <3>1, <3>2
  <2> QED BY <2>1, <2>2
<1> HIDE DEF rest, half
<1>8. known = Read(known)
  <2>1. \A k \in 0 .. m : known[2 * k] = rest[k]
    <3> TAKE k \in 0 .. m
    <3> PICK p : p = 2 * k
      OBVIOUS
    <3>1. p \in 0 .. Len(text) /\ half(p) = k /\ \E j \in 0 .. m : p = 2 * j
      BY <1>6
    <3>2. known[p] = rest[half(p)]
      BY <3>1
    <3> QED BY <3>1, <3>2
  <2>2. ASSUME NEW pos \in 0 .. Len(text)
        PROVE  known[pos] = Read(known)[pos]
    <3>1. CASE pos = Len(text)
      <4>1. m \in 0 .. m /\ pos = 2 * m
        BY <1>1, <3>1
      <4>2. known[pos] = rest[m]
        BY <2>1, <4>1
      <4>3. Read(known)[pos] = << >>
        BY <3>1
      <4> QED BY <1>7, <4>2, <4>3
    <3>2. ASSUME NEW k \in 0 .. m - 1, pos = 2 * k
          PROVE  known[pos] = Read(known)[pos]
      <4>1. /\ k \in 0 .. m /\ k + 1 \in 0 .. m /\ pos # Len(text) /\ pos + 1 = 2 * k + 1
            /\ 2 * (k + 1) = (2 * k + 1) + 1
        BY <1>1, <3>2
      <4>2. hash(pos) = 2 * k + 1 /\ Substr(text, pos, hash(pos) - pos) = list[k + 1]
        BY <1>4, <3>2, <4>1
      <4>3. known[hash(pos) + 1] = rest[k + 1]
        <5>1. hash(pos) + 1 = 2 * (k + 1)
          BY <4>1, <4>2
        <5>2. known[2 * (k + 1)] = rest[k + 1]
          BY <2>1, <4>1
        <5> HIDE DEF known, hash
        <5> QED BY <5>1, <5>2
      <4>4. Read(known)[pos] = <<Substr(text, pos, hash(pos) - pos)>> \o known[hash(pos) + 1]
        BY <4>1
      <4>5. known[pos] = rest[k]
        BY <2>1, <3>2, <4>1
      <4> HIDE DEF Read, known, hash
      <4> QED BY <1>7, <4>2, <4>3, <4>4, <4>5
    <3>3. CASE \A k \in 0 .. m : pos # 2 * k
      <4> PICK k \in 0 .. m - 1 : pos = 2 * k + 1
        <5> PICK k \in Int : k = pos \div 2
          OBVIOUS
        <5>1. pos = 2 * k \/ pos = 2 * k + 1
          OBVIOUS
        <5>2. pos \in 0 .. 2 * m
          BY <1>1
        <5>3. k \in 0 .. m /\ (pos = 2 * k + 1 => k \in 0 .. m - 1)
          BY <1>1, <5>1, <5>2
        <5> QED BY <3>3, <5>1, <5>3
      <4>1. pos + 1 = 2 * k + 2 /\ pos # Len(text)
        BY <1>1, <3>3
      <4> PICK q \in 0 .. m : hash(pos) + 1 = 2 * q
        BY <1>5, <4>1
      <4>2. known[hash(pos) + 1] = rest[q] /\ half(hash(pos) + 1) = q
        BY <1>6, <2>1, SMTT(30)
      <4>3. known[pos] = <<Substr(text, pos, hash(pos) - pos)>> \o rest[half(hash(pos) + 1)]
        BY <3>3
      <4>4. Read(known)[pos] = <<Substr(text, pos, hash(pos) - pos)>> \o known[hash(pos) + 1]
        BY <4>1
      <4> HIDE DEF Read, known, hash
      <4> QED BY <4>2, <4>3, <4>4
    <3>4. \A k \in 0 .. m : k # m => k \in 0 .. m - 1
      BY <1>1
    <3>5. 2 * m = Len(text)
      BY <1>1
    <3> QED BY <3>1, <3>2, <3>3, <3>4, <3>5
  <2>3. known = [pos \in 0 .. Len(text) |-> known[pos]] /\ Read(known) = [pos \in 0 .. Len(text) |-> Read(known)[pos]]
    OBVIOUS
  <2> HIDE DEF known, Read
  <2> QED BY <2>2, <2>3
<1> DEFINE elements == CHOOSE f : f = Read(f)
<1>9. elements = Read(elements)
  <2> HIDE DEF known, Read
  <2> QED BY <1>8
<1>10. GetStringList(data, key) = elements[0]
  BY DEF GetStringList, elements, Read, hash
<1> HIDE DEF elements
<1>11. \A pos \in 0 .. Len(text) :
          elements[pos] = IF pos = Len(text) THEN << >>
                          ELSE <<Substr(text, pos, hash(pos) - pos)>> \o elements[hash(pos) + 1]
  BY <1>9
<1> HIDE DEF Read, known
<1>12. elements[2 * m] = rest[m]
  <2>1. 2 * m \in 0 .. Len(text) /\ 2 * m = Len(text)
    BY <1>1
  <2> HIDE DEF hash
  <2> QED BY <1>7, <1>11, <2>1
<1>13. ASSUME NEW k \in 0 .. m - 1, elements[2 * (k + 1)] = rest[k + 1]
       PROVE  elements[2 * k] = rest[k]
  <2>1. 2 * k \in 0 .. Len(text) /\ 2 * k # Len(text) /\ (2 * k + 1) + 1 = 2 * (k + 1)
    BY <1>1
  <2>2. hash(2 * k) = 2 * k + 1 /\ Substr(text, 2 * k, hash(2 * k) - 2 * k) = list[k + 1]
    BY <1>4
  <2> HIDE DEF hash
  <2>3. elements[2 * k] = <<Substr(text, 2 * k, hash(2 * k) - 2 * k)>> \o elements[hash(2 * k) + 1]
    BY <1>11, <2>1
  <2> QED BY <1>7, <1>13, <2>1, <2>2, <2>3
<1> DEFINE T == {n \in Nat : n <= m => elements[2 * (m - n)] = rest[m - n]}
<1>14. 0 \in T
  BY <1>1, <1>12
<1>15. \A n \in Nat : n \in T => n + 1 \in T
  <2> SUFFICES ASSUME NEW n \in Nat, n \in T, n + 1 <= m
               PROVE  elements[2 * (m - (n + 1))] = rest[m - (n + 1)]
    OBVIOUS
  <2> PICK k : k = m - (n + 1)
    OBVIOUS
  <2>0. k \in 0 .. m - 1
    BY <1>1
  <2>1. k + 1 = m - n /\ n <= m
    BY <1>1
  <2>2. elements[2 * (k + 1)] = rest[k + 1]
    BY <2>1
  <2> QED BY <1>13, <2>0, <2>2
<1>16. m \in T
  <2>1. Nat \subseteq T
    <3> HIDE DEF T
    <3> QED BY <1>14, <1>15, SetInduction
  <2> QED BY <1>1, <2>1
<1>17. elements[0] = rest[0] /\ 0 \in 0 .. m
  <2>1. m - m = 0 /\ 2 * 0 = 0 /\ m <= m
    BY <1>1
  <2> QED BY <1>1, <1>16, <2>1
<1>18. rest[0] = list
  <2>1. rest[0] = SubSeq(list, 0 + 1, m)
    BY <1>17 DEF rest
  <2>2. SubSeq(list, 0 + 1, m) = list
    <3>1. 0 + 1 = 1
      OBVIOUS
    <3> QED BY <3>1, SubSeqFull
  <2> QED BY <2>1, <2>2
<1> QED
  BY <1>10, <1>17, <1>18

-----------------------------------------------------------------------------
(* What the catalog writes of its own.  The provers do not know that a     *)
(* literal is a string.                                                    *)
EntryNames == {".fileName", ".fileType", ".rootLocation", ".valCounts", ".sortAtt", ".lastPage"}

(* The symbols of the catalog file.                                        *)
Keywords ==
    {Symbol(s) : s \in EntryNames \cup {"#", "tables", ".attList", ".", ".type", "heap", "bplustree",
                                      "int", "double", "string", "bool", "storageDir", "/", ".bin"}}

(* The tokens of the catalog file, without the separator of its lines.     *)
Words == (Tokens \cup Keywords) \ {Pipe}

(* A list of names is under a key, or there is no entry and it is empty.   *)
ListIn(data, key, list) ==
    IF key \in DOMAIN data THEN data[key] = ListText(list) ELSE list = << >>

(* Lists of names.                                                         *)
NameLists == Seq(Singles(SqlNames))

(* No name is a separator, and names, keywords and numbers can be written. *)
LEMMA NamesAreWords ==
    /\ Hash \notin SqlNames /\ Pipe \notin Words /\ SqlNames \cup {Hash} \subseteq Words
    /\ Keywords \subseteq Words /\ Tokens \ {Pipe} \subseteq Words
    /\ \A x \in Words : <<x>> \in Seq(Words)
<1>1. Hash \in Keywords /\ Hash # Pipe
  <2>1. Hash = <<"symbol", "#">> /\ Pipe = <<"symbol", "|">>
    BY DEF Hash, Pipe, Symbol
  <2>2. Hash[2] = "#" /\ Pipe[2] = "|" /\ "#" # "|"
    BY <2>1
  <2>3. Hash \in Keywords
    BY DEF Hash, Keywords
  <2> QED BY <2>2, <2>3
<1>2. SqlNames \cup {Hash} \subseteq Words
  BY <1>1 DEF SqlNames, Tokens, Words
<1>3. Hash \notin SqlNames /\ Pipe \notin Words
  BY DEF SqlNames, Words
<1>4. \A x \in Words : <<x>> \in Seq(Words)
  OBVIOUS
<1>5. Keywords \subseteq Words /\ Tokens \ {Pipe} \subseteq Words
  <2>1. Pipe \notin Keywords
    <3> SUFFICES ASSUME NEW x \in Keywords
                 PROVE  x # Pipe
      OBVIOUS
    <3> PICK s \in EntryNames \cup {"#", "tables", ".attList", ".", ".type", "heap", "bplustree",
                                  "int", "double", "string", "bool", "storageDir", "/", ".bin"} : x = Symbol(s)
      BY DEF Keywords
    <3>1. s # "|"
      BY DEF EntryNames
    <3>2. x = <<"symbol", s>> /\ Pipe = <<"symbol", "|">>
      BY DEF Symbol, Pipe
    <3> QED BY <3>1, <3>2
  <2> QED BY <2>1 DEF Words
<1> QED
  BY <1>2, <1>3, <1>4, <1>5

(* GetStringList reads the list that is under a key.                       *)
LEMMA ListInRead ==
    ASSUME NEW data, NEW key, NEW list \in NameLists, ListIn(data, key, list)
    PROVE  GetStringList(data, key) = list
<1>1. CASE key \in DOMAIN data
  BY <1>1, NamesAreWords, ListReadBack DEF ListIn, NameLists
<1>2. CASE key \notin DOMAIN data
  BY <1>2 DEF ListIn, GetStringList
<1> QED
  BY <1>1, <1>2

(* A value put under a key.                                                *)
LEMMA PutEntry ==
    ASSUME NEW data, Storable(data, Words), NEW key \in Seq(Words), NEW value \in Seq(Words)
    PROVE  /\ Storable(Put(data, key, value), Words)
           /\ DOMAIN Put(data, key, value) = DOMAIN data \cup {key}
           /\ Put(data, key, value)[key] = value
           /\ \A k \in DOMAIN data : k # key => Put(data, key, value)[k] = data[k]
<1>1. IsFiniteSet(DOMAIN data \cup {key})
  BY FS_AddElement DEF Storable
<1>2. Put(data, key, value) = [k \in DOMAIN data \cup {key} |-> IF k = key THEN value ELSE data[k]]
  BY DEF Put
<1> PICK e : e = Put(data, key, value)
  OBVIOUS
<1>3. /\ DOMAIN e = DOMAIN data \cup {key} /\ e[key] = value
      /\ \A k \in DOMAIN data : k # key => e[k] = data[k]
      /\ e = [k \in DOMAIN e |-> e[k]]
  BY <1>2
<1>4. \A k \in DOMAIN e : k \in Seq(Words) /\ e[k] \in Seq(Words)
  BY <1>3 DEF Storable
<1> QED
  BY <1>1, <1>3, <1>4 DEF Storable

(* A list of names put under a key is in the map, and all else as it was.  *)
LEMMA PutList ==
    ASSUME NEW data, Storable(data, Words), NEW key \in Seq(Words), NEW list \in NameLists
    PROVE  LET e == PutStringList(data, key, list) IN
           /\ Storable(e, Words) /\ DOMAIN e = DOMAIN data \cup {key}
           /\ ListIn(e, key, list)
           /\ \A k \in DOMAIN data : k # key => e[k] = data[k]
<1>1. ListText(list) \in Seq(SqlNames \cup {Hash})
  BY ListTextPlaces DEF NameLists
<1>2. ListText(list) \in Seq(Words)
  BY <1>1, NamesAreWords, SeqMonotonic
<1>3. PutStringList(data, key, list) = Put(data, key, ListText(list))
  BY DEF PutStringList, ListText
<1> PICK e, text : e = PutStringList(data, key, list) /\ text = ListText(list)
  OBVIOUS
<1>4. e = Put(data, key, text) /\ text \in Seq(Words)
  BY <1>2, <1>3
<1>5. /\ Storable(e, Words) /\ DOMAIN e = DOMAIN data \cup {key} /\ e[key] = text
      /\ \A k \in DOMAIN data : k # key => e[k] = data[k]
  <2>1. /\ Storable(Put(data, key, text), Words)
        /\ DOMAIN Put(data, key, text) = DOMAIN data \cup {key}
        /\ Put(data, key, text)[key] = text
        /\ \A k \in DOMAIN data : k # key => Put(data, key, text)[k] = data[k]
    BY <1>4, PutEntry
  <2> QED BY <1>4, <2>1
<1>6. ListIn(e, key, list)
  BY <1>5 DEF ListIn
<1> QED
  BY <1>5, <1>6

(* The names of the attributes, as a list.                                 *)
AttNames(schema) == [n \in DOMAIN schema |-> <<schema[n][1]>>]

(* The attributes that the catalog has of a table.                         *)
SchemaIn(data, t, schema) ==
    /\ ListIn(data, Key(t, ".attList"), AttNames(schema))
    /\ \A n \in DOMAIN schema : /\ AttKey(t, schema[n][1]) \in DOMAIN data
                                /\ data[AttKey(t, schema[n][1])] = <<Symbol(schema[n][2])>>

(* No attribute has the name of another.                                   *)
NoneTwice(schema) == \A i, j \in DOMAIN schema : schema[i][1] = schema[j][1] => i = j

(* The names of the attributes are a list of names, in the same order.     *)
LEMMA AttNamesListed ==
    ASSUME NEW schema \in Seq(Attributes)
    PROVE  /\ AttNames(schema) \in NameLists /\ Len(AttNames(schema)) = Len(schema)
           /\ DOMAIN schema = 1 .. Len(schema) /\ Len(schema) \in Nat
           /\ \A n \in DOMAIN schema : /\ AttNames(schema)[n] = <<schema[n][1]>>
                                       /\ schema[n] \in Attributes /\ schema[n][1] \in SqlNames
<1>1. /\ Len(schema) \in Nat /\ DOMAIN schema = 1 .. Len(schema)
      /\ \A n \in DOMAIN schema : schema[n] \in Attributes /\ schema[n][1] \in SqlNames
  <2>1. Len(schema) \in Nat /\ DOMAIN schema = 1 .. Len(schema)
    BY LenProperties
  <2>2. \A n \in 1 .. Len(schema) : schema[n] \in Attributes
    BY ElementOfSeq
  <2>3. \A att \in Attributes : att[1] \in SqlNames
    BY DEF Attributes
  <2> QED BY <2>1, <2>2, <2>3
<1>2. \A n \in DOMAIN schema : AttNames(schema)[n] = <<schema[n][1]>> /\ <<schema[n][1]>> \in Singles(SqlNames)
  BY <1>1 DEF AttNames, Singles
<1>3. AttNames(schema) \in [1 .. Len(schema) -> Singles(SqlNames)]
  <2>1. AttNames(schema) = [n \in 1 .. Len(schema) |-> <<schema[n][1]>>]
    BY <1>1 DEF AttNames
  <2> QED BY <1>1, <1>2, <2>1
<1>4. AttNames(schema) \in NameLists /\ Len(AttNames(schema)) = Len(schema)
  BY <1>1, <1>3 DEF NameLists
<1> QED
  BY <1>1, <1>2, <1>4

(* An attribute added to a schema.                                         *)
LEMMA RenewedSchema ==
    ASSUME NEW schema \in Seq(Attributes), NoneTwice(schema), NEW att \in Attributes
    PROVE  LET more == Renewed(schema, att)  names == AttNames(schema) IN
           /\ more \in Seq(Attributes) /\ NoneTwice(more)
           /\ AttNames(more) = IF Contains(names, <<att[1]>>) THEN names ELSE Append(names, <<att[1]>>)
           /\ \A n \in DOMAIN more :
                 more[n] = att \/ (n \in DOMAIN schema /\ more[n] = schema[n] /\ schema[n][1] # att[1])
<1> PICK names, more, len : names = AttNames(schema) /\ more = Renewed(schema, att) /\ len = Len(schema)
  OBVIOUS
<1>1. /\ len \in Nat /\ DOMAIN schema = 1 .. len /\ names \in NameLists /\ Len(names) = len
      /\ \A n \in 1 .. len : names[n] = <<schema[n][1]>> /\ schema[n] \in Attributes
  BY AttNamesListed
<1>2. Contains(names, <<att[1]>>) <=> att[1] \in Names(schema)
  <2>1. \A n \in 1 .. len : names[n] = <<att[1]>> <=> schema[n][1] = att[1]
    BY <1>1
  <2> QED BY <1>1, <2>1 DEF Contains, Names
<1>3. CASE att[1] \in Names(schema)
  <2>1. more = [n \in 1 .. len |-> IF schema[n][1] = att[1] THEN att ELSE schema[n]]
    BY <1>1, <1>3 DEF Renewed
  <2>2. more \in [1 .. len -> Attributes] /\ DOMAIN more = 1 .. len
    BY <1>1, <2>1
  <2>3. \A n \in 1 .. len : more[n] = att \/ (more[n] = schema[n] /\ schema[n][1] # att[1])
    BY <2>1
  <2>4. \A n \in 1 .. len : more[n][1] = schema[n][1]
    BY <2>1
  <2>5. more \in Seq(Attributes)
    BY <1>1, <2>2
  <2>6. AttNames(more) = names
    <3>1. AttNames(more) = [n \in 1 .. len |-> <<more[n][1]>>]
      BY <2>2 DEF AttNames
    <3>2. names = [n \in 1 .. len |-> <<schema[n][1]>>]
      BY <1>1 DEF AttNames
    <3> QED BY <2>4, <3>1, <3>2
  <2>7. NoneTwice(more)
    BY <1>1, <2>2, <2>4 DEF NoneTwice
  <2> QED BY <1>1, <1>2, <1>3, <2>2, <2>3, <2>5, <2>6, <2>7
<1>4. CASE att[1] \notin Names(schema)
  <2>1. more = Append(schema, att)
    BY <1>4 DEF Renewed
  <2>2. /\ more \in Seq(Attributes) /\ Len(more) = len + 1 /\ more[len + 1] = att
        /\ \A n \in 1 .. len : more[n] = schema[n]
    BY <2>1, AppendProperties
  <2>3. DOMAIN more = 1 .. len + 1
    BY <2>2, LenProperties
  <2>4. \A n \in 1 .. len : schema[n][1] # att[1]
    BY <1>1, <1>4 DEF Names
  <2>5. \A n \in 1 .. len + 1 : n = len + 1 \/ n \in 1 .. len
    BY <1>1
  <2>6. NoneTwice(more)
    BY <1>1, <2>2, <2>3, <2>4, <2>5 DEF NoneTwice
  <2>7. AttNames(more) = Append(names, <<att[1]>>)
    <3> PICK x : x = <<att[1]>>
      OBVIOUS
    <3>1. x \in Singles(SqlNames)
      BY DEF Singles, Attributes
    <3>2. /\ Append(names, x) \in NameLists /\ Len(Append(names, x)) = len + 1
          /\ Append(names, x)[len + 1] = x
          /\ \A n \in 1 .. len : Append(names, x)[n] = names[n]
      BY <1>1, <3>1, AppendProperties DEF NameLists
    <3>3. /\ AttNames(more) \in NameLists /\ Len(AttNames(more)) = len + 1
          /\ \A n \in 1 .. len + 1 : AttNames(more)[n] = <<more[n][1]>>
      BY <2>2, <2>3, AttNamesListed
    <3>4. \A n \in 1 .. len + 1 : AttNames(more)[n] = Append(names, x)[n]
      BY <1>1, <2>2, <2>5, <3>2, <3>3, ZenonT(60)
    <3>5. AttNames(more) = Append(names, x)
      BY <3>2, <3>3, <3>4, SeqEqual DEF NameLists
    <3> QED BY <3>5
  <2>8. \A n \in 1 .. len + 1 : more[n] = att \/ (n \in DOMAIN schema /\ more[n] = schema[n] /\ schema[n][1] # att[1])
    BY <1>1, <2>2, <2>4, <2>5
  <2> QED BY <1>2, <1>4, <2>2, <2>3, <2>6, <2>7, <2>8
<1> QED
  BY <1>3, <1>4

(* The keys of the attributes of a table.                                  *)
OwnKeys(t) == {Key(t, ".attList")} \cup {AttKey(t, a) : a \in SqlNames}

(* The keys of the catalog are texts, and no two of them the same.         *)
LEMMA KeysApart ==
    /\ Tables \in Seq(Words)
    /\ \A t \in SqlNames : \A s \in EntryNames \cup {".attList"} :
          Key(t, s) \in Seq(Words) /\ Key(t, s) # Tables /\ Key(t, s)[1] = t
    /\ \A t, a \in SqlNames : AttKey(t, a) \in Seq(Words) /\ AttKey(t, a) # Tables /\ AttKey(t, a)[1] = t
    /\ \A t, u, a \in SqlNames : \A s \in EntryNames \cup {".attList"} : Key(t, s) # AttKey(u, a)
    /\ \A t, a, b \in SqlNames : AttKey(t, a) = AttKey(t, b) => a = b
    /\ \A t \in SqlNames : \A r, s \in EntryNames \cup {".attList"} : Key(t, r) = Key(t, s) => r = s
<1>1. \A s \in EntryNames \cup {".attList", "tables", ".", ".type"} : Symbol(s) \in Words
  <2>1. \A s \in EntryNames \cup {".attList", "tables", ".", ".type"} : Symbol(s) \in Keywords
    BY DEF Keywords
  <2> QED BY <2>1, NamesAreWords
<1>2. SqlNames \subseteq Words
  BY NamesAreWords
<1>3. Tables = <<Symbol("tables")>> /\ Tables \in Seq(Words) /\ Len(Tables) = 1
  BY <1>1 DEF Tables
<1>4. \A t : \A s \in EntryNames \cup {".attList"} :
         Key(t, s) = <<t, Symbol(s)>> /\ Len(Key(t, s)) = 2 /\ Key(t, s)[1] = t /\ Key(t, s)[2][2] = s
  BY DEF Key, Symbol
<1>5. \A t, a : /\ AttKey(t, a) = <<t, Symbol("."), a, Symbol(".type")>>
                /\ Len(AttKey(t, a)) = 4 /\ AttKey(t, a)[1] = t /\ AttKey(t, a)[3] = a
  BY DEF AttKey
<1>6. \A t \in SqlNames : \A s \in EntryNames \cup {".attList"} : Key(t, s) \in Seq(Words)
  <2> SUFFICES ASSUME NEW t \in SqlNames, NEW s \in EntryNames \cup {".attList"}
               PROVE  Key(t, s) \in Seq(Words)
    OBVIOUS
  <2> PICK x \in Words, y \in Words : x = t /\ y = Symbol(s)
    BY <1>1, <1>2
  <2>1. <<x, y>> \in Seq(Words)
    OBVIOUS
  <2> QED BY <1>4, <2>1
<1>7. \A t, a \in SqlNames : AttKey(t, a) \in Seq(Words)
  <2> SUFFICES ASSUME NEW t \in SqlNames, NEW a \in SqlNames
               PROVE  AttKey(t, a) \in Seq(Words)
    OBVIOUS
  <2> PICK x \in Words, y \in Words, z \in Words, v \in Words :
         x = t /\ y = Symbol(".") /\ z = a /\ v = Symbol(".type")
    BY <1>1, <1>2
  <2>1. <<x, y, z, v>> \in Seq(Words)
    OBVIOUS
  <2> QED BY <1>5, <2>1
<1>8. \A t, u, a \in SqlNames : \A s \in EntryNames \cup {".attList"} :
         Key(t, s) # AttKey(u, a) /\ Key(t, s) # Tables /\ AttKey(u, a) # Tables
  <2> TAKE t, u, a \in SqlNames
  <2> TAKE s \in EntryNames \cup {".attList"}
  <2>1. Len(Key(t, s)) = 2 /\ Len(AttKey(u, a)) = 4 /\ Len(Tables) = 1
    BY <1>3, <1>4, <1>5
  <2> QED BY <2>1
<1>9. \A t, a, b \in SqlNames : AttKey(t, a) = AttKey(t, b) => a = b
  <2> TAKE t, a, b \in SqlNames
  <2>1. AttKey(t, a)[3] = a /\ AttKey(t, b)[3] = b
    BY <1>5
  <2> QED BY <2>1
<1>10. \A t \in SqlNames : \A r, s \in EntryNames \cup {".attList"} : Key(t, r) = Key(t, s) => r = s
  <2> TAKE t \in SqlNames
  <2> TAKE r, s \in EntryNames \cup {".attList"}
  <2>1. Key(t, r)[2][2] = r /\ Key(t, s)[2][2] = s
    BY <1>4
  <2> QED BY <2>1
<1> QED
  BY <1>3, <1>4, <1>5, <1>6, <1>7, <1>8, <1>9, <1>10

(* What addAtt does to the attributes in the catalog, and to nothing else. *)
LEMMA AddAttRenews ==
    ASSUME NEW data, Storable(data, Words), NEW t \in SqlNames, NEW schema \in Seq(Attributes),
           NoneTwice(schema), SchemaIn(data, t, schema), NEW att \in Attributes
    PROVE  LET e == AddAtt(data, t, att) IN
           /\ Storable(e, Words) /\ SchemaIn(e, t, Renewed(schema, att))
           /\ DOMAIN data \subseteq DOMAIN e /\ DOMAIN e \subseteq DOMAIN data \cup OwnKeys(t)
           /\ \A k \in DOMAIN data \ OwnKeys(t) : e[k] = data[k]
<1> PICK more, names, key, attKey, value :
       /\ more = Renewed(schema, att) /\ names = AttNames(more)
       /\ key = Key(t, ".attList") /\ attKey = AttKey(t, att[1]) /\ value = <<Symbol(att[2])>>
  OBVIOUS
<1>1. /\ more \in Seq(Attributes)
      /\ names = IF Contains(AttNames(schema), <<att[1]>>) THEN AttNames(schema)
                 ELSE Append(AttNames(schema), <<att[1]>>)
      /\ \A n \in DOMAIN more :
            more[n] = att \/ (n \in DOMAIN schema /\ more[n] = schema[n] /\ schema[n][1] # att[1])
  BY RenewedSchema
<1>2. names \in NameLists
  BY <1>1, AttNamesListed
<1>3. GetStringList(data, key) = AttNames(schema)
  BY AttNamesListed, ListInRead DEF SchemaIn
<1> PICK mid, e : mid = PutStringList(data, key, names) /\ e = Put(mid, attKey, value)
  OBVIOUS
<1>4. AddAtt(data, t, att) = e
  BY <1>1, <1>3 DEF AddAtt
<1>5. att[1] \in SqlNames /\ att[2] \in {"int", "double", "string", "bool"}
  BY DEF Attributes
<1>6. /\ key \in Seq(Words) /\ attKey \in Seq(Words) /\ key # attKey /\ key \in OwnKeys(t) /\ attKey \in OwnKeys(t)
  BY <1>5, KeysApart DEF OwnKeys
<1>7. value \in Seq(Words)
  <2>1. Symbol(att[2]) \in Words
    BY <1>5, NamesAreWords DEF Keywords
  <2> QED BY <2>1, NamesAreWords
<1>8. /\ Storable(mid, Words) /\ DOMAIN mid = DOMAIN data \cup {key} /\ ListIn(mid, key, names)
      /\ \A k \in DOMAIN data : k # key => mid[k] = data[k]
  <2>1. LET d == PutStringList(data, key, names) IN
        /\ Storable(d, Words) /\ DOMAIN d = DOMAIN data \cup {key}
        /\ ListIn(d, key, names)
        /\ \A k \in DOMAIN data : k # key => d[k] = data[k]
    BY <1>2, <1>6, PutList, ZenonT(60)
  <2> QED BY <2>1
<1>9. /\ Storable(e, Words) /\ DOMAIN e = DOMAIN mid \cup {attKey} /\ e[attKey] = value
      /\ \A k \in DOMAIN mid : k # attKey => e[k] = mid[k]
  <2>1. /\ Storable(Put(mid, attKey, value), Words)
        /\ DOMAIN Put(mid, attKey, value) = DOMAIN mid \cup {attKey}
        /\ Put(mid, attKey, value)[attKey] = value
        /\ \A k \in DOMAIN mid : k # attKey => Put(mid, attKey, value)[k] = mid[k]
    <3>1. Storable(mid, Words) /\ attKey \in Seq(Words) /\ value \in Seq(Words)
      BY <1>6, <1>7, <1>8
    <3>2. \A k \in DOMAIN mid : k # attKey => Put(mid, attKey, value)[k] = mid[k]
      BY DEF Put
    <3>3. Storable(Put(mid, attKey, value), Words)
      BY <3>1, PutEntry
    <3>4. DOMAIN Put(mid, attKey, value) = DOMAIN mid \cup {attKey}
      BY DEF Put
    <3>5. Put(mid, attKey, value)[attKey] = value
      BY DEF Put
    <3> QED BY <3>2, <3>3, <3>4, <3>5
  <2> QED BY <2>1
<1>10. ListIn(e, key, names)
  BY <1>6, <1>8, <1>9 DEF ListIn
<1>11. ASSUME NEW n \in DOMAIN more
       PROVE  /\ AttKey(t, more[n][1]) \in DOMAIN e
              /\ e[AttKey(t, more[n][1])] = <<Symbol(more[n][2])>>
  <2>1. CASE more[n] = att
    BY <1>9, <2>1
  <2>2. CASE n \in DOMAIN schema /\ more[n] = schema[n] /\ schema[n][1] # att[1]
    <3> PICK k : k = AttKey(t, schema[n][1])
      OBVIOUS
    <3>1. k \in DOMAIN data /\ data[k] = <<Symbol(schema[n][2])>>
      BY <2>2 DEF SchemaIn
    <3>2. k # key /\ k # attKey
      <4>1. schema[n][1] \in SqlNames
        BY <2>2, AttNamesListed
      <4> QED BY <1>5, <2>2, <4>1, KeysApart
    <3>3. k \in DOMAIN mid /\ mid[k] = data[k]
      BY <1>8, <3>1, <3>2
    <3>4. k \in DOMAIN e /\ e[k] = data[k]
      BY <1>9, <3>2, <3>3
    <3> QED BY <2>2, <3>1, <3>4
  <2> QED BY <1>1, <2>1, <2>2
<1>12. SchemaIn(e, t, more)
  BY <1>10, <1>11 DEF SchemaIn
<1>13. DOMAIN e = DOMAIN data \cup {key, attKey}
  BY <1>8, <1>9
<1>14. \A k \in DOMAIN data \ OwnKeys(t) : e[k] = data[k]
  BY <1>6, <1>8, <1>9
<1> QED
  BY <1>4, <1>6, <1>9, <1>12, <1>13, <1>14

(* The attributes put in the catalog one after the other.                  *)
AttsAddedTo(data, t, new) == FoldLeft(LAMBDA d, att : AddAtt(d, t, att), data, new)

(* putInCatalog adds the attributes one after the other; what is then in   *)
(* the catalog are those that were there and these.                        *)
LEMMA AttsAdded ==
    ASSUME NEW data, Storable(data, Words), NEW t \in SqlNames, NEW old \in Seq(Attributes),
           NoneTwice(old), SchemaIn(data, t, old), NEW new \in Seq(Attributes),
           NEW e, e = AttsAddedTo(data, t, new), NEW merged, merged = Merged(old, new)
    PROVE  /\ merged \in Seq(Attributes) /\ NoneTwice(merged)
           /\ Storable(e, Words) /\ SchemaIn(e, t, merged)
           /\ DOMAIN data \subseteq DOMAIN e /\ DOMAIN e \subseteq DOMAIN data \cup OwnKeys(t)
           /\ \A k \in DOMAIN data \ OwnKeys(t) : e[k] = data[k]
<1> PICK n : n = Len(new)
  OBVIOUS
<1>1. n \in Nat /\ DOMAIN new = 1 .. n /\ \A i \in 1 .. n : new[i] \in Attributes
  BY LenProperties, ElementOfSeq
<1> DEFINE S == 1 .. n
           chosen == [s \in SUBSET S |-> Max(s)]
           Schs == {s \in Seq(Attributes) : NoneTwice(s)}
           Good(m) == Storable(m, Words) /\ \E s \in Schs : SchemaIn(m, t, s)
           Maps == {m \in UNION {[K -> Seq(Words)] : K \in SUBSET Seq(Words)} : Good(m)}
           FoldSchemas(f) == [s \in SUBSET S |-> IF s = {} THEN old
                                                 ELSE Renewed(f[s \ {Max(s)}], new[Max(s)])]
           FoldMaps(f) == [s \in SUBSET S |-> IF s = {} THEN data
                                              ELSE AddAtt(f[s \ {Max(s)}], t, new[Max(s)])]
<1>2. /\ \A s \in SUBSET S : s # {} => chosen[s] \in s /\ Max(s) \in S /\ s \ {Max(s)} \in SUBSET S
      /\ IsFiniteSet(S)
  <2>1. IsFiniteSet(S)
    BY <1>1, FS_Interval
  <2>2. \A s \in SUBSET S : s # {} => Max(s) \in s
    BY <1>1, GreatestPlace
  <2> HIDE DEF S
  <2> QED BY <2>1, <2>2
<1>3. \A s \in Schs : \A i \in S : Renewed(s, new[i]) \in Schs
  BY <1>1, RenewedSchema
<1>4. \A m : Good(m) <=> m \in Maps
  <2> SUFFICES ASSUME NEW m, Good(m)
               PROVE  m \in Maps
    OBVIOUS
  <2> PICK K : K = DOMAIN m
    OBVIOUS
  <2>1. K \in SUBSET Seq(Words) /\ m \in [K -> Seq(Words)]
    BY DEF Storable
  <2> HIDE DEF Good
  <2> QED BY <2>1
<1>5. \A m \in Maps : \A i \in S : AddAtt(m, t, new[i]) \in Maps
  <2> TAKE m \in Maps
  <2> TAKE i \in S
  <2> PICK s \in Schs : Storable(m, Words) /\ SchemaIn(m, t, s)
    OBVIOUS
  <2>1. new[i] \in Attributes /\ s \in Seq(Attributes) /\ NoneTwice(s)
    BY <1>1
  <2>2. Storable(AddAtt(m, t, new[i]), Words) /\ SchemaIn(AddAtt(m, t, new[i]), t, Renewed(s, new[i]))
    BY <2>1, AddAttRenews
  <2>3. Renewed(s, new[i]) \in Schs
    BY <1>3
  <2>4. Good(AddAtt(m, t, new[i]))
    BY <2>2, <2>3
  <2> HIDE DEF Good, Maps
  <2> QED BY <1>4, <2>4
<1>6. data \in Maps /\ old \in Schs
  <2>1. old \in Schs
    OBVIOUS
  <2>2. Good(data)
    BY <2>1
  <2> HIDE DEF Good, Maps
  <2> QED BY <1>4, <2>1, <2>2
<1> HIDE DEF Maps, Schs, S
<1>7. \E f : f = FoldSchemas(f)
  <2> DEFINE step == [i \in S |-> [x \in Schs |-> Renewed(x, new[i])]]
  <2>1. step \in [S -> [Schs -> Schs]]
    BY <1>3
  <2> HIDE DEF step
  <2> PICK f \in [SUBSET S -> Schs] : FoldsBy(f, old, chosen, step, S)
    <3> HIDE DEF chosen
    <3> QED BY <1>2, <1>6, <2>1, FoldExists
  <2>2. \A s \in SUBSET S : f[s] = FoldSchemas(f)[s]
    <3> TAKE s \in SUBSET S
    <3>1. f[s] = IF s = {} THEN old ELSE step[Max(s)][f[s \ {Max(s)}]]
      BY DEF FoldsBy
    <3>2. CASE s # {}
      <4> PICK x \in Schs, i \in S : x = f[s \ {Max(s)}] /\ i = Max(s)
        BY <1>2, <3>2
      <4>1. step[i][x] = Renewed(x, new[i])
        BY DEF step
      <4> QED BY <3>1, <3>2, <4>1
    <3> QED BY <3>1, <3>2
  <2>3. f = [s \in SUBSET S |-> f[s]]
    OBVIOUS
  <2> QED BY <2>2, <2>3
<1>8. \E f : f = FoldMaps(f)
  <2> DEFINE step == [i \in S |-> [x \in Maps |-> AddAtt(x, t, new[i])]]
  <2>1. step \in [S -> [Maps -> Maps]]
    BY <1>5
  <2> HIDE DEF step
  <2> PICK f \in [SUBSET S -> Maps] : FoldsBy(f, data, chosen, step, S)
    <3> HIDE DEF chosen
    <3> QED BY <1>2, <1>6, <2>1, FoldExists
  <2>2. \A s \in SUBSET S : f[s] = FoldMaps(f)[s]
    <3> TAKE s \in SUBSET S
    <3>1. f[s] = IF s = {} THEN data ELSE step[Max(s)][f[s \ {Max(s)}]]
      BY DEF FoldsBy
    <3>2. CASE s # {}
      <4> PICK x \in Maps, i \in S : x = f[s \ {Max(s)}] /\ i = Max(s)
        BY <1>2, <3>2
      <4>1. step[i][x] = AddAtt(x, t, new[i])
        BY DEF step
      <4> QED BY <3>1, <3>2, <4>1
    <3> QED BY <3>1, <3>2
  <2>3. f = [s \in SUBSET S |-> f[s]]
    OBVIOUS
  <2> QED BY <2>2, <2>3
<1> DEFINE schemas == CHOOSE f : f = FoldSchemas(f)
           maps == CHOOSE f : f = FoldMaps(f)
<1>9. schemas = FoldSchemas(schemas) /\ maps = FoldMaps(maps)
  <2> HIDE DEF FoldSchemas, FoldMaps
  <2> QED BY <1>7, <1>8
<1>10. /\ AttsAddedTo(data, t, new) = maps[S]
       /\ Merged(old, new) = schemas[S]
  BY <1>1 DEF AttsAddedTo, Merged, FoldLeft, MapThenFoldSet, maps, schemas, S
<1> HIDE DEF schemas, maps
<1>11. /\ schemas[{}] = old /\ maps[{}] = data
       /\ \A k \in 0 .. n - 1 : /\ schemas[1 .. k + 1] = Renewed(schemas[1 .. k], new[k + 1])
                                /\ maps[1 .. k + 1] = AddAtt(maps[1 .. k], t, new[k + 1])
  <2>1. \A s \in SUBSET S : /\ schemas[s] = FoldSchemas(schemas)[s]
                            /\ maps[s] = FoldMaps(maps)[s]
    <3> HIDE DEF FoldSchemas, FoldMaps
    <3> QED BY <1>9
  <2>2. schemas[{}] = old /\ maps[{}] = data
    BY <2>1
  <2>3. ASSUME NEW k \in 0 .. n - 1
        PROVE  /\ schemas[1 .. k + 1] = Renewed(schemas[1 .. k], new[k + 1])
               /\ maps[1 .. k + 1] = AddAtt(maps[1 .. k], t, new[k + 1])
    <3> PICK s : s = 1 .. k + 1
      OBVIOUS
    <3>1. s \in SUBSET S /\ s # {} /\ Max(s) = k + 1 /\ s \ {k + 1} = 1 .. k
      <4>1. k + 1 \in S /\ s \in SUBSET S /\ s # {}
        <5>1. n \in Nat /\ k \in Nat /\ k + 1 <= n
          BY <1>1
        <5>2. k + 1 \in 1 .. n /\ 1 .. k + 1 \subseteq 1 .. n /\ k + 1 \in 1 .. k + 1
          BY <5>1
        <5> QED BY <5>2 DEF S
      <4>2. Max(s) = k + 1 /\ s \ {k + 1} = 1 .. k
        BY <1>1, GreatestPlace
      <4> QED BY <4>1, <4>2
    <3>2. /\ schemas[s] = Renewed(schemas[s \ {Max(s)}], new[Max(s)])
          /\ maps[s] = AddAtt(maps[s \ {Max(s)}], t, new[Max(s)])
      BY <2>1, <3>1
    <3> QED BY <3>1, <3>2
  <2> QED BY <2>2, <2>3
<1> DEFINE Added(m, s) ==
             /\ s \in Seq(Attributes) /\ NoneTwice(s)
             /\ Storable(m, Words) /\ SchemaIn(m, t, s)
             /\ DOMAIN data \subseteq DOMAIN m /\ DOMAIN m \subseteq DOMAIN data \cup OwnKeys(t)
             /\ \A k \in DOMAIN data \ OwnKeys(t) : m[k] = data[k]
<1>12. Added(data, old)
  OBVIOUS
<1>13. ASSUME NEW m, NEW s, Added(m, s), NEW att \in Attributes
       PROVE  Added(AddAtt(m, t, att), Renewed(s, att))
  <2>1. Renewed(s, att) \in Seq(Attributes) /\ NoneTwice(Renewed(s, att))
    BY <1>13, RenewedSchema
  <2> PICK d : d = AddAtt(m, t, att)
    OBVIOUS
  <2>2. /\ Storable(d, Words) /\ SchemaIn(d, t, Renewed(s, att))
        /\ DOMAIN m \subseteq DOMAIN d /\ DOMAIN d \subseteq DOMAIN m \cup OwnKeys(t)
        /\ \A k \in DOMAIN m \ OwnKeys(t) : d[k] = m[k]
    BY <1>13, AddAttRenews
  <2>3. \A k \in DOMAIN data \ OwnKeys(t) : d[k] = data[k]
    BY <1>13, <2>2
  <2>4. DOMAIN data \subseteq DOMAIN d /\ DOMAIN d \subseteq DOMAIN data \cup OwnKeys(t)
    BY <1>13, <2>2
  <2> QED BY <2>1, <2>2, <2>3, <2>4
<1> HIDE DEF Added
<1> DEFINE T == {k \in Nat : k <= n => Added(maps[1 .. k], schemas[1 .. k])}
<1>14. 0 \in T
  <2>1. 1 .. 0 = {}
    OBVIOUS
  <2> QED BY <1>11, <1>12, <2>1
<1>15. \A k \in Nat : k \in T => k + 1 \in T
  <2> SUFFICES ASSUME NEW k \in Nat, k \in T, k + 1 <= n
               PROVE  Added(maps[1 .. k + 1], schemas[1 .. k + 1])
    OBVIOUS
  <2>1. k \in 0 .. n - 1 /\ k + 1 \in 1 .. n /\ k <= n
    BY <1>1
  <2>2. Added(maps[1 .. k], schemas[1 .. k]) /\ new[k + 1] \in Attributes
    BY <1>1, <2>1
  <2>3. Added(AddAtt(maps[1 .. k], t, new[k + 1]), Renewed(schemas[1 .. k], new[k + 1]))
    BY <1>13, <2>2
  <2> QED BY <1>11, <2>1, <2>3
<1>16. Nat \subseteq T
  <2> HIDE DEF T
  <2> QED BY <1>14, <1>15, SetInduction
<1>17. Added(maps[S], schemas[S])
  BY <1>1, <1>16 DEF S
<1>18. e = maps[S] /\ merged = schemas[S]
  BY <1>10
<1> QED
  BY <1>17, <1>18 DEF Added

-----------------------------------------------------------------------------
(* The descriptors that can be written in a catalog file.                  *)
WrittenDescriptors ==
    [tableName : SqlNames, storageLoc : Seq(Words), mySchema : Seq(Attributes), last : Int,
     fileType : {"heap", "bplustree"}, sortAtt : SqlNames, rootLocation : Int, allCounts : {<< >>}]

(* The entries of a table, all but its attributes.                         *)
EntriesIn(data, t, x) ==
    /\ \A s \in EntryNames : Key(t, s) \in DOMAIN data
    /\ data[Key(t, ".fileName")] = x.storageLoc
    /\ data[Key(t, ".fileType")] = <<Symbol(x.fileType)>>
    /\ data[Key(t, ".rootLocation")] = <<Number(x.rootLocation)>>
    /\ data[Key(t, ".valCounts")] = << >>
    /\ data[Key(t, ".sortAtt")] = <<x.sortAtt>>
    /\ data[Key(t, ".lastPage")] = <<Number(x.last)>>

(* All of a table, under its name.                                         *)
Told(data, t, x) ==
    /\ x \in WrittenDescriptors /\ x.tableName = t /\ NoneTwice(x.mySchema)
    /\ EntriesIn(data, t, x) /\ SchemaIn(data, t, x.mySchema)

(* The names on a list.                                                    *)
ListedNames(list) == {list[n][1] : n \in DOMAIN list}

(* The map of the catalog tells of the tables d and of nothing else.       *)
Describes(data, d) ==
    /\ Storable(data, Words) /\ d = [t \in DOMAIN d |-> d[t]]
    /\ \E list \in NameLists : ListIn(data, Tables, list) /\ DOMAIN d = ListedNames(list)
    /\ \A t \in DOMAIN d : Told(data, t, d[t])
    /\ \A key \in DOMAIN data : key = Tables \/ key[1] \in DOMAIN d

(* getAllTables reads what the map tells.                                  *)
LEMMA ToldIsRead ==
    ASSUME NEW data, NEW t, NEW x, Told(data, t, x)
    PROVE  FromCatalog(data, t) = x
<1>1. /\ GetInt(data, Key(t, ".lastPage")) = x.last
      /\ GetInt(data, Key(t, ".rootLocation")) = x.rootLocation
      /\ data[Key(t, ".fileType")][1][2] = x.fileType
      /\ data[Key(t, ".sortAtt")][1] = x.sortAtt
      /\ data[Key(t, ".fileName")] = x.storageLoc
  BY DEF Told, EntriesIn, GetInt, Number, Symbol
<1>2. GetStringList(data, Key(t, ".valCounts")) = << >>
  <2>1. Key(t, ".valCounts") \in DOMAIN data /\ data[Key(t, ".valCounts")] = << >>
    BY DEF Told, EntriesIn, EntryNames
  <2>2. << >> \in NameLists /\ ListText(<< >>) = << >>
    <3>1. [n \in DOMAIN << >> |-> Append(<< >>[n], Hash)] = << >>
      OBVIOUS
    <3>2. FlattenSeq(<< >>) = << >>
      BY DEF FlattenSeq
    <3> QED BY <3>1, <3>2 DEF ListText, NameLists
  <2>3. ListIn(data, Key(t, ".valCounts"), << >>)
    BY <2>1, <2>2 DEF ListIn
  <2> QED BY <2>2, <2>3, ListInRead
<1>3. SchemaFromCatalog(data, t) = x.mySchema
  <2> PICK schema : schema = x.mySchema
    OBVIOUS
  <2>1. schema \in Seq(Attributes) /\ SchemaIn(data, t, schema)
    BY DEF Told, WrittenDescriptors
  <2>2. /\ AttNames(schema) \in NameLists
        /\ DOMAIN AttNames(schema) = DOMAIN schema
        /\ \A n \in DOMAIN schema : AttNames(schema)[n] = <<schema[n][1]>> /\ schema[n] \in Attributes
    BY <2>1, AttNamesListed DEF AttNames
  <2>3. GetStringList(data, Key(t, ".attList")) = AttNames(schema)
    BY <2>1, <2>2, ListInRead DEF SchemaIn
  <2>4. \A n \in DOMAIN schema :
           <<AttNames(schema)[n][1], data[AttKey(t, AttNames(schema)[n][1])][1][2]>> = schema[n]
    <3> TAKE n \in DOMAIN schema
    <3>1. AttNames(schema)[n][1] = schema[n][1]
      BY <2>2
    <3>2. data[AttKey(t, schema[n][1])][1][2] = schema[n][2]
      <4>1. data[AttKey(t, schema[n][1])] = <<Symbol(schema[n][2])>>
        BY <2>1 DEF SchemaIn
      <4> QED BY <4>1 DEF Symbol
    <3>3. <<schema[n][1], schema[n][2]>> = schema[n]
      BY <2>2 DEF Attributes
    <3> QED BY <3>1, <3>2, <3>3
  <2>5. SchemaFromCatalog(data, t) = [n \in DOMAIN schema |-> schema[n]]
    BY <2>2, <2>3, <2>4 DEF SchemaFromCatalog
  <2>6. schema = [n \in DOMAIN schema |-> schema[n]]
    BY <2>1
  <2> QED BY <2>5, <2>6
<1>4. x \in WrittenDescriptors /\ x.tableName = t
  BY DEF Told
<1>5. FromCatalog(data, t) =
        [tableName |-> x.tableName, storageLoc |-> x.storageLoc, mySchema |-> x.mySchema, last |-> x.last,
         fileType |-> x.fileType, sortAtt |-> x.sortAtt, rootLocation |-> x.rootLocation,
         allCounts |-> x.allCounts]
  BY <1>1, <1>2, <1>3, <1>4 DEF FromCatalog, WrittenDescriptors
<1> QED
  BY <1>4, <1>5 DEF WrittenDescriptors

(* getAllTables reads all the tables that the map tells of.                *)
LEMMA TablesRead ==
    ASSUME NEW data, NEW d, Describes(data, d)
    PROVE  GetAllTables(data) = d
<1> PICK list \in NameLists : ListIn(data, Tables, list) /\ DOMAIN d = ListedNames(list)
  BY DEF Describes
<1>1. GetStringList(data, Tables) = list
  BY ListInRead
<1>2. \A t \in DOMAIN d : FromCatalog(data, t) = d[t]
  BY ToldIsRead DEF Describes
<1>3. GetAllTables(data) = [t \in DOMAIN d |-> FromCatalog(data, t)]
  BY <1>1 DEF GetAllTables, ListedNames
<1>4. d = [t \in DOMAIN d |-> d[t]]
  BY DEF Describes
<1> QED
  BY <1>2, <1>3, <1>4

(* The tables the map does not tell of have no attributes in it.           *)
LEMMA NothingTold ==
    ASSUME NEW data, NEW d, Describes(data, d), NEW t \in SqlNames, t \notin DOMAIN d
    PROVE  SchemaIn(data, t, << >>)
<1>1. Key(t, ".attList") \notin DOMAIN data
  BY KeysApart DEF Describes
<1>2. AttNames(<< >>) = << >> /\ DOMAIN << >> = {}
  BY DEF AttNames
<1> QED
  BY <1>1, <1>2 DEF SchemaIn, ListIn

(* What is told of a table does not depend on the keys of the others.      *)
LEMMA ToldElsewhere ==
    ASSUME NEW data, NEW e, NEW t, NEW x, Told(data, t, x), 
           \A k \in DOMAIN data \cup DOMAIN e : k # Tables /\ k[1] = t =>
              k \in DOMAIN data /\ k \in DOMAIN e /\ e[k] = data[k]
    PROVE  Told(e, t, x)
<1>1. t \in SqlNames /\ x.mySchema \in Seq(Attributes)
  BY DEF Told, WrittenDescriptors
<1>2. \A s \in EntryNames \cup {".attList"} : Key(t, s) # Tables /\ Key(t, s)[1] = t
  BY <1>1, KeysApart
<1>3. EntriesIn(e, t, x)
  <2>1. \A s \in EntryNames : Key(t, s) \in DOMAIN data
    BY DEF Told, EntriesIn
  <2>2. \A s \in EntryNames : Key(t, s) \in DOMAIN e /\ e[Key(t, s)] = data[Key(t, s)]
    BY <1>2, <2>1
  <2> QED BY <2>2 DEF Told, EntriesIn, EntryNames
<1>4. ASSUME NEW n \in DOMAIN x.mySchema
      PROVE  /\ AttKey(t, x.mySchema[n][1]) \in DOMAIN e
             /\ e[AttKey(t, x.mySchema[n][1])] = <<Symbol(x.mySchema[n][2])>>
  <2>1. x.mySchema[n][1] \in SqlNames
    BY <1>1, AttNamesListed
  <2> PICK k : k = AttKey(t, x.mySchema[n][1])
    OBVIOUS
  <2>2. k # Tables /\ k[1] = t
    BY <1>1, <2>1, KeysApart
  <2>3. k \in DOMAIN data /\ data[k] = <<Symbol(x.mySchema[n][2])>>
    BY DEF Told, SchemaIn
  <2> QED BY <2>2, <2>3
<1>5. ListIn(e, Key(t, ".attList"), AttNames(x.mySchema))
  BY <1>2 DEF Told, SchemaIn, ListIn
<1> QED
  BY <1>3, <1>4, <1>5 DEF Told, SchemaIn

(* The list of tables and the entries, before the attributes.              *)
TableListed(data, t) ==
    LET list == GetStringList(data, Tables)
    IN IF Contains(list, <<t>>) THEN data ELSE PutStringList(data, Tables, Append(list, <<t>>))

(* The entries that are written one by one.                                *)
EntriesPut(data, x) ==
    LET t == x.tableName
        put1 == Put(data, Key(t, ".fileName"), x.storageLoc)
        put2 == Put(put1, Key(t, ".fileType"), <<Symbol(x.fileType)>>)
        put3 == PutInt(put2, Key(t, ".rootLocation"), x.rootLocation)
        put4 == PutStringList(put3, Key(t, ".valCounts"), x.allCounts)
        put5 == Put(put4, Key(t, ".sortAtt"), <<x.sortAtt>>)
    IN PutInt(put5, Key(t, ".lastPage"), x.last)

(* The keys of these entries.                                              *)
EntryKeys(t) == {Key(t, s) : s \in EntryNames}

(* A table that is put in the catalog is then on the list of tables, with  *)
(* those that were there.                                                  *)
LEMMA ListedOnce ==
    ASSUME NEW data, Storable(data, Words), NEW list \in NameLists, ListIn(data, Tables, list),
           NEW t \in SqlNames, NEW e, e = TableListed(data, t)
    PROVE  /\ Storable(e, Words) /\ DOMAIN data \subseteq DOMAIN e /\ DOMAIN e \subseteq DOMAIN data \cup {Tables}
           /\ \A k \in DOMAIN data : k # Tables => e[k] = data[k]
           /\ \E more \in NameLists : /\ ListIn(e, Tables, more)
                                      /\ ListedNames(more) = ListedNames(list) \cup {t}
<1>1. GetStringList(data, Tables) = list
  BY ListInRead
<1>2. Len(list) \in Nat /\ DOMAIN list = 1 .. Len(list) /\ \A n \in 1 .. Len(list) : list[n] \in Singles(SqlNames)
  BY LenProperties, ElementOfSeq DEF NameLists
<1>3. CASE Contains(list, <<t>>)
  <2>1. TableListed(data, t) = data
    BY <1>1, <1>3 DEF TableListed
  <2> PICK i \in 1 .. Len(list) : list[i] = <<t>>
    BY <1>3 DEF Contains
  <2>2. list[i][1] = t
    OBVIOUS
  <2>3. t \in {list[n][1] : n \in DOMAIN list}
    BY <1>2, <2>2
  <2>4. {list[n][1] : n \in DOMAIN list} = {list[n][1] : n \in DOMAIN list} \cup {t}
    BY <2>3
  <2> QED BY <2>1, <2>4 DEF ListedNames
<1>4. CASE ~ Contains(list, <<t>>)
  <2> PICK x, more : x = <<t>> /\ more = Append(list, x)
    OBVIOUS
  <2>1. x \in Singles(SqlNames) /\ x[1] = t
    BY DEF Singles
  <2>2. /\ more \in NameLists /\ Len(more) = Len(list) + 1 /\ more[Len(list) + 1] = x
        /\ \A n \in 1 .. Len(list) : more[n] = list[n]
    BY <2>1, AppendProperties DEF NameLists
  <2>3. DOMAIN more = 1 .. Len(list) + 1
    BY <2>2, LenProperties DEF NameLists
  <2>4. {more[n][1] : n \in DOMAIN more} = {list[n][1] : n \in DOMAIN list} \cup {t}
    <3>1. \A n \in DOMAIN list : n \in DOMAIN more /\ more[n][1] = list[n][1]
      BY <1>2, <2>2, <2>3
    <3>2. Len(list) + 1 \in DOMAIN more /\ more[Len(list) + 1][1] = t
      BY <1>2, <2>1, <2>2, <2>3
    <3>3. \A n \in DOMAIN more : n = Len(list) + 1 \/ n \in DOMAIN list
      BY <1>2, <2>3
    <3> QED BY <3>1, <3>2, <3>3
  <2>5. TableListed(data, t) = PutStringList(data, Tables, more)
    BY <1>1, <1>4 DEF TableListed
  <2>6. LET d == PutStringList(data, Tables, more) IN
        /\ Storable(d, Words) /\ DOMAIN d = DOMAIN data \cup {Tables} /\ ListIn(d, Tables, more)
        /\ \A k \in DOMAIN data : k # Tables => d[k] = data[k]
    <3>1. Tables \in Seq(Words)
      BY KeysApart
    <3> QED BY <2>2, <3>1, PutList
  <2> QED BY <2>2, <2>4, <2>5, <2>6 DEF ListedNames
<1> QED
  BY <1>3, <1>4

(* A map with the texts of some keys put into it.                          *)
FilledIn(data, d, keys, texts) ==
    /\ Storable(d, Words) /\ DOMAIN d = DOMAIN data \cup keys
    /\ \A k \in keys : d[k] = texts[k]
    /\ \A k \in DOMAIN data \ keys : d[k] = data[k]

LEMMA OneMoreFilledIn ==
    ASSUME NEW data, NEW d, NEW keys, NEW texts, FilledIn(data, d, keys, texts),
           NEW key \in Seq(Words), NEW text \in Seq(Words)
    PROVE  text = texts[key] => FilledIn(data, Put(d, key, text), keys \cup {key}, texts)
<1>1. /\ Storable(d, Words) /\ DOMAIN d = DOMAIN data \cup keys
      /\ \A k \in keys : d[k] = texts[k]
      /\ \A k \in DOMAIN data \ keys : d[k] = data[k]
  BY DEF FilledIn
<1>2. PICK e : e = Put(d, key, text)
  OBVIOUS
<1>3. /\ Storable(e, Words) /\ DOMAIN e = DOMAIN d \cup {key} /\ e[key] = text
      /\ \A k \in DOMAIN d : k # key => e[k] = d[k]
  <2>1. Storable(d, Words)
    BY <1>1
  <2>2. /\ Storable(Put(d, key, text), Words) /\ DOMAIN Put(d, key, text) = DOMAIN d \cup {key}
        /\ Put(d, key, text)[key] = text
        /\ \A k \in DOMAIN d : k # key => Put(d, key, text)[k] = d[k]
    <3>1. Storable(Put(d, key, text), Words)
      BY <2>1, PutEntry
    <3>2. /\ DOMAIN Put(d, key, text) = DOMAIN d \cup {key}
          /\ Put(d, key, text)[key] = text
          /\ \A k \in DOMAIN d : k # key => Put(d, key, text)[k] = d[k]
      BY DEF Put
    <3> QED BY <3>1, <3>2
  <2> QED BY <1>2, <2>2
<1>4. DOMAIN e = DOMAIN data \cup (keys \cup {key})
  BY <1>1, <1>3
<1>5. ASSUME text = texts[key], NEW k \in keys \cup {key}
      PROVE  e[k] = texts[k]
  <2>1. CASE k = key
    BY <1>3, <1>5, <2>1
  <2>2. CASE k # key
    <3>1. k \in keys /\ k \in DOMAIN d
      BY <1>1, <2>2
    <3> QED BY <1>1, <1>3, <2>2, <3>1
  <2> QED BY <2>1, <2>2
<1>6. ASSUME NEW k \in DOMAIN data \ (keys \cup {key})
      PROVE  e[k] = data[k]
  <2>1. k \in DOMAIN d /\ k # key /\ k \in DOMAIN data \ keys
    BY <1>1
  <2> QED BY <1>1, <1>3, <2>1
<1>7. text = texts[key] => FilledIn(data, e, keys \cup {key}, texts)
  BY <1>3, <1>4, <1>5, <1>6 DEF FilledIn
<1> QED
  BY <1>2, <1>7

(* The entries of a table are then in the map, and the others as they were.*)
LEMMA EntriesWritten ==
    ASSUME NEW data, Storable(data, Words), NEW x \in WrittenDescriptors
    PROVE  LET e == EntriesPut(data, x)  t == x.tableName IN
           /\ Storable(e, Words) /\ DOMAIN e = DOMAIN data \cup EntryKeys(t)
           /\ EntriesIn(e, t, x)
           /\ \A k \in DOMAIN data \ EntryKeys(t) : e[k] = data[k]
<1> PICK t : t = x.tableName
  OBVIOUS
<1>1. t \in SqlNames
  BY DEF WrittenDescriptors
<1>19. PICK k1, k2, k3, k4, k5, k6 :
       /\ k1 = Key(t, ".fileName") /\ k2 = Key(t, ".fileType") /\ k3 = Key(t, ".rootLocation")
       /\ k4 = Key(t, ".valCounts") /\ k5 = Key(t, ".sortAtt") /\ k6 = Key(t, ".lastPage")
  OBVIOUS
<1>2. /\ \A r, s \in EntryNames : Key(t, r) = Key(t, s) => r = s
      /\ \A s \in EntryNames : Key(t, s) \in Seq(Words)
  BY <1>1, KeysApart
<1>3. /\ k1 # k2 /\ k1 # k3 /\ k1 # k4 /\ k1 # k5 /\ k1 # k6 /\ k2 # k3 /\ k2 # k4 /\ k2 # k5 /\ k2 # k6
      /\ k3 # k4 /\ k3 # k5 /\ k3 # k6 /\ k4 # k5 /\ k4 # k6 /\ k5 # k6
  BY <1>2, <1>19 DEF EntryNames
<1>4. /\ k1 \in Seq(Words) /\ k2 \in Seq(Words) /\ k3 \in Seq(Words)
      /\ k4 \in Seq(Words) /\ k5 \in Seq(Words) /\ k6 \in Seq(Words)
  BY <1>2, <1>19 DEF EntryNames
<1>5. EntryKeys(t) = {k1, k2, k3, k4, k5, k6}
  BY <1>19 DEF EntryKeys, EntryNames
<1>20. PICK v1, v2, v3, v4, v5, v6 :
       /\ v1 = x.storageLoc /\ v2 = <<Symbol(x.fileType)>> /\ v3 = <<Number(x.rootLocation)>>
       /\ v4 = ListText(x.allCounts) /\ v5 = <<x.sortAtt>> /\ v6 = <<Number(x.last)>>
  OBVIOUS
<1>6. /\ v1 \in Seq(Words) /\ v2 \in Seq(Words) /\ v3 \in Seq(Words)
      /\ v4 \in Seq(Words) /\ v4 = << >> /\ v5 \in Seq(Words) /\ v6 \in Seq(Words)
  <2>1. \A n \in Int : Number(n) \in Words
    <3> TAKE n \in Int
    <3>1. Number(n) = <<"number", n>> /\ Pipe = <<"symbol", "|">>
      BY DEF Number, Pipe, Symbol
    <3>2. Number(n)[1] = "number" /\ Pipe[1] = "symbol"
      BY <3>1
    <3>3. Number(n) \in Tokens
      BY <3>1 DEF Tokens
    <3> QED BY <3>2, <3>3 DEF Words
  <2>2. Symbol(x.fileType) \in Words
    <3>1. x.fileType \in {"heap", "bplustree"}
      BY DEF WrittenDescriptors
    <3>2. Symbol(x.fileType) \in Keywords
      BY <3>1 DEF Keywords
    <3> QED BY <3>2, NamesAreWords
  <2>3. x.sortAtt \in Words /\ x.rootLocation \in Int /\ x.last \in Int /\ x.allCounts = << >>
        /\ x.storageLoc \in Seq(Words)
    BY NamesAreWords DEF WrittenDescriptors
  <2>4. ListText(<< >>) = << >>
    <3>1. [n \in DOMAIN << >> |-> Append(<< >>[n], Hash)] = << >>
      OBVIOUS
    <3>2. FlattenSeq(<< >>) = << >>
      BY DEF FlattenSeq
    <3> QED BY <3>1, <3>2 DEF ListText
  <2>5. << >> \in Seq(Words) /\ \A w \in Words : <<w>> \in Seq(Words)
    BY NamesAreWords
  <2> QED BY <1>20, <2>1, <2>2, <2>3, <2>4, <2>5
<1>7. PICK texts : /\ texts[k1] = v1 /\ texts[k2] = v2 /\ texts[k3] = v3
                   /\ texts[k4] = v4 /\ texts[k5] = v5 /\ texts[k6] = v6
  <2> PICK f : f = [k \in {k1, k2, k3, k4, k5, k6} |->
                       IF k = k1 THEN v1 ELSE IF k = k2 THEN v2 ELSE IF k = k3 THEN v3
                       ELSE IF k = k4 THEN v4 ELSE IF k = k5 THEN v5 ELSE v6]
    OBVIOUS
  <2>1. f[k1] = v1 /\ f[k2] = v2 /\ f[k3] = v3
    BY <1>3
  <2>2. f[k4] = v4 /\ f[k5] = v5 /\ f[k6] = v6
    BY <1>3
  <2> QED BY <2>1, <2>2
<1>21. PICK d1 : d1 = Put(data, k1, v1)
  OBVIOUS
<1>22. PICK d2 : d2 = Put(d1, k2, v2)
  OBVIOUS
<1>23. PICK d3 : d3 = Put(d2, k3, v3)
  OBVIOUS
<1>24. PICK d4 : d4 = Put(d3, k4, v4)
  OBVIOUS
<1>25. PICK d5 : d5 = Put(d4, k5, v5)
  OBVIOUS
<1>26. PICK d6 : d6 = Put(d5, k6, v6)
  OBVIOUS
<1>8. EntriesPut(data, x) = d6
  BY <1>19, <1>20, <1>21, <1>22, <1>23, <1>24, <1>25, <1>26 DEF EntriesPut, PutInt, PutStringList, ListText
<1>9. FilledIn(data, data, {}, texts)
  BY DEF FilledIn
<1>10. FilledIn(data, d1, {} \cup {k1}, texts)
  BY <1>4, <1>6, <1>7, <1>9, <1>21, OneMoreFilledIn
<1>11. FilledIn(data, d2, {} \cup {k1} \cup {k2}, texts)
  BY <1>4, <1>6, <1>7, <1>10, <1>22, OneMoreFilledIn
<1>12. FilledIn(data, d3, {} \cup {k1} \cup {k2} \cup {k3}, texts)
  BY <1>4, <1>6, <1>7, <1>11, <1>23, OneMoreFilledIn
<1>13. FilledIn(data, d4, {} \cup {k1} \cup {k2} \cup {k3} \cup {k4}, texts)
  BY <1>4, <1>6, <1>7, <1>12, <1>24, OneMoreFilledIn
<1>14. FilledIn(data, d5, {} \cup {k1} \cup {k2} \cup {k3} \cup {k4} \cup {k5}, texts)
  BY <1>4, <1>6, <1>7, <1>13, <1>25, OneMoreFilledIn
<1>15. FilledIn(data, d6, {} \cup {k1} \cup {k2} \cup {k3} \cup {k4} \cup {k5} \cup {k6}, texts)
  BY <1>4, <1>6, <1>7, <1>14, <1>26, OneMoreFilledIn
<1>16. FilledIn(data, d6, EntryKeys(t), texts)
  <2>1. {} \cup {k1} \cup {k2} \cup {k3} \cup {k4} \cup {k5} \cup {k6} = EntryKeys(t)
    BY <1>5
  <2> QED BY <1>15, <2>1
<1>17. /\ Storable(d6, Words) /\ DOMAIN d6 = DOMAIN data \cup EntryKeys(t)
       /\ \A k \in EntryKeys(t) : d6[k] = texts[k]
       /\ \A k \in DOMAIN data \ EntryKeys(t) : d6[k] = data[k]
  BY <1>16 DEF FilledIn
<1>18. EntriesIn(d6, t, x)
  <2>1. \A s \in EntryNames : Key(t, s) \in DOMAIN d6
    BY <1>17 DEF EntryKeys
  <2>2. d6[k1] = v1 /\ d6[k2] = v2 /\ d6[k3] = v3 /\ d6[k4] = v4 /\ d6[k5] = v5 /\ d6[k6] = v6
    <3>1. /\ k1 \in EntryKeys(t) /\ k2 \in EntryKeys(t) /\ k3 \in EntryKeys(t)
          /\ k4 \in EntryKeys(t) /\ k5 \in EntryKeys(t) /\ k6 \in EntryKeys(t)
      BY <1>5
    <3> QED BY <1>7, <1>17, <3>1
  <2>3. v4 = << >>
    BY <1>6
  <2> QED BY <1>19, <1>20, <2>1, <2>2, <2>3 DEF EntriesIn
<1>27. /\ Storable(d6, Words) /\ DOMAIN d6 = DOMAIN data \cup EntryKeys(t)
       /\ \A k \in DOMAIN data \ EntryKeys(t) : d6[k] = data[k]
  BY <1>17
<1> QED
  BY <1>8, <1>18, <1>27

(* What putInCatalog makes of a catalog that tells of some tables tells of *)
(* these and of the one put there, with its attributes merged.             *)
LEMMA TablePut ==
    ASSUME NEW data, Describes(data, described), NEW x \in WrittenDescriptors
    PROVE  Describes(TableInCatalog(data, x), Described(x))
<1> PICK t, d : t = x.tableName /\ d = described
  OBVIOUS
<1>1. t \in SqlNames /\ x.mySchema \in Seq(Attributes) /\ Storable(data, Words)
      /\ Describes(data, d)
  BY DEF WrittenDescriptors, Describes
<1> PICK list \in NameLists : ListIn(data, Tables, list) /\ DOMAIN d = ListedNames(list)
  BY <1>1 DEF Describes
<1>21. PICK old : old = IF t \in DOMAIN d THEN d[t].mySchema ELSE << >>
  OBVIOUS
<1>22. PICK merged : merged = Merged(old, x.mySchema)
  OBVIOUS
<1>23. PICK a : a = TableListed(data, t)
  OBVIOUS
<1>24. PICK b : b = EntriesPut(a, x)
  OBVIOUS
<1>25. PICK e : e = AttsAddedTo(b, t, x.mySchema)
  OBVIOUS
<1>2. TableInCatalog(data, x) = e
  <2>1. TableInCatalog(data, x) = AttsAddedTo(EntriesPut(TableListed(data, x.tableName), x), x.tableName, x.mySchema)
    BY DEF TableInCatalog, TableListed, EntriesPut, AttsAddedTo
  <2> QED BY <1>23, <1>24, <1>25, <2>1
<1>26. PICK y : y = [x EXCEPT !.mySchema = merged]
  OBVIOUS
<1>3. Described(x) = Put(d, t, y)
  BY <1>21, <1>22, <1>26 DEF Described
<1>4. old \in Seq(Attributes) /\ NoneTwice(old) /\ SchemaIn(data, t, old)
  <2>1. CASE t \in DOMAIN d
    <3>1. Told(data, t, d[t])
      BY <1>1, <2>1 DEF Describes
    <3> QED BY <1>21, <2>1, <3>1 DEF Told, WrittenDescriptors
  <2>2. CASE t \notin DOMAIN d
    <3>1. SchemaIn(data, t, << >>)
      BY <1>1, <2>2, NothingTold
    <3>2. << >> \in Seq(Attributes) /\ NoneTwice(<< >>)
      <4>1. DOMAIN << >> = {}
        OBVIOUS
      <4> QED BY <4>1 DEF NoneTwice
    <3> QED BY <1>21, <2>2, <3>1, <3>2
  <2> QED BY <2>1, <2>2
<1>5. /\ Storable(a, Words) /\ DOMAIN data \subseteq DOMAIN a /\ DOMAIN a \subseteq DOMAIN data \cup {Tables}
      /\ \A k \in DOMAIN data : k # Tables => a[k] = data[k]
      /\ \E more \in NameLists : /\ ListIn(a, Tables, more)
                                 /\ ListedNames(more) = ListedNames(list) \cup {t}
  <2>1. Storable(data, Words) /\ ListIn(data, Tables, list) /\ t \in SqlNames
    BY <1>1
  <2> QED BY <1>23, <2>1, ListedOnce
<1>6. /\ Storable(b, Words) /\ DOMAIN b = DOMAIN a \cup EntryKeys(t) /\ EntriesIn(b, t, x)
      /\ \A k \in DOMAIN a \ EntryKeys(t) : b[k] = a[k]
  <2>1. Storable(a, Words)
    BY <1>5
  <2>2. LET p == EntriesPut(a, x)  r == x.tableName IN
        /\ Storable(p, Words) /\ DOMAIN p = DOMAIN a \cup EntryKeys(r) /\ EntriesIn(p, r, x)
        /\ \A k \in DOMAIN a \ EntryKeys(r) : p[k] = a[k]
    BY <2>1, EntriesWritten
  <2> QED BY <1>24, <2>2
<1>7. /\ Tables \notin EntryKeys(t) /\ Tables \notin OwnKeys(t) /\ EntryKeys(t) \cap OwnKeys(t) = {}
      /\ \A k \in EntryKeys(t) \cup OwnKeys(t) : k[1] = t
  <2>1. \A s \in EntryNames : Key(t, s) # Tables /\ Key(t, s)[1] = t /\ Key(t, s) # Key(t, ".attList")
                            /\ \A n \in SqlNames : Key(t, s) # AttKey(t, n)
    <3>1. \A s \in EntryNames : s # ".attList"
      BY DEF EntryNames
    <3> TAKE s \in EntryNames
    <3>2. s \in EntryNames \cup {".attList"} /\ ".attList" \in EntryNames \cup {".attList"}
      OBVIOUS
    <3>3. Key(t, s) # Tables /\ Key(t, s)[1] = t
      BY <1>1, <3>2, KeysApart
    <3>4. Key(t, s) # Key(t, ".attList")
      BY <1>1, <3>1, <3>2, KeysApart
    <3>5. \A n \in SqlNames : Key(t, s) # AttKey(t, n)
      BY <1>1, <3>2, KeysApart
    <3> QED BY <3>3, <3>4, <3>5
  <2>2. Key(t, ".attList") # Tables /\ Key(t, ".attList")[1] = t
    BY <1>1, KeysApart
  <2>3. \A n \in SqlNames : AttKey(t, n) # Tables /\ AttKey(t, n)[1] = t
    BY <1>1, KeysApart
  <2> QED BY <2>1, <2>2, <2>3 DEF EntryKeys, OwnKeys
<1>8. SchemaIn(b, t, old)
  <2>1. \A k \in OwnKeys(t) : (k \in DOMAIN b <=> k \in DOMAIN data) /\ (k \in DOMAIN data => b[k] = data[k])
    BY <1>5, <1>6, <1>7
  <2>2. Key(t, ".attList") \in OwnKeys(t) /\ \A n \in DOMAIN old : AttKey(t, old[n][1]) \in OwnKeys(t)
    BY <1>4, AttNamesListed DEF OwnKeys
  <2>3. ListIn(b, Key(t, ".attList"), AttNames(old))
    BY <1>4, <2>1, <2>2 DEF SchemaIn, ListIn
  <2>4. \A n \in DOMAIN old : /\ AttKey(t, old[n][1]) \in DOMAIN b
                              /\ b[AttKey(t, old[n][1])] = <<Symbol(old[n][2])>>
    BY <1>4, <2>1, <2>2 DEF SchemaIn
  <2> QED BY <2>3, <2>4 DEF SchemaIn
<1>9. /\ merged \in Seq(Attributes) /\ NoneTwice(merged)
      /\ Storable(e, Words) /\ SchemaIn(e, t, merged)
      /\ DOMAIN b \subseteq DOMAIN e /\ DOMAIN e \subseteq DOMAIN b \cup OwnKeys(t)
      /\ \A k \in DOMAIN b \ OwnKeys(t) : e[k] = b[k]
  <2>1. Storable(b, Words)
    BY <1>6
  <2> PICK new : new = x.mySchema
    OBVIOUS
  <2>2. /\ t \in SqlNames /\ old \in Seq(Attributes) /\ NoneTwice(old) /\ new \in Seq(Attributes)
        /\ e = AttsAddedTo(b, t, new) /\ merged = Merged(old, new)
        /\ Storable(b, Words) /\ SchemaIn(b, t, old)
    BY <1>1, <1>4, <1>8, <1>22, <1>25, <2>1
  <2> QED BY <2>2, AttsAdded
<1>10. y \in WrittenDescriptors /\ y.tableName = t /\ y.mySchema = merged
  BY <1>9, <1>26 DEF WrittenDescriptors
<1>11. EntriesIn(e, t, y)
  <2>1. \A s \in EntryNames : Key(t, s) \in DOMAIN e /\ e[Key(t, s)] = b[Key(t, s)]
    <3> TAKE s \in EntryNames
    <3>1. Key(t, s) \in EntryKeys(t)
      BY DEF EntryKeys
    <3> QED BY <1>6, <1>7, <1>9, <3>1
  <2>2. /\ y.storageLoc = x.storageLoc /\ y.fileType = x.fileType /\ y.rootLocation = x.rootLocation
        /\ y.sortAtt = x.sortAtt /\ y.last = x.last
    BY <1>26 DEF WrittenDescriptors
  <2>3. EntriesIn(b, t, x)
    BY <1>6
  <2> QED BY <2>1, <2>2, <2>3 DEF EntriesIn, EntryNames
<1>12. Told(e, t, y)
  BY <1>9, <1>10, <1>11 DEF Told
<1>13. \A k : k # Tables /\ k[1] # t =>
          (k \in DOMAIN e <=> k \in DOMAIN data) /\ (k \in DOMAIN data => e[k] = data[k])
  <2> SUFFICES ASSUME NEW k, k # Tables, k[1] # t
               PROVE  (k \in DOMAIN e <=> k \in DOMAIN data) /\ (k \in DOMAIN data => e[k] = data[k])
    OBVIOUS
  <2>1. k \notin EntryKeys(t) /\ k \notin OwnKeys(t)
    BY <1>7
  <2>2. (k \in DOMAIN a <=> k \in DOMAIN data) /\ (k \in DOMAIN data => a[k] = data[k])
    BY <1>5
  <2>3. (k \in DOMAIN b <=> k \in DOMAIN a) /\ (k \in DOMAIN a => b[k] = a[k])
    BY <1>6, <2>1
  <2>4. (k \in DOMAIN e <=> k \in DOMAIN b) /\ (k \in DOMAIN b => e[k] = b[k])
    BY <1>9, <2>1
  <2> QED BY <2>2, <2>3, <2>4
<1>14. ASSUME NEW u \in DOMAIN d, u # t
       PROVE  Told(e, u, d[u])
  <2>1. Told(data, u, d[u])
    BY <1>1 DEF Describes
  <2>2. \A k \in DOMAIN data \cup DOMAIN e : k # Tables /\ k[1] = u =>
           k \in DOMAIN data /\ k \in DOMAIN e /\ e[k] = data[k]
    BY <1>13, <1>14
  <2> PICK z : z = d[u]
    OBVIOUS
  <2>3. Told(data, u, z)
    BY <2>1
  <2>4. Told(e, u, z)
    BY <2>2, <2>3, ToldElsewhere
  <2> QED BY <2>4
<1> PICK D : D = Put(d, t, y)
  OBVIOUS
<1>15. DOMAIN D = DOMAIN d \cup {t} /\ D[t] = y /\ D = [u \in DOMAIN D |-> D[u]]
       /\ \A u \in DOMAIN d : u # t => D[u] = d[u]
  BY DEF Put
<1>16. \A u \in DOMAIN D : Told(e, u, D[u])
  BY <1>12, <1>14, <1>15
<1>17. \A k \in DOMAIN e : k = Tables \/ k[1] \in DOMAIN D
  <2> TAKE k \in DOMAIN e
  <2>1. \A j \in DOMAIN data : j = Tables \/ j[1] \in DOMAIN d
    BY <1>1 DEF Describes
  <2> QED BY <1>13, <1>15, <2>1
<1>18. \E more \in NameLists : ListIn(e, Tables, more) /\ DOMAIN D = ListedNames(more)
  <2> PICK more \in NameLists : /\ ListIn(a, Tables, more)
                                /\ ListedNames(more) = ListedNames(list) \cup {t}
    BY <1>5
  <2>1. (Tables \in DOMAIN e <=> Tables \in DOMAIN a) /\ (Tables \in DOMAIN a => e[Tables] = a[Tables])
    BY <1>6, <1>7, <1>9
  <2>2. ListIn(e, Tables, more)
    BY <2>1 DEF ListIn
  <2> QED BY <1>15, <2>2
<1>19. Describes(e, D)
  <2>1. Storable(e, Words)
    BY <1>9
  <2> QED BY <1>15, <1>16, <1>17, <1>18, <2>1 DEF Describes
<1> QED
  BY <1>2, <1>3, <1>19

-----------------------------------------------------------------------------
(* The last page of the table, as d tells it: -1 if d does not know it.    *)
LastOf(d) == IF name \in DOMAIN d THEN d[name].last ELSE -1

(* The new table and the tables of the statements can be written.          *)
LEMMA NewTablesWritten ==
    ASSUME SessionsAssumption
    PROVE  /\ NewDescriptor \in WrittenDescriptors /\ NewDescriptor.last = -1 /\ name \in SqlNames
           /\ \A s \in Statements : /\ Created(s) \in WrittenDescriptors /\ Created(s).tableName = s.tableName
                                    /\ Created(s).last = -1
<1>1. \A text \in Texts : text \in Seq(Words)
  BY NamesAreWords, SeqMonotonic DEF Texts
<1>2. NewDescriptor \in WrittenDescriptors /\ NewDescriptor.last = -1 /\ name \in SqlNames
  BY <1>1 DEF SessionsAssumption, Descriptors, WrittenDescriptors, name
<1>3. ASSUME NEW s \in Statements
      PROVE  /\ Created(s) \in WrittenDescriptors /\ Created(s).tableName = s.tableName
             /\ Created(s).last = -1
  <2>1. s.tableName \in SqlNames /\ s.atts \in Seq(Attributes) /\ s.sortAtt \in SqlNames
    BY DEF SessionsAssumption
  <2> PICK file : file = <<Symbol("storageDir"), Symbol("/"), s.tableName, Symbol(".bin")>>
    OBVIOUS
  <2>2. file \in Seq(Words)
    <3>1. Symbol("storageDir") \in Words /\ Symbol("/") \in Words /\ Symbol(".bin") \in Words /\ s.tableName \in Words
      BY <2>1, NamesAreWords DEF Keywords
    <3> PICK x \in Words, y \in Words, z \in Words, v \in Words :
           x = Symbol("storageDir") /\ y = Symbol("/") /\ z = s.tableName /\ v = Symbol(".bin")
      BY <3>1
    <3>2. <<x, y, z, v>> \in Seq(Words)
      OBVIOUS
    <3> QED BY <3>2
  <2> PICK type \in {"heap", "bplustree"} : type = IF IsTree(s) THEN "bplustree" ELSE "heap"
    OBVIOUS
  <2>3. Created(s) = [tableName |-> s.tableName, storageLoc |-> file, mySchema |-> s.atts, last |-> -1,
                      fileType |-> type, sortAtt |-> s.sortAtt, rootLocation |-> -1, allCounts |-> << >>]
    <3> DEFINE new == [tableName |-> s.tableName, storageLoc |-> file, mySchema |-> s.atts, last |-> -1,
                       fileType |-> "heap", sortAtt |-> Symbol("none"), rootLocation |-> -1, allCounts |-> << >>]
    <3>1. NewTable(s.tableName, file, s.atts) = new
      BY DEF NewTable
    <3>2. Created(s) = [new EXCEPT !.fileType = IF IsTree(s) THEN "bplustree" ELSE new.fileType,
                                   !.sortAtt = s.sortAtt]
      <4> HIDE DEF new
      <4> QED BY <3>1 DEF Created
    <3>3. (IF IsTree(s) THEN "bplustree" ELSE new.fileType) = type
      OBVIOUS
    <3>4. Created(s) = [new EXCEPT !.fileType = type, !.sortAtt = s.sortAtt]
      <4> HIDE DEF new
      <4> QED BY <3>2, <3>3
    <3> QED BY <3>4, Zenon
  <2> QED BY <2>1, <2>2, <2>3 DEF WrittenDescriptors
<1> QED
  BY <1>2, <1>3

(* The next session reads of a catalog file what save found in the map.    *)
LEMMA CatalogSaved ==
    ASSUME NEW data, NEW d, Describes(data, d), NEW file, file = Lines(data)
    PROVE  /\ ReadLines(file) = data /\ GetAllTables(data) = d
           /\ LET part == ReadLines({line \in file : KeyOf(line) = Key(name, ".lastPage")})
              IN (IF part = << >> THEN -1 ELSE GetInt(part, Key(name, ".lastPage"))) = LastOf(d)
<1> PICK key : key = Key(name, ".lastPage")
  OBVIOUS
<1>1. Storable(data, Words) /\ Pipe \notin Words
  BY NamesAreWords DEF Describes
<1>2. ReadLines(file) = data /\ ReadLines({line \in file : KeyOf(line) = key}) = Part(data, {key} \cap DOMAIN data)
  BY <1>1, LinesReadBack
<1> PICK part : part = Part(data, {key} \cap DOMAIN data)
  OBVIOUS
<1>3. GetAllTables(data) = d
  BY TablesRead
<1>4. key # Tables /\ key[1] = name
  <2>1. key = <<name, Symbol(".lastPage")>> /\ Tables = <<Symbol("tables")>>
    BY DEF Key, Tables
  <2>2. Len(key) = 2 /\ Len(Tables) = 1
    BY <2>1
  <2> QED BY <2>1, <2>2
<1>5. CASE name \in DOMAIN d
  <2>1. key \in DOMAIN data /\ data[key] = <<Number(d[name].last)>>
    BY <1>5 DEF Describes, Told, EntriesIn, EntryNames
  <2>2. part = [k \in {key} |-> data[k]]
    BY <2>1 DEF Part
  <2>3. part # << >> /\ part[key] = data[key]
    <3>1. key \in DOMAIN part
      BY <2>2
    <3>2. DOMAIN << >> = {}
      OBVIOUS
    <3> QED BY <2>2, <3>1, <3>2
  <2>4. GetInt(part, key) = d[name].last
    <3>1. part[key] = <<Number(d[name].last)>>
      BY <2>1, <2>3
    <3>2. part[key][1] = <<"number", d[name].last>>
      BY <3>1 DEF Number
    <3> QED BY <3>2 DEF GetInt
  <2> QED BY <1>2, <1>3, <1>5, <2>3, <2>4 DEF LastOf
<1>6. CASE name \notin DOMAIN d
  <2>1. key \notin DOMAIN data
    BY <1>4, <1>6 DEF Describes
  <2>2. part = << >>
    <3>1. {key} \cap DOMAIN data = {}
      BY <2>1
    <3> QED BY <3>1 DEF Part
  <2> QED BY <1>2, <1>3, <1>6, <2>2 DEF LastOf
<1> QED
  BY <1>5, <1>6

(* Nothing is told by an empty map, nor by an empty file.                  *)
LEMMA EmptyCatalog ==
    Describes(<< >>, << >>) /\ Lines(<< >>) = {} /\ LastOf(<< >>) = -1
<1>1. DOMAIN << >> = {} /\ << >> = [k \in {} |-> << >>[k]]
  OBVIOUS
<1>2. Storable(<< >>, Words)
  BY <1>1, FS_EmptySet DEF Storable
<1>3. << >> \in NameLists /\ ListedNames(<< >>) = {} /\ ListIn(<< >>, Tables, << >>)
  BY <1>1 DEF NameLists, ListedNames, ListIn
<1>4. Lines(<< >>) = {}
  BY <1>1 DEF Lines
<1> QED
  BY <1>1, <1>2, <1>3, <1>4 DEF Describes, LastOf

(* An attribute is counted once.                                           *)
LEMMA NamesCounted ==
    ASSUME NEW schema \in Seq(Attributes), NoneTwice(schema)
    PROVE  Cardinality(Names(schema)) = Len(schema)
<1> DEFINE s == [n \in DOMAIN schema |-> schema[n][1]]
<1>1. /\ Len(schema) \in Nat /\ DOMAIN schema = 1 .. Len(schema)
      /\ \A n \in DOMAIN schema : schema[n][1] \in SqlNames
  BY AttNamesListed
<1>2. s \in [1 .. Len(schema) -> SqlNames]
  BY <1>1
<1>3. s \in Seq(SqlNames) /\ Len(s) = Len(schema) /\ DOMAIN s = 1 .. Len(schema)
  BY <1>1, <1>2
<1>4. \A n \in DOMAIN schema : s[n] = schema[n][1]
  OBVIOUS
<1> HIDE DEF s
<1>5. Once(s)
  BY <1>1, <1>3, <1>4 DEF Once, NoneTwice
<1>6. ToSet(s) = Names(schema)
  BY <1>1, <1>3, <1>4 DEF ToSet, Names
<1>7. Cardinality(ToSet(s)) = Len(s)
  BY <1>3, <1>5, OnceCounted
<1> QED
  BY <1>3, <1>6, <1>7

-----------------------------------------------------------------------------
(* The pages of the file are those of the table up to a page, of which     *)
(* they hold the beginning.                                                *)
Begun(n, pages, more) ==
    /\ \A p \in 0 .. n - 1 : pages[p] = more[p]
    /\ n >= 0 => IsPrefix(pages[n], more[n])

(* The pages of a file of records.                                         *)
PageMaps == [Pages -> Seq(Nat)]

(* The table up to page n: no record without a page, else the records of   *)
(* the last page behind those of the others.                               *)
LEMMA VisiblePages ==
    ASSUME SessionsAssumption, NEW n \in -1 .. MaxPages - 1, NEW pages \in PageMaps
    PROVE  /\ Visible(n, pages) \in Seq(Nat) /\ n \in Int /\ Holding(pages, 0, n, Nat)
           /\ n = -1 => Visible(n, pages) = << >>
           /\ n # -1 => /\ n \in Pages /\ n \in Nat /\ pages[n] \in Seq(Nat)
                        /\ Visible(n, pages) = Visible(n - 1, pages) \o pages[n]
<1>1. MaxPages \in Nat \ {0} /\ n \in Int /\ n >= -1
  BY DEF SessionsAssumption
<1>2. Holding(pages, 0, n, Nat)
  BY <1>1 DEF Holding, Pages, PageMaps
<1>3. Visible(n, pages) \in Seq(Nat) /\ (0 <= n => Visible(n, pages) = Visible(n - 1, pages) \o pages[n])
  BY <1>1, <1>2, VisibleLast
<1>4. n = -1 => Visible(n, pages) = << >>
  <2>1. n = -1 => n < 0
    OBVIOUS
  <2>2. n < 0 => Visible(n, pages) = << >>
    BY <1>1, <1>2, VisibleLast
  <2> QED BY <2>1, <2>2
<1>5. n # -1 => n \in Pages /\ n \in Nat /\ 0 <= n
  BY <1>1 DEF Pages
<1>6. n # -1 => pages[n] \in Seq(Nat)
  BY <1>5 DEF PageMaps
<1> QED
  BY <1>1, <1>2, <1>3, <1>4, <1>5, <1>6

(* The table after a page of it was written anew: the last or the next.    *)
LEMMA VisibleWritten ==
    ASSUME SessionsAssumption, NEW n \in Pages, NEW pages \in PageMaps, NEW written \in PageMaps,
           \A p \in Pages \ {n} : written[p] = pages[p]
    PROVE  Visible(n, written) = Visible(n - 1, pages) \o written[n]
<1>1. MaxPages \in Nat \ {0} /\ n \in -1 .. MaxPages - 1 /\ n # -1 /\ n \in Nat /\ n - 1 \in -1 .. MaxPages - 1
  BY DEF SessionsAssumption, Pages
<1>2. \A p \in 0 .. n - 1 : pages[p] = written[p]
  <2>1. \A p \in 0 .. n - 1 : p \in Pages /\ p # n
    BY <1>1 DEF Pages
  <2> QED BY <2>1
<1>3. Visible(n, written) = Visible(n - 1, written) \o written[n]
  BY <1>1, VisiblePages
<1>4. Visible(n - 1, pages) = Visible(n - 1, written)
  <2> PICK m \in Int : m = n - 1
    BY <1>1
  <2>1. \A p \in 0 .. m : pages[p] = written[p]
    BY <1>2
  <2> QED BY <2>1, VisibleSame
<1> QED
  BY <1>3, <1>4

(* What the file has of the table is the beginning of it.                  *)
LEMMA BegunIsPrefix ==
    ASSUME SessionsAssumption, NEW n \in -1 .. MaxPages - 1, NEW pages \in PageMaps, NEW more \in PageMaps,
           Begun(n, pages, more)
    PROVE  IsPrefix(Visible(n, pages), Visible(n, more))
<1>1. CASE n = -1
  <2>1. Visible(n, pages) = << >> /\ Visible(n, more) = << >>
    BY <1>1, VisiblePages
  <2>2. << >> \in Seq(Nat)
    OBVIOUS
  <2> QED BY <2>1, <2>2, PrefixTransitive
<1>2. CASE n # -1
  <2>1. MaxPages \in Nat /\ n \in Int /\ n >= -1
    BY DEF SessionsAssumption
  <2>2. n >= 0 /\ n - 1 \in -1 .. MaxPages - 1 /\ n - 1 \in Int /\ 0 \in Nat
    BY <1>2, <2>1
  <2>3. Visible(n - 1, pages) = Visible(n - 1, more)
    BY <2>2, VisibleSame DEF Begun
  <2>4. IsPrefix(pages[n], more[n])
    BY <2>2 DEF Begun
  <2>5. /\ Visible(n, pages) = Visible(n - 1, pages) \o pages[n] /\ pages[n] \in Seq(Nat)
        /\ Visible(n, more) = Visible(n - 1, more) \o more[n] /\ more[n] \in Seq(Nat)
    BY <1>2, VisiblePages
  <2>6. Visible(n - 1, more) \in Seq(Nat)
    BY <2>2, VisiblePages
  <2>7. IsPrefix(Visible(n - 1, more) \o pages[n], Visible(n - 1, more) \o more[n])
    BY <2>4, <2>5, <2>6, PrefixOfConcat
  <2> QED BY <2>3, <2>5, <2>7
<1> QED
  BY <1>1, <1>2

(* The tables that the catalog file tells of.                              *)
Saved == GetAllTables(ReadLines(catFile))

(* The map of the catalog tells of the tables put there, and the file of   *)
(* those that were saved.                                                  *)
CatalogInv ==
    /\ Describes(myData, described)
    /\ catFile = Lines(ReadLines(catFile)) /\ Describes(ReadLines(catFile), Saved)
    /\ LastOf(Saved) \in -1 .. MaxPages - 1 /\ LastOf(described) \in -1 .. MaxPages - 1

(* The descriptor, and what the catalog has of it: the last page is the    *)
(* current one, and the table grew since it was put in the catalog.        *)
TableInv ==
    /\ table \in WrittenDescriptors /\ table.tableName = name /\ table.last \in -1 .. MaxPages - 1
    /\ put \in BOOLEAN /\ loaded \in BOOLEAN
    /\ status \in {"closed", "catalog", "table", "flushed", "saving"}
    /\ status \in {"table", "flushed", "saving"} => table.last \in Pages /\ current = table.last
    /\ status # "closed" /\ put => name \in DOMAIN described /\ LastOf(described) = table.last
    /\ status # "closed" /\ ~ loaded => LastOf(described) <= table.last

(* The table in memory is what was appended; the file has it when the      *)
(* manager is gone.                                                        *)
PagesInv ==
    /\ mem \in PageMaps /\ disk \in PageMaps /\ nextId \in Nat
    /\ status # "closed" => appended = Visible(table.last, mem)
    /\ status \in {"flushed", "saving"} => mem = disk

(* What was in the files when the session began is there until they are    *)
(* saved.                                                                  *)
GrowthInv ==
    status \in {"catalog", "table", "flushed"} /\ ~ loaded =>
        /\ LastOf(Saved) <= table.last
        /\ Begun(LastOf(Saved), disk, mem)
        /\ IsPrefix(base, Visible(LastOf(Saved), disk)) /\ base \in Seq(Nat)

(* The inductive invariant.                                                *)
IInv == CatalogInv /\ TableInv /\ PagesInv /\ GrowthInv

(* A step that leaves the catalog alone.                                   *)
LEMMA CatalogKept ==
    ASSUME CatalogInv, UNCHANGED <<catFile, myData, described>>
    PROVE  CatalogInv' /\ Saved' = Saved
BY DEF CatalogInv, Saved

(* At the end of a process there is nothing but the files.                 *)
LEMMA ProcessEnds ==
    ASSUME SessionsAssumption, CatalogInv, PagesInv, MemoryGone, status' = "closed", disk' = disk, nextId' = nextId,
           catFile' = catFile \/ (catFile' = {}) \/ catFile' = Lines(myData)
    PROVE  IInv'
<1>1. Describes(myData', described') /\ LastOf(described') = -1 /\ Lines(<< >>) = {}
      /\ Describes(<< >>, << >>) /\ LastOf(<< >>) = -1
  BY EmptyCatalog DEF MemoryGone
<1>2. -1 \in -1 .. MaxPages - 1
  BY DEF SessionsAssumption
<1>3. CatalogInv'
  <2>1. CASE catFile' = catFile
    BY <1>1, <1>2, <2>1 DEF CatalogInv, Saved
  <2>2. ASSUME NEW data, NEW d, Describes(data, d), LastOf(d) \in -1 .. MaxPages - 1, catFile' = Lines(data)
        PROVE  CatalogInv'
    <3>1. ReadLines(catFile') = data /\ GetAllTables(data) = d
      BY <2>2, CatalogSaved
    <3> QED BY <1>1, <1>2, <2>2, <3>1 DEF CatalogInv, Saved
  <2>3. CASE catFile' = {}
    BY <1>1, <1>2, <2>2, <2>3
  <2>4. CASE catFile' = Lines(myData)
    BY <2>2, <2>4 DEF CatalogInv
  <2> QED BY <2>1, <2>3, <2>4
<1>4. TableInv'
  BY <1>2, NewTablesWritten DEF TableInv, MemoryGone, name
<1>5. PagesInv'
  BY DEF PagesInv, MemoryGone
<1>6. GrowthInv'
  BY DEF GrowthInv
<1> QED
  BY <1>3, <1>4, <1>5, <1>6 DEF IInv

-----------------------------------------------------------------------------
(* It holds of the first state.                                            *)
LEMMA InitHolds ==
    ASSUME SessionsAssumption, Init
    PROVE  IInv
<1>1. -1 \in -1 .. MaxPages - 1 /\ Unwritten \in Seq(Nat)
  BY DEF SessionsAssumption, Unwritten
<1>2. Describes(myData, described) /\ LastOf(described) = -1 /\ catFile = Lines(<< >>)
      /\ Describes(<< >>, << >>) /\ LastOf(<< >>) = -1
  BY EmptyCatalog DEF Init
<1>3. ReadLines(catFile) = << >> /\ GetAllTables(<< >>) = << >>
  BY <1>2, CatalogSaved
<1>4. CatalogInv
  BY <1>1, <1>2, <1>3 DEF CatalogInv, Saved
<1>5. TableInv
  BY <1>1, NewTablesWritten DEF Init, TableInv, name
<1>6. PagesInv /\ GrowthInv
  BY <1>1 DEF Init, PagesInv, GrowthInv, PageMaps
<1> QED
  BY <1>4, <1>5, <1>6 DEF IInv

(* Every action keeps it: a session begins with what the files hold.       *)
LEMMA OpenCatalogStep ==
    ASSUME SessionsAssumption, IInv, OpenCatalog
    PROVE  IInv'
<1>1. Describes(myData', described') /\ described' = Saved /\ catFile' = catFile
  BY DEF IInv, CatalogInv, OpenCatalog, Saved
<1>2. CatalogInv' /\ Saved' = Saved
  BY <1>1 DEF IInv, CatalogInv, Saved
<1>3. /\ table' \in WrittenDescriptors /\ table'.tableName = name
      /\ table'.last = LastOf(Saved) /\ table'.last \in -1 .. MaxPages - 1
  <2>1. table' = IF name \in DOMAIN Saved THEN Saved[name] ELSE NewDescriptor
    BY DEF OpenCatalog, Saved
  <2>2. CASE name \in DOMAIN Saved
    <3>1. Told(ReadLines(catFile), name, Saved[name])
      BY <2>2 DEF IInv, CatalogInv, Describes
    <3> QED BY <2>1, <2>2, <3>1 DEF Told, LastOf, IInv, CatalogInv
  <2>3. CASE name \notin DOMAIN Saved
    BY <2>1, <2>3, NewTablesWritten DEF name, LastOf, IInv, CatalogInv
  <2> QED BY <2>2, <2>3
<1>4. LastOf(described') = table'.last /\ (put' => name \in DOMAIN described')
  BY <1>1, <1>3 DEF OpenCatalog, Saved
<1>5. table'.last <= table'.last
  BY <1>3, SessionsAssumption DEF SessionsAssumption
<1>6. TableInv'
  <2>1. status' = "catalog" /\ loaded' = FALSE /\ put' \in BOOLEAN
    BY DEF OpenCatalog
  <2>2. LastOf(described') <= table'.last
    BY <1>4, <1>5
  <2>3. name' = name
    BY DEF name
  <2> QED BY <1>3, <1>4, <2>1, <2>2, <2>3 DEF TableInv
<1>7. /\ mem' \in PageMaps /\ disk' = disk /\ mem' = disk /\ nextId' \in Nat
      /\ appended' = Visible(table'.last, mem') /\ base' = Visible(table'.last, disk)
  BY DEF IInv, PagesInv, OpenCatalog
<1>8. PagesInv'
  BY <1>7 DEF IInv, PagesInv, OpenCatalog
<1>9. GrowthInv'
  <2>1. base' \in Seq(Nat)
    BY <1>3, <1>7, VisiblePages DEF IInv, PagesInv
  <2>2. IsPrefix(base', base')
    BY <2>1, PrefixTransitive
  <2>3. Begun(LastOf(Saved), disk, disk)
    <3>1. ASSUME LastOf(Saved) >= 0
          PROVE  disk[LastOf(Saved)] \in Seq(Nat)
      BY <1>3, <3>1, SessionsAssumption DEF IInv, PagesInv, PageMaps, Pages, SessionsAssumption
    <3>2. LastOf(Saved) >= 0 => IsPrefix(disk[LastOf(Saved)], disk[LastOf(Saved)])
      BY <3>1, PrefixTransitive
    <3> QED BY <3>2 DEF Begun
  <2> QED BY <1>2, <1>3, <1>5, <1>7, <2>1, <2>2, <2>3 DEF GrowthInv
<1> QED
  BY <1>2, <1>6, <1>8, <1>9 DEF IInv

(* What is put in the catalog of a table is found there under its name.    *)
LEMMA LastDescribed ==
    ASSUME NEW x \in WrittenDescriptors, NEW d, d = Described(x)
    PROVE  /\ x.tableName = name => name \in DOMAIN d /\ LastOf(d) = x.last
           /\ x.tableName # name => LastOf(d) = LastOf(described)
                                    /\ (name \in DOMAIN d <=> name \in DOMAIN described)
<1> PICK t : t = x.tableName
  OBVIOUS
<1> PICK schema : schema = Merged(IF t \in DOMAIN described THEN described[t].mySchema ELSE << >>, x.mySchema)
  OBVIOUS
<1>1. d = Put(described, t, [x EXCEPT !.mySchema = schema])
  BY DEF Described
<1>2. [x EXCEPT !.mySchema = schema].last = x.last
  BY DEF WrittenDescriptors
<1> PICK y : y = [x EXCEPT !.mySchema = schema]
  OBVIOUS
<1>3. DOMAIN d = DOMAIN described \cup {t} /\ \A k \in DOMAIN d : d[k] = IF k = t THEN y ELSE described[k]
  BY <1>1 DEF Put
<1> QED
  BY <1>2, <1>3 DEF LastOf

(* CREATE TABLE writes in the catalog only.                                *)
LEMMA CreateTableStep ==
    ASSUME SessionsAssumption, IInv, NEW s \in Statements, CreateTable(s)
    PROVE  IInv'
<1> PICK x : x = Created(s)
  OBVIOUS
<1>1. x \in WrittenDescriptors /\ x.tableName = s.tableName /\ x.last = -1
  BY NewTablesWritten
<1>2. Describes(myData', described') /\ described' = Described(x) /\ catFile' = catFile
  BY <1>1, TablePut DEF IInv, CatalogInv, CreateTable
<1>3. /\ x.tableName = name => LastOf(described') = -1
      /\ x.tableName # name => /\ LastOf(described') = LastOf(described)
                               /\ name \in DOMAIN described' <=> name \in DOMAIN described
  BY <1>1, <1>2, LastDescribed
<1>4. -1 \in -1 .. MaxPages - 1 /\ \A n \in -1 .. MaxPages - 1 : -1 <= n
  BY DEF SessionsAssumption
<1>5. CatalogInv' /\ Saved' = Saved
  BY <1>2, <1>3, <1>4 DEF IInv, CatalogInv, Saved
<1>6. TableInv'
  <2>1. table' = table /\ status' = "catalog" /\ status = "catalog" /\ loaded' = loaded /\ put' \in BOOLEAN
    BY DEF CreateTable, recordVars
  <2>2. put' => put /\ x.tableName # name
    BY <1>1 DEF CreateTable
  <2>3. ~ loaded => LastOf(described') <= table.last
    BY <1>3, <1>4, <2>1 DEF IInv, TableInv
  <2>4. put' => name \in DOMAIN described' /\ LastOf(described') = table.last
    BY <1>3, <2>1, <2>2 DEF IInv, TableInv
  <2>5. name' = name
    BY DEF name
  <2> QED BY <2>1, <2>3, <2>4, <2>5 DEF IInv, TableInv
<1>7. PagesInv' /\ GrowthInv'
  BY <1>5 DEF IInv, PagesInv, GrowthInv, CreateTable, pageVars, recordVars
<1> QED
  BY <1>5, <1>6, <1>7 DEF IInv

(* putInCatalog makes the catalog know the table as it is.                 *)
LEMMA PutInCatalogStep ==
    ASSUME SessionsAssumption, IInv, PutInCatalog
    PROVE  IInv'
<1>1. table \in WrittenDescriptors /\ table.tableName = name /\ table.last \in -1 .. MaxPages - 1
  BY DEF IInv, TableInv
<1>2. Describes(myData', described') /\ described' = Described(table) /\ catFile' = catFile
  BY <1>1, TablePut DEF IInv, CatalogInv, PutInCatalog
<1>3. LastOf(described') = table.last /\ name \in DOMAIN described'
  BY <1>1, <1>2, LastDescribed
<1>4. table.last <= table.last
  BY <1>1 DEF SessionsAssumption
<1>5. CatalogInv' /\ Saved' = Saved
  BY <1>1, <1>2, <1>3 DEF IInv, CatalogInv, Saved
<1>6. TableInv'
  BY <1>1, <1>3, <1>4 DEF IInv, TableInv, PutInCatalog, name, pageVars, recordVars
<1>7. PagesInv' /\ GrowthInv'
  BY <1>5 DEF IInv, PagesInv, GrowthInv, PutInCatalog, pageVars, recordVars
<1> QED
  BY <1>5, <1>6, <1>7 DEF IInv

(* The descriptor of the table with another last page.                     *)
LEMMA LastMoved ==
    ASSUME NEW x \in WrittenDescriptors, x.tableName = name, NEW n \in Int, NEW y, y = [x EXCEPT !.last = n]
    PROVE  y \in WrittenDescriptors /\ y.tableName = name /\ y.last = n
BY DEF WrittenDescriptors

(* What was begun before the pages that change is there after it.          *)
LEMMA BegunAfter ==
    ASSUME SessionsAssumption, NEW n \in -1 .. MaxPages - 1, NEW p \in Pages, n <= p,
           NEW pages \in PageMaps, NEW more \in PageMaps, NEW s \in Seq(Nat), NEW written,
           written = [more EXCEPT ![p] = s], Begun(n, pages, more), n = p => IsPrefix(more[p], s)
    PROVE  Begun(n, pages, written)
<1>1. MaxPages \in Nat /\ n \in Int /\ p \in Nat
  BY DEF SessionsAssumption, Pages
<1>2. \A q \in 0 .. n - 1 : written[q] = more[q]
  BY <1>1 DEF PageMaps, Pages
<1>3. ASSUME n >= 0
      PROVE  IsPrefix(pages[n], written[n])
  <2>1. n \in Pages /\ pages[n] \in Seq(Nat) /\ more[n] \in Seq(Nat) /\ IsPrefix(pages[n], more[n])
    BY <1>1, <1>3 DEF Begun, PageMaps, Pages, SessionsAssumption
  <2>2. CASE n = p
    <3>1. written[n] = s /\ IsPrefix(more[n], s)
      BY <2>1, <2>2 DEF PageMaps
    <3> QED BY <2>1, <3>1, PrefixTransitive
  <2>3. CASE n # p
    BY <2>1, <2>3 DEF PageMaps
  <2> QED BY <2>2, <2>3
<1> QED
  BY <1>2, <1>3 DEF Begun

(* A page of the table is written anew, and becomes the last.              *)
LEMMA LastPageWritten ==
    ASSUME SessionsAssumption, NEW n \in Pages, NEW pages \in PageMaps, NEW s \in Seq(Nat)
    PROVE  /\ [pages EXCEPT ![n] = s] \in PageMaps
           /\ Visible(n, [pages EXCEPT ![n] = s]) = Visible(n - 1, pages) \o s
<1>1. PICK written : written = [pages EXCEPT ![n] = s]
  OBVIOUS
<1>2. written \in PageMaps /\ written[n] = s /\ \A p \in Pages \ {n} : written[p] = pages[p]
  BY <1>1 DEF PageMaps
<1>3. Visible(n, written) = Visible(n - 1, pages) \o written[n]
  BY <1>2, VisibleWritten
<1> QED
  BY <1>1, <1>2, <1>3

(* A page of the table is written, which is or becomes the last one.       *)
LEMMA PageWrittenStep ==
    ASSUME SessionsAssumption, IInv, status \in {"catalog", "table"}, NEW p \in Pages, NEW s \in Seq(Nat),
           table' = [table EXCEPT !.last = p], current' = p, mem' = [mem EXCEPT ![p] = s],
           UNCHANGED <<catalogVars, disk>>, status' = "table", nextId' \in Nat,
           loaded' \in BOOLEAN, put' \in BOOLEAN, put' => put /\ table.last = p,
           ~ loaded' => /\ ~ loaded /\ base' = base /\ table.last <= p
                        /\ table.last = p => IsPrefix(mem[p], s),
           appended' = Visible(p - 1, mem) \o s
    PROVE  IInv'
<1>1. MaxPages \in Nat \ {0} /\ p \in Int /\ p \in -1 .. MaxPages - 1
  BY DEF SessionsAssumption, Pages
<1>2. CatalogInv' /\ Saved' = Saved
  BY CatalogKept DEF IInv, catalogVars
<1>3. /\ table' \in WrittenDescriptors /\ table'.tableName = name /\ table'.last = p
      /\ table \in WrittenDescriptors /\ table.last \in -1 .. MaxPages - 1
  BY <1>1, LastMoved, SMTT(30) DEF IInv, TableInv
<1>4. TableInv'
  <2>1. put' => name \in DOMAIN described' /\ LastOf(described') = p
    BY DEF IInv, TableInv, catalogVars
  <2>2. ASSUME ~ loaded'
        PROVE  LastOf(described') <= p
    <3>1. LastOf(described) <= table.last /\ table.last <= p /\ described' = described
      BY <2>2 DEF IInv, TableInv, catalogVars
    <3>2. LastOf(described) \in Int /\ table.last \in Int
      BY <1>1, <1>3, SMTT(30) DEF IInv, CatalogInv
    <3> QED BY <1>1, <3>1, <3>2, SMTT(30)
  <2>3. name' = name
    BY DEF name
  <2> QED BY <1>1, <1>3, <2>1, <2>2, <2>3 DEF TableInv
<1>5. PagesInv'
  <2>1. mem \in PageMaps /\ disk \in PageMaps
    BY DEF IInv, PagesInv
  <2>2. mem' \in PageMaps /\ Visible(p, mem') = Visible(p - 1, mem) \o s
    BY <2>1, LastPageWritten
  <2> QED BY <1>3, <2>1, <2>2 DEF PagesInv
<1>6. GrowthInv'
  <2> SUFFICES ASSUME ~ loaded'
               PROVE  /\ LastOf(Saved) <= p /\ Begun(LastOf(Saved), disk, mem')
                      /\ IsPrefix(base, Visible(LastOf(Saved), disk)) /\ base \in Seq(Nat) /\ base' = base
    BY <1>2, <1>3 DEF GrowthInv
  <2> PICK n : n = LastOf(Saved)
    OBVIOUS
  <2>1. /\ n \in -1 .. MaxPages - 1 /\ n <= table.last /\ Begun(n, disk, mem)
        /\ IsPrefix(base, Visible(n, disk)) /\ base \in Seq(Nat)
        /\ mem \in PageMaps /\ disk \in PageMaps
    BY DEF IInv, GrowthInv, CatalogInv, PagesInv
  <2>2. n \in Int /\ table.last \in Int /\ table.last <= p
    BY <1>1, <1>3, <2>1
  <2>3. n <= p /\ (n = p => table.last = p)
    BY <1>1, <2>1, <2>2, SMTT(30)
  <2>4. n = p => IsPrefix(mem[p], s)
    BY <2>3
  <2>5. Begun(n, disk, mem')
    BY <2>1, <2>3, <2>4, BegunAfter
  <2> QED BY <2>1, <2>3, <2>5
<1> QED
  BY <1>2, <1>4, <1>5, <1>6 DEF IInv

(* The constructor of the table empties the first page of a new table, and *)
(* takes the last page of another as it is.                                *)
LEMMA OpenTableStep ==
    ASSUME SessionsAssumption, IInv, OpenTable
    PROVE  IInv'
<1>1. /\ MaxPages \in Nat \ {0} /\ 0 \in Pages /\ << >> \in Seq(Nat) /\ 0 - 1 = -1
      /\ -1 \in -1 .. MaxPages - 1 /\ -1 # 0 /\ -1 <= 0
  BY DEF SessionsAssumption, Pages
<1>2. CASE table.last = -1
  <2>1. appended' = << >>
    <3>1. appended = Visible(-1, mem) /\ mem \in PageMaps /\ appended' = appended
      BY <1>2 DEF IInv, PagesInv, OpenTable, recordVars
    <3> QED BY <1>1, <3>1, VisiblePages
  <2>2. Visible(0 - 1, mem) \o << >> = << >>
    <3>1. Visible(-1, mem) = << >>
      BY <1>1, VisiblePages DEF IInv, PagesInv
    <3> QED BY <1>1, <3>1
  <2>3. /\ table' = [table EXCEPT !.last = 0] /\ current' = 0 /\ mem' = [mem EXCEPT ![0] = << >>]
        /\ UNCHANGED <<catalogVars, disk, base, loaded, nextId>> /\ status' = "table" /\ put' = FALSE
        /\ status \in {"catalog", "table"}
    BY <1>2 DEF OpenTable, recordVars
  <2>4. nextId' \in Nat /\ loaded' \in BOOLEAN
    BY <2>3 DEF IInv, PagesInv, TableInv
  <2> QED BY <1>1, <1>2, <2>1, <2>2, <2>3, <2>4, PageWrittenStep
<1>3. CASE table.last # -1
  <2>1. current' = table.last /\ UNCHANGED <<table, mem, put, catalogVars, disk, recordVars>> /\ status' = "table"
        /\ status = "catalog"
    BY <1>3 DEF OpenTable
  <2>2. table.last \in Pages
    BY <1>1, <1>3 DEF IInv, TableInv, Pages
  <2>3. CatalogInv' /\ Saved' = Saved
    BY <2>1, CatalogKept DEF IInv, catalogVars
  <2>4. TableInv'
    BY <2>1, <2>2 DEF IInv, TableInv, recordVars, name, catalogVars
  <2>5. PagesInv' /\ GrowthInv'
    BY <2>1, <2>3 DEF IInv, PagesInv, GrowthInv, recordVars
  <2> QED BY <2>3, <2>4, <2>5 DEF IInv
<1> QED
  BY <1>2, <1>3

(* The next page with records on it becomes the last.                      *)
LEMMA NewPageStep ==
    ASSUME SessionsAssumption, IInv, status = "table", NEW s \in Seq(Nat), NewPage(s),
           UNCHANGED <<catalogVars, disk, base, loaded>>, status' = "table", nextId' \in Nat,
           appended' = appended \o s
    PROVE  IInv'
<1> PICK p : p = table.last + 1
  OBVIOUS
<1>1. MaxPages \in Nat \ {0} /\ table.last \in -1 .. MaxPages - 1 /\ p \in Pages /\ p - 1 = table.last
      /\ table.last <= p /\ table.last # p
  <2>1. MaxPages \in Nat \ {0} /\ table.last \in -1 .. MaxPages - 1
    BY DEF SessionsAssumption, IInv, TableInv
  <2>2. p \in Pages
    BY DEF NewPage
  <2> QED BY <2>1, <2>2, SMTT(30)
<1>2. /\ table' = [table EXCEPT !.last = p] /\ current' = p /\ mem' = [mem EXCEPT ![p] = s] /\ put' = FALSE
  BY DEF NewPage, IInv, TableInv, WrittenDescriptors
<1>3. appended' = Visible(p - 1, mem) \o s
  BY <1>1 DEF IInv, PagesInv
<1>4. loaded' \in BOOLEAN
  BY DEF IInv, TableInv
<1> QED
  BY <1>1, <1>2, <1>3, <1>4, PageWrittenStep

(* A record is appended to the last page, or is the first on the next.     *)
LEMMA AppendRecordStep ==
    ASSUME SessionsAssumption, IInv, AppendRecord
    PROVE  IInv'
<1>1. /\ nextId \in Nat /\ <<nextId>> \in Seq(Nat) /\ nextId' \in Nat
      /\ mem \in PageMaps /\ appended = Visible(table.last, mem)
      /\ table.last \in Pages /\ current = table.last /\ table.last \in -1 .. MaxPages - 1
  BY DEF IInv, PagesInv, TableInv, AppendRecord
<1>2. /\ status = "table" /\ status' = "table" /\ UNCHANGED <<catalogVars, disk, base, loaded>>
  BY DEF AppendRecord
<1> PICK p \in Pages : p = table.last
  BY <1>1
<1>3. MaxPages \in Nat \ {0} /\ p - 1 \in -1 .. MaxPages - 1 /\ p # -1 /\ p <= p
  BY DEF SessionsAssumption, Pages
<1>8. PICK before, on : before = Visible(p - 1, mem) /\ on = mem[p]
  OBVIOUS
<1>4. on \in Seq(Nat) /\ before \in Seq(Nat) /\ appended = before \o on /\ appended \in Seq(Nat)
  <2>1. mem[p] \in Seq(Nat) /\ appended = Visible(p - 1, mem) \o mem[p] /\ appended \in Seq(Nat)
    BY <1>1, <1>3, VisiblePages
  <2>2. Visible(p - 1, mem) \in Seq(Nat)
    BY <1>1, <1>3, VisiblePages
  <2> QED BY <1>8, <2>1, <2>2
<1>9. PICK s : s = Append(on, nextId)
  OBVIOUS
<1>5. /\ s \in Seq(Nat) /\ IsPrefix(on, s) /\ appended' = before \o s
      /\ appended' = appended \o <<nextId>>
  <2>3. /\ Append(on, nextId) \in Seq(Nat) /\ IsPrefix(on, Append(on, nextId))
        /\ before \o Append(on, nextId) = Append(before \o on, nextId)
    BY <1>1, <1>4, AppendedLast
  <2>1. s \in Seq(Nat) /\ IsPrefix(on, s) /\ before \o s = Append(before \o on, nextId)
    BY <1>9, <2>3
  <2>2. Append(appended, nextId) = appended \o <<nextId>> /\ appended' = Append(appended, nextId)
    BY <1>1, <1>4, AppendIsConcat DEF AppendRecord
  <2> QED BY <1>4, <2>1, <2>2
<1>6. CASE HasRoom
  <2>1. /\ table' = table /\ current' = p /\ mem' = [mem EXCEPT ![p] = s] /\ put' = put
    BY <1>1, <1>6, <1>8, <1>9 DEF AppendRecord
  <2>2. table' = [table EXCEPT !.last = p]
    BY <2>1 DEF IInv, TableInv, WrittenDescriptors
  <2>3. appended' = Visible(p - 1, mem) \o s /\ IsPrefix(mem[p], s)
    BY <1>5, <1>8
  <2>4. loaded' \in BOOLEAN /\ put' \in BOOLEAN
    BY <1>2, <2>1 DEF IInv, TableInv
  <2> QED BY <1>1, <1>2, <1>3, <1>5, <2>1, <2>2, <2>3, <2>4, PageWrittenStep
<1>7. CASE ~ HasRoom
  <2>1. NewPage(<<nextId>>)
    BY <1>7 DEF AppendRecord
  <2> QED BY <1>1, <1>2, <1>5, <2>1, NewPageStep
<1> QED
  BY <1>6, <1>7

(* The next page of the table is made, without records.                    *)
LEMMA ExtendTableStep ==
    ASSUME SessionsAssumption, IInv, ExtendTable
    PROVE  IInv'
<1>1. /\ status = "table" /\ status' = "table" /\ UNCHANGED <<catalogVars, disk, base, loaded, nextId, appended>>
      /\ NewPage(<< >>)
  BY DEF ExtendTable, recordVars
<1>2. nextId' \in Nat /\ << >> \in Seq(Nat)
  BY <1>1 DEF IInv, PagesInv
<1>3. appended' = appended \o << >>
  <2>1. appended = Visible(table.last, mem) /\ mem \in PageMaps /\ table.last \in -1 .. MaxPages - 1
    BY <1>1 DEF IInv, PagesInv, TableInv
  <2>2. appended \in Seq(Nat)
    BY <2>1, VisiblePages
  <2>3. appended \o << >> = appended
    BY <2>2, ConcatEmptySeq
  <2> QED BY <1>1, <2>3
<1> QED
  BY <1>1, <1>2, <1>3, NewPageStep

(* loadFromTextFile starts the table again at its first page.              *)
LEMMA LoadFromTextFileStep ==
    ASSUME SessionsAssumption, IInv, LoadFromTextFile
    PROVE  IInv'
<1>1. /\ MaxPages \in Nat \ {0} /\ 0 \in Pages /\ << >> \in Seq(Nat) /\ 0 - 1 = -1
      /\ -1 \in -1 .. MaxPages - 1
  BY DEF SessionsAssumption, Pages
<1>2. Visible(0 - 1, mem) \o << >> = << >>
  <2>1. Visible(-1, mem) = << >>
    BY <1>1, VisiblePages DEF IInv, PagesInv
  <2> QED BY <1>1, <2>1
<1>3. /\ table' = [table EXCEPT !.last = 0] /\ current' = 0 /\ mem' = [mem EXCEPT ![0] = << >>]
      /\ UNCHANGED <<catalogVars, disk, nextId>> /\ status' = "table" /\ status = "table"
      /\ appended' = << >> /\ loaded' = TRUE
  BY DEF LoadFromTextFile
<1>4. nextId' \in Nat /\ put' \in BOOLEAN /\ (put' => put /\ table.last = 0)
  BY <1>3 DEF IInv, PagesInv, LoadFromTextFile
<1> QED
  BY <1>1, <1>2, <1>3, <1>4, PageWrittenStep

(* A page written to the file is one that the table grew by, or one of     *)
(* which the file has the beginning.                                       *)
LEMMA EvictStep ==
    ASSUME SessionsAssumption, IInv, NEW p \in Pages, Evict(p)
    PROVE  IInv'
<1>1. /\ status = "table" /\ UNCHANGED <<catalogVars, table, current, mem, status, recordVars, put>>
      /\ disk' = [disk EXCEPT ![p] = mem[p]]
  BY DEF Evict
<1>2. CatalogInv' /\ Saved' = Saved
  BY <1>1, CatalogKept DEF IInv, catalogVars
<1>3. TableInv'
  BY <1>1 DEF IInv, TableInv, catalogVars, recordVars, name
<1>4. mem \in PageMaps /\ disk \in PageMaps /\ disk' \in PageMaps
  BY <1>1 DEF IInv, PagesInv, PageMaps
<1>5. PagesInv'
  BY <1>1, <1>4 DEF IInv, PagesInv, recordVars
<1>6. GrowthInv'
  <2> SUFFICES ASSUME ~ loaded
               PROVE  /\ LastOf(Saved) <= table.last /\ Begun(LastOf(Saved), disk', mem)
                      /\ IsPrefix(base, Visible(LastOf(Saved), disk')) /\ base \in Seq(Nat)
    BY <1>1, <1>2 DEF GrowthInv, recordVars
  <2> PICK n : n = LastOf(Saved)
    OBVIOUS
  <2>1. /\ n \in -1 .. MaxPages - 1 /\ n <= table.last /\ Begun(n, disk, mem)
        /\ IsPrefix(base, Visible(n, disk)) /\ base \in Seq(Nat)
    BY <1>1 DEF IInv, GrowthInv, CatalogInv
  <2>2. Begun(n, disk', mem) /\ Begun(n, disk, disk')
    <3>1. MaxPages \in Nat /\ n \in Int /\ (n >= 0 => n \in Pages) /\ \A q \in 0 .. n - 1 : q \in Pages
      BY <2>1 DEF SessionsAssumption, Pages
    <3>2. \A q \in Pages : disk'[q] = IF q = p THEN mem[q] ELSE disk[q]
      BY <1>1, <1>4 DEF PageMaps
    <3>3. \A q \in 0 .. n - 1 : disk[q] = mem[q] /\ disk'[q] = mem[q]
      BY <2>1, <3>1, <3>2 DEF Begun
    <3>4. ASSUME n >= 0
          PROVE  IsPrefix(disk[n], mem[n]) /\ IsPrefix(mem[n], mem[n]) /\ IsPrefix(disk[n], disk[n])
      <4>1. disk[n] \in Seq(Nat) /\ mem[n] \in Seq(Nat)
        BY <1>4, <3>1, <3>4 DEF PageMaps
      <4> QED BY <2>1, <3>4, <4>1, PrefixTransitive DEF Begun
    <3>5. n >= 0 => IsPrefix(disk'[n], mem[n]) /\ IsPrefix(disk[n], disk'[n])
      BY <3>1, <3>2, <3>4
    <3> QED BY <3>3, <3>5 DEF Begun
  <2>3. IsPrefix(Visible(n, disk), Visible(n, disk'))
    BY <1>4, <2>1, <2>2, BegunIsPrefix
  <2>4. Visible(n, disk) \in Seq(Nat) /\ Visible(n, disk') \in Seq(Nat)
    BY <1>4, <2>1, VisiblePages
  <2>5. IsPrefix(base, Visible(n, disk'))
    BY <2>1, <2>3, <2>4, PrefixTransitive
  <2> QED BY <2>1, <2>2, <2>5
<1> QED
  BY <1>2, <1>3, <1>5, <1>6 DEF IInv

(* All pages are written.                                                  *)
LEMMA DestroyManagerStep ==
    ASSUME SessionsAssumption, IInv, DestroyManager
    PROVE  IInv'
<1>1. /\ status = "table" /\ status' = "flushed" /\ UNCHANGED <<catalogVars, table, current, mem, recordVars, put>>
      /\ disk' = mem
  BY DEF DestroyManager
<1>2. CatalogInv' /\ Saved' = Saved
  BY <1>1, CatalogKept DEF IInv, catalogVars
<1>3. TableInv'
  BY <1>1 DEF IInv, TableInv, catalogVars, recordVars, name
<1>4. mem \in PageMaps /\ disk \in PageMaps
  BY DEF IInv, PagesInv
<1>5. PagesInv'
  BY <1>1, <1>4 DEF IInv, PagesInv, recordVars
<1>6. GrowthInv'
  <2> SUFFICES ASSUME ~ loaded
               PROVE  /\ LastOf(Saved) <= table.last /\ Begun(LastOf(Saved), mem, mem)
                      /\ IsPrefix(base, Visible(LastOf(Saved), mem)) /\ base \in Seq(Nat)
    BY <1>1, <1>2 DEF GrowthInv, recordVars
  <2> PICK n : n = LastOf(Saved)
    OBVIOUS
  <2>1. /\ n \in -1 .. MaxPages - 1 /\ n <= table.last /\ Begun(n, disk, mem)
        /\ IsPrefix(base, Visible(n, disk)) /\ base \in Seq(Nat)
    BY <1>1 DEF IInv, GrowthInv, CatalogInv
  <2>2. Begun(n, mem, mem)
    <3>1. MaxPages \in Nat /\ n \in Int /\ (n >= 0 => n \in Pages)
      BY <2>1 DEF SessionsAssumption, Pages
    <3>2. n >= 0 => mem[n] \in Seq(Nat)
      BY <1>4, <3>1 DEF PageMaps
    <3>3. n >= 0 => IsPrefix(mem[n], mem[n])
      BY <3>2, PrefixTransitive
    <3> QED BY <3>3 DEF Begun
  <2>3. IsPrefix(Visible(n, disk), Visible(n, mem))
    BY <1>4, <2>1, BegunIsPrefix
  <2>4. Visible(n, disk) \in Seq(Nat) /\ Visible(n, mem) \in Seq(Nat)
    BY <1>4, <2>1, VisiblePages
  <2>5. IsPrefix(base, Visible(n, mem))
    BY <2>1, <2>3, <2>4, PrefixTransitive
  <2> QED BY <2>1, <2>2, <2>5
<1> QED
  BY <1>2, <1>3, <1>5, <1>6 DEF IInv

(* The catalog file is empty until it is written.                          *)
LEMMA TruncateCatalogStep ==
    ASSUME SessionsAssumption, IInv, TruncateCatalog
    PROVE  IInv'
<1>1. /\ status = "flushed" /\ status' = "saving" /\ UNCHANGED <<myData, described, table, pageVars, recordVars, put>>
      /\ catFile' = {}
  BY DEF TruncateCatalog
<1>2. -1 \in -1 .. MaxPages - 1
  BY DEF SessionsAssumption
<1>3. CatalogInv'
  <2>1. catFile' = Lines(<< >>) /\ Describes(<< >>, << >>) /\ LastOf(<< >>) = -1
    BY <1>1, EmptyCatalog
  <2>2. ReadLines(catFile') = << >> /\ GetAllTables(<< >>) = << >>
    BY <2>1, CatalogSaved
  <2>3. LastOf(described') = LastOf(described)
    BY <1>1 DEF LastOf
  <2> QED BY <1>1, <1>2, <2>1, <2>2, <2>3 DEF IInv, CatalogInv, Saved
<1>4. TableInv'
  <2>1. LastOf(described') = LastOf(described) /\ name' = name
    BY <1>1 DEF LastOf, name
  <2> QED BY <1>1, <2>1 DEF IInv, TableInv, pageVars, recordVars
<1>5. PagesInv' /\ GrowthInv'
  BY <1>1 DEF IInv, PagesInv, GrowthInv, pageVars, recordVars
<1> QED
  BY <1>3, <1>4, <1>5 DEF IInv

(* The invariant: what the catalog's map and its file tell, the table's    *)
(* descriptor, the pages in memory and in the file, and how the table grew *)
(* since the session began.                                                *)
THEOREM SessionsInvariant == Spec => []IInv
<1>1. Init => IInv
  BY SessionsAssumption, InitHolds
<1>2. IInv /\ [Next]_vars => IInv'
  <2> SUFFICES ASSUME IInv, [Next]_vars
               PROVE  IInv'
    OBVIOUS
  <2>1. CASE OpenCatalog
    BY <2>1, SessionsAssumption, OpenCatalogStep
  <2>2. ASSUME NEW s \in Statements, CreateTable(s)
        PROVE  IInv'
    BY <2>2, SessionsAssumption, CreateTableStep
  <2>3. CASE OpenTable
    BY <2>3, SessionsAssumption, OpenTableStep
  <2>4. CASE AppendRecord
    BY <2>4, SessionsAssumption, AppendRecordStep
  <2>5. CASE ExtendTable
    BY <2>5, SessionsAssumption, ExtendTableStep
  <2>6. CASE LoadFromTextFile
    BY <2>6, SessionsAssumption, LoadFromTextFileStep
  <2>7. CASE PutInCatalog
    BY <2>7, SessionsAssumption, PutInCatalogStep
  <2>8. ASSUME NEW p \in Pages, Evict(p)
        PROVE  IInv'
    BY <2>8, SessionsAssumption, EvictStep
  <2>9. CASE DestroyManager
    BY <2>9, SessionsAssumption, DestroyManagerStep
  <2>10. CASE TruncateCatalog
    BY <2>10, SessionsAssumption, TruncateCatalogStep
  <2>11. CASE WriteCatalog
    <3>1. CatalogInv /\ PagesInv
      BY DEF IInv
    <3>2. MemoryGone /\ status' = "closed" /\ disk' = disk /\ nextId' = nextId /\ catFile' = Lines(myData)
      BY <2>11 DEF WriteCatalog
    <3> QED BY <3>1, <3>2, SessionsAssumption, ProcessEnds
  <2>12. CASE Crash
    <3>1. CatalogInv /\ PagesInv
      BY DEF IInv
    <3>2. MemoryGone /\ status' = "closed" /\ disk' = disk /\ nextId' = nextId /\ catFile' = catFile
      BY <2>12 DEF Crash
    <3> QED BY <3>1, <3>2, SessionsAssumption, ProcessEnds
  <2>13. CASE UNCHANGED vars
    <3>1. UNCHANGED <<catFile, myData, described, table, current, mem, disk, status, nextId, base, appended, loaded, put>>
      BY <2>13 DEF vars, catalogVars, pageVars, recordVars
    <3>2. CatalogInv' /\ Saved' = Saved
      BY <3>1, CatalogKept DEF IInv
    <3>3. TableInv'
      BY <3>1 DEF IInv, TableInv, name
    <3>4. PagesInv' /\ GrowthInv'
      BY <3>1, <3>2 DEF IInv, PagesInv, GrowthInv
    <3> QED BY <3>2, <3>3, <3>4 DEF IInv
  <2> QED BY <2>1, <2>2, <2>3, <2>4, <2>5, <2>6, <2>7, <2>8, <2>9, <2>10, <2>11, <2>12, <2>13 DEF Next
<1> QED
  BY <1>1, <1>2, PTL DEF Spec

(* A table reads back as what was appended to it, by either iterator, and  *)
(* the pages low to high as what is on them, if there are no more pages    *)
(* than the iterator counts.                                               *)
THEOREM SessionsReadBack ==
    ASSUME MaxPages <= HighPage
    PROVE  Spec => []ReadsBack
<1>1. IInv => ReadsBack
  <2> SUFFICES ASSUME IInv, status \in {"table", "flushed", "saving"}
               PROVE  /\ Scan(mem, table.last) = appended
                      /\ ScanAlt(mem, Pages, 0, HighPage, table.last) = appended
                      /\ \A low \in 0 .. table.last : \A high \in low .. MaxPages :
                            ScanAlt(mem, Pages, low, high, table.last) = Between(low, Min({high, table.last}), mem)
    BY DEF ReadsBack
  <2> PICK last : last = table.last
    OBVIOUS
  <2>1. /\ MaxPages \in Nat \ {0} /\ last \in Nat /\ last <= MaxPages - 1
        /\ appended = Visible(last, mem) /\ mem \in PageMaps /\ last \in -1 .. MaxPages - 1
    <3>1. last \in Pages /\ MaxPages \in Nat \ {0}
      BY SessionsAssumption DEF IInv, TableInv, SessionsAssumption
    <3>2. appended = Visible(last, mem) /\ mem \in PageMaps
      BY DEF IInv, PagesInv
    <3> QED BY <3>1, <3>2 DEF Pages
  <2>2. \A low \in Nat : Holding(mem, low, last, Nat) /\ low .. last \subseteq Pages
    BY <2>1 DEF Holding, PageMaps, Pages
  <2>3. ASSUME NEW low \in Nat, NEW high \in Nat, low <= high, low <= last
        PROVE  ScanAlt(mem, Pages, low, high, last) = Between(low, IF high <= last THEN high ELSE last, mem)
    BY <2>1, <2>2, <2>3, ScanAltReads
  <2>4. Scan(mem, last) = appended
    <3>1. Holding(mem, 0, last, Nat)
      BY <2>2
    <3> QED BY <2>1, <3>1, ScanReads
  <2>5. ScanAlt(mem, Pages, 0, HighPage, last) = appended
    <3> PICK low \in Nat, high \in Nat : low = 0 /\ high = HighPage
      BY DEF HighPage
    <3>1. low <= high /\ low <= last /\ (high <= last => high = last)
      BY <2>1 DEF HighPage
    <3>2. ScanAlt(mem, Pages, low, high, last) = Between(low, last, mem)
      BY <2>3, <3>1
    <3> QED BY <2>1, <3>2 DEF Visible
  <2>6. ASSUME NEW low \in 0 .. last, NEW high \in low .. MaxPages
        PROVE  ScanAlt(mem, Pages, low, high, last) = Between(low, Min({high, last}), mem)
    <3>1. low \in Nat /\ high \in Nat /\ low <= high /\ low <= last /\ high \in Int /\ last \in Int
      BY <2>1
    <3>2. Min({high, last}) = IF high <= last THEN high ELSE last
      BY <3>1, MinOfTwo
    <3> QED BY <2>3, <3>1, <3>2
  <2> QED BY <2>4, <2>5, <2>6
<1> QED
  BY <1>1, SessionsInvariant, PTL

(* What the lines of the file about the last page say is what the tables   *)
(* read from it have.                                                      *)
LEMMA SavedLastRead ==
    ASSUME CatalogInv
    PROVE  SavedLast = LastOf(Saved)
<1> PICK data, d : data = ReadLines(catFile) /\ d = Saved
  OBVIOUS
<1>1. Describes(data, d) /\ catFile = Lines(data)
  BY DEF CatalogInv
<1> QED
  BY <1>1, CatalogSaved DEF SavedLast

(* A crash while the table grows loses nothing that was in the files when  *)
(* the session began, and leaves the beginning of the table.               *)
THEOREM CrashKeepsPrefix == Spec => []CrashKeepsTable
<1>1. IInv => CrashKeepsTable
  <2> SUFFICES ASSUME IInv, status \in {"catalog", "table", "flushed"}, ~ loaded
               PROVE  /\ IsPrefix(base, Visible(SavedLast, disk))
                      /\ IsPrefix(Visible(SavedLast, disk), appended)
    BY DEF CrashKeepsTable
  <2> PICK n : n = LastOf(Saved)
    OBVIOUS
  <2>1. SavedLast = n
    BY SavedLastRead DEF IInv
  <2>2. /\ n \in -1 .. MaxPages - 1 /\ n <= table.last /\ Begun(n, disk, mem)
        /\ IsPrefix(base, Visible(n, disk)) /\ table.last \in -1 .. MaxPages - 1
        /\ mem \in PageMaps /\ disk \in PageMaps /\ appended = Visible(table.last, mem)
    BY DEF IInv, GrowthInv, CatalogInv, PagesInv, TableInv
  <2>3. IsPrefix(Visible(n, disk), Visible(n, mem))
    BY <2>2, SessionsAssumption, BegunIsPrefix
  <2>4. /\ Visible(n, disk) \in Seq(Nat) /\ Visible(n, mem) \in Seq(Nat)
        /\ Visible(table.last, mem) \in Seq(Nat) /\ Holding(mem, 0, table.last, Nat)
    BY <2>2, SessionsAssumption, VisiblePages
  <2>5. n \in Int /\ table.last \in Int /\ -1 <= n
    BY <2>2, SessionsAssumption DEF SessionsAssumption
  <2>6. IsPrefix(Visible(n, mem), Visible(table.last, mem))
    BY <2>2, <2>4, <2>5, VisiblePrefix
  <2>7. IsPrefix(Visible(n, disk), Visible(table.last, mem))
    BY <2>3, <2>4, <2>6, PrefixTransitive
  <2> QED BY <2>1, <2>2, <2>7
<1> QED
  BY <1>1, SessionsInvariant, PTL

(* After a session that ended in order the files hold the table, or the    *)
(* beginning of it that was put in the catalog, and the next session reads *)
(* of every table what was last put there.                                 *)
THEOREM OrderlyEndKeeps == Spec => []OrderlyEndKeepsTable
<1>1. IInv => OrderlyEndKeepsTable
  <2> SUFFICES ASSUME IInv, status = "saving"
               PROVE  OrderlyEndKeepsTable
    BY DEF OrderlyEndKeepsTable
  <2> PICK lines : lines = Lines(myData)
    OBVIOUS
  <2>1. Describes(myData, described)
    BY DEF IInv, CatalogInv
  <2>2. GetAllTables(ReadLines(lines)) = described
    BY <2>1, CatalogSaved
  <2> PICK n : n = LastOf(described)
    OBVIOUS
  <2>3. /\ n \in -1 .. MaxPages - 1 /\ table.last \in -1 .. MaxPages - 1
        /\ mem \in PageMaps /\ mem = disk /\ appended = Visible(table.last, mem)
        /\ put => n = table.last
        /\ ~ loaded => n <= table.last
    BY DEF IInv, CatalogInv, TableInv, PagesInv
  <2>4. put => Visible(n, disk) = appended
    BY <2>3
  <2>5. ASSUME ~ loaded
        PROVE  IsPrefix(Visible(n, disk), appended)
    <3>1. Holding(mem, 0, table.last, Nat)
      BY <2>3, SessionsAssumption, VisiblePages
    <3>2. n \in Int /\ table.last \in Int /\ -1 <= n /\ n <= table.last
      BY <2>3, <2>5, SessionsAssumption DEF SessionsAssumption
    <3>3. IsPrefix(Visible(n, mem), Visible(table.last, mem))
      BY <3>1, <3>2, VisiblePrefix
    <3> QED BY <2>3, <3>3
  <2>6. \A t \in DOMAIN described : Cardinality(Names(described[t].mySchema)) = Len(described[t].mySchema)
    <3> SUFFICES ASSUME NEW t \in DOMAIN described
                 PROVE  Cardinality(Names(described[t].mySchema)) = Len(described[t].mySchema)
      OBVIOUS
    <3> PICK schema : schema = described[t].mySchema
      OBVIOUS
    <3>1. schema \in Seq(Attributes) /\ NoneTwice(schema)
      BY <2>1 DEF Describes, Told, WrittenDescriptors
    <3> QED BY <3>1, NamesCounted
  <2>7. n = IF name \in DOMAIN described THEN described[name].last ELSE -1
    BY DEF LastOf
  <2> QED BY <2>2, <2>4, <2>5, <2>6, <2>7 DEF OrderlyEndKeepsTable
<1> QED
  BY <1>1, SessionsInvariant, PTL

=============================================================================
