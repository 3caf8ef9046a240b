--------------------------- MODULE BPlusTreeProofs ---------------------------
(***************************************************************************)
(* Proofs about BPlusTree, for all keys, capacities and numbers of records:*)
(* the tree that append keeps, then, for keys that no two records share,   *)
(* what its range queries give.                                            *)
(***************************************************************************)
EXTENDS BPlusTree, SequenceLemmas

-----------------------------------------------------------------------------
(* t holds what s holds, moved: what is at m was at from[m].               *)
Moved(t, s, n, from) ==
    /\ from \in [1 .. n -> 1 .. n]
    /\ \A m \in 1 .. n : t[m] = s[from[m]]
    /\ \A a, b \in 1 .. n : from[a] = from[b] => a = b
    /\ \A i \in 1 .. n : \E m \in 1 .. n : from[m] = i

(* A page that is sorted keeps its records, in the order of their keys.    *)
LEMMA StableSorts ==
    ASSUME NEW S, \A r \in S : r.key \in Int, NEW s \in Seq(S)
    PROVE  /\ StableSort(s) \in Seq(S) /\ Len(StableSort(s)) = Len(s)
           /\ \A i, j \in 1 .. Len(s) : i < j => StableSort(s)[i].key <= StableSort(s)[j].key
           /\ \E from : Moved(StableSort(s), s, Len(s), from)
<1> DEFINE n == Len(s)
           keys == [i \in DOMAIN s |-> s[i].key]
           t == StableSort(s)
<1>1. n \in Nat /\ DOMAIN s = 1 .. n /\ \A i \in 1 .. n : s[i] \in S
  BY LenProperties, ElementOfSeq
<1>2. keys \in [1 .. n -> Int]
  BY <1>1
<1>3. PICK p : Arranges(p, n, keys) /\ t = [m \in 1 .. n |-> s[p[m]]]
  <2>1. t = Arranged(s, keys)
    BY DEF StableSort
  <2>2. n \in Nat /\ DOMAIN s = 1 .. n
    BY <1>1
  <2> HIDE DEF keys, t, n
  <2> QED BY <1>2, <2>1, <2>2, ArrangedIsPermuted, SMTT(60)
<1> HIDE DEF t, n
<1>4. /\ p \in [1 .. n -> 1 .. n]
      /\ \A m \in 1 .. n : t[m] = s[p[m]] /\ t[m] \in S
      /\ \A a, b \in 1 .. n : p[a] = p[b] => a = b
      /\ \A i \in 1 .. n : \E m \in 1 .. n : p[m] = i
  BY <1>1, <1>3 DEF Arranges
<1>5. t \in Seq(S) /\ Len(t) = n
  BY <1>1, <1>3, <1>4
<1>6. \A i, j \in 1 .. n : i < j => t[i].key <= t[j].key
  <2> SUFFICES ASSUME NEW i \in 1 .. n, NEW j \in 1 .. n, i < j
               PROVE  t[i].key <= t[j].key
    OBVIOUS
  <2>1. Earlier(keys, p[i], p[j])
    BY <1>3 DEF Arranges
  <2>2. p[i] \in 1 .. n /\ p[j] \in 1 .. n
    BY <1>4
  <2>3. keys[p[i]] <= keys[p[j]]
    <3> HIDE DEF keys
    <3> QED BY <1>2, <2>1, <2>2 DEF Earlier
  <2> QED BY <1>1, <1>4, <2>2, <2>3
<1>7. Moved(t, s, n, p)
  BY <1>4 DEF Moved
<1> QED
  BY <1>5, <1>6, <1>7 DEF t, n

(* A page with a new record sorted in has its old records and the new one, *)
(* each once: what is at m was at from[m], or is the new one.              *)
Joined(t, old, r, n, from) ==
    /\ from \in [1 .. n -> 1 .. n]
    /\ \A m \in 1 .. n :
          /\ from[m] = n => t[m] = r
          /\ from[m] # n => from[m] \in 1 .. Len(old) /\ t[m] = old[from[m]]
    /\ \A a, b \in 1 .. n : from[a] = from[b] => a = b
    /\ \A i \in 1 .. n : \E m \in 1 .. n : from[m] = i

(* A page sorted together with one more record: its records and the new    *)
(* one, each once, in the order of their keys.                             *)
LEMMA SortedWith ==
    ASSUME NEW S, \A s \in S : s.key \in Int, NEW old \in Seq(S), NEW r \in S
    PROVE  LET all == StableSort(Append(old, r))
               n == Len(old) + 1
           IN  /\ all \in Seq(S) /\ Len(all) = n
               /\ \A i, j \in 1 .. n : i < j => all[i].key <= all[j].key
               /\ \E from : Joined(all, old, r, n, from)
<1> DEFINE longer == Append(old, r)
           n == Len(old) + 1
<1>1. /\ longer \in Seq(S) /\ Len(longer) = n /\ Len(old) \in Nat
      /\ \A i \in 1 .. Len(old) : longer[i] = old[i]
      /\ longer[n] = r
  BY AppendProperties, LenProperties
<1>length. n = Len(longer) /\ n = Len(old) + 1
  BY <1>1
<1> HIDE DEF longer, n
<1>2. /\ StableSort(longer) \in Seq(S) /\ Len(StableSort(longer)) = n
      /\ \A i, j \in 1 .. n : i < j => StableSort(longer)[i].key <= StableSort(longer)[j].key
      /\ \E from : Moved(StableSort(longer), longer, n, from)
  BY <1>1, <1>length, StableSorts
<1>3. PICK from : Moved(StableSort(longer), longer, n, from)
  BY <1>2
<1>4. ASSUME NEW m \in 1 .. n
      PROVE  /\ from[m] = n => StableSort(longer)[m] = r
             /\ from[m] # n => from[m] \in 1 .. Len(old) /\ StableSort(longer)[m] = old[from[m]]
  <2>1. from[m] \in 1 .. n /\ StableSort(longer)[m] = longer[from[m]]
    BY <1>3 DEF Moved
  <2>2. CASE from[m] = n
    BY <1>1, <2>1, <2>2
  <2>3. CASE from[m] # n
    <3>1. from[m] \in 1 .. Len(old)
      BY <1>1, <1>length, <2>1, <2>3
    <3> QED BY <1>1, <2>1, <2>3, <3>1
  <2> QED BY <2>2, <2>3
<1>5. Joined(StableSort(longer), old, r, n, from)
  BY <1>3, <1>4 DEF Joined, Moved
<1> QED
  BY <1>2, <1>5 DEF longer, n

(* The two halves of two records or more.                                  *)
HalvesOf(s, S, n, h) ==
    /\ h \in 1 .. n - 1 /\ 2 * h >= n - 1 /\ 2 * h <= n
    /\ LowerHalf(s) \in Seq(S) /\ Len(LowerHalf(s)) = h
    /\ \A i \in 1 .. h : LowerHalf(s)[i] = s[i]
    /\ UpperHalf(s) \in Seq(S) /\ Len(UpperHalf(s)) = n - h
    /\ \A i \in 1 .. n - h : UpperHalf(s)[i] = s[h + i]

(* Both halves are pages of their own, and together what was split.        *)
LEMMA Halves ==
    ASSUME NEW S, NEW s \in Seq(S), Len(s) >= 2
    PROVE  HalvesOf(s, S, Len(s), Half(Len(s)))
<1> DEFINE n == Len(s)
           h == Half(n)
<1>1. n \in Nat /\ \A i \in 1 .. n : s[i] \in S
  BY LenProperties, ElementOfSeq
<1>2. h \in 1 .. n - 1 /\ 2 * h >= n - 1 /\ 2 * h <= n
  BY <1>1 DEF Half
<1> HIDE DEF h
<1>3. /\ LowerHalf(s) \in Seq(S) /\ Len(LowerHalf(s)) = h
      /\ \A i \in 1 .. h : LowerHalf(s)[i] = s[i]
  <2>1. \A i \in 1 .. h : s[i] \in S
    BY <1>1, <1>2
  <2>2. LowerHalf(s) = SubSeq(s, 1, h)
    BY DEF LowerHalf, h
  <2>3. /\ SubSeq(s, 1, h) \in Seq(S)
        /\ Len(SubSeq(s, 1, h)) = IF 1 <= h THEN h - 1 + 1 ELSE 0
        /\ \A i \in 1 .. h - 1 + 1 : SubSeq(s, 1, h)[i] = s[1 + i - 1]
    BY <1>2, <2>1, SubSeqProperties
  <2> QED BY <1>2, <2>2, <2>3
<1>4. /\ UpperHalf(s) \in Seq(S) /\ Len(UpperHalf(s)) = n - h
      /\ \A i \in 1 .. n - h : UpperHalf(s)[i] = s[h + i]
  <2>1. \A i \in h + 1 .. n : s[i] \in S
    BY <1>1, <1>2
  <2>2. UpperHalf(s) = SubSeq(s, h + 1, n)
    BY DEF UpperHalf, h
  <2>3. /\ SubSeq(s, h + 1, n) \in Seq(S)
        /\ Len(SubSeq(s, h + 1, n)) = IF h + 1 <= n THEN n - (h + 1) + 1 ELSE 0
        /\ \A i \in 1 .. n - (h + 1) + 1 : SubSeq(s, h + 1, n)[i] = s[(h + 1) + i - 1]
    BY <1>1, <1>2, <2>1, SubSeqProperties
  <2>4. \A i \in 1 .. n - h : i \in 1 .. n - (h + 1) + 1 /\ (h + 1) + i - 1 = h + i
    BY <1>1, <1>2
  <2> QED BY <1>1, <1>2, <2>2, <2>3, <2>4
<1> QED
  BY <1>2, <1>3, <1>4 DEF h, HalvesOf

-----------------------------------------------------------------------------
(* The parts of the inductive invariant.  The pages are numbered from 0.   *)
Numbered == \E n \in Nat : DOMAIN pages = 0 .. n

(* Entries point to pages of the table, but to none that has no entry.     *)
Pointing ==
    /\ rootLocation \in Directories
    /\ \A p \in Directories : \A i \in 1 .. Len(Recs(p)) : Recs(p)[i].ptr \in DOMAIN pages \ Rootless
    /\ newKey.ptr \in DOMAIN pages
    /\ pc = "split" => newKey.ptr # rootLocation

(* No two entries point to one page; every page but those has an entry.    *)
OneEntry ==
    /\ \A p, q \in Directories : \A i \in 1 .. Len(Recs(p)), j \in 1 .. Len(Recs(q)) :
          Recs(p)[i].ptr = Recs(q)[j].ptr => p = q /\ i = j
    /\ \A c \in DOMAIN pages \ Rootless :
          \E p \in Directories : \E i \in 1 .. Len(Recs(p)) : Recs(p)[i].ptr = c

(* The last key of a directory page is that of the entry that leads to it. *)
TopKey(p) == Recs(p)[Len(Recs(p))].key

Topped ==
    /\ TopKey(rootLocation) = MaxKey
    /\ \A p \in Directories : \A i \in 1 .. Len(Recs(p)) :
          Recs(p)[i].ptr \in Directories => TopKey(Recs(p)[i].ptr) = Recs(p)[i].key
    /\ pc = "split" /\ newKey.ptr \in Directories => TopKey(newKey.ptr) = newKey.key

(* Once a record is stored no page is empty.                               *)
NotEmpty ==
    /\ stored = {} => pages = EmptyTree /\ rootLocation = 0 /\ pc # "split"
    /\ stored # {} => \A p \in DOMAIN pages : Recs(p) # << >>

(* Sets of pages that hold the children of their pages; p is reached when  *)
(* each of them that holds the root holds p.                               *)
Closed(S) == \A p \in S : Children(p) \subseteq S

Reached(p) == \A S \in SUBSET DOMAIN pages : rootLocation \in S /\ Closed(S) => p \in S

AllReached == \A S \in SUBSET DOMAIN pages : Rootless \subseteq S /\ Closed(S) => S = DOMAIN pages

(* The way down goes through entries with keys that are large enough.      *)
Leads(p, c, k) ==
    /\ p \in Directories
    /\ \E i \in 1 .. Len(Recs(p)) : Recs(p)[i].ptr = c /\ Recs(p)[i].key >= k

StackReached == \A m \in 1 .. Len(internalStack) : Reached(internalStack[m])

StackLeads ==
    \A m \in 1 .. Len(internalStack) - 1 : Leads(internalStack[m], internalStack[m + 1], appendMe.key)

GoingDown ==
    pc = "append" =>
        /\ internalStack # << >> /\ internalStack[1] = rootLocation
        /\ StackReached
        /\ StackLeads
        /\ appendMe \in Record /\ appendMe.id = Cardinality(stored) + 1

(* On the way up there is room in the target, or it is on top of the stack.*)
GoingUp ==
    pc = "split" =>
        /\ target \in Directories /\ Reached(target)
        /\ target = Last(internalStack) \/ HasRoom(target)
        /\ newKey.key <= TopKey(target)
        /\ internalStack # << >> /\ internalStack[1] = rootLocation
        /\ \A m \in 1 .. Len(internalStack) : internalStack[m] \in Directories

(* Each record that is stored is in one place of one leaf.                 *)
Leaves == {p \in DOMAIN pages : IsLeaf(p)}

Kept ==
    /\ IsFiniteSet(stored) /\ \A r \in stored : r.id <= Cardinality(stored)
    /\ \A p \in Leaves : \A i \in 1 .. Len(Recs(p)) : Recs(p)[i] \in stored
    /\ \A r \in stored : \E p \in Leaves : \E i \in 1 .. Len(Recs(p)) : Recs(p)[i] = r
    /\ \A p, q \in Leaves : \A i \in 1 .. Len(Recs(p)), j \in 1 .. Len(Recs(q)) :
          Recs(p)[i] = Recs(q)[j] => p = q /\ i = j

IInv ==
    /\ TypeOK /\ Numbered /\ Pointing /\ OneEntry /\ KeysBounded /\ Topped /\ NotEmpty
    /\ AllReached /\ GoingDown /\ GoingUp /\ Kept

-----------------------------------------------------------------------------
(* Pages: what is on them, and a page that is given other records.         *)
LEMMA PageFields ==
    ASSUME NEW g \in Page
    PROVE  \/ g.type = "RegularPage" /\ g.recs \in Seq(Record)
           \/ g.type = "DirectoryPage" /\ g.recs \in Seq(Entry)
BY DEF Page

(* A page given other records of its kind is still a page of its type.     *)
LEMMA PageChanged ==
    ASSUME NEW g \in Page, NEW s,
           g.type = "RegularPage" => s \in Seq(Record),
           g.type # "RegularPage" => s \in Seq(Entry)
    PROVE  LET c == [g EXCEPT !.recs = s] IN c \in Page /\ c.type = g.type /\ c.recs = s
BY DEF Page

(* Keys are numbers, on records and on entries.                            *)
LEMMA KeysAreNumbers ==
    /\ \A k \in Keys : k \in Int
    /\ \A r \in Record : r.key \in Int
    /\ \A e \in Entry : e.key \in Int /\ e.ptr \in Nat
BY ConstantsAssumption DEF Record, Entry

(* What is on the pages of a tree: records on leaves, entries on directory *)
(* pages, each with a number for its key.                                  *)
LEMMA OnPages ==
    ASSUME TypeOK
    PROVE  /\ \A p \in DOMAIN pages :
                 /\ Len(Recs(p)) \in Nat
                 /\ IsLeaf(p) => Recs(p) \in Seq(Record)
                 /\ ~ IsLeaf(p) => p \in Directories /\ Recs(p) \in Seq(Entry)
           /\ \A p \in Directories : p \in DOMAIN pages /\ ~ IsLeaf(p)
           /\ \A p \in Directories : \A i \in 1 .. Len(Recs(p)) :
                 Recs(p)[i] \in Entry /\ Recs(p)[i].key \in Int
           /\ \A p \in Leaves : p \in DOMAIN pages /\ IsLeaf(p)
           /\ \A p \in Leaves : \A i \in 1 .. Len(Recs(p)) :
                 Recs(p)[i] \in Record /\ Recs(p)[i].key \in Int
<1>1. ASSUME NEW p \in DOMAIN pages
      PROVE  /\ IsLeaf(p) => Recs(p) \in Seq(Record)
             /\ ~ IsLeaf(p) => Recs(p) \in Seq(Entry)
  <2>1. pages[p] \in Page
    BY DEF TypeOK
  <2> QED BY <2>1, PageFields DEF IsLeaf, Recs
<1>2. \A p \in DOMAIN pages : Len(Recs(p)) \in Nat
  BY <1>1, LenProperties
<1>3. \A p \in Directories : p \in DOMAIN pages /\ ~ IsLeaf(p) /\ Recs(p) \in Seq(Entry)
  BY <1>1 DEF Directories
<1>4. \A p \in Leaves : p \in DOMAIN pages /\ IsLeaf(p) /\ Recs(p) \in Seq(Record)
  BY <1>1 DEF Leaves
<1>5. \A p \in Directories : \A i \in 1 .. Len(Recs(p)) : Recs(p)[i] \in Entry
  BY <1>3, ElementOfSeq
<1>6. \A p \in Leaves : \A i \in 1 .. Len(Recs(p)) : Recs(p)[i] \in Record
  BY <1>4, ElementOfSeq
<1> QED
  BY <1>1, <1>2, <1>3, <1>4, <1>5, <1>6, KeysAreNumbers DEF Directories

(* Pages are numbered without a gap, so the next number is free.           *)
LEMMA LastPage ==
    ASSUME Numbered
    PROVE  /\ lastPage \in Nat /\ DOMAIN pages = 0 .. lastPage /\ IsFiniteSet(DOMAIN pages)
           /\ lastPage + 1 \notin DOMAIN pages
           /\ 0 .. lastPage + 1 = DOMAIN pages \cup {lastPage + 1}
<1>1. PICK n \in Nat : DOMAIN pages = 0 .. n
  BY DEF Numbered
<1>2. IsFiniteSet(0 .. n) /\ Cardinality(0 .. n) = n + 1
  BY <1>1, FS_Interval
<1>3. lastPage = n
  BY <1>1, <1>2 DEF lastPage
<1> QED
  BY <1>1, <1>2, <1>3

(* Halving page p, whose records and the new one are s: its type on both   *)
(* halves, the other pages as they were.                                   *)
LEMMA HalvedPages ==
    ASSUME TypeOK, Numbered, NEW p \in DOMAIN pages, NEW s, Len(s) >= 2,
           IsLeaf(p) => s \in Seq(Record), ~ IsLeaf(p) => s \in Seq(Entry)
    PROVE  LET new == Halved(p, s) IN
           /\ DOMAIN new = 0 .. lastPage + 1
           /\ \A q \in DOMAIN new : new[q] \in Page
           /\ new[p].type = pages[p].type /\ new[p].recs = UpperHalf(s)
           /\ new[lastPage + 1].type = pages[p].type /\ new[lastPage + 1].recs = LowerHalf(s)
           /\ \A q \in DOMAIN pages \ {p} : new[q] = pages[q]
<1> DEFINE new == Halved(p, s)
<1>1. pages[p] \in Page /\ \A q \in DOMAIN pages : pages[q] \in Page
  BY DEF TypeOK
<1>2. \/ IsLeaf(p) /\ LowerHalf(s) \in Seq(Record) /\ UpperHalf(s) \in Seq(Record)
      \/ ~ IsLeaf(p) /\ LowerHalf(s) \in Seq(Entry) /\ UpperHalf(s) \in Seq(Entry)
  <2>1. CASE IsLeaf(p)
    <3>1. HalvesOf(s, Record, Len(s), Half(Len(s)))
      BY <2>1, Halves
    <3> QED BY <2>1, <3>1 DEF HalvesOf
  <2>2. CASE ~ IsLeaf(p)
    <3>1. HalvesOf(s, Entry, Len(s), Half(Len(s)))
      BY <2>2, Halves
    <3> QED BY <2>2, <3>1 DEF HalvesOf
  <2> QED BY <2>1, <2>2
<1>3. /\ PageWith(p, UpperHalf(s)) \in Page
      /\ PageWith(p, UpperHalf(s)).type = pages[p].type
      /\ PageWith(p, UpperHalf(s)).recs = UpperHalf(s)
  BY <1>1, <1>2, PageChanged DEF PageWith, IsLeaf
<1>4. /\ PageWith(p, LowerHalf(s)) \in Page
      /\ PageWith(p, LowerHalf(s)).type = pages[p].type
      /\ PageWith(p, LowerHalf(s)).recs = LowerHalf(s)
  BY <1>1, <1>2, PageChanged DEF PageWith, IsLeaf
<1>5. DOMAIN new = 0 .. lastPage + 1
  BY DEF Halved
<1>6. new[p] = PageWith(p, UpperHalf(s))
  BY <1>5, LastPage DEF Halved
<1>7. new[lastPage + 1] = PageWith(p, LowerHalf(s))
  BY <1>5, LastPage DEF Halved
<1>8. \A q \in DOMAIN pages \ {p} : new[q] = pages[q]
  BY <1>5, LastPage DEF Halved
<1> HIDE DEF new
<1>9. \A q \in DOMAIN new : new[q] \in Page
  BY <1>1, <1>3, <1>4, <1>5, <1>6, <1>7, <1>8, LastPage
<1> QED
  BY <1>3, <1>4, <1>5, <1>6, <1>7, <1>8, <1>9 DEF new

-----------------------------------------------------------------------------
(* Steps that touch leaves only: what is said of directory pages holds     *)
(* after them, with the new leaf as the page that has no entry yet.        *)
DirectoriesKept ==
    /\ rootLocation' = rootLocation
    /\ Directories' = Directories
    /\ \A p \in Directories : Recs(p)' = Recs(p)

LeafAdded ==
    \/ pc' # "split" /\ DOMAIN pages' = DOMAIN pages /\ newKey'.ptr \in DOMAIN pages
    \/ /\ pc' = "split"
       /\ newKey'.ptr \notin DOMAIN pages
       /\ DOMAIN pages' = DOMAIN pages \cup {newKey'.ptr}

(* Of a step that changes leaves only, adding one or none, and hands its   *)
(* entry up: the entries still point at every page once, all at a page     *)
(* that is there, and every page that a walk reached it still reaches.     *)
LEMMA LeavesChange ==
    ASSUME Pointing, OneEntry, Topped, AllReached, pc # "split", DirectoriesKept, LeafAdded
    PROVE  /\ Pointing' /\ OneEntry' /\ Topped' /\ AllReached'
           /\ \A p \in DOMAIN pages : Reached(p) => Reached(p)'
<1>1. /\ rootLocation' = rootLocation /\ rootLocation \in Directories
      /\ Directories' = Directories /\ Directories \subseteq DOMAIN pages
      /\ DOMAIN pages \subseteq DOMAIN pages' /\ newKey'.ptr \in DOMAIN pages'
      /\ Rootless = {rootLocation}
      /\ Rootless' = {rootLocation} \cup (DOMAIN pages' \ DOMAIN pages)
  BY DEF Pointing, DirectoriesKept, LeafAdded, Rootless, Directories
<1>2. \A p \in Directories : Recs(p)' = Recs(p)
  BY DEF DirectoriesKept
<1>3. Pointing'
  <2>1. rootLocation' \in Directories'
    BY <1>1
  <2>2. \A p \in Directories' : \A i \in 1 .. Len(Recs(p)') : Recs(p)'[i].ptr \in DOMAIN pages' \ Rootless'
    BY <1>1, <1>2 DEF Pointing
  <2>3. pc' = "split" => newKey'.ptr # rootLocation'
    BY <1>1 DEF LeafAdded
  <2> QED BY <1>1, <2>1, <2>2, <2>3 DEF Pointing
<1>4. OneEntry'
  <2>1. \A p, q \in Directories' : \A i \in 1 .. Len(Recs(p)'), j \in 1 .. Len(Recs(q)') :
           Recs(p)'[i].ptr = Recs(q)'[j].ptr => p = q /\ i = j
    BY <1>1, <1>2 DEF OneEntry
  <2>2. \A c \in DOMAIN pages' \ Rootless' :
           \E p \in Directories' : \E i \in 1 .. Len(Recs(p)') : Recs(p)'[i].ptr = c
    BY <1>1, <1>2 DEF OneEntry
  <2> QED BY <2>1, <2>2 DEF OneEntry
<1>5. Topped'
  <2>1. \A p \in Directories : TopKey(p)' = TopKey(p)
    BY <1>2 DEF TopKey
  <2>2. TopKey(rootLocation)' = MaxKey
    <3>1. PICK r : r = rootLocation
      OBVIOUS
    <3>2. TopKey(r)' = MaxKey
      BY <1>1, <2>1, <3>1 DEF Topped
    <3> QED BY <1>1, <3>1, <3>2 DEF TopKey, Recs
  <2>3. \A p \in Directories' : \A i \in 1 .. Len(Recs(p)') :
           Recs(p)'[i].ptr \in Directories' => TopKey(Recs(p)[i].ptr)' = Recs(p)'[i].key
    <3> SUFFICES ASSUME NEW p \in Directories, NEW i \in 1 .. Len(Recs(p)),
                        Recs(p)[i].ptr \in Directories
                 PROVE  TopKey(Recs(p)[i].ptr)' = Recs(p)[i].key
      BY <1>1, <1>2
    <3>1. PICK c : c = Recs(p)[i].ptr
      OBVIOUS
    <3>2. TopKey(c)' = Recs(p)[i].key
      BY <2>1, <3>1 DEF Topped
    <3> QED BY <1>2, <3>1, <3>2 DEF TopKey, Recs
  <2>4. pc' = "split" => newKey'.ptr \notin Directories'
    BY <1>1 DEF LeafAdded
  <2> QED BY <2>2, <2>3, <2>4 DEF Topped
<1>6. \A p \in DOMAIN pages : Children(p)' = Children(p)
  <2>1. \A p \in DOMAIN pages : IsLeaf(p)' <=> IsLeaf(p)
    BY <1>1 DEF Directories, IsLeaf
  <2>2. \A p \in DOMAIN pages : ~ IsLeaf(p) => Recs(p)' = Recs(p)
    BY <1>2 DEF Directories
  <2> QED BY <2>1, <2>2 DEF Children
<1>7. \A p \in DOMAIN pages : Children(p) \subseteq DOMAIN pages
  BY DEF Children, Pointing, Directories
<1>8. ASSUME NEW S \in SUBSET DOMAIN pages', Closed(S)'
      PROVE  Closed(S \cap DOMAIN pages)
  BY <1>6, <1>7, <1>8 DEF Closed
<1>9. AllReached'
  <2>1. ASSUME NEW S \in SUBSET DOMAIN pages', Rootless' \subseteq S, Closed(S)'
        PROVE  S = DOMAIN pages'
    <3>1. S \cap DOMAIN pages = DOMAIN pages
      BY <1>1, <1>8, <2>1 DEF AllReached
    <3> QED BY <1>1, <2>1, <3>1
  <2> QED BY <2>1 DEF AllReached
<1>10. ASSUME NEW p \in DOMAIN pages, Reached(p)
       PROVE  Reached(p)'
  <2>1. ASSUME NEW S \in SUBSET DOMAIN pages', rootLocation' \in S, Closed(S)'
        PROVE  p \in S
    BY <1>1, <1>8, <1>10, <2>1 DEF Reached
  <2> QED BY <2>1 DEF Reached
<1> QED
  BY <1>3, <1>4, <1>5, <1>9, <1>10

-----------------------------------------------------------------------------
(* Steps that change no page.                                              *)
LEMMA SamePages ==
    ASSUME IInv, UNCHANGED <<pages, rootLocation, newKey, stored>>,
           pc # "split", pc' # "split"
    PROVE  /\ Numbered' /\ Pointing' /\ OneEntry' /\ KeysBounded' /\ Topped' /\ NotEmpty'
           /\ AllReached' /\ Kept' /\ GoingUp'
           /\ \A p : Reached(p) => Reached(p)'
           /\ \A p \in DOMAIN pages : IsLeaf(p)' = IsLeaf(p) /\ Recs(p)' = Recs(p)
           /\ Directories' = Directories
<1> USE DEF IInv
<1>1. /\ \A p : IsLeaf(p)' = IsLeaf(p) /\ Recs(p)' = Recs(p) /\ Children(p)' = Children(p)
      /\ \A p : TopKey(p)' = TopKey(p)
      /\ \A p, k : UpTo(p, k)' = UpTo(p, k)
  BY DEF IsLeaf, Recs, Children, TopKey, UpTo
<1>2. Directories' = Directories /\ Leaves' = Leaves /\ Rootless' = Rootless
  BY <1>1 DEF Directories, Leaves, Rootless
<1>3. \A S : Closed(S)' = Closed(S)
  BY <1>1 DEF Closed
<1>4. Numbered'
  BY DEF Numbered
<1>5. Pointing'
  BY <1>1, <1>2 DEF Pointing
<1>6. OneEntry'
  BY <1>1, <1>2 DEF OneEntry
<1>7. KeysBounded'
  BY <1>1, <1>2 DEF KeysBounded, UpTo, Recs
<1>8. Topped'
  BY <1>1, <1>2 DEF Topped, TopKey, Recs
<1>9. NotEmpty'
  BY <1>1 DEF NotEmpty
<1>10. AllReached'
  BY <1>2, <1>3 DEF AllReached
<1>11. Kept'
  BY <1>1, <1>2 DEF Kept
<1>12. \A p : Reached(p) => Reached(p)'
  BY <1>3 DEF Reached
<1>13. GoingUp'
  BY DEF GoingUp
<1> QED
  BY <1>1, <1>2, <1>4, <1>5, <1>6, <1>7, <1>8, <1>9, <1>10, <1>11, <1>12, <1>13

(* append starts at the root, with a record that is not stored yet.        *)
LEMMA BeginKeeps ==
    ASSUME IInv, NEW k \in Keys, Begin(k)
    PROVE  IInv'
<1> USE DEF IInv
<1>1. /\ UNCHANGED <<pages, rootLocation, newKey, stored, target>>
      /\ pc # "split" /\ pc' = "append"
      /\ appendMe' = [key |-> k, id |-> Cardinality(stored) + 1]
      /\ internalStack' = <<rootLocation>>
      /\ Cardinality(stored) \in Nat /\ Cardinality(stored) < MaxRecords
  BY FS_CardinalityType DEF Begin, Kept
<1>2. /\ appendMe' \in Record /\ appendMe' \in [key : Keys \cup {MaxKey}, id : 0 .. MaxRecords]
      /\ appendMe'.id = Cardinality(stored') + 1
  BY <1>1, ConstantsAssumption DEF Record
<1>3. TypeOK'
  BY <1>1, <1>2 DEF TypeOK, lastPage, IsLeaf, Recs
<1>4. Reached(rootLocation)'
  BY <1>1 DEF Reached
<1>5. Len(internalStack') = 1 /\ internalStack'[1] = rootLocation
  BY <1>1
<1>6. GoingDown'
  <2>1. \A m \in 1 .. Len(internalStack') : internalStack'[m] = rootLocation
    BY <1>5
  <2>2. StackReached'
    BY <1>1, <1>4, <2>1 DEF StackReached, Reached
  <2>3. StackLeads'
    BY <1>5 DEF StackLeads
  <2> QED BY <1>1, <1>2, <1>5, <2>2, <2>3 DEF GoingDown
<1> QED
  BY <1>1, <1>3, <1>6, SamePages

(* appendRecord goes down one level: the page it goes to is one the record *)
(* belongs under.                                                          *)
LEMMA DescendKeeps ==
    ASSUME IInv, Descend
    PROVE  IInv'
<1> USE DEF IInv
<1> DEFINE n == Len(internalStack)
<1>1. PICK p : p = Last(internalStack)
  OBVIOUS
<1>2. PICK i \in 1 .. Len(Recs(p)) :
        /\ Recs(p)[i].key >= appendMe.key
        /\ internalStack' = Append(internalStack, Recs(p)[i].ptr)
  BY <1>1 DEF Descend, FirstNotBelow
<1>3. /\ UNCHANGED <<pages, rootLocation, newKey, stored, target, pc, appendMe>>
      /\ pc = "append" /\ ~ IsLeaf(p)
  BY <1>1 DEF Descend
<1>4. /\ internalStack \in Seq(DOMAIN pages) /\ n \in Nat \ {0}
      /\ p = internalStack[n] /\ p \in DOMAIN pages /\ p \in Directories
      /\ \A m \in 1 .. n : internalStack[m] \in DOMAIN pages
  <2>1. internalStack \in Seq(DOMAIN pages) /\ internalStack # << >>
    BY <1>3 DEF TypeOK, GoingDown
  <2>2. n \in Nat \ {0} /\ \A m \in 1 .. n : internalStack[m] \in DOMAIN pages
    BY <2>1, LenProperties, ElementOfSeq, EmptySeq
  <2>3. p = internalStack[n]
    BY <1>1 DEF Last
  <2> QED BY <1>3, <2>1, <2>2, <2>3 DEF Directories
<1>5. PICK c : c = Recs(p)[i].ptr
  OBVIOUS
<1>6. c \in DOMAIN pages
  BY <1>4, <1>5 DEF Pointing
<1>7. /\ internalStack' \in Seq(DOMAIN pages) /\ Len(internalStack') = n + 1
      /\ \A m \in 1 .. n : internalStack'[m] = internalStack[m]
      /\ internalStack'[n + 1] = c
  BY <1>2, <1>4, <1>5, <1>6, AppendProperties
<1>8. TypeOK'
  BY <1>3, <1>7 DEF TypeOK, lastPage, IsLeaf, Recs
<1>9. Reached(c)
  <2>1. Reached(p) /\ c \in Children(p)
    BY <1>3, <1>4, <1>5 DEF GoingDown, StackReached, Children
  <2> QED BY <2>1 DEF Reached, Closed
<1>10. GoingDown'
  <2>1. internalStack' # << >> /\ internalStack'[1] = rootLocation
    BY <1>3, <1>4, <1>7 DEF GoingDown
  <2>2. ASSUME NEW m \in 1 .. Len(internalStack')
        PROVE  Reached(internalStack[m])'
    <3>1. PICK q : q = internalStack'[m]
      OBVIOUS
    <3>2. Reached(q)
      BY <1>3, <1>4, <1>7, <1>9, <3>1 DEF GoingDown, StackReached
    <3>3. Reached(q)'
      BY <1>3, <3>2, SamePages
    <3> QED BY <3>1, <3>3 DEF Reached
  <2>3. ASSUME NEW m \in 1 .. Len(internalStack') - 1
        PROVE  Leads(internalStack[m], internalStack[m + 1], appendMe.key)'
    <3>1. PICK q, d : q = internalStack'[m] /\ d = internalStack'[m + 1]
      OBVIOUS
    <3>2. Leads(q, d, appendMe.key)
      <4>1. CASE m = n
        BY <1>2, <1>4, <1>5, <1>7, <3>1, <4>1 DEF Leads
      <4>2. CASE m # n
        <5>1. m \in 1 .. n - 1 /\ m + 1 \in 1 .. n /\ m \in 1 .. n
          BY <1>4, <1>7, <4>2
        <5> QED BY <1>3, <1>7, <3>1, <5>1 DEF GoingDown, StackLeads
      <4> QED BY <4>1, <4>2
    <3>3. Leads(q, d, appendMe.key)'
      BY <1>3, <3>2, SamePages DEF Leads, Directories
    <3> QED BY <3>1, <3>3 DEF Leads, Directories, IsLeaf, Recs
  <2>4. StackReached'
    BY <2>2 DEF StackReached, Reached
  <2>5. appendMe' \in Record /\ appendMe'.id = Cardinality(stored') + 1
    BY <1>3 DEF GoingDown
  <2>6. StackLeads'
    BY <2>3 DEF StackLeads, Leads, Directories, IsLeaf, Recs
  <2> QED BY <1>3, <2>1, <2>4, <2>5, <2>6 DEF GoingDown
<1> QED
  BY <1>3, <1>8, <1>10, SamePages

-----------------------------------------------------------------------------
(* An append stores one record more.                                       *)
LEMMA StoreOne ==
    ASSUME TypeOK, Kept, appendMe \in Record, appendMe.id = Cardinality(stored) + 1
    PROVE  LET more == stored \cup {appendMe} IN
           /\ more \subseteq Record /\ more # {}
           /\ IsFiniteSet(more) /\ Cardinality(more) = Cardinality(stored) + 1
           /\ \A r \in more : r.id <= Cardinality(more)
           /\ appendMe \notin stored
<1>1. IsFiniteSet(stored) /\ Cardinality(stored) \in Nat /\ \A r \in stored : r.id \in Nat
  BY FS_CardinalityType DEF Kept, TypeOK, Record
<1>2. appendMe \notin stored
  BY <1>1 DEF Kept
<1>3. /\ IsFiniteSet(stored \cup {appendMe})
      /\ Cardinality(stored \cup {appendMe}) = Cardinality(stored) + 1
  BY <1>1, <1>2, FS_AddElement
<1>4. \A r \in stored \cup {appendMe} : r.id <= Cardinality(stored) + 1
  BY <1>1 DEF Kept
<1> QED
  BY <1>2, <1>3, <1>4 DEF TypeOK

(* The leaf an append has come to, and the one entry that leads to it.     *)
LEMMA LeafEntry ==
    ASSUME IInv, AtLeaf, NEW p, p = Last(internalStack)
    PROVE  LET n == Len(internalStack) IN
           /\ n \in Nat /\ n >= 2 /\ p = internalStack[n]
           /\ p \in Leaves /\ p # rootLocation
           /\ internalStack[n - 1] \in Directories /\ Reached(internalStack[n - 1])
           /\ \A q \in Directories : \A i \in 1 .. Len(Recs(q)) : Recs(q)[i].ptr = p =>
                 q = internalStack[n - 1] /\ Recs(q)[i].key >= appendMe.key
           /\ \E i \in 1 .. Len(Recs(internalStack[n - 1])) : Recs(internalStack[n - 1])[i].ptr = p
           /\ \A m \in 1 .. n - 1 : internalStack[m] \in Directories
           /\ appendMe \in Record /\ appendMe.id = Cardinality(stored) + 1
<1> USE DEF IInv
<1> DEFINE n == Len(internalStack)
<1>1. pc = "append" /\ IsLeaf(p)
  BY DEF AtLeaf
<1>2. internalStack \in Seq(DOMAIN pages) /\ internalStack # << >> /\ internalStack[1] = rootLocation
  BY <1>1 DEF TypeOK, GoingDown
<1>3. n \in Nat \ {0} /\ \A m \in 1 .. n : internalStack[m] \in DOMAIN pages
  BY <1>2, LenProperties, ElementOfSeq, EmptySeq
<1>4. p = internalStack[n] /\ p \in DOMAIN pages
  BY <1>3 DEF Last
<1>5. ~ IsLeaf(rootLocation)
  BY DEF Pointing, Directories
<1>6. n >= 2
  BY <1>1, <1>2, <1>3, <1>4, <1>5
<1>7. \A m \in 1 .. n - 1 : Leads(internalStack[m], internalStack[m + 1], appendMe.key)
  BY <1>1 DEF GoingDown, StackLeads
<1>8. Leads(internalStack[n - 1], p, appendMe.key)
  <2>1. n - 1 \in 1 .. n - 1 /\ (n - 1) + 1 = n
    BY <1>3, <1>6
  <2> QED BY <1>4, <1>7, <2>1
<1>9. Reached(internalStack[n - 1])
  BY <1>1, <1>3, <1>6 DEF GoingDown, StackReached
<1>10. ASSUME NEW q \in Directories, NEW i \in 1 .. Len(Recs(q)), Recs(q)[i].ptr = p
       PROVE  q = internalStack[n - 1] /\ Recs(q)[i].key >= appendMe.key
  <2>1. PICK d \in Directories : d = internalStack[n - 1] /\ Leads(d, p, appendMe.key)
    BY <1>8 DEF Leads
  <2>2. PICK j \in 1 .. Len(Recs(d)) : Recs(d)[j].ptr = p /\ Recs(d)[j].key >= appendMe.key
    BY <2>1 DEF Leads
  <2>3. q = d /\ i = j
    BY <1>10, <2>2 DEF OneEntry
  <2> QED BY <2>1, <2>2, <2>3
<1>11. appendMe \in Record /\ appendMe.id = Cardinality(stored) + 1
  BY <1>1 DEF GoingDown
<1> QED
  BY <1>1, <1>3, <1>4, <1>5, <1>6, <1>7, <1>8, <1>9, <1>10, <1>11 DEF Leads, Leaves

(* The record goes to a leaf that has room: with it the leaf is still      *)
(* below the keys of the entries that lead to it.                          *)
LEMMA AppendToLeafKeeps ==
    ASSUME IInv, AppendToLeaf
    PROVE  IInv'
<1> USE DEF IInv
<1> DEFINE more == stored \cup {appendMe}
<1>1. PICK p : p = Last(internalStack)
  OBVIOUS
<1>2. PICK len : len = Len(Recs(p))
  OBVIOUS
<1>3. /\ AtLeaf /\ HasRoom(p) /\ pc = "append"
      /\ pages' = [pages EXCEPT ![p].recs = Append(@, appendMe)]
      /\ stored' = more /\ pc' = "idle" /\ internalStack' = << >>
      /\ UNCHANGED <<rootLocation, appendMe, target, newKey>>
  BY <1>1 DEF AppendToLeaf, AtLeaf
<1>4. /\ p \in Leaves /\ p \in DOMAIN pages /\ IsLeaf(p)
      /\ Recs(p) \in Seq(Record) /\ len \in Nat /\ len < LeafCapacity
      /\ appendMe \in Record /\ appendMe.id = Cardinality(stored) + 1 /\ appendMe.key \in Int
  BY <1>1, <1>2, <1>3, LeafEntry, OnPages, KeysAreNumbers DEF HasRoom
<1>5. /\ Append(Recs(p), appendMe) \in Seq(Record)
      /\ Len(Append(Recs(p), appendMe)) = len + 1
      /\ \A i \in 1 .. len : Append(Recs(p), appendMe)[i] = Recs(p)[i]
      /\ Append(Recs(p), appendMe)[len + 1] = appendMe
  BY <1>2, <1>4, AppendProperties
<1>6. /\ DOMAIN pages' = DOMAIN pages
      /\ pages'[p] = [pages[p] EXCEPT !.recs = Append(Recs(p), appendMe)]
      /\ \A q \in DOMAIN pages : q # p => pages'[q] = pages[q]
      /\ pages[p] \in Page
  BY <1>3, <1>4 DEF Recs, TypeOK
<1>7. pages'[p] \in Page /\ pages'[p].type = "RegularPage" /\ pages'[p].recs = Append(Recs(p), appendMe)
  <2>1. pages[p].type = "RegularPage"
    BY <1>4 DEF IsLeaf
  <2>2. /\ PageWith(p, Append(Recs(p), appendMe)) \in Page
        /\ PageWith(p, Append(Recs(p), appendMe)).type = pages[p].type
        /\ PageWith(p, Append(Recs(p), appendMe)).recs = Append(Recs(p), appendMe)
    BY <1>5, <1>6, <2>1, PageChanged, ZenonT(60) DEF PageWith
  <2> QED BY <1>6, <2>1, <2>2 DEF PageWith
<1>8. /\ \A q \in DOMAIN pages : IsLeaf(q)' = IsLeaf(q)
      /\ \A q \in DOMAIN pages : q # p => Recs(q)' = Recs(q)
      /\ Recs(p)' = Append(Recs(p), appendMe) /\ Len(Recs(p)') = len + 1
  BY <1>4, <1>5, <1>6, <1>7 DEF IsLeaf, Recs
<1>9. Directories' = Directories /\ Leaves' = Leaves /\ Directories \subseteq DOMAIN pages
  BY <1>6, <1>8 DEF Directories, Leaves
<1>10. \A q \in Directories : Recs(q)' = Recs(q)
  BY <1>4, <1>8 DEF Directories
<1>11. TypeOK'
  <2>1. \A q \in DOMAIN pages' : pages'[q] \in Page
    BY <1>6, <1>7 DEF TypeOK
  <2>2. \A q \in DOMAIN pages' : Len(Recs(q)') <= IF IsLeaf(q)' THEN LeafCapacity ELSE DirCapacity
    <3> SUFFICES ASSUME NEW q \in DOMAIN pages
                 PROVE  Len(Recs(q)') <= IF IsLeaf(q)' THEN LeafCapacity ELSE DirCapacity
      BY <1>6
    <3>1. CASE q = p
      BY <1>4, <1>8, <3>1, ConstantsAssumption
    <3>2. CASE q # p
      BY <1>8, <3>2 DEF TypeOK
    <3> QED BY <3>1, <3>2
  <2>3. DOMAIN pages' = 0 .. lastPage'
    BY <1>6 DEF TypeOK, lastPage
  <2>4. stored' \subseteq Record
    BY <1>3, <1>4 DEF TypeOK
  <2>5. internalStack' \in Seq(DOMAIN pages')
    BY <1>3
  <2> QED BY <1>3, <1>6, <2>1, <2>2, <2>3, <2>4, <2>5 DEF TypeOK
<1>12. Numbered'
  BY <1>6 DEF Numbered
<1>13. Pointing' /\ OneEntry' /\ Topped' /\ AllReached'
  <2>1. DirectoriesKept
    BY <1>3, <1>9, <1>10 DEF DirectoriesKept
  <2>2. LeafAdded
    BY <1>3, <1>6 DEF LeafAdded, Pointing
  <2> QED BY <1>3, <2>1, <2>2, LeavesChange
<1>14. KeysBounded'
  <2>1. ASSUME NEW q \in Directories, NEW i \in 1 .. Len(Recs(q))
        PROVE  UpTo(Recs(q)[i].ptr, Recs(q)[i].key)'
    <3>1. PICK c, k : c = Recs(q)[i].ptr /\ k = Recs(q)[i].key
      OBVIOUS
    <3>2. c \in DOMAIN pages /\ UpTo(c, k)
      BY <3>1 DEF Pointing, KeysBounded
    <3>3. \A m \in 1 .. Len(Recs(c)') : Recs(c)'[m].key <= k
      <4>1. CASE c # p
        BY <1>8, <3>2, <4>1 DEF UpTo
      <4>2. CASE c = p
        <5>1. k >= appendMe.key /\ k \in Int
          BY <1>1, <1>3, <3>1, <4>2, LeafEntry, OnPages
        <5>2. \A m \in 1 .. len : Recs(p)[m].key <= k
          BY <1>2, <3>2, <4>2 DEF UpTo
        <5>3. \A m \in 1 .. len + 1 : m \in 1 .. len \/ m = len + 1
          BY <1>4
        <5> QED BY <1>4, <1>5, <1>8, <4>2, <5>1, <5>2, <5>3
      <4> QED BY <4>1, <4>2
    <3>4. UpTo(c, k)'
      BY <3>3 DEF UpTo
    <3> QED BY <1>10, <3>1, <3>4 DEF UpTo, Recs
  <2>2. \A q \in Directories' : \A i \in 1 .. Len(Recs(q)') : UpTo(Recs(q)[i].ptr, Recs(q)[i].key)'
    BY <1>9, <1>10, <2>1
  <2>3. \A q \in Directories' : \A i, j \in 1 .. Len(Recs(q)') : i < j => Recs(q)'[i].key <= Recs(q)'[j].key
    BY <1>9, <1>10 DEF KeysBounded
  <2>4. pc' # "split"
    BY <1>3
  <2> QED BY <2>2, <2>3, <2>4 DEF KeysBounded, UpTo, Recs
<1>15. NotEmpty'
  <2>1. stored' # {}
    BY <1>3
  <2>2. ASSUME NEW q \in DOMAIN pages
        PROVE  Recs(q)' # << >>
    <3>1. CASE q = p
      <4>1. Len(Recs(q)') # 0
        BY <1>4, <1>8, <3>1
      <4> QED BY <4>1
    <3>2. CASE q # p /\ stored # {}
      BY <1>8, <3>2 DEF NotEmpty
    <3>3. CASE q # p /\ stored = {}
      <4>1. pages = EmptyTree
        BY <3>3 DEF NotEmpty
      <4>2. q = 0 /\ p = 1
        BY <1>4, <3>3, <4>1 DEF EmptyTree, IsLeaf, Directory
      <4>3. Recs(q) = <<[key |-> MaxKey, ptr |-> 1]>>
        BY <4>1, <4>2 DEF EmptyTree, Recs, Directory
      <4> QED BY <1>8, <3>3, <4>3
    <3> QED BY <3>1, <3>2, <3>3
  <2> QED BY <1>6, <2>1, <2>2 DEF NotEmpty
<1>16. Kept'
  <2>1. /\ IsFiniteSet(more) /\ \A r \in more : r.id <= Cardinality(more)
        /\ appendMe \notin stored
    BY <1>4, StoreOne
  <2>2. \A i \in 1 .. len + 1 : Recs(p)'[i] = IF i = len + 1 THEN appendMe ELSE Recs(p)[i]
    BY <1>4, <1>5, <1>8
  <2>3. /\ \A q \in Leaves : \A i \in 1 .. Len(Recs(q)) : Recs(q)[i] \in stored
        /\ \A q \in Leaves : q \in DOMAIN pages
    BY DEF Kept, Leaves
  <2>4. \A q \in Leaves : \A i \in 1 .. Len(Recs(q)') :
           \/ q = p /\ i = len + 1 /\ Recs(q)'[i] = appendMe
           \/ i \in 1 .. Len(Recs(q)) /\ Recs(q)'[i] = Recs(q)[i]
    BY <1>2, <1>4, <1>8, <2>2, <2>3
  <2>5. \A q \in Leaves : \A i \in 1 .. Len(Recs(q)) : i \in 1 .. Len(Recs(q)') /\ Recs(q)'[i] = Recs(q)[i]
    BY <1>2, <1>4, <1>8, <2>2, <2>3
  <2>6. \A q \in Leaves' : \A i \in 1 .. Len(Recs(q)') : Recs(q)'[i] \in stored'
    BY <1>3, <1>9, <2>3, <2>4
  <2>7. \A r \in stored' : \E q \in Leaves' : \E i \in 1 .. Len(Recs(q)') : Recs(q)'[i] = r
    <3>1. \A r \in stored : \E q \in Leaves : \E i \in 1 .. Len(Recs(q)) : Recs(q)[i] = r
      BY DEF Kept
    <3>2. \A r \in stored : \E q \in Leaves : \E i \in 1 .. Len(Recs(q)') : Recs(q)'[i] = r
      BY <2>5, <3>1
    <3>3. len + 1 \in 1 .. Len(Recs(p)') /\ Recs(p)'[len + 1] = appendMe
      BY <1>4, <1>5, <1>8
    <3> QED BY <1>3, <1>4, <1>9, <3>2, <3>3
  <2>8. \A q, u \in Leaves' : \A i \in 1 .. Len(Recs(q)'), j \in 1 .. Len(Recs(u)') :
           Recs(q)'[i] = Recs(u)'[j] => q = u /\ i = j
    <3> SUFFICES ASSUME NEW q \in Leaves, NEW u \in Leaves,
                        NEW i \in 1 .. Len(Recs(q)'), NEW j \in 1 .. Len(Recs(u)'),
                        Recs(q)'[i] = Recs(u)'[j]
                 PROVE  q = u /\ i = j
      BY <1>9
    <3>1. \/ q = p /\ i = len + 1 /\ Recs(q)'[i] = appendMe
          \/ i \in 1 .. Len(Recs(q)) /\ Recs(q)'[i] = Recs(q)[i] /\ Recs(q)'[i] # appendMe
      BY <2>1, <2>3, <2>4
    <3>2. \/ u = p /\ j = len + 1 /\ Recs(u)'[j] = appendMe
          \/ j \in 1 .. Len(Recs(u)) /\ Recs(u)'[j] = Recs(u)[j] /\ Recs(u)'[j] # appendMe
      BY <2>1, <2>3, <2>4
    <3>3. ASSUME i \in 1 .. Len(Recs(q)), j \in 1 .. Len(Recs(u)), Recs(q)[i] = Recs(u)[j]
          PROVE  q = u /\ i = j
      BY <3>3 DEF Kept
    <3> QED BY <3>1, <3>2, <3>3
  <2> QED BY <1>3, <2>1, <2>6, <2>7, <2>8 DEF Kept
<1>17. GoingDown' /\ GoingUp'
  BY <1>3 DEF GoingDown, GoingUp
<1> QED
  BY <1>11, <1>12, <1>13, <1>14, <1>15, <1>16, <1>17

(* The records of a full leaf with the new one among them.                 *)
LEMMA LeafJoined ==
    ASSUME IInv, AtLeaf, NEW p, p = Last(internalStack), ~ HasRoom(p)
    PROVE  LET all == Together(p, appendMe)
               n == Len(Recs(p)) + 1
           IN  /\ all \in Seq(Record) /\ Len(all) = n /\ n = LeafCapacity + 1 /\ n >= 2
               /\ \A i, j \in 1 .. n : i < j => all[i].key <= all[j].key
               /\ \A m \in 1 .. n : all[m] = appendMe \/ \E i \in 1 .. Len(Recs(p)) : all[m] = Recs(p)[i]
               /\ \E m \in 1 .. n : all[m] = appendMe
               /\ \A i \in 1 .. Len(Recs(p)) : \E m \in 1 .. n : all[m] = Recs(p)[i]
               /\ \A a, b \in 1 .. n : all[a] = all[b] => a = b
               /\ \A a \in 1 .. n : \A q \in Leaves : \A j \in 1 .. Len(Recs(q)) :
                     all[a] = Recs(q)[j] => q = p
               /\ \A a \in 1 .. n : all[a] \in stored \cup {appendMe} /\ all[a].key \in Int
<1> USE DEF IInv
<1> DEFINE all == Together(p, appendMe)
           n == Len(Recs(p)) + 1
<1>1. /\ p \in Leaves /\ IsLeaf(p) /\ p \in DOMAIN pages
      /\ appendMe \in Record /\ appendMe.id = Cardinality(stored) + 1
  BY LeafEntry DEF Leaves
<1>2. Recs(p) \in Seq(Record) /\ Len(Recs(p)) \in Nat
  BY <1>1, OnPages
<1>3. n = LeafCapacity + 1 /\ n >= 2
  BY <1>1, <1>2, ConstantsAssumption DEF TypeOK, HasRoom
<1>4. /\ all \in Seq(Record) /\ Len(all) = n
      /\ \A i, j \in 1 .. n : i < j => all[i].key <= all[j].key
      /\ \E from : Joined(all, Recs(p), appendMe, n, from)
  <2>1. all = StableSort(Append(Recs(p), appendMe))
    BY DEF Together
  <2>2. \A r \in Record : r.key \in Int
    BY KeysAreNumbers
  <2> HIDE DEF all, IInv
  <2> QED BY <1>1, <1>2, <2>1, <2>2, SortedWith
<1>len. n = Len(Recs(p)) + 1 /\ n \in Nat
  BY <1>2
<1> HIDE DEF all, n
<1>5. PICK from : Joined(all, Recs(p), appendMe, n, from)
  BY <1>4
<1>6. /\ appendMe \notin stored
      /\ \A q \in Leaves : \A i \in 1 .. Len(Recs(q)) : Recs(q)[i] \in stored
  BY <1>1, StoreOne DEF Kept
<1>7. \A m \in 1 .. n : /\ from[m] \in 1 .. n
                        /\ from[m] = n => all[m] = appendMe
                        /\ from[m] # n => from[m] \in 1 .. Len(Recs(p)) /\ all[m] = Recs(p)[from[m]]
  BY <1>5 DEF Joined
<1>8. \A a, b \in 1 .. n : from[a] = from[b] => a = b
  BY <1>5 DEF Joined
<1>9. \A i \in 1 .. n : \E m \in 1 .. n : from[m] = i
  BY <1>5 DEF Joined
<1>10. \A i \in 1 .. Len(Recs(p)) : i \in 1 .. n /\ i # n
  BY <1>2, <1>len
<1>11. \E m \in 1 .. n : all[m] = appendMe
  <2>1. n \in 1 .. n
    BY <1>2, <1>len
  <2> QED BY <1>7, <1>9, <2>1, SMTT(30)
<1>12. \A i \in 1 .. Len(Recs(p)) : \E m \in 1 .. n : all[m] = Recs(p)[i]
  <2> TAKE i \in 1 .. Len(Recs(p))
  <2>1. PICK m \in 1 .. n : from[m] = i
    BY <1>9, <1>10
  <2>2. i # n
    BY <1>10
  <2> QED BY <1>7, <2>1, <2>2
<1>13. \A i, j \in 1 .. Len(Recs(p)) : Recs(p)[i] = Recs(p)[j] => i = j
  BY <1>1 DEF Kept
<1>14. ASSUME NEW a \in 1 .. n, NEW b \in 1 .. n, all[a] = all[b]
       PROVE  a = b
  <2>1. \/ from[a] = n /\ all[a] \notin stored
        \/ from[a] \in 1 .. Len(Recs(p)) /\ all[a] = Recs(p)[from[a]] /\ all[a] \in stored
    BY <1>1, <1>6, <1>7
  <2>2. \/ from[b] = n /\ all[b] \notin stored
        \/ from[b] \in 1 .. Len(Recs(p)) /\ all[b] = Recs(p)[from[b]] /\ all[b] \in stored
    BY <1>1, <1>6, <1>7
  <2>3. from[a] = from[b]
    BY <1>13, <1>14, <2>1, <2>2
  <2> QED BY <1>8, <2>3
<1>15. ASSUME NEW a \in 1 .. n, NEW q \in Leaves, NEW j \in 1 .. Len(Recs(q)), all[a] = Recs(q)[j]
       PROVE  q = p
  <2>1. from[a] \in 1 .. Len(Recs(p)) /\ all[a] = Recs(p)[from[a]]
    BY <1>6, <1>7, <1>15
  <2> QED BY <1>1, <1>15, <2>1, ZenonT(60) DEF Kept
<1>16. \A a \in 1 .. n : all[a] \in stored \cup {appendMe}
  BY <1>1, <1>6, <1>7
<1>17. \A a \in 1 .. n : all[a] \in Record /\ all[a].key \in Int
  BY <1>4, ElementOfSeq, KeysAreNumbers
<1>18. \A m \in 1 .. n : all[m] = appendMe \/ \E i \in 1 .. Len(Recs(p)) : all[m] = Recs(p)[i]
  BY <1>7
<1> QED
  BY <1>3, <1>4, <1>11, <1>12, <1>14, <1>15, <1>16, <1>17, <1>18 DEF all, n

(* A full leaf p in halves: all are its records and the new one, h of them *)
(* go to the page new, whose entry goes up to d.                           *)
LeafHalves(p, all, d, n, h, new) ==
    /\ AtLeaf /\ ~ HasRoom(p) /\ pc = "append"
    /\ pages' = Halved(p, all) /\ newKey' = EntryOfLower(all)
    /\ stored' = stored \cup {appendMe} /\ pc' = "split"
    /\ internalStack' = Front(internalStack) /\ target' = Last(Front(internalStack))
    /\ UNCHANGED <<rootLocation, appendMe>>
    /\ all \in Seq(Record) /\ Len(all) = n /\ n = LeafCapacity + 1 /\ n >= 2
    /\ \A i, j \in 1 .. n : i < j => all[i].key <= all[j].key
    /\ \A m \in 1 .. n : all[m] = appendMe \/ \E i \in 1 .. Len(Recs(p)) : all[m] = Recs(p)[i]
    /\ \E m \in 1 .. n : all[m] = appendMe
    /\ \A i \in 1 .. Len(Recs(p)) : \E m \in 1 .. n : all[m] = Recs(p)[i]
    /\ \A a, b \in 1 .. n : all[a] = all[b] => a = b
    /\ \A a \in 1 .. n : \A q \in Leaves : \A j \in 1 .. Len(Recs(q)) :
          all[a] = Recs(q)[j] => q = p
    /\ \A a \in 1 .. n : all[a] \in stored \cup {appendMe} /\ all[a].key \in Int
    /\ p \in Leaves /\ p \in DOMAIN pages /\ IsLeaf(p) /\ p # rootLocation
    /\ appendMe \in Record /\ appendMe.id = Cardinality(stored) + 1
    /\ Recs(p) \in Seq(Record)
    /\ h \in 1 .. n - 1 /\ n \in Nat /\ 2 * h >= n - 1 /\ 2 * h <= n
    /\ LowerHalf(all) \in Seq(Record) /\ Len(LowerHalf(all)) = h
    /\ \A i \in 1 .. h : LowerHalf(all)[i] = all[i]
    /\ UpperHalf(all) \in Seq(Record) /\ Len(UpperHalf(all)) = n - h
    /\ \A i \in 1 .. n - h : UpperHalf(all)[i] = all[h + i]
    /\ new \in Nat /\ new \notin DOMAIN pages /\ DOMAIN pages = 0 .. new - 1
    /\ 0 .. new = DOMAIN pages \cup {new}
    /\ DOMAIN pages' = DOMAIN pages \cup {new}
    /\ \A q \in DOMAIN pages' : pages'[q] \in Page
    /\ pages'[p].type = "RegularPage" /\ pages'[p].recs = UpperHalf(all)
    /\ pages'[new].type = "RegularPage" /\ pages'[new].recs = LowerHalf(all)
    /\ \A q \in DOMAIN pages \ {p} : pages'[q] = pages[q]
    /\ \A q \in DOMAIN pages : IsLeaf(q)' = IsLeaf(q)
    /\ \A q \in DOMAIN pages : q # p => Recs(q)' = Recs(q)
    /\ Recs(p)' = UpperHalf(all) /\ Recs(new)' = LowerHalf(all) /\ IsLeaf(new)'
    /\ Directories' = Directories /\ Leaves' = Leaves \cup {new}
    /\ Directories \subseteq DOMAIN pages /\ Leaves \subseteq DOMAIN pages
    /\ new # p
    /\ \A q \in Directories : Recs(q)' = Recs(q)
    /\ newKey' = [key |-> all[h].key, ptr |-> new] /\ newKey'.key = all[h].key /\ newKey'.ptr = new
    /\ d \in Directories /\ Reached(d) /\ target' = d
    /\ internalStack' \in Seq(Directories) /\ internalStack' # << >>
    /\ internalStack'[1] = rootLocation /\ Last(internalStack)' = d
    /\ \A m \in 1 .. Len(internalStack') : internalStack'[m] \in Directories

(* What SplitLeaf makes of its leaf and of the others.                     *)
LEMMA LeafHalved ==
    ASSUME IInv, SplitLeaf,
           NEW p, p = Last(internalStack), NEW all, all = Together(p, appendMe),
           NEW d, d = internalStack[Len(internalStack) - 1],
           NEW n, n = Len(Recs(p)) + 1, NEW h, h = Half(n), NEW new, new = lastPage + 1
    PROVE  LeafHalves(p, all, d, n, h, new)
<1> USE DEF IInv
<1>2. /\ AtLeaf /\ ~ HasRoom(p) /\ pc = "append"
      /\ pages' = Halved(p, all) /\ newKey' = EntryOfLower(all)
      /\ stored' = stored \cup {appendMe} /\ pc' = "split"
      /\ internalStack' = Front(internalStack) /\ target' = Last(Front(internalStack))
      /\ UNCHANGED <<rootLocation, appendMe>>
  BY DEF SplitLeaf, AtLeaf
<1>3. /\ all \in Seq(Record) /\ Len(all) = n /\ n = LeafCapacity + 1 /\ n >= 2
      /\ \A i, j \in 1 .. n : i < j => all[i].key <= all[j].key
      /\ \A m \in 1 .. n : all[m] = appendMe \/ \E i \in 1 .. Len(Recs(p)) : all[m] = Recs(p)[i]
      /\ \E m \in 1 .. n : all[m] = appendMe
      /\ \A i \in 1 .. Len(Recs(p)) : \E m \in 1 .. n : all[m] = Recs(p)[i]
      /\ \A a, b \in 1 .. n : all[a] = all[b] => a = b
      /\ \A a \in 1 .. n : \A q \in Leaves : \A j \in 1 .. Len(Recs(q)) :
            all[a] = Recs(q)[j] => q = p
      /\ \A a \in 1 .. n : all[a] \in stored \cup {appendMe} /\ all[a].key \in Int
  <2> HIDE DEF IInv
  <2>1. AtLeaf /\ ~ HasRoom(p)
    BY <1>2
  <2> QED BY <2>1, LeafJoined
<1>4. /\ p \in Leaves /\ p \in DOMAIN pages /\ IsLeaf(p) /\ p # rootLocation
      /\ appendMe \in Record /\ appendMe.id = Cardinality(stored) + 1
      /\ Recs(p) \in Seq(Record)
  BY <1>2, LeafEntry, OnPages
<1>5. /\ h \in 1 .. n - 1 /\ n \in Nat /\ 2 * h >= n - 1 /\ 2 * h <= n
      /\ LowerHalf(all) \in Seq(Record) /\ Len(LowerHalf(all)) = h
      /\ \A i \in 1 .. h : LowerHalf(all)[i] = all[i]
      /\ UpperHalf(all) \in Seq(Record) /\ Len(UpperHalf(all)) = n - h
      /\ \A i \in 1 .. n - h : UpperHalf(all)[i] = all[h + i]
  <2>1. h = Half(Len(all)) /\ n = Len(all) /\ n \in Nat /\ all \in Seq(Record) /\ Len(all) >= 2
    BY <1>3, <1>4, LenProperties
  <2> HIDE DEF IInv
  <2>2. HalvesOf(all, Record, Len(all), Half(Len(all)))
    BY <2>1, Halves
  <2> QED BY <2>1, <2>2 DEF HalvesOf
<1>6. /\ new \in Nat /\ new \notin DOMAIN pages /\ DOMAIN pages = 0 .. new - 1
      /\ 0 .. new = DOMAIN pages \cup {new}
  BY LastPage
<1>7. /\ DOMAIN pages' = DOMAIN pages \cup {new}
      /\ \A q \in DOMAIN pages' : pages'[q] \in Page
      /\ pages'[p].type = "RegularPage" /\ pages'[p].recs = UpperHalf(all)
      /\ pages'[new].type = "RegularPage" /\ pages'[new].recs = LowerHalf(all)
      /\ \A q \in DOMAIN pages \ {p} : pages'[q] = pages[q]
  <2>1. pages[p].type = "RegularPage"
    BY <1>4 DEF IsLeaf
  <2>2. TypeOK /\ Numbered /\ Len(all) >= 2
    BY <1>3
  <2>3. DOMAIN Halved(p, all) = DOMAIN pages \cup {new}
    BY <1>6 DEF Halved
  <2> HIDE DEF IInv
  <2> QED BY <1>2, <1>3, <1>4, <2>1, <2>2, <2>3, HalvedPages
<1>8. /\ \A q \in DOMAIN pages : IsLeaf(q)' = IsLeaf(q)
      /\ \A q \in DOMAIN pages : q # p => Recs(q)' = Recs(q)
      /\ Recs(p)' = UpperHalf(all) /\ Recs(new)' = LowerHalf(all) /\ IsLeaf(new)'
  BY <1>4, <1>7 DEF IsLeaf, Recs
<1>9. /\ Directories' = Directories /\ Leaves' = Leaves \cup {new}
      /\ Directories \subseteq DOMAIN pages /\ Leaves \subseteq DOMAIN pages
      /\ new # p
  BY <1>4, <1>6, <1>7, <1>8 DEF Directories, Leaves
<1>10. \A q \in Directories : Recs(q)' = Recs(q)
  BY <1>4, <1>8 DEF Directories
<1>11. newKey' = [key |-> all[h].key, ptr |-> new] /\ newKey'.key = all[h].key /\ newKey'.ptr = new
  BY <1>2, <1>3 DEF EntryOfLower
(* The directory page above the leaf is the target, still on the stack.    *)
<1>12. /\ d \in Directories /\ Reached(d) /\ target' = d
       /\ internalStack' \in Seq(Directories) /\ internalStack' # << >>
       /\ internalStack'[1] = rootLocation /\ Last(internalStack)' = d
       /\ \A m \in 1 .. Len(internalStack') : internalStack'[m] \in Directories
  <2> DEFINE s == internalStack
             k == Len(internalStack)
  <2>1. /\ k \in Nat /\ k >= 2 /\ d \in Directories /\ Reached(d)
        /\ \A m \in 1 .. k - 1 : s[m] \in Directories
    BY <1>2, LeafEntry
  <2>2. internalStack' = [m \in 1 .. k - 1 |-> s[m]]
    <3>1. Front(s) = SubSeq(s, 1, k - 1)
      BY DEF Front
    <3> QED BY <1>2, <2>1, <3>1
  <2>3. /\ internalStack' \in Seq(Directories) /\ Len(internalStack') = k - 1
        /\ \A m \in 1 .. k - 1 : internalStack'[m] = s[m]
    BY <2>1, <2>2
  <2>4. s[1] = rootLocation
    BY <1>2 DEF GoingDown
  <2>5. Last(internalStack') = d
    BY <2>1, <2>3 DEF Last
  <2>6. internalStack' # << >>
    BY <2>1, <2>3
  <2> HIDE DEF s, k
  <2> QED BY <1>2, <2>1, <2>3, <2>4, <2>5, <2>6 DEF s, k, Last
<1> HIDE DEF IInv
<1> QED
  BY <1>2, <1>3, <1>4, <1>5, <1>6, <1>7, <1>8, <1>9, <1>10, <1>11, <1>12 DEF LeafHalves

(* A full leaf is split: the lower half goes to a new page, and the entry  *)
(* for it goes up.                                                         *)
LEMMA SplitLeafKeeps ==
    ASSUME IInv, SplitLeaf
    PROVE  IInv'
<1> USE DEF IInv
<1> DEFINE more == stored \cup {appendMe}
<1>1. PICK p, all, d, n, h, new :
          /\ p = Last(internalStack) /\ all = Together(p, appendMe)
          /\ d = internalStack[Len(internalStack) - 1]
          /\ n = Len(Recs(p)) + 1 /\ h = Half(n) /\ new = lastPage + 1
  OBVIOUS
<1>halves. LeafHalves(p, all, d, n, h, new)
  <2> HIDE DEF IInv
  <2> QED BY <1>1, LeafHalved
<1>2. /\ AtLeaf /\ ~ HasRoom(p) /\ pc = "append"
      /\ pages' = Halved(p, all) /\ newKey' = EntryOfLower(all)
      /\ stored' = more /\ pc' = "split"
      /\ internalStack' = Front(internalStack) /\ target' = Last(Front(internalStack))
      /\ UNCHANGED <<rootLocation, appendMe>>
  BY <1>halves DEF LeafHalves
<1>3. /\ all \in Seq(Record) /\ Len(all) = n /\ n = LeafCapacity + 1 /\ n >= 2
      /\ \A i, j \in 1 .. n : i < j => all[i].key <= all[j].key
      /\ \A m \in 1 .. n : all[m] = appendMe \/ \E i \in 1 .. Len(Recs(p)) : all[m] = Recs(p)[i]
      /\ \E m \in 1 .. n : all[m] = appendMe
      /\ \A i \in 1 .. Len(Recs(p)) : \E m \in 1 .. n : all[m] = Recs(p)[i]
      /\ \A a, b \in 1 .. n : all[a] = all[b] => a = b
      /\ \A a \in 1 .. n : \A q \in Leaves : \A j \in 1 .. Len(Recs(q)) :
            all[a] = Recs(q)[j] => q = p
      /\ \A a \in 1 .. n : all[a] \in stored \cup {appendMe} /\ all[a].key \in Int
  BY <1>halves DEF LeafHalves
<1>4. /\ p \in Leaves /\ p \in DOMAIN pages /\ IsLeaf(p) /\ p # rootLocation
      /\ appendMe \in Record /\ appendMe.id = Cardinality(stored) + 1
      /\ Recs(p) \in Seq(Record)
  BY <1>halves DEF LeafHalves
<1>5. /\ h \in 1 .. n - 1 /\ n \in Nat /\ 2 * h >= n - 1 /\ 2 * h <= n
      /\ LowerHalf(all) \in Seq(Record) /\ Len(LowerHalf(all)) = h
      /\ \A i \in 1 .. h : LowerHalf(all)[i] = all[i]
      /\ UpperHalf(all) \in Seq(Record) /\ Len(UpperHalf(all)) = n - h
      /\ \A i \in 1 .. n - h : UpperHalf(all)[i] = all[h + i]
  BY <1>halves DEF LeafHalves
<1>6. /\ new \in Nat /\ new \notin DOMAIN pages /\ DOMAIN pages = 0 .. new - 1
      /\ 0 .. new = DOMAIN pages \cup {new}
  BY <1>halves DEF LeafHalves
<1>7. /\ DOMAIN pages' = DOMAIN pages \cup {new}
      /\ \A q \in DOMAIN pages' : pages'[q] \in Page
      /\ pages'[p].type = "RegularPage" /\ pages'[p].recs = UpperHalf(all)
      /\ pages'[new].type = "RegularPage" /\ pages'[new].recs = LowerHalf(all)
      /\ \A q \in DOMAIN pages \ {p} : pages'[q] = pages[q]
  BY <1>halves DEF LeafHalves
<1>8. /\ \A q \in DOMAIN pages : IsLeaf(q)' = IsLeaf(q)
      /\ \A q \in DOMAIN pages : q # p => Recs(q)' = Recs(q)
      /\ Recs(p)' = UpperHalf(all) /\ Recs(new)' = LowerHalf(all) /\ IsLeaf(new)'
  BY <1>halves DEF LeafHalves
<1>9. /\ Directories' = Directories /\ Leaves' = Leaves \cup {new}
      /\ Directories \subseteq DOMAIN pages /\ Leaves \subseteq DOMAIN pages
      /\ new # p
  BY <1>halves DEF LeafHalves
<1>10. \A q \in Directories : Recs(q)' = Recs(q)
  BY <1>halves DEF LeafHalves
<1>11. newKey' = [key |-> all[h].key, ptr |-> new] /\ newKey'.key = all[h].key /\ newKey'.ptr = new
  BY <1>halves DEF LeafHalves
<1>12. Numbered'
  BY <1>6, <1>7 DEF Numbered
<1>13. /\ Pointing' /\ OneEntry' /\ Topped' /\ AllReached'
       /\ \A q \in DOMAIN pages : Reached(q) => Reached(q)'
  <2>1. DirectoriesKept
    BY <1>2, <1>9, <1>10 DEF DirectoriesKept
  <2>2. LeafAdded
    BY <1>2, <1>6, <1>7, <1>11 DEF LeafAdded
  <2> QED BY <1>2, <2>1, <2>2, LeavesChange
(* The directory page above the leaf is the target, still on the stack.    *)
<1>14. /\ d \in Directories /\ Reached(d) /\ target' = d
       /\ internalStack' \in Seq(Directories) /\ internalStack' # << >>
       /\ internalStack'[1] = rootLocation /\ Last(internalStack)' = d
       /\ \A m \in 1 .. Len(internalStack') : internalStack'[m] \in Directories
  BY <1>halves DEF LeafHalves
<1>15. TypeOK'
  <2>1. ASSUME NEW q \in DOMAIN pages'
        PROVE  Len(Recs(q)') <= IF IsLeaf(q)' THEN LeafCapacity ELSE DirCapacity
    <3>1. CASE q \in {p, new}
      <4>1. IsLeaf(q)'
        BY <1>4, <1>8, <3>1
      <4>2. Len(Recs(q)') \in {h, n - h} /\ h <= n - 1 /\ n - h <= n - 1 /\ n - 1 = LeafCapacity
        <5>1. Len(Recs(p)') = n - h /\ Len(Recs(new)') = h
          BY <1>5, <1>8
        <5>2. n = LeafCapacity + 1 /\ LeafCapacity \in Nat
          BY <1>3, ConstantsAssumption
        <5>3. h \in Int /\ 1 <= h /\ h <= n - 1
          BY <1>5
        <5> QED BY <3>1, <5>1, <5>2, <5>3
      <4> QED BY <1>5, <4>1, <4>2
    <3>2. CASE q \notin {p, new}
      <4>1. q \in DOMAIN pages /\ q # p
        BY <1>7, <3>2
      <4> QED BY <1>8, <4>1 DEF TypeOK
    <3> QED BY <3>1, <3>2
  <2>2. DOMAIN pages' = 0 .. lastPage'
    <3>1. IsFiniteSet(0 .. new) /\ Cardinality(0 .. new) = new + 1
      BY <1>6, FS_Interval
    <3>2. DOMAIN pages' = 0 .. new
      BY <1>6, <1>7
    <3>3. lastPage' = new
      BY <1>6, <3>1, <3>2 DEF lastPage
    <3> QED BY <3>2, <3>3
  <2>3. newKey' \in Entry
    <3>1. all[h] \in Record
      BY <1>3, <1>5, ElementOfSeq
    <3> QED BY <1>6, <1>11, <3>1 DEF Record, Entry
  <2>4. stored' \subseteq Record
    BY <1>2, <1>4 DEF TypeOK
  <2>5. internalStack' \in Seq(DOMAIN pages') /\ target' \in DOMAIN pages'
    <3>1. Directories \subseteq DOMAIN pages'
      BY <1>7, <1>9
    <3> QED BY <1>14, <3>1
  <2>6. rootLocation' \in DOMAIN pages'
    BY <1>2, <1>7 DEF TypeOK
  <2>7. appendMe' \in [key : Keys \cup {MaxKey}, id : 0 .. MaxRecords]
    BY <1>2 DEF TypeOK
  <2>8. \A q \in DOMAIN pages' : pages'[q] \in Page
    BY <1>7
  <2> QED BY <1>2, <2>1, <2>2, <2>3, <2>4, <2>5, <2>6, <2>7, <2>8 DEF TypeOK
(* The records of both halves are records of the leaf, and the new one.    *)
<1>16. /\ \A q \in Leaves : \A i \in 1 .. Len(Recs(q)) : Recs(q)[i] \in stored /\ q \in DOMAIN pages
       /\ \A q \in Leaves' : \A i \in 1 .. Len(Recs(q)') :
             \/ q = p /\ h + i \in 1 .. n /\ h + i > h /\ Recs(q)'[i] = all[h + i]
             \/ q = new /\ i \in 1 .. n /\ i <= h /\ Recs(q)'[i] = all[i]
             \/ q # p /\ q # new /\ q \in Leaves /\ i \in 1 .. Len(Recs(q)) /\ Recs(q)'[i] = Recs(q)[i]
  <2>1. \A q \in Leaves : \A i \in 1 .. Len(Recs(q)) : Recs(q)[i] \in stored /\ q \in DOMAIN pages
    BY <1>9 DEF Kept
  <2>2. ASSUME NEW q \in Leaves', NEW i \in 1 .. Len(Recs(q)')
        PROVE  \/ q = p /\ h + i \in 1 .. n /\ h + i > h /\ Recs(q)'[i] = all[h + i]
               \/ q = new /\ i \in 1 .. n /\ i <= h /\ Recs(q)'[i] = all[i]
               \/ q # p /\ q # new /\ q \in Leaves /\ i \in 1 .. Len(Recs(q)) /\ Recs(q)'[i] = Recs(q)[i]
    <3>1. CASE q = p
      <4>1. i \in 1 .. n - h
        BY <1>5, <1>8, <3>1
      <4>2. Recs(q)'[i] = all[h + i]
        BY <1>5, <1>8, <3>1, <4>1
      <4>3. h + i \in 1 .. n /\ h + i > h
        BY <1>5, <4>1
      <4> QED BY <3>1, <4>2, <4>3
    <3>2. CASE q = new
      <4>1. i \in 1 .. h
        BY <1>5, <1>8, <3>2
      <4> QED BY <1>5, <1>8, <3>2, <4>1
    <3>3. CASE q # p /\ q # new
      BY <1>8, <1>9, <3>3
    <3> QED BY <3>1, <3>2, <3>3
  <2> QED BY <2>1, <2>2
<1>17. KeysBounded'
  <2>1. ASSUME NEW q \in Directories, NEW i \in 1 .. Len(Recs(q))
        PROVE  UpTo(Recs(q)[i].ptr, Recs(q)[i].key)'
    <3>1. PICK c, k : c = Recs(q)[i].ptr /\ k = Recs(q)[i].key
      OBVIOUS
    <3>2. c \in DOMAIN pages /\ UpTo(c, k)
      BY <3>1 DEF Pointing, KeysBounded
    <3>3. \A m \in 1 .. Len(Recs(c)') : Recs(c)'[m].key <= k
      <4>1. CASE c # p
        BY <1>8, <3>2, <4>1 DEF UpTo
      <4>2. CASE c = p
        <5>1. k >= appendMe.key /\ k \in Int
          BY <1>1, <1>2, <3>1, <4>2, LeafEntry, OnPages
        <5>2. \A m \in 1 .. Len(Recs(p)) : Recs(p)[m].key <= k
          BY <3>2, <4>2 DEF UpTo
        <5>3. \A m \in 1 .. n : all[m].key <= k
          <6> TAKE m \in 1 .. n
          <6>1. CASE all[m] = appendMe
            BY <1>4, <5>1, <6>1, KeysAreNumbers
          <6>2. CASE \E j \in 1 .. Len(Recs(p)) : all[m] = Recs(p)[j]
            BY <5>2, <6>2
          <6> QED BY <1>3, <6>1, <6>2
        <5>4. \A m \in 1 .. n - h : Recs(p)'[m] = all[h + m] /\ h + m \in 1 .. n
          BY <1>5, <1>8
        <5>5. Len(Recs(p)') = n - h
          BY <1>5, <1>8
        <5> QED BY <4>2, <5>3, <5>4, <5>5
      <4> QED BY <4>1, <4>2
    <3>4. UpTo(c, k)'
      BY <3>3 DEF UpTo
    <3> QED BY <1>10, <3>1, <3>4 DEF UpTo, Recs
  <2>2. \A q \in Directories' : \A i \in 1 .. Len(Recs(q)') : UpTo(Recs(q)[i].ptr, Recs(q)[i].key)'
    BY <1>9, <1>10, <2>1
  <2>3. \A q \in Directories' : \A i, j \in 1 .. Len(Recs(q)') : i < j => Recs(q)'[i].key <= Recs(q)'[j].key
    BY <1>9, <1>10 DEF KeysBounded
  <2>4. UpTo(newKey.ptr, newKey.key)'
    <3>1. \A m \in 1 .. h : Recs(new)'[m] = all[m] /\ m \in 1 .. n
      BY <1>5, <1>8
    <3>2. \A m \in 1 .. h : all[m].key <= all[h].key
      BY <1>3, <1>5
    <3>3. \A m \in 1 .. Len(Recs(new)') : Recs(new)'[m].key <= all[h].key
      BY <1>5, <1>8, <3>1, <3>2
    <3> QED BY <1>11, <3>3 DEF UpTo, Recs
  <2> QED BY <2>2, <2>3, <2>4 DEF KeysBounded, UpTo, Recs
<1>18. NotEmpty'
  <2>1. stored' # {}
    BY <1>2
  <2>2. ASSUME NEW q \in DOMAIN pages'
        PROVE  Recs(q)' # << >>
    <3>1. CASE q \in {p, new}
      <4>1. Len(Recs(q)') # 0
        BY <1>5, <1>8, <3>1
      <4> QED BY <4>1
    <3>2. CASE q \notin {p, new} /\ stored # {}
      <4>1. q \in DOMAIN pages /\ q # p
        BY <1>7, <3>2
      <4> QED BY <1>8, <3>2, <4>1 DEF NotEmpty
    <3>3. CASE q \notin {p, new} /\ stored = {}
      <4>1. pages = EmptyTree
        BY <3>3 DEF NotEmpty
      <4>2. q = 0 /\ p = 1
        BY <1>4, <1>7, <3>3, <4>1 DEF EmptyTree, IsLeaf, Directory
      <4>3. Recs(q) = <<[key |-> MaxKey, ptr |-> 1]>>
        BY <4>1, <4>2 DEF EmptyTree, Recs, Directory
      <4>4. q \in DOMAIN pages
        BY <1>7, <3>3
      <4> QED BY <1>8, <3>3, <4>3, <4>4
    <3> QED BY <3>1, <3>2, <3>3
  <2> QED BY <2>1, <2>2 DEF NotEmpty
<1>19. Kept'
  <2>1. /\ IsFiniteSet(more) /\ \A r \in more : r.id <= Cardinality(more)
        /\ appendMe \notin stored
    BY <1>4, StoreOne
  <2>2. \A q \in Leaves' : \A i \in 1 .. Len(Recs(q)') : Recs(q)'[i] \in stored'
    BY <1>2, <1>3, <1>16
  <2>3. \A r \in stored' : \E q \in Leaves' : \E i \in 1 .. Len(Recs(q)') : Recs(q)'[i] = r
    <3>1. ASSUME NEW m \in 1 .. n
          PROVE  \E q \in Leaves' : \E i \in 1 .. Len(Recs(q)') : Recs(q)'[i] = all[m]
      <4>1. CASE m <= h
        <5>1. m \in 1 .. Len(Recs(new)') /\ Recs(new)'[m] = all[m]
          BY <1>5, <1>8, <4>1
        <5> QED BY <1>9, <5>1
      <4>2. CASE m > h
        <5>1. m - h \in 1 .. n - h /\ h + (m - h) = m
          BY <1>5, <4>2
        <5>2. m - h \in 1 .. Len(Recs(p)') /\ Recs(p)'[m - h] = all[m]
          BY <1>5, <1>8, <5>1
        <5> QED BY <1>4, <1>9, <5>2
      <4> QED BY <1>5, <4>1, <4>2
    <3>2. ASSUME NEW r \in stored
          PROVE  \E q \in Leaves' : \E i \in 1 .. Len(Recs(q)') : Recs(q)'[i] = r
      <4>1. PICK q \in Leaves : \E i \in 1 .. Len(Recs(q)) : Recs(q)[i] = r
        BY DEF Kept
      <4>2. CASE q = p
        BY <1>3, <3>1, <4>1, <4>2
      <4>3. CASE q # p
        BY <1>8, <1>9, <4>1, <4>3
      <4> QED BY <4>2, <4>3
    <3>3. \E q \in Leaves' : \E i \in 1 .. Len(Recs(q)') : Recs(q)'[i] = appendMe
      <4>1. PICK m \in 1 .. n : all[m] = appendMe
        BY <1>3
      <4> QED BY <3>1, <4>1
    <3> QED BY <1>2, <3>2, <3>3
  <2>4. \A q, u \in Leaves' : \A i \in 1 .. Len(Recs(q)'), j \in 1 .. Len(Recs(u)') :
           Recs(q)'[i] = Recs(u)'[j] => q = u /\ i = j
    <3> SUFFICES ASSUME NEW q \in Leaves', NEW u \in Leaves',
                        NEW i \in 1 .. Len(Recs(q)'), NEW j \in 1 .. Len(Recs(u)'),
                        Recs(q)'[i] = Recs(u)'[j]
                 PROVE  q = u /\ i = j
      OBVIOUS
    <3>1. \/ q = p /\ h + i \in 1 .. n /\ h + i > h /\ Recs(q)'[i] = all[h + i]
          \/ q = new /\ i \in 1 .. n /\ i <= h /\ Recs(q)'[i] = all[i]
          \/ q # p /\ q # new /\ q \in Leaves /\ i \in 1 .. Len(Recs(q)) /\ Recs(q)'[i] = Recs(q)[i]
      BY <1>16
    <3>2. \/ u = p /\ h + j \in 1 .. n /\ h + j > h /\ Recs(u)'[j] = all[h + j]
          \/ u = new /\ j \in 1 .. n /\ j <= h /\ Recs(u)'[j] = all[j]
          \/ u # p /\ u # new /\ u \in Leaves /\ j \in 1 .. Len(Recs(u)) /\ Recs(u)'[j] = Recs(u)[j]
      BY <1>16
    <3>3. ASSUME q \in Leaves, u \in Leaves, i \in 1 .. Len(Recs(q)), j \in 1 .. Len(Recs(u)),
                 Recs(q)[i] = Recs(u)[j]
          PROVE  q = u /\ i = j
      BY <3>3 DEF Kept
    <3>4. \A a, b \in 1 .. n : all[a] = all[b] => a = b
      BY <1>3
    <3>5. \A a \in 1 .. n : \A x \in Leaves : x # p =>
             \A m \in 1 .. Len(Recs(x)) : all[a] # Recs(x)[m]
      BY <1>3
    <3>6. i \in Int /\ j \in Int /\ h \in Int
      BY <1>5
    <3> HIDE DEF IInv
    <3>7. CASE q # p /\ q # new
      BY <3>1, <3>2, <3>3, <3>5, <3>7
    <3>8. CASE u # p /\ u # new
      BY <3>1, <3>2, <3>3, <3>5, <3>8
    <3>9. CASE q \in {p, new} /\ u \in {p, new}
      BY <1>9, <3>1, <3>2, <3>4, <3>6, <3>9
    <3> QED BY <3>7, <3>8, <3>9
  <2> QED BY <1>2, <2>1, <2>2, <2>3, <2>4 DEF Kept
<1>20. GoingUp'
  <2>1. target' \in Directories' /\ Reached(target)'
    BY <1>9, <1>13, <1>14 DEF Reached
  <2>2. newKey'.key <= TopKey(target)'
    <3>1. PICK i \in 1 .. Len(Recs(d)) : Recs(d)[i].ptr = p
      BY <1>1, <1>2, LeafEntry
    <3>2. Recs(d)[i].key >= appendMe.key /\ UpTo(p, Recs(d)[i].key)
      BY <1>1, <1>2, <1>14, <3>1, LeafEntry DEF KeysBounded
    <3>3. Len(Recs(d)) \in Nat /\ \A j \in 1 .. Len(Recs(d)) : Recs(d)[j].key \in Int
      BY <1>14, OnPages
    <3>4. Recs(d)[i].key <= TopKey(d) /\ TopKey(d) \in Int
      BY <1>14, <3>3 DEF KeysBounded, TopKey
    <3>5. h \in 1 .. n
      BY <1>5
    <3>6. all[h].key <= Recs(d)[i].key
      <4>1. CASE all[h] = appendMe
        BY <1>4, <3>2, <3>3, <4>1, KeysAreNumbers
      <4>2. CASE \E j \in 1 .. Len(Recs(p)) : all[h] = Recs(p)[j]
        BY <3>2, <4>2 DEF UpTo
      <4> QED BY <1>3, <3>5, <4>1, <4>2
    <3>7. all[h].key <= TopKey(d)
      BY <1>3, <3>3, <3>4, <3>5, <3>6
    <3>8. TopKey(d)' = TopKey(d)
      BY <1>10, <1>14 DEF TopKey
    <3>9. TopKey(target)' = TopKey(d)'
      BY <1>14 DEF TopKey, Recs
    <3> QED BY <1>11, <3>7, <3>8, <3>9
  <2>3. target' = Last(internalStack')
    BY <1>14 DEF Last
  <2> QED BY <1>2, <1>9, <1>14, <2>1, <2>2, <2>3 DEF GoingUp, Last
<1>21. GoingDown'
  BY <1>2 DEF GoingDown
<1> QED
  BY <1>12, <1>13, <1>15, <1>17, <1>18, <1>19, <1>20, <1>21

-----------------------------------------------------------------------------
(* The entries of a directory page with the new one among them: no two of  *)
(* them point to one page, and no other directory page has one of them.    *)
LEMMA EntriesJoined ==
    ASSUME IInv, pc = "split", NEW p, p = target
    PROVE  LET all == Together(p, newKey)
               n == Len(Recs(p)) + 1
           IN  /\ p \in Directories /\ p \in DOMAIN pages /\ ~ IsLeaf(p) /\ stored # {}
               /\ all \in Seq(Entry) /\ Len(all) = n /\ n \in Nat /\ n >= 2 /\ n <= DirCapacity + 1
               /\ \A m \in 1 .. n : all[m] \in Entry /\ all[m].key \in Int
               /\ \A i, j \in 1 .. n : i < j => all[i].key <= all[j].key
               /\ \A i \in 1 .. Len(Recs(p)) : \E m \in 1 .. n : all[m] = Recs(p)[i]
               /\ \E m \in 1 .. n : all[m] = newKey
               /\ \A m \in 1 .. n : all[m] = newKey \/ \E i \in 1 .. Len(Recs(p)) : all[m] = Recs(p)[i]
               /\ \A a, b \in 1 .. n : all[a].ptr = all[b].ptr => a = b
               /\ \A a \in 1 .. n : \A q \in Directories : \A j \in 1 .. Len(Recs(q)) :
                     all[a].ptr = Recs(q)[j].ptr => q = p
               /\ \A a \in 1 .. n : all[a].ptr \in DOMAIN pages /\ all[a].ptr # rootLocation
               /\ \A a \in 1 .. n : UpTo(all[a].ptr, all[a].key)
               /\ \A a \in 1 .. n : all[a].ptr \in Directories => TopKey(all[a].ptr) = all[a].key
               /\ all[n].key = TopKey(p)
<1> USE DEF IInv
<1> DEFINE all == Together(p, newKey)
           n == Len(Recs(p)) + 1
<1>1. /\ p \in Directories /\ p \in DOMAIN pages /\ ~ IsLeaf(p) /\ stored # {}
      /\ newKey.key <= TopKey(p)
  BY OnPages DEF GoingUp, NotEmpty
<1>2. /\ Recs(p) \in Seq(Entry) /\ Len(Recs(p)) \in Nat
      /\ newKey \in Entry /\ newKey.key \in Int
  BY <1>1, OnPages, KeysAreNumbers DEF TypeOK
<1>3. Len(Recs(p)) >= 1
  BY <1>1, <1>2, EmptySeq DEF NotEmpty
<1>4. n <= DirCapacity + 1
  BY <1>1, <1>2, ConstantsAssumption DEF TypeOK
<1>5. /\ all \in Seq(Entry) /\ Len(all) = n
      /\ \A i, j \in 1 .. n : i < j => all[i].key <= all[j].key
      /\ \E from : Joined(all, Recs(p), newKey, n, from)
  <2>1. all = StableSort(Append(Recs(p), newKey))
    BY DEF Together
  <2>2. \A r \in Entry : r.key \in Int
    BY KeysAreNumbers
  <2> HIDE DEF all, IInv
  <2> QED BY <1>2, <2>1, <2>2, SortedWith
<1>len. n = Len(Recs(p)) + 1 /\ n \in Nat
  BY <1>2
<1> HIDE DEF all, n
<1>6. PICK from : Joined(all, Recs(p), newKey, n, from)
  BY <1>5
<1>7. \A m \in 1 .. n : /\ from[m] \in 1 .. n
                        /\ from[m] = n => all[m] = newKey
                        /\ from[m] # n => from[m] \in 1 .. Len(Recs(p)) /\ all[m] = Recs(p)[from[m]]
  BY <1>6 DEF Joined
<1>8. \A a, b \in 1 .. n : from[a] = from[b] => a = b
  BY <1>6 DEF Joined
<1>9. \A i \in 1 .. n : \E m \in 1 .. n : from[m] = i
  BY <1>6 DEF Joined
<1>10. \A i \in 1 .. Len(Recs(p)) : i \in 1 .. n /\ i # n
  BY <1>2, <1>len
<1>11. \E m \in 1 .. n : all[m] = newKey
  <2>1. n \in 1 .. n
    BY <1>2, <1>len
  <2> QED BY <1>7, <1>9, <2>1, SMTT(30)
<1>12. \A i \in 1 .. Len(Recs(p)) : \E m \in 1 .. n : all[m] = Recs(p)[i]
  <2> TAKE i \in 1 .. Len(Recs(p))
  <2>1. PICK m \in 1 .. n : from[m] = i
    BY <1>9, <1>10
  <2>2. i # n
    BY <1>10
  <2> QED BY <1>7, <2>1, <2>2
<1>13. ASSUME NEW q \in Directories, NEW j \in 1 .. Len(Recs(q))
       PROVE  Recs(q)[j].ptr \in DOMAIN pages /\ Recs(q)[j].ptr \notin {rootLocation, newKey.ptr}
  BY DEF Pointing, Rootless
<1>14. newKey.ptr \in DOMAIN pages /\ newKey.ptr # rootLocation
  BY DEF Pointing
<1>15. \A m \in 1 .. n : all[m] = newKey \/ \E i \in 1 .. Len(Recs(p)) : all[m] = Recs(p)[i]
  BY <1>7
<1>16. ASSUME NEW a \in 1 .. n, NEW b \in 1 .. n, all[a].ptr = all[b].ptr
       PROVE  a = b
  <2>1. \/ from[a] = n /\ all[a] = newKey
        \/ from[a] \in 1 .. Len(Recs(p)) /\ all[a] = Recs(p)[from[a]]
    BY <1>7
  <2>2. \/ from[b] = n /\ all[b] = newKey
        \/ from[b] \in 1 .. Len(Recs(p)) /\ all[b] = Recs(p)[from[b]]
    BY <1>7
  <2>3. \A i, j \in 1 .. Len(Recs(p)) : Recs(p)[i].ptr = Recs(p)[j].ptr => i = j
    BY <1>1 DEF OneEntry
  <2>4. \A i \in 1 .. Len(Recs(p)) : Recs(p)[i].ptr # newKey.ptr
    BY <1>1, <1>13
  <2>5. from[a] = from[b]
    BY <1>16, <2>1, <2>2, <2>3, <2>4
  <2> QED BY <1>8, <2>5
<1>17. ASSUME NEW a \in 1 .. n, NEW q \in Directories, NEW j \in 1 .. Len(Recs(q)),
              all[a].ptr = Recs(q)[j].ptr
       PROVE  q = p
  <2>1. all[a] # newKey
    BY <1>13, <1>17
  <2>2. PICK i \in 1 .. Len(Recs(p)) : all[a] = Recs(p)[i]
    BY <1>15, <2>1
  <2> QED BY <1>1, <1>17, <2>2 DEF OneEntry
<1>18. \A a \in 1 .. n : all[a].ptr \in DOMAIN pages /\ all[a].ptr # rootLocation
  BY <1>1, <1>13, <1>14, <1>15
<1>19. \A a \in 1 .. n : UpTo(all[a].ptr, all[a].key)
  BY <1>1, <1>15 DEF KeysBounded
<1>20. \A a \in 1 .. n : all[a].ptr \in Directories => TopKey(all[a].ptr) = all[a].key
  BY <1>1, <1>15 DEF Topped
<1>21. \A m \in 1 .. n : all[m] \in Entry /\ all[m].key \in Int
  BY <1>5, ElementOfSeq, KeysAreNumbers
(* The last of them is the last there was: the new key is not beyond it.   *)
<1>22. all[n].key = TopKey(p)
  <2>1. n \in 1 .. n /\ Len(Recs(p)) \in 1 .. Len(Recs(p))
    BY <1>2, <1>3, <1>len
  <2>2. PICK m \in 1 .. n : all[m] = Recs(p)[Len(Recs(p))]
    BY <1>12, <2>1
  <2>3. TopKey(p) = all[m].key /\ TopKey(p) \in Int
    BY <1>21, <2>2 DEF TopKey
  <2>4. all[m].key <= all[n].key
    BY <1>5, <1>21, <1>len, <2>1
  <2>5. all[n].key <= TopKey(p)
    <3>1. CASE all[n] = newKey
      BY <1>1, <3>1
    <3>2. CASE \E i \in 1 .. Len(Recs(p)) : all[n] = Recs(p)[i]
      <4>1. PICK i \in 1 .. Len(Recs(p)) : all[n] = Recs(p)[i]
        BY <3>2
      <4>2. i < Len(Recs(p)) \/ i = Len(Recs(p))
        BY <1>2
      <4>3. i < Len(Recs(p)) => Recs(p)[i].key <= Recs(p)[Len(Recs(p))].key
        BY <1>1, <2>1 DEF KeysBounded
      <4>4. i = Len(Recs(p)) => all[n].key = TopKey(p)
        BY <4>1 DEF TopKey
      <4> QED BY <2>3, <4>1, <4>2, <4>3, <4>4 DEF TopKey
    <3> QED BY <1>15, <2>1, <3>1, <3>2
  <2> QED BY <1>21, <2>1, <2>3, <2>4, <2>5
<1>23. n >= 2
  BY <1>3, <1>2, <1>len
<1> QED
  BY <1>1, <1>4, <1>5, <1>len, <1>11, <1>12, <1>15, <1>16, <1>17, <1>18, <1>19, <1>20, <1>21, <1>22, <1>23
  DEF all, n

(* What holds of the pages there were when the target keeps the last n - k *)
(* of its entries, the new one among them: its last key stays, and what is *)
(* on a page stays below the keys it was below.                            *)
TargetKept ==
    /\ \A c \in DOMAIN pages : \A b \in Int : UpTo(c, b) => UpTo(c, b)'
    /\ \A q \in Directories : TopKey(q)' = TopKey(q)
    /\ \A q \in DOMAIN pages : Recs(q)' # << >>
    /\ Kept'

Rewrites(p, all, n, k) ==
    /\ p = target /\ all = Together(p, newKey) /\ n = Len(Recs(p)) + 1 /\ k \in 0 .. n - 1
    /\ Len(Recs(p)') = n - k /\ \A i \in 1 .. n - k : Recs(p)'[i] = all[k + i]
    /\ \A q \in DOMAIN pages \ {p} : Recs(q)' = Recs(q)
    /\ Leaves' = Leaves /\ stored' = stored

(* A directory page rewritten with the new entry, or with the upper half   *)
(* of its entries and it, still leads to every record below it.            *)
LEMMA TargetRewritten ==
    ASSUME IInv, pc = "split", NEW p, NEW all, NEW n, NEW k, Rewrites(p, all, n, k)
    PROVE  TargetKept
<1> USE DEF IInv, Rewrites
<1>1. /\ p \in Directories /\ p \in DOMAIN pages /\ ~ IsLeaf(p) /\ stored # {}
      /\ n \in Nat /\ n >= 2
      /\ \A m \in 1 .. n : all[m].key \in Int
      /\ \A i, j \in 1 .. n : i < j => all[i].key <= all[j].key
      /\ all[n].key = TopKey(p)
  BY EntriesJoined
<1>2. \A i \in 1 .. n - k : k + i \in 1 .. n
  BY <1>1
<1>3. \A m \in 1 .. n : all[m].key <= TopKey(p)
  <2> TAKE m \in 1 .. n
  <2>1. m < n \/ m = n
    BY <1>1
  <2>2. n \in 1 .. n
    BY <1>1
  <2> QED BY <1>1, <2>1, <2>2
<1>4. ASSUME NEW c \in DOMAIN pages, NEW b \in Int, UpTo(c, b)
      PROVE  UpTo(c, b)'
  <2>1. CASE c # p
    BY <1>4, <2>1 DEF UpTo
  <2>2. CASE c = p
    <3>1. Len(Recs(p)) \in 1 .. Len(Recs(p))
      BY <1>1
    <3>2. TopKey(p) <= b /\ TopKey(p) \in Int
      <4>1. n \in 1 .. n
        BY <1>1
      <4> QED BY <1>1, <1>4, <2>2, <3>1, <4>1 DEF UpTo, TopKey
    <3>3. \A i \in 1 .. n - k : Recs(p)'[i].key <= b
      BY <1>1, <1>2, <1>3, <3>2
    <3> QED BY <2>2, <3>3 DEF UpTo
  <2> QED BY <2>1, <2>2
<1>5. ASSUME NEW q \in Directories
      PROVE  TopKey(q)' = TopKey(q)
  <2>1. CASE q # p
    <3>1. q \in DOMAIN pages
      BY DEF Directories
    <3> QED BY <2>1, <3>1 DEF TopKey
  <2>2. CASE q = p
    <3>1. n - k \in 1 .. n - k /\ k + (n - k) = n
      BY <1>1
    <3>2. Recs(p)'[n - k] = all[n]
      BY <3>1
    <3> QED BY <1>1, <2>2, <3>2 DEF TopKey
  <2> QED BY <2>1, <2>2
<1>6. ASSUME NEW q \in DOMAIN pages
      PROVE  Recs(q)' # << >>
  <2>1. CASE q # p
    BY <1>1, <2>1 DEF NotEmpty
  <2>2. CASE q = p
    <3>1. Len(Recs(p)') # 0
      BY <1>1
    <3> QED BY <2>2, <3>1
  <2> QED BY <2>1, <2>2
<1>7. Kept'
  <2>1. \A q \in Leaves : Recs(q)' = Recs(q)
    <3>1. \A q \in Leaves : q \in DOMAIN pages \ {p}
      BY <1>1 DEF Leaves
    <3> QED BY <3>1
  <2> QED BY <2>1 DEF Kept
<1> QED
  BY <1>4, <1>5, <1>6, <1>7 DEF TargetKept

(* The entry goes to a directory page that has room, and append returns.   *)
LEMMA InsertEntryKeeps ==
    ASSUME IInv, InsertEntry
    PROVE  IInv'
<1> USE DEF IInv
<1>1. PICK p, all, n : p = target /\ all = Together(p, newKey) /\ n = Len(Recs(p)) + 1
  OBVIOUS
<1>2. /\ pc = "split" /\ HasRoom(p) /\ pc' = "idle" /\ internalStack' = << >>
      /\ pages' = [pages EXCEPT ![p].recs = all]
      /\ UNCHANGED <<rootLocation, appendMe, target, newKey, stored>>
  BY <1>1 DEF InsertEntry
<1>3. /\ p \in Directories /\ p \in DOMAIN pages /\ ~ IsLeaf(p) /\ stored # {}
      /\ all \in Seq(Entry) /\ Len(all) = n /\ n \in Nat /\ n >= 2
      /\ \A m \in 1 .. n : all[m] \in Entry /\ all[m].key \in Int
      /\ \A i, j \in 1 .. n : i < j => all[i].key <= all[j].key
      /\ \A i \in 1 .. Len(Recs(p)) : \E m \in 1 .. n : all[m] = Recs(p)[i]
      /\ \E m \in 1 .. n : all[m] = newKey
      /\ \A a, b \in 1 .. n : all[a].ptr = all[b].ptr => a = b
      /\ \A a \in 1 .. n : \A q \in Directories : \A j \in 1 .. Len(Recs(q)) :
            all[a].ptr = Recs(q)[j].ptr => q = p
      /\ \A a \in 1 .. n : all[a].ptr \in DOMAIN pages /\ all[a].ptr # rootLocation
      /\ \A a \in 1 .. n : UpTo(all[a].ptr, all[a].key)
      /\ \A a \in 1 .. n : all[a].ptr \in Directories => TopKey(all[a].ptr) = all[a].key
  <2> HIDE DEF IInv
  <2> QED BY <1>1, <1>2, EntriesJoined
<1>4. /\ DOMAIN pages' = DOMAIN pages
      /\ pages'[p] = PageWith(p, all)
      /\ \A q \in DOMAIN pages : q # p => pages'[q] = pages[q]
  BY <1>2, <1>3 DEF PageWith
<1>5. pages'[p] \in Page /\ pages'[p].type = pages[p].type /\ pages'[p].recs = all
  <2>1. pages[p] \in Page /\ pages[p].type # "RegularPage"
    BY <1>3 DEF TypeOK, IsLeaf
  <2>2. /\ PageWith(p, all) \in Page /\ PageWith(p, all).type = pages[p].type
        /\ PageWith(p, all).recs = all
    BY <1>3, <2>1, PageChanged DEF PageWith
  <2> QED BY <1>4, <2>2
<1>6. /\ \A q \in DOMAIN pages : IsLeaf(q)' = IsLeaf(q)
      /\ \A q \in DOMAIN pages : q # p => Recs(q)' = Recs(q)
      /\ Recs(p)' = all
  BY <1>4, <1>5 DEF IsLeaf, Recs
<1>7. /\ Directories' = Directories /\ Leaves' = Leaves /\ Directories \subseteq DOMAIN pages
      /\ Rootless = {rootLocation, newKey.ptr} /\ Rootless' = {rootLocation}
  BY <1>2, <1>4, <1>6 DEF Directories, Leaves, Rootless
<1>8. TargetKept
  <2>k. PICK k : k = 0
    OBVIOUS
  <2>1. /\ k \in 0 .. n - 1 /\ Len(Recs(p)') = n - k
        /\ \A i \in 1 .. n - k : Recs(p)'[i] = all[k + i]
    BY <1>3, <1>6, <2>k
  <2>2. \A q \in DOMAIN pages \ {p} : Recs(q)' = Recs(q)
    BY <1>6
  <2>3. Rewrites(p, all, n, k)
    BY <1>1, <1>2, <1>7, <2>1, <2>2 DEF Rewrites
  <2> HIDE DEF IInv
  <2> QED BY <1>2, <2>3, TargetRewritten
(* Every entry there is now is one of those, or was there before.          *)
<1>9. ASSUME NEW q \in Directories, NEW i \in 1 .. Len(Recs(q)')
      PROVE  LET e == Recs(q)'[i] IN
             /\ e.ptr \in DOMAIN pages /\ e.ptr # rootLocation /\ e.key \in Int
             /\ UpTo(e.ptr, e.key)
             /\ e.ptr \in Directories => TopKey(e.ptr) = e.key
  <2>1. CASE q = p
    BY <1>3, <1>6, <2>1
  <2>2. CASE q # p
    <3>1. Recs(q)' = Recs(q)
      BY <1>6, <1>7, <2>2
    <3>2. Recs(q)[i].ptr \in DOMAIN pages /\ Recs(q)[i].ptr # rootLocation
      BY <1>7, <3>1 DEF Pointing
    <3>3. UpTo(Recs(q)[i].ptr, Recs(q)[i].key)
      BY <3>1 DEF KeysBounded
    <3>4. Recs(q)[i].ptr \in Directories => TopKey(Recs(q)[i].ptr) = Recs(q)[i].key
      BY <3>1 DEF Topped
    <3>5. Recs(q)[i].key \in Int
      BY <3>1, OnPages
    <3> QED BY <3>1, <3>2, <3>3, <3>4, <3>5
  <2> QED BY <2>1, <2>2
<1>10. TypeOK'
  <2>1. ASSUME NEW q \in DOMAIN pages
        PROVE  Len(Recs(q)') <= IF IsLeaf(q)' THEN LeafCapacity ELSE DirCapacity
    <3>1. CASE q = p
      <4>1. Len(Recs(p)) < DirCapacity
        BY <1>2, <1>3 DEF HasRoom
      <4> QED BY <1>1, <1>3, <1>6, <3>1, <4>1, ConstantsAssumption, OnPages
    <3>2. CASE q # p
      BY <1>6, <3>2 DEF TypeOK
    <3> QED BY <3>1, <3>2
  <2>2. DOMAIN pages' = 0 .. lastPage'
    BY <1>4 DEF TypeOK, lastPage
  <2>3. \A q \in DOMAIN pages' : pages'[q] \in Page
    BY <1>4, <1>5 DEF TypeOK
  <2> QED BY <1>2, <1>4, <2>1, <2>2, <2>3 DEF TypeOK
<1>11. Numbered'
  BY <1>4 DEF Numbered
<1>12. Pointing'
  <2>1. rootLocation' \in Directories'
    BY <1>2, <1>7 DEF Pointing
  <2>2. \A q \in Directories' : \A i \in 1 .. Len(Recs(q)') : Recs(q)'[i].ptr \in DOMAIN pages' \ Rootless'
    BY <1>4, <1>7, <1>9
  <2>3. newKey'.ptr \in DOMAIN pages' /\ pc' # "split"
    BY <1>2, <1>4 DEF Pointing
  <2> QED BY <2>1, <2>2, <2>3 DEF Pointing
<1>13. OneEntry'
  <2>1. ASSUME NEW q \in Directories, NEW u \in Directories,
               NEW i \in 1 .. Len(Recs(q)'), NEW j \in 1 .. Len(Recs(u)'),
               Recs(q)'[i].ptr = Recs(u)'[j].ptr
        PROVE  q = u /\ i = j
    <3>1. CASE q = p /\ u = p
      BY <1>3, <1>6, <2>1, <3>1
    <3>2. CASE q = p /\ u # p
      BY <1>3, <1>6, <1>7, <2>1, <3>2
    <3>3. CASE q # p /\ u = p
      BY <1>3, <1>6, <1>7, <2>1, <3>3
    <3>4. CASE q # p /\ u # p
      BY <1>6, <1>7, <2>1, <3>4 DEF OneEntry
    <3> QED BY <3>1, <3>2, <3>3, <3>4
  <2>2. ASSUME NEW c \in DOMAIN pages, c # rootLocation
        PROVE  \E q \in Directories : \E i \in 1 .. Len(Recs(q)') : Recs(q)'[i].ptr = c
    <3>1. CASE c = newKey.ptr
      BY <1>3, <1>6, <3>1
    <3>2. CASE c # newKey.ptr
      <4>1. PICK q \in Directories : \E i \in 1 .. Len(Recs(q)) : Recs(q)[i].ptr = c
        BY <1>7, <2>2, <3>2 DEF OneEntry
      <4>2. CASE q = p
        <5>1. PICK i \in 1 .. Len(Recs(p)) : Recs(p)[i].ptr = c
          BY <4>1, <4>2
        <5>2. PICK m \in 1 .. n : all[m] = Recs(p)[i]
          BY <1>3
        <5> QED BY <1>3, <1>6, <5>1, <5>2, ZenonT(60)
      <4>3. CASE q # p
        BY <1>6, <1>7, <4>1, <4>3
      <4> QED BY <4>2, <4>3
    <3> QED BY <3>1, <3>2
  <2>3. \A q, u \in Directories' : \A i \in 1 .. Len(Recs(q)'), j \in 1 .. Len(Recs(u)') :
           Recs(q)'[i].ptr = Recs(u)'[j].ptr => q = u /\ i = j
    BY <1>7, <2>1
  <2>4. \A c \in DOMAIN pages' \ Rootless' :
           \E q \in Directories' : \E i \in 1 .. Len(Recs(q)') : Recs(q)'[i].ptr = c
    BY <1>4, <1>7, <2>2
  <2> QED BY <2>3, <2>4 DEF OneEntry
<1>14. KeysBounded'
  <2>1. ASSUME NEW q \in Directories, NEW i \in 1 .. Len(Recs(q)')
        PROVE  UpTo(Recs(q)[i].ptr, Recs(q)[i].key)'
    <3>1. PICK c, b : c = Recs(q)'[i].ptr /\ b = Recs(q)'[i].key
      OBVIOUS
    <3>2. UpTo(c, b)'
      BY <1>4, <1>8, <1>9, <3>1 DEF TargetKept
    <3> QED BY <3>1, <3>2 DEF UpTo, Recs
  <2>2. \A q \in Directories' : \A i \in 1 .. Len(Recs(q)') : UpTo(Recs(q)[i].ptr, Recs(q)[i].key)'
    BY <1>7, <2>1
  <2>3. \A q \in Directories' : \A i, j \in 1 .. Len(Recs(q)') : i < j => Recs(q)'[i].key <= Recs(q)'[j].key
    <3> SUFFICES ASSUME NEW q \in Directories, NEW i \in 1 .. Len(Recs(q)'), NEW j \in 1 .. Len(Recs(q)'), i < j
                 PROVE  Recs(q)'[i].key <= Recs(q)'[j].key
      BY <1>7
    <3>1. CASE q = p
      BY <1>3, <1>6, <3>1
    <3>2. CASE q # p
      BY <1>6, <1>7, <3>2 DEF KeysBounded
    <3> QED BY <3>1, <3>2
  <2>4. pc' # "split"
    BY <1>2
  <2> QED BY <2>2, <2>3, <2>4 DEF KeysBounded, UpTo, Recs
<1>15. Topped'
  <2>1. TopKey(rootLocation)' = MaxKey
    <3>1. PICK r : r = rootLocation
      OBVIOUS
    <3>2. TopKey(r)' = MaxKey
      BY <1>8, <3>1 DEF TargetKept, Topped, Pointing
    <3> QED BY <1>2, <3>1, <3>2 DEF TopKey, Recs
  <2>2. \A q \in Directories' : \A i \in 1 .. Len(Recs(q)') :
           Recs(q)'[i].ptr \in Directories' => TopKey(Recs(q)[i].ptr)' = Recs(q)'[i].key
    <3> SUFFICES ASSUME NEW q \in Directories, NEW i \in 1 .. Len(Recs(q)'),
                        Recs(q)'[i].ptr \in Directories
                 PROVE  TopKey(Recs(q)[i].ptr)' = Recs(q)'[i].key
      BY <1>7
    <3>1. PICK c : c = Recs(q)'[i].ptr
      OBVIOUS
    <3>2. TopKey(c)' = Recs(q)'[i].key
      BY <1>8, <1>9, <3>1 DEF TargetKept
    <3> QED BY <3>1, <3>2 DEF TopKey, Recs
  <2>3. pc' # "split"
    BY <1>2
  <2> QED BY <2>1, <2>2, <2>3 DEF Topped
<1>16. NotEmpty'
  BY <1>2, <1>3, <1>4, <1>8 DEF TargetKept, NotEmpty
(* The pages below the target stay below it, and those below the entry.    *)
<1>17. /\ \A q \in DOMAIN pages : Children(q) \subseteq Children(q)'
       /\ newKey.ptr \in Children(p)'
  <2>1. ASSUME NEW q \in DOMAIN pages
        PROVE  Children(q) \subseteq Children(q)'
    <3>1. CASE q # p
      BY <1>6, <3>1 DEF Children
    <3>2. CASE q = p
      <4> SUFFICES ASSUME NEW c \in Children(p)
                   PROVE  c \in Children(p)'
        BY <3>2
      <4>2. PICK i \in 1 .. Len(Recs(p)) : Recs(p)[i].ptr = c
        BY <1>3 DEF Children
      <4>1. PICK m \in 1 .. n : all[m] = Recs(p)[i]
        BY <1>3
      <4> QED BY <1>3, <1>6, <4>1, <4>2 DEF Children
    <3> QED BY <3>1, <3>2
  <2>2. newKey.ptr \in Children(p)'
    BY <1>3, <1>6 DEF Children
  <2> QED BY <2>1, <2>2
<1>18. AllReached'
  <2>1. ASSUME NEW S \in SUBSET DOMAIN pages', Rootless' \subseteq S, Closed(S)'
        PROVE  S = DOMAIN pages'
    <3>1. \A q \in S : Children(q)' \subseteq S
      BY <2>1 DEF Closed
    <3>2. Closed(S)
      BY <1>4, <1>17, <3>1 DEF Closed
    <3>3. p \in S
      BY <1>1, <1>2, <1>4, <1>7, <2>1, <3>2 DEF GoingUp, Reached
    <3>4. newKey.ptr \in S
      BY <1>17, <3>1, <3>3
    <3> QED BY <1>4, <1>7, <2>1, <3>2, <3>4 DEF AllReached
  <2> QED BY <2>1 DEF AllReached
<1>19. GoingDown' /\ GoingUp'
  BY <1>2 DEF GoingDown, GoingUp
<1> QED
  BY <1>8, <1>10, <1>11, <1>12, <1>13, <1>14, <1>15, <1>16, <1>18, <1>19 DEF TargetKept

(* A split of the target p: all are its entries and the new one, h of them *)
(* go to the page new.  Another page may be added above, the new root.     *)
Splits(p, all, n, h, new) ==
    /\ p = target /\ ~ HasRoom(p) /\ all = Together(p, newKey) /\ n = Len(Recs(p)) + 1
    /\ h = Half(n) /\ new = lastPage + 1
    /\ DOMAIN pages \cup {new} \subseteq DOMAIN pages'
    /\ \A q \in DOMAIN pages \cup {new} : pages'[q] = Halved(p, all)[q]
    /\ \A q \in DOMAIN pages' \ (DOMAIN pages \cup {new}) : ~ IsLeaf(q)'
    /\ stored' = stored

(* The two halves and what holds of the pages there were.                  *)
SplitDone(p, all, n, h, new) ==
    /\ p \in Directories /\ p \in DOMAIN pages /\ ~ IsLeaf(p) /\ stored # {}
    /\ n \in Nat /\ n = DirCapacity + 1 /\ h \in 1 .. n - 1 /\ Len(all) = n
    /\ all[h] \in Entry /\ all[h].key \in Int /\ all[h].key <= TopKey(p)
    /\ new \in Nat /\ new \notin DOMAIN pages /\ DOMAIN pages = 0 .. new - 1
    /\ \A q \in DOMAIN pages \cup {new} : pages'[q] \in Page
    /\ Recs(new)' # << >>
    /\ \A q \in DOMAIN pages : IsLeaf(q)' = IsLeaf(q)
    /\ ~ IsLeaf(new)' /\ Leaves' = Leaves
    /\ \A q \in DOMAIN pages \ {p} : Recs(q)' = Recs(q)
    /\ Len(Recs(p)') = n - h /\ \A i \in 1 .. n - h : Recs(p)'[i] = all[h + i] /\ h + i \in 1 .. n
    /\ Len(Recs(new)') = h /\ \A i \in 1 .. h : Recs(new)'[i] = all[i] /\ i \in 1 .. n
    /\ Len(Recs(p)') < DirCapacity /\ Len(Recs(new)') < DirCapacity
    /\ TargetKept
    /\ UpTo(new, all[h].key)' /\ TopKey(new)' = all[h].key

(* The pages after the split of a full directory page: two that are within *)
(* their capacity and in order, and lead to what the one led to.           *)
LEMMA SplitPages ==
    ASSUME IInv, pc = "split", NEW p, NEW all, NEW n, NEW h, NEW new, Splits(p, all, n, h, new)
    PROVE  SplitDone(p, all, n, h, new)
<1> USE DEF IInv, Splits
<1>1. /\ p \in Directories /\ p \in DOMAIN pages /\ ~ IsLeaf(p) /\ stored # {}
      /\ all \in Seq(Entry) /\ Len(all) = n /\ n \in Nat /\ n >= 2 /\ n <= DirCapacity + 1
      /\ \A m \in 1 .. n : all[m] \in Entry /\ all[m].key \in Int
      /\ \A i, j \in 1 .. n : i < j => all[i].key <= all[j].key
      /\ all[n].key = TopKey(p)
  BY EntriesJoined
<1>2. n = DirCapacity + 1 /\ DirCapacity \in Nat /\ DirCapacity >= 3
  BY <1>1, ConstantsAssumption, OnPages DEF HasRoom
<1>3. /\ h \in 1 .. n - 1 /\ 2 * h >= n - 1 /\ 2 * h <= n
      /\ UpperHalf(all) \in Seq(Entry) /\ Len(UpperHalf(all)) = n - h
      /\ \A i \in 1 .. n - h : UpperHalf(all)[i] = all[h + i]
      /\ LowerHalf(all) \in Seq(Entry) /\ Len(LowerHalf(all)) = h
      /\ \A i \in 1 .. h : LowerHalf(all)[i] = all[i]
  <2>1. all \in Seq(Entry) /\ Len(all) >= 2 /\ n = Len(all) /\ h = Half(Len(all))
    BY <1>1
  <2> HIDE DEF IInv
  <2>2. HalvesOf(all, Entry, Len(all), Half(Len(all)))
    BY <2>1, Halves
  <2> QED BY <2>1, <2>2 DEF HalvesOf
<1>4. new \in Nat /\ new \notin DOMAIN pages /\ DOMAIN pages = 0 .. new - 1
  BY LastPage
<1>5. /\ \A q \in DOMAIN pages \cup {new} : pages'[q] \in Page
      /\ pages'[p].type = pages[p].type /\ pages'[p].recs = UpperHalf(all)
      /\ pages'[new].type = pages[p].type /\ pages'[new].recs = LowerHalf(all)
      /\ \A q \in DOMAIN pages \ {p} : pages'[q] = pages[q]
  <2>1. TypeOK /\ Numbered /\ Len(all) >= 2
    BY <1>1
  <2>2. DOMAIN Halved(p, all) = DOMAIN pages \cup {new}
    BY <1>4 DEF Halved
  <2> HIDE DEF IInv
  <2>3. /\ \A q \in DOMAIN Halved(p, all) : Halved(p, all)[q] \in Page
        /\ Halved(p, all)[p].type = pages[p].type /\ Halved(p, all)[p].recs = UpperHalf(all)
        /\ Halved(p, all)[new].type = pages[p].type /\ Halved(p, all)[new].recs = LowerHalf(all)
        /\ \A q \in DOMAIN pages \ {p} : Halved(p, all)[q] = pages[q]
    BY <1>1, <2>1, HalvedPages
  <2> QED BY <1>1, <2>2, <2>3
<1>6. /\ \A q \in DOMAIN pages : IsLeaf(q)' = IsLeaf(q)
      /\ ~ IsLeaf(new)'
      /\ \A q \in DOMAIN pages \ {p} : Recs(q)' = Recs(q)
      /\ Recs(p)' = UpperHalf(all) /\ Recs(new)' = LowerHalf(all)
  BY <1>1, <1>5 DEF IsLeaf, Recs
<1>7. /\ Len(Recs(p)') = n - h /\ \A i \in 1 .. n - h : Recs(p)'[i] = all[h + i] /\ h + i \in 1 .. n
      /\ Len(Recs(new)') = h /\ \A i \in 1 .. h : Recs(new)'[i] = all[i] /\ i \in 1 .. n
      /\ Len(Recs(p)') < DirCapacity /\ Len(Recs(new)') < DirCapacity
  <2>1. \A i \in 1 .. n - h : h + i \in 1 .. n
    BY <1>1, <1>3
  <2>2. \A i \in 1 .. h : i \in 1 .. n
    BY <1>1, <1>3
  <2>3. n - h < DirCapacity /\ h < DirCapacity
    BY <1>2, <1>3
  <2> QED BY <1>3, <1>6, <2>1, <2>2, <2>3
<1>8. Leaves' = Leaves
  BY <1>6 DEF Leaves
<1>9. TargetKept
  <2>1. h \in 0 .. n - 1 /\ \A i \in 1 .. n - h : Recs(p)'[i] = all[h + i]
    BY <1>1, <1>3, <1>7
  <2>2. Rewrites(p, all, n, h)
    BY <1>6, <1>7, <1>8, <2>1 DEF Rewrites
  <2> HIDE DEF IInv
  <2> QED BY <2>2, TargetRewritten
<1>10. Recs(new)' # << >>
  <2>1. Len(Recs(new)') # 0
    BY <1>3, <1>7
  <2> QED BY <2>1
<1>11. h \in 1 .. n /\ \A i \in 1 .. h : all[i].key <= all[h].key
  <2>1. h \in 1 .. n
    BY <1>1, <1>3
  <2>2. \A i \in 1 .. h : i \in 1 .. n /\ (i < h \/ i = h)
    BY <1>1, <1>3
  <2> QED BY <1>1, <2>1, <2>2
<1>12. UpTo(new, all[h].key)'
  <2>1. \A i \in 1 .. Len(Recs(new)') : Recs(new)'[i].key <= all[h].key
    BY <1>7, <1>11
  <2> QED BY <2>1 DEF UpTo
<1>13. TopKey(new)' = all[h].key
  <2>1. h \in 1 .. h /\ Len(Recs(new)') = h
    BY <1>3, <1>7
  <2>2. Recs(new)'[h] = all[h]
    BY <1>7, <2>1
  <2> QED BY <2>1, <2>2 DEF TopKey
<1>14. all[h].key <= TopKey(p)
  <2>1. n \in 1 .. n /\ h < n
    BY <1>1, <1>3
  <2> QED BY <1>1, <1>11, <2>1
<1> HIDE DEF IInv, Splits
<1> QED
  BY <1>1, <1>2, <1>3, <1>4, <1>5, <1>6, <1>7, <1>8, <1>9, <1>10, <1>11, <1>12, <1>13, <1>14 DEF SplitDone

(* The entries after a split, those of the page new included: none is lost *)
(* and none is in two places, the target is still reached, and so is every *)
(* page once new is.                                                       *)
SplitTree(p, new) ==
    LET both == Directories \cup {new} IN
    /\ \A q \in both : \A i \in 1 .. Len(Recs(q)') :
          /\ Recs(q)'[i].ptr \in DOMAIN pages /\ Recs(q)'[i].ptr # rootLocation
          /\ Recs(q)'[i].key \in Int
          /\ UpTo(Recs(q)'[i].ptr, Recs(q)'[i].key)
          /\ Recs(q)'[i].ptr \in Directories => TopKey(Recs(q)'[i].ptr) = Recs(q)'[i].key
    /\ \A q \in both : \A i, j \in 1 .. Len(Recs(q)') : i < j => Recs(q)'[i].key <= Recs(q)'[j].key
    /\ \A q, u \in both : \A i \in 1 .. Len(Recs(q)'), j \in 1 .. Len(Recs(u)') :
          Recs(q)'[i].ptr = Recs(u)'[j].ptr => q = u /\ i = j
    /\ \A c \in DOMAIN pages \ {rootLocation} :
          \E q \in both : \E i \in 1 .. Len(Recs(q)') : Recs(q)'[i].ptr = c
    /\ \A S \in SUBSET DOMAIN pages' :
          rootLocation \in S /\ (\A q \in S : q \in DOMAIN pages \cup {new} => Children(q)' \subseteq S) =>
             p \in S /\ (new \in S => DOMAIN pages \subseteq S)

(* The tree after the split: every page but the new one still has its one  *)
(* entry, and a walk from the root still comes by all of them.             *)
LEMMA SplitEntries ==
    ASSUME IInv, pc = "split", NEW p, NEW all, NEW n, NEW h, NEW new, Splits(p, all, n, h, new)
    PROVE  SplitTree(p, new)
<1> DEFINE both == Directories \cup {new}
<1>1. /\ p \in Directories /\ p \in DOMAIN pages /\ ~ IsLeaf(p)
      /\ n \in Nat /\ h \in 1 .. n - 1 /\ new \notin DOMAIN pages
      /\ \A q \in DOMAIN pages : IsLeaf(q)' = IsLeaf(q)
      /\ ~ IsLeaf(new)'
      /\ \A q \in DOMAIN pages \ {p} : Recs(q)' = Recs(q)
      /\ Len(Recs(p)') = n - h /\ \A i \in 1 .. n - h : Recs(p)'[i] = all[h + i] /\ h + i \in 1 .. n
      /\ Len(Recs(new)') = h /\ \A i \in 1 .. h : Recs(new)'[i] = all[i] /\ i \in 1 .. n
  BY SplitPages DEF SplitDone
<1>2. /\ \A m \in 1 .. n : all[m] \in Entry /\ all[m].key \in Int
      /\ \A i, j \in 1 .. n : i < j => all[i].key <= all[j].key
      /\ \A i \in 1 .. Len(Recs(p)) : \E m \in 1 .. n : all[m] = Recs(p)[i]
      /\ \E m \in 1 .. n : all[m] = newKey
      /\ \A a, b \in 1 .. n : all[a].ptr = all[b].ptr => a = b
      /\ \A a \in 1 .. n : \A q \in Directories : \A j \in 1 .. Len(Recs(q)) :
            all[a].ptr = Recs(q)[j].ptr => q = p
      /\ \A a \in 1 .. n : all[a].ptr \in DOMAIN pages /\ all[a].ptr # rootLocation
      /\ \A a \in 1 .. n : UpTo(all[a].ptr, all[a].key)
      /\ \A a \in 1 .. n : all[a].ptr \in Directories => TopKey(all[a].ptr) = all[a].key
  BY EntriesJoined DEF Splits
<1>3. /\ Directories \subseteq DOMAIN pages /\ new \notin Directories /\ p # new
      /\ Rootless = {rootLocation, newKey.ptr}
  BY <1>1 DEF Directories, Rootless
(* Where an entry was.                                                     *)
<1>4. ASSUME NEW q \in both, NEW i \in 1 .. Len(Recs(q)')
      PROVE  /\ q = p => Recs(q)'[i] = all[h + i] /\ h + i \in 1 .. n
             /\ q = new => Recs(q)'[i] = all[i] /\ i \in 1 .. n /\ i <= h
             /\ q \notin {p, new} => /\ q \in Directories /\ Recs(q)' = Recs(q)
                                     /\ i \in 1 .. Len(Recs(q)) /\ Recs(q)'[i] = Recs(q)[i]
  <2>1. CASE q = p
    BY <1>1, <1>3, <2>1
  <2>2. CASE q = new
    BY <1>1, <1>3, <2>2
  <2>3. CASE q \notin {p, new}
    BY <1>1, <1>3, <2>3
  <2> QED BY <2>1, <2>2, <2>3
(* Where an entry is.                                                      *)
<1>5. ASSUME NEW m \in 1 .. n
      PROVE  \E q \in {p, new} : \E i \in 1 .. Len(Recs(q)') : Recs(q)'[i] = all[m]
  <2>1. CASE m <= h
    <3>1. m \in 1 .. h
      BY <2>1
    <3>2. m \in 1 .. Len(Recs(new)') /\ Recs(new)'[m] = all[m]
      BY <1>1, <3>1
    <3> QED BY <3>2
  <2>2. CASE m > h
    <3>1. m - h \in 1 .. n - h /\ h + (m - h) = m
      BY <1>1, <2>2
    <3>2. m - h \in 1 .. Len(Recs(p)') /\ Recs(p)'[m - h] = all[m]
      BY <1>1, <3>1
    <3> QED BY <3>2
  <2> QED BY <1>1, <2>1, <2>2
<1>6. ASSUME NEW q \in both, NEW i \in 1 .. Len(Recs(q)')
      PROVE  /\ Recs(q)'[i].ptr \in DOMAIN pages /\ Recs(q)'[i].ptr # rootLocation
             /\ Recs(q)'[i].key \in Int
             /\ UpTo(Recs(q)'[i].ptr, Recs(q)'[i].key)
             /\ Recs(q)'[i].ptr \in Directories => TopKey(Recs(q)'[i].ptr) = Recs(q)'[i].key
  <2>1. CASE q \in {p, new}
    BY <1>2, <1>4, <2>1
  <2>2. CASE q \notin {p, new}
    <3>1. q \in Directories /\ i \in 1 .. Len(Recs(q)) /\ Recs(q)'[i] = Recs(q)[i]
      BY <1>4, <2>2
    <3>2. Recs(q)[i].ptr \in DOMAIN pages /\ Recs(q)[i].ptr # rootLocation
      BY <1>3, <3>1 DEF IInv, Pointing
    <3>3. UpTo(Recs(q)[i].ptr, Recs(q)[i].key)
      BY <3>1 DEF IInv, KeysBounded
    <3>4. Recs(q)[i].ptr \in Directories => TopKey(Recs(q)[i].ptr) = Recs(q)[i].key
      BY <3>1 DEF IInv, Topped
    <3>5. Recs(q)[i].key \in Int
      BY <3>1, OnPages DEF IInv
    <3> QED BY <3>1, <3>2, <3>3, <3>4, <3>5
  <2> QED BY <2>1, <2>2
<1>7. ASSUME NEW q \in both, NEW i \in 1 .. Len(Recs(q)'), NEW j \in 1 .. Len(Recs(q)'), i < j
      PROVE  Recs(q)'[i].key <= Recs(q)'[j].key
  <2>1. CASE q = p
    <3>1. h + i < h + j
      BY <1>1, <1>7, <2>1
    <3> QED BY <1>2, <1>4, <2>1, <3>1
  <2>2. CASE q = new
    BY <1>2, <1>4, <1>7, <2>2
  <2>3. CASE q \notin {p, new}
    BY <1>4, <1>7, <2>3 DEF IInv, KeysBounded
  <2> QED BY <2>1, <2>2, <2>3
<1>8. ASSUME NEW q \in both, NEW u \in both,
             NEW i \in 1 .. Len(Recs(q)'), NEW j \in 1 .. Len(Recs(u)'),
             Recs(q)'[i].ptr = Recs(u)'[j].ptr
      PROVE  q = u /\ i = j
  <2>1. CASE q \in {p, new} /\ u \in {p, new}
    <3>1. i \in Int /\ j \in Int /\ h \in Int
      BY <1>1, <2>1
    <3>2. /\ q = p => Recs(q)'[i] = all[h + i] /\ h + i \in 1 .. n
          /\ q = new => Recs(q)'[i] = all[i] /\ i \in 1 .. n /\ i <= h
          /\ u = p => Recs(u)'[j] = all[h + j] /\ h + j \in 1 .. n
          /\ u = new => Recs(u)'[j] = all[j] /\ j \in 1 .. n /\ j <= h
          /\ i >= 1 /\ j >= 1
      BY <1>1, <1>4, <2>1
    <3>3. \A a, b \in 1 .. n : all[a].ptr = all[b].ptr => a = b
      BY <1>2
    <3>4. CASE q = p /\ u = p
      BY <1>8, <3>1, <3>2, <3>3, <3>4
    <3>5. CASE q = new /\ u = new
      BY <1>8, <3>1, <3>2, <3>3, <3>5
    <3>6. CASE q = p /\ u = new
      BY <1>8, <3>1, <3>2, <3>3, <3>6
    <3>7. CASE q = new /\ u = p
      BY <1>8, <3>1, <3>2, <3>3, <3>7
    <3> QED BY <2>1, <3>4, <3>5, <3>6, <3>7
  <2>2. CASE q \in {p, new} /\ u \notin {p, new}
    BY <1>2, <1>4, <1>8, <2>2
  <2>3. CASE q \notin {p, new} /\ u \in {p, new}
    BY <1>2, <1>4, <1>8, <2>3
  <2>4. CASE q \notin {p, new} /\ u \notin {p, new}
    BY <1>4, <1>8, <2>4 DEF IInv, OneEntry
  <2> QED BY <2>1, <2>2, <2>3, <2>4
<1>9. ASSUME NEW q \in Directories, NEW i \in 1 .. Len(Recs(q))
      PROVE  \E u \in both : \E j \in 1 .. Len(Recs(u)') : Recs(u)'[j] = Recs(q)[i]
  <2>1. CASE q = p
    BY <1>1, <1>2, <1>5, <2>1
  <2>2. CASE q # p
    BY <1>1, <1>3, <2>2
  <2> QED BY <2>1, <2>2
<1>10. \E u \in both : \E j \in 1 .. Len(Recs(u)') : Recs(u)'[j] = newKey
  <2>1. PICK m \in 1 .. n : all[m] = newKey
    BY <1>2
  <2>2. PICK u \in {p, new} : \E j \in 1 .. Len(Recs(u)') : Recs(u)'[j] = all[m]
    BY <1>5
  <2>3. u \in both
    BY <1>1
  <2> QED BY <2>1, <2>2, <2>3
<1>11. ASSUME NEW c \in DOMAIN pages \ {rootLocation}
       PROVE  \E u \in both : \E j \in 1 .. Len(Recs(u)') : Recs(u)'[j].ptr = c
  <2>1. CASE c = newKey.ptr
    BY <1>10, <2>1
  <2>2. CASE c # newKey.ptr
    <3>1. PICK q \in Directories : \E i \in 1 .. Len(Recs(q)) : Recs(q)[i].ptr = c
      BY <1>3, <2>2 DEF IInv, OneEntry
    <3> QED BY <1>9, <3>1
  <2> QED BY <2>1, <2>2
<1>12. ASSUME NEW S \in SUBSET DOMAIN pages', rootLocation \in S,
              \A q \in S : q \in DOMAIN pages \cup {new} => Children(q)' \subseteq S
       PROVE  p \in S /\ (new \in S => DOMAIN pages \subseteq S)
  <2> DEFINE old == S \cap DOMAIN pages
  <2>1. rootLocation \in old
    BY <1>12 DEF IInv, Pointing, Directories
  <2>2. \A q \in DOMAIN pages : q # p => Children(q)' = Children(q)
    <3> TAKE q \in DOMAIN pages
    <3> HAVE q # p
    <3>1. IsLeaf(q)' = IsLeaf(q) /\ Recs(q)' = Recs(q)
      BY <1>1
    <3> QED BY <3>1 DEF Children
  <2>3. \A q \in DOMAIN pages : Children(q) \subseteq DOMAIN pages
    BY DEF IInv, Pointing, Children, Directories
  <2>4. p \in S
    <3>1. SUFFICES ASSUME p \notin S PROVE FALSE
      OBVIOUS
    <3>2. Closed(old)
      BY <1>12, <2>2, <2>3, <3>1 DEF Closed
    <3>3. p \in old
      BY <2>1, <3>2 DEF IInv, GoingUp, Reached, Splits
    <3> QED BY <3>1, <3>3
  <2>5. ASSUME new \in S
        PROVE  DOMAIN pages \subseteq S
    <3>1. \A m \in 1 .. n : all[m].ptr \in S
      <4> TAKE m \in 1 .. n
      <4>1. PICK q \in {p, new} : \E i \in 1 .. Len(Recs(q)') : Recs(q)'[i] = all[m]
        BY <1>5
      <4>2. ~ IsLeaf(q)' /\ Children(q)' \subseteq S
        BY <1>1, <1>12, <2>4, <2>5, <4>1
      <4> QED BY <4>1, <4>2 DEF Children
    <3>2. newKey.ptr \in old
      BY <1>2, <3>1
    <3>3. Children(p) \subseteq S
      <4> SUFFICES ASSUME NEW c \in Children(p)
                   PROVE  c \in S
        OBVIOUS
      <4>1. PICK i \in 1 .. Len(Recs(p)) : Recs(p)[i].ptr = c
        BY <1>1 DEF Children
      <4> QED BY <1>2, <3>1, <4>1
    <3>4. Closed(old)
      BY <1>12, <2>2, <2>3, <3>3 DEF Closed
    <3>5. old = DOMAIN pages
      BY <1>3, <2>1, <3>2, <3>4 DEF IInv, AllReached
    <3> QED BY <3>5
  <2> QED BY <2>4, <2>5
<1> QED
  BY <1>6, <1>7, <1>8, <1>11, <1>12 DEF SplitTree

(* A full directory page is split and the entry for its lower half goes    *)
(* up.                                                                     *)
LEMMA SplitDirectoryKeeps ==
    ASSUME IInv, SplitDirectory
    PROVE  IInv'
<1>1. PICK p, all, n, h, new :
          /\ p = target /\ all = Together(p, newKey)
          /\ n = Len(Recs(p)) + 1 /\ h = Half(n) /\ new = lastPage + 1
  OBVIOUS
<1>2. /\ pc = "split" /\ pc' = "split" /\ ~ HasRoom(p) /\ Len(internalStack) > 1
      /\ pages' = Halved(p, all) /\ newKey' = EntryOfLower(all)
      /\ target' = Last(internalStack) /\ internalStack' = Front(internalStack)
      /\ UNCHANGED <<rootLocation, appendMe, stored>>
  BY <1>1 DEF SplitDirectory
<1>3. /\ new \in Nat /\ new \notin DOMAIN pages /\ DOMAIN pages = 0 .. new - 1
      /\ DOMAIN pages' = DOMAIN pages \cup {new} /\ DOMAIN pages' = 0 .. new
  <2>1. /\ new \in Nat /\ new \notin DOMAIN pages /\ DOMAIN pages = 0 .. new - 1
        /\ 0 .. new = DOMAIN pages \cup {new}
    BY <1>1, LastPage DEF IInv
  <2>2. DOMAIN pages' = 0 .. new
    BY <1>1, <1>2 DEF Halved
  <2> QED BY <2>1, <2>2
<1>4. Splits(p, all, n, h, new)
  BY <1>1, <1>2, <1>3 DEF Splits
<1>5. /\ p \in Directories /\ p \in DOMAIN pages /\ ~ IsLeaf(p) /\ stored # {}
      /\ n \in Nat /\ n = DirCapacity + 1 /\ h \in 1 .. n - 1 /\ Len(all) = n
      /\ all[h] \in Entry /\ all[h].key \in Int /\ all[h].key <= TopKey(p)
      /\ \A q \in DOMAIN pages \cup {new} : pages'[q] \in Page
      /\ Recs(new)' # << >>
      /\ \A q \in DOMAIN pages : IsLeaf(q)' = IsLeaf(q)
      /\ ~ IsLeaf(new)'
      /\ \A q \in DOMAIN pages \ {p} : Recs(q)' = Recs(q)
      /\ Len(Recs(p)') < DirCapacity /\ Len(Recs(new)') < DirCapacity
      /\ Len(Recs(p)') = n - h /\ Len(Recs(new)') = h
      /\ TargetKept
      /\ UpTo(new, all[h].key)' /\ TopKey(new)' = all[h].key
  BY <1>2, <1>4, SplitPages DEF SplitDone
<1>6. SplitTree(p, new)
  BY <1>2, <1>4, SplitEntries
<1>7. newKey' = [key |-> all[h].key, ptr |-> new] /\ newKey'.key = all[h].key /\ newKey'.ptr = new
  BY <1>1, <1>2, <1>5 DEF EntryOfLower
<1>8. /\ Directories' = Directories \cup {new} /\ Directories \subseteq DOMAIN pages
      /\ rootLocation \in Directories /\ Rootless' = {rootLocation, new}
  BY <1>2, <1>3, <1>5, <1>7 DEF Directories, Rootless, IInv, Pointing
<1>9. TypeOK'
  <2>1. ASSUME NEW q \in DOMAIN pages'
        PROVE  Len(Recs(q)') <= IF IsLeaf(q)' THEN LeafCapacity ELSE DirCapacity
    <3>1. CASE q \in {p, new}
      <4>1. ~ IsLeaf(q)' /\ Len(Recs(q)') < DirCapacity /\ Len(Recs(q)') \in Int
        BY <1>5, <3>1
      <4> QED BY <4>1, ConstantsAssumption
    <3>2. CASE q \notin {p, new}
      <4>1. q \in DOMAIN pages /\ Recs(q)' = Recs(q) /\ IsLeaf(q)' = IsLeaf(q)
        BY <1>3, <1>5, <3>2
      <4> QED BY <4>1 DEF IInv, TypeOK
    <3> QED BY <3>1, <3>2
  <2>2. DOMAIN pages' = 0 .. lastPage'
    <3>1. IsFiniteSet(0 .. new) /\ Cardinality(0 .. new) = new + 1
      BY <1>3, FS_Interval
    <3>2. lastPage' = new
      BY <1>3, <3>1 DEF lastPage
    <3> QED BY <1>3, <3>2
  <2>3. newKey' \in Entry
    BY <1>3, <1>5, <1>7 DEF Entry
  <2>4. rootLocation' \in DOMAIN pages'
    BY <1>2, <1>3, <1>8
  <2>5. /\ appendMe' \in [key : Keys \cup {MaxKey}, id : 0 .. MaxRecords]
        /\ stored' \subseteq Record
    BY <1>2 DEF IInv, TypeOK
  <2>6. \A q \in DOMAIN pages' : pages'[q] \in Page
    BY <1>3, <1>5
  <2>7. internalStack' \in Seq(DOMAIN pages') /\ target' \in DOMAIN pages'
    <3>1. internalStack \in Seq(DOMAIN pages) /\ internalStack # << >>
      BY <1>2 DEF IInv, TypeOK, GoingUp
    <3>2. internalStack \in Seq(DOMAIN pages')
      BY <1>3, <3>1
    <3> QED BY <1>2, <3>1, <3>2, HeadAndTail DEF Front, Last
  <2> QED BY <1>2, <2>1, <2>2, <2>3, <2>4, <2>5, <2>6, <2>7 DEF TypeOK
<1>10. Numbered'
  BY <1>3 DEF Numbered
<1>11. Pointing'
  <2>1. \A q \in Directories' : \A i \in 1 .. Len(Recs(q)') : Recs(q)'[i].ptr \in DOMAIN pages' \ Rootless'
    BY <1>3, <1>6, <1>8 DEF SplitTree
  <2>2. rootLocation' \in Directories' /\ newKey'.ptr \in DOMAIN pages' /\ newKey'.ptr # rootLocation'
    BY <1>2, <1>3, <1>7, <1>8
  <2> QED BY <2>1, <2>2 DEF Pointing
<1>12. OneEntry'
  <2>1. \A q, u \in Directories' : \A i \in 1 .. Len(Recs(q)'), j \in 1 .. Len(Recs(u)') :
           Recs(q)'[i].ptr = Recs(u)'[j].ptr => q = u /\ i = j
    BY <1>6, <1>8 DEF SplitTree
  <2>2. \A c \in DOMAIN pages' \ Rootless' :
           \E q \in Directories' : \E i \in 1 .. Len(Recs(q)') : Recs(q)'[i].ptr = c
    BY <1>3, <1>6, <1>8 DEF SplitTree
  <2> QED BY <2>1, <2>2 DEF OneEntry
<1>13. KeysBounded'
  <2>1. ASSUME NEW q \in Directories', NEW i \in 1 .. Len(Recs(q)')
        PROVE  UpTo(Recs(q)[i].ptr, Recs(q)[i].key)'
    <3>1. PICK c, b : c = Recs(q)'[i].ptr /\ b = Recs(q)'[i].key
      OBVIOUS
    <3>2. UpTo(c, b)'
      BY <1>5, <1>6, <1>8, <3>1 DEF TargetKept, SplitTree
    <3> QED BY <3>1, <3>2 DEF UpTo, Recs
  <2>2. \A q \in Directories' : \A i, j \in 1 .. Len(Recs(q)') : i < j => Recs(q)'[i].key <= Recs(q)'[j].key
    BY <1>6, <1>8 DEF SplitTree
  <2>3. UpTo(newKey.ptr, newKey.key)'
    BY <1>5, <1>7 DEF UpTo, Recs
  <2> QED BY <2>1, <2>2, <2>3 DEF KeysBounded, UpTo, Recs
<1>14. Topped'
  <2>1. TopKey(rootLocation)' = MaxKey
    <3>1. PICK r : r = rootLocation
      OBVIOUS
    <3>2. TopKey(r)' = MaxKey
      BY <1>5, <1>8, <3>1 DEF TargetKept, IInv, Topped
    <3> QED BY <1>2, <3>1, <3>2 DEF TopKey, Recs
  <2>2. ASSUME NEW q \in Directories', NEW i \in 1 .. Len(Recs(q)'), Recs(q)'[i].ptr \in Directories'
        PROVE  TopKey(Recs(q)[i].ptr)' = Recs(q)'[i].key
    <3>1. PICK c : c = Recs(q)'[i].ptr
      OBVIOUS
    <3>2. c \in Directories /\ TopKey(c) = Recs(q)'[i].key
      <4>1. q \in Directories \cup {new}
        BY <1>8, <2>2
      <4>2. /\ c \in DOMAIN pages
            /\ c \in Directories => TopKey(c) = Recs(q)'[i].key
        BY <1>6, <2>2, <3>1, <4>1 DEF SplitTree
      <4>3. c \in Directories' /\ new \notin DOMAIN pages
        BY <1>3, <2>2, <3>1
      <4>4. c \in Directories
        BY <1>8, <4>2, <4>3
      <4> QED BY <4>2, <4>4
    <3>3. TopKey(c)' = Recs(q)'[i].key
      BY <1>5, <3>2 DEF TargetKept
    <3> QED BY <3>1, <3>3 DEF TopKey, Recs
  <2>3. TopKey(newKey.ptr)' = newKey'.key
    BY <1>5, <1>7 DEF TopKey, Recs
  <2> QED BY <2>1, <2>2, <2>3 DEF Topped, TopKey, Recs
<1>15. NotEmpty'
  <2>1. \A q \in DOMAIN pages' : Recs(q)' # << >>
    BY <1>3, <1>5 DEF TargetKept
  <2> QED BY <1>2, <1>5, <2>1 DEF NotEmpty
<1>16. AllReached'
  <2>1. ASSUME NEW S \in SUBSET DOMAIN pages', Rootless' \subseteq S, Closed(S)'
        PROVE  S = DOMAIN pages'
    <3>1. \A q \in S : Children(q)' \subseteq S
      BY <2>1 DEF Closed
    <3> QED BY <1>3, <1>6, <1>8, <2>1, <3>1 DEF SplitTree
  <2> QED BY <2>1 DEF AllReached
<1>17. GoingUp'
  <2> DEFINE k == Len(internalStack)
  <2>1. /\ internalStack \in Seq(DOMAIN pages) /\ k \in Nat /\ k > 1
        /\ internalStack[1] = rootLocation
        /\ \A m \in 1 .. k : internalStack[m] \in Directories
        /\ target = internalStack[k]
    BY <1>1, <1>2, LenProperties DEF IInv, TypeOK, GoingUp, Last
  <2>2. internalStack' = [m \in 1 .. k - 1 |-> internalStack[m]]
    <3>1. Front(internalStack) = SubSeq(internalStack, 1, k - 1)
      BY DEF Front
    <3> QED BY <1>2, <2>1, <3>1
  <2>3. /\ Len(internalStack') = k - 1 /\ internalStack' \in Seq(Directories)
        /\ \A m \in 1 .. k - 1 : internalStack'[m] = internalStack[m]
    BY <2>1, <2>2
  <2>4. internalStack' # << >> /\ internalStack'[1] = rootLocation
    BY <2>1, <2>3
  <2>5. \A m \in 1 .. Len(internalStack') : internalStack'[m] \in Directories'
    BY <1>8, <2>1, <2>3
  <2>6. target' = p
    BY <1>1, <1>2, <2>1 DEF Last
  <2>7. Reached(p)'
    <3>1. ASSUME NEW S \in SUBSET DOMAIN pages', rootLocation' \in S, Closed(S)'
          PROVE  p \in S
      <4>1. \A q \in S : Children(q)' \subseteq S
        BY <3>1 DEF Closed
      <4> QED BY <1>2, <1>6, <3>1, <4>1 DEF SplitTree
    <3> QED BY <3>1 DEF Reached
  <2>8. HasRoom(target)'
    <3>1. ~ IsLeaf(p)' /\ Len(Recs(p)') < DirCapacity
      BY <1>5
    <3> QED BY <2>6, <3>1 DEF HasRoom, IsLeaf, Recs
  <2>9. newKey'.key <= TopKey(target)'
    <3>1. TopKey(p)' = TopKey(p)
      BY <1>5 DEF TargetKept
    <3>2. all[h].key <= TopKey(p)'
      BY <1>5, <3>1
    <3> QED BY <1>7, <2>6, <3>2 DEF TopKey, Recs
  <2>10. target' \in Directories' /\ Reached(target)'
    BY <1>5, <1>8, <2>6, <2>7 DEF Reached
  <2> HIDE DEF k
  <2> QED BY <1>2, <2>4, <2>5, <2>8, <2>9, <2>10 DEF GoingUp
<1>18. GoingDown' /\ Kept'
  BY <1>2, <1>5 DEF GoingDown, TargetKept
<1> QED
  BY <1>9, <1>10, <1>11, <1>12, <1>13, <1>14, <1>15, <1>16, <1>17, <1>18 DEF IInv

(* The target of the last split is the root.                               *)
LEMMA LastTarget ==
    ASSUME IInv, pc = "split", ~ HasRoom(target), Len(internalStack) <= 1
    PROVE  target = rootLocation /\ TopKey(target) = MaxKey
<1>1. internalStack \in Seq(DOMAIN pages) /\ internalStack # << >> /\ internalStack[1] = rootLocation
  BY DEF IInv, TypeOK, GoingUp
<1>2. Len(internalStack) = 1
  <2>1. PICK k : k = Len(internalStack)
    OBVIOUS
  <2>2. k \in Nat /\ k # 0
    BY <1>1, <2>1, LenProperties, EmptySeq
  <2>3. k = 1
    BY <2>1, <2>2
  <2> QED BY <2>1, <2>3
<1>3. target = Last(internalStack)
  BY DEF IInv, GoingUp
<1> QED
  BY <1>1, <1>2, <1>3 DEF Last, IInv, Topped

(* The root was split: a new root gets the entries of the two halves.      *)
LEMMA GrowRootKeeps ==
    ASSUME IInv, GrowRoot
    PROVE  IInv'
<1>1. PICK p, all, n, h, new, top :
          /\ p = target /\ all = Together(p, newKey)
          /\ n = Len(Recs(p)) + 1 /\ h = Half(n) /\ new = lastPage + 1 /\ top = lastPage + 2
  OBVIOUS
<1>2. /\ pc = "split" /\ pc' = "idle" /\ ~ HasRoom(p) /\ Len(internalStack) <= 1
      /\ pages' = [q \in 0 .. top |-> IF q = top THEN NewRoot(all) ELSE Halved(p, all)[q]]
      /\ rootLocation' = top /\ internalStack' = << >>
      /\ UNCHANGED <<appendMe, target, newKey, stored>>
  BY <1>1 DEF GrowRoot
<1>3. /\ new \in Nat /\ new \notin DOMAIN pages /\ DOMAIN pages = 0 .. new - 1
      /\ top = new + 1 /\ top \notin DOMAIN pages
      /\ DOMAIN pages' = DOMAIN pages \cup {new, top} /\ DOMAIN pages' = 0 .. top
  <2>1. /\ new \in Nat /\ new \notin DOMAIN pages /\ DOMAIN pages = 0 .. new - 1
    BY <1>1, LastPage DEF IInv
  <2>2. DOMAIN pages' = 0 .. top /\ top = new + 1
    BY <1>1, <1>2, LastPage DEF IInv
  <2> QED BY <2>1, <2>2
<1>4. Splits(p, all, n, h, new) /\ pages'[top] = NewRoot(all) /\ ~ IsLeaf(top)'
  <2>1. \A q \in DOMAIN pages \cup {new} : pages'[q] = Halved(p, all)[q]
    BY <1>2, <1>3
  <2>2. pages'[top] = NewRoot(all)
    BY <1>2, <1>3
  <2>3. ~ IsLeaf(top)'
    BY <2>2 DEF IsLeaf, NewRoot, Directory
  <2>4. DOMAIN pages' \ (DOMAIN pages \cup {new}) = {top}
    BY <1>3
  <2> QED BY <1>1, <1>2, <1>3, <2>1, <2>2, <2>3, <2>4 DEF Splits
<1>5. /\ p \in Directories /\ p \in DOMAIN pages /\ ~ IsLeaf(p) /\ stored # {}
      /\ n \in Nat /\ n = DirCapacity + 1 /\ h \in 1 .. n - 1 /\ Len(all) = n
      /\ all[h] \in Entry /\ all[h].key \in Int /\ all[h].key <= TopKey(p)
      /\ \A q \in DOMAIN pages \cup {new} : pages'[q] \in Page
      /\ Recs(new)' # << >>
      /\ \A q \in DOMAIN pages : IsLeaf(q)' = IsLeaf(q)
      /\ ~ IsLeaf(new)'
      /\ \A q \in DOMAIN pages \ {p} : Recs(q)' = Recs(q)
      /\ Len(Recs(p)') < DirCapacity /\ Len(Recs(new)') < DirCapacity
      /\ Len(Recs(p)') = n - h /\ Len(Recs(new)') = h
      /\ TargetKept
      /\ UpTo(new, all[h].key)' /\ TopKey(new)' = all[h].key
  <2>1. SplitDone(p, all, n, h, new)
    BY <1>2, <1>4, SplitPages
  <2> QED BY <2>1 DEF SplitDone
<1>6. SplitTree(p, new)
  BY <1>2, <1>4, SplitEntries
<1>7. p = rootLocation /\ TopKey(p) = MaxKey
  BY <1>1, <1>2, LastTarget
<1>8. /\ Directories' = Directories \cup {new, top} /\ Directories \subseteq DOMAIN pages
      /\ rootLocation \in Directories /\ Rootless' = {top}
  BY <1>2, <1>3, <1>4, <1>5, SMTT(30) DEF Directories, Rootless, IInv, Pointing
<1>9. /\ Len(Recs(top)') = 2 /\ pages'[top] \in Page
      /\ Recs(top)'[1].key = all[h].key /\ Recs(top)'[1].ptr = new
      /\ Recs(top)'[2].key = MaxKey /\ Recs(top)'[2].ptr = p
      /\ MaxKey \in Int /\ all[h].key <= MaxKey
  <2> DEFINE lower == [key |-> all[h].key, ptr |-> new]
             upper == [key |-> MaxKey, ptr |-> rootLocation]
  <2>1. lower \in Entry /\ upper \in Entry
    BY <1>3, <1>5, <1>7 DEF Entry
  <2>2. NewRoot(all) = Directory(<<lower, upper>>)
    BY <1>1, <1>5 DEF NewRoot, EntryOfLower
  <2>3. <<lower, upper>> \in Seq(Entry) /\ Len(<<lower, upper>>) = 2
    BY <2>1
  <2>4. Recs(top)' = <<lower, upper>> /\ pages'[top] \in Page
    BY <1>4, <2>2, <2>3 DEF Directory, Recs, Page
  <2>5. all[h].key <= MaxKey
    BY <1>5, <1>7
  <2> QED BY <1>7, <2>3, <2>4, <2>5, ConstantsAssumption
<1>10. TypeOK'
  <2>1. ASSUME NEW q \in DOMAIN pages'
        PROVE  Len(Recs(q)') <= IF IsLeaf(q)' THEN LeafCapacity ELSE DirCapacity
    <3>1. CASE q \in {p, new}
      <4>1. ~ IsLeaf(q)' /\ Len(Recs(q)') < DirCapacity /\ Len(Recs(q)') \in Int
        BY <1>5, <3>1
      <4> QED BY <4>1, ConstantsAssumption
    <3>2. CASE q = top
      <4>1. ~ IsLeaf(q)' /\ Len(Recs(q)') = 2
        BY <1>4, <1>9, <3>2
      <4> QED BY <4>1, ConstantsAssumption
    <3>3. CASE q \notin {p, new, top}
      <4>1. q \in DOMAIN pages /\ Recs(q)' = Recs(q) /\ IsLeaf(q)' = IsLeaf(q)
        BY <1>3, <1>5, <3>3
      <4> QED BY <4>1 DEF IInv, TypeOK
    <3> QED BY <3>1, <3>2, <3>3
  <2>2. DOMAIN pages' = 0 .. lastPage'
    <3>1. IsFiniteSet(0 .. top) /\ Cardinality(0 .. top) = top + 1
      BY <1>3, FS_Interval
    <3>2. lastPage' = top
      BY <1>3, <3>1 DEF lastPage
    <3> QED BY <1>3, <3>2
  <2>3. /\ newKey' \in Entry /\ appendMe' \in [key : Keys \cup {MaxKey}, id : 0 .. MaxRecords]
        /\ stored' \subseteq Record
    BY <1>2 DEF IInv, TypeOK
  <2>4. rootLocation' \in DOMAIN pages' /\ target' \in DOMAIN pages'
    BY <1>1, <1>2, <1>3, <1>5
  <2>5. \A q \in DOMAIN pages' : pages'[q] \in Page
    BY <1>3, <1>5, <1>9
  <2> QED BY <1>2, <2>1, <2>2, <2>3, <2>4, <2>5 DEF TypeOK
<1>11. Numbered'
  BY <1>3 DEF Numbered
(* The entries of the new root are two that no other page has.             *)
<1>12. ASSUME NEW q \in Directories', NEW i \in 1 .. Len(Recs(q)')
       PROVE  \/ q = top /\ i = 1 /\ Recs(q)'[i].ptr = new
              \/ q = top /\ i = 2 /\ Recs(q)'[i].ptr = rootLocation
              \/ /\ q \in Directories \cup {new}
                 /\ Recs(q)'[i].ptr \in DOMAIN pages /\ Recs(q)'[i].ptr # rootLocation
  <2>1. CASE q = top
    <3>1. i = 1 \/ i = 2
      BY <1>9, <2>1
    <3> QED BY <1>7, <1>9, <2>1, <3>1
  <2>2. CASE q # top
    BY <1>6, <1>8, <2>2 DEF SplitTree
  <2> QED BY <2>1, <2>2
<1>13. Pointing'
  <2>1. \A q \in Directories' : \A i \in 1 .. Len(Recs(q)') : Recs(q)'[i].ptr \in DOMAIN pages' \ Rootless'
    BY <1>3, <1>8, <1>12
  <2>2. rootLocation' \in Directories' /\ newKey'.ptr \in DOMAIN pages' /\ pc' # "split"
    BY <1>2, <1>3, <1>8 DEF IInv, Pointing
  <2> QED BY <2>1, <2>2 DEF Pointing
<1>14. OneEntry'
  <2>1. ASSUME NEW q \in Directories', NEW u \in Directories',
               NEW i \in 1 .. Len(Recs(q)'), NEW j \in 1 .. Len(Recs(u)'),
               Recs(q)'[i].ptr = Recs(u)'[j].ptr
        PROVE  q = u /\ i = j
    <3>1. CASE q = top \/ u = top
      BY <1>3, <1>8, <1>12, <2>1, <3>1
    <3>2. CASE q # top /\ u # top
      BY <1>6, <1>8, <2>1, <3>2 DEF SplitTree
    <3> QED BY <3>1, <3>2
  <2>2. ASSUME NEW c \in DOMAIN pages' \ Rootless'
        PROVE  \E q \in Directories' : \E i \in 1 .. Len(Recs(q)') : Recs(q)'[i].ptr = c
    <3>1. CASE c = new
      <4>1. 1 \in 1 .. Len(Recs(top)') /\ Recs(top)'[1].ptr = c
        BY <1>9, <3>1
      <4> QED BY <1>8, <4>1
    <3>2. CASE c = rootLocation
      <4>1. 2 \in 1 .. Len(Recs(top)') /\ Recs(top)'[2].ptr = c
        BY <1>7, <1>9, <3>2
      <4> QED BY <1>8, <4>1
    <3>3. CASE c \notin {new, rootLocation}
      <4>1. c \in DOMAIN pages \ {rootLocation}
        BY <1>3, <1>8, <3>3
      <4>2. \E q \in Directories \cup {new} : \E i \in 1 .. Len(Recs(q)') : Recs(q)'[i].ptr = c
        BY <1>6, <4>1 DEF SplitTree
      <4> QED BY <1>8, <4>2
    <3> QED BY <3>1, <3>2, <3>3
  <2> QED BY <2>1, <2>2 DEF OneEntry
<1>15. KeysBounded'
  <2>1. ASSUME NEW q \in Directories', NEW i \in 1 .. Len(Recs(q)')
        PROVE  UpTo(Recs(q)[i].ptr, Recs(q)[i].key)'
    <3>1. PICK c, b : c = Recs(q)'[i].ptr /\ b = Recs(q)'[i].key
      OBVIOUS
    <3>2. CASE q # top
      <4>1. UpTo(c, b)'
        BY <1>5, <1>6, <1>8, <3>1, <3>2 DEF TargetKept, SplitTree
      <4> QED BY <3>1, <4>1 DEF UpTo, Recs
    <3>3. CASE q = top
      <4>1. i = 1 \/ i = 2
        BY <1>9, <3>3
      <4>2. UpTo(p, MaxKey)
        <5>1. \A j \in 1 .. Len(Recs(p)) : Recs(p)[j].key <= MaxKey
          <6> TAKE j \in 1 .. Len(Recs(p))
          <6>1. Recs(p)[j] \in Entry
            BY <1>5, OnPages DEF IInv
          <6>2. Recs(p)[j].key \in Keys \cup {MaxKey}
            BY <6>1 DEF Entry
          <6>3. \A k \in Keys \cup {MaxKey} : k <= MaxKey
            BY <1>9, ConstantsAssumption
          <6> QED BY <6>2, <6>3
        <5> QED BY <5>1 DEF UpTo
      <4>3. UpTo(p, MaxKey)'
        BY <1>5, <1>9, <4>2 DEF TargetKept
      <4>4. UpTo(c, b)'
        BY <1>5, <1>9, <3>1, <3>3, <4>1, <4>3
      <4> QED BY <3>1, <4>4 DEF UpTo, Recs
    <3> QED BY <3>2, <3>3
  <2>2. ASSUME NEW q \in Directories', NEW i \in 1 .. Len(Recs(q)'), NEW j \in 1 .. Len(Recs(q)'), i < j
        PROVE  Recs(q)'[i].key <= Recs(q)'[j].key
    <3>1. CASE q = top
      <4>1. i = 1 /\ j = 2
        <5>1. Len(Recs(q)') = 2
          BY <1>9, <3>1
        <5> QED BY <2>2, <5>1
      <4> QED BY <1>9, <3>1, <4>1
    <3>2. CASE q # top
      BY <1>6, <1>8, <2>2, <3>2 DEF SplitTree
    <3> QED BY <3>1, <3>2
  <2>3. pc' # "split"
    BY <1>2
  <2> QED BY <2>1, <2>2, <2>3 DEF KeysBounded, UpTo, Recs
<1>16. Topped'
  <2>1. TopKey(top)' = MaxKey
    BY <1>9 DEF TopKey
  <2>2. TopKey(rootLocation)' = MaxKey
    BY <1>2, <2>1 DEF TopKey, Recs
  <2>3. ASSUME NEW q \in Directories', NEW i \in 1 .. Len(Recs(q)'), Recs(q)'[i].ptr \in Directories'
        PROVE  TopKey(Recs(q)[i].ptr)' = Recs(q)'[i].key
    <3>1. PICK c : c = Recs(q)'[i].ptr
      OBVIOUS
    <3>2. CASE q # top
      <4>1. c \in Directories /\ TopKey(c) = Recs(q)'[i].key
        BY <1>3, <1>6, <1>8, <2>3, <3>1, <3>2 DEF SplitTree
      <4>2. TopKey(c)' = Recs(q)'[i].key
        BY <1>5, <4>1 DEF TargetKept
      <4> QED BY <3>1, <4>2 DEF TopKey, Recs
    <3>3. CASE q = top
      <4>1. i = 1 \/ i = 2
        BY <1>9, <3>3
      <4>2. TopKey(p)' = MaxKey
        BY <1>5, <1>7 DEF TargetKept
      <4>3. TopKey(c)' = Recs(q)'[i].key
        BY <1>5, <1>9, <3>1, <3>3, <4>1, <4>2
      <4> QED BY <3>1, <4>3 DEF TopKey, Recs
    <3> QED BY <3>2, <3>3
  <2>4. pc' # "split"
    BY <1>2
  <2> QED BY <2>2, <2>3, <2>4 DEF Topped, TopKey, Recs
<1>17. NotEmpty'
  <2>1. Recs(top)' # << >>
    <3>1. Len(Recs(top)') # 0
      BY <1>9
    <3> QED BY <3>1
  <2>2. \A q \in DOMAIN pages' : Recs(q)' # << >>
    BY <1>3, <1>5, <2>1 DEF TargetKept
  <2> QED BY <1>2, <1>5, <2>2 DEF NotEmpty
<1>18. AllReached'
  <2>1. ASSUME NEW S \in SUBSET DOMAIN pages', Rootless' \subseteq S, Closed(S)'
        PROVE  S = DOMAIN pages'
    <3>1. \A q \in S : Children(q)' \subseteq S
      BY <2>1 DEF Closed
    <3>2. top \in S
      BY <1>8, <2>1
    <3>3. new \in S /\ rootLocation \in S
      <4>1. 1 \in 1 .. Len(Recs(top)') /\ 2 \in 1 .. Len(Recs(top)')
        BY <1>9
      <4>2. new \in Children(top)' /\ rootLocation \in Children(top)'
        BY <1>4, <1>7, <1>9, <4>1 DEF Children
      <4> QED BY <3>1, <3>2, <4>2
    <3> QED BY <1>3, <1>6, <2>1, <3>1, <3>2, <3>3 DEF SplitTree
  <2> QED BY <2>1 DEF AllReached
<1>19. GoingDown' /\ GoingUp' /\ Kept'
  BY <1>2, <1>5 DEF GoingDown, GoingUp, TargetKept
<1> QED
  BY <1>10, <1>11, <1>13, <1>14, <1>15, <1>16, <1>17, <1>18, <1>19 DEF IInv

-----------------------------------------------------------------------------
(* What discoverPages finds are leaves, each time it is called: those that *)
(* the pages under page p give, for the entries that it visits.            *)
Through(p, low, high, below) ==
    FlattenSeq([i \in 1 .. Len(Recs(p)) |->
        IF i \in Visited(Recs(p), low, high) THEN below[Recs(p)[i].ptr] ELSE << >>])

(* They are leaves when those that the pages below give are.               *)
LEMMA ThroughLeaves ==
    ASSUME TypeOK, Pointing, NEW p \in Directories, NEW low, NEW high,
           NEW below \in [DOMAIN pages -> Seq(Leaves)]
    PROVE  Through(p, low, high, below) \in Seq(Leaves)
<1> DEFINE seqs == [i \in 1 .. Len(Recs(p)) |->
                       IF i \in Visited(Recs(p), low, high) THEN below[Recs(p)[i].ptr] ELSE << >>]
<1>1. Len(Recs(p)) \in Nat /\ \A i \in 1 .. Len(Recs(p)) : Recs(p)[i].ptr \in DOMAIN pages
  BY OnPages DEF Pointing
<1>2. << >> \in Seq(Leaves)
  OBVIOUS
<1>3. \A i \in 1 .. Len(Recs(p)) : seqs[i] \in Seq(Leaves)
  BY <1>1, <1>2
<1>4. seqs \in Seq(Seq(Leaves))
  <2> HIDE DEF seqs
  <2>1. seqs = [i \in 1 .. Len(Recs(p)) |-> seqs[i]]
    BY DEF seqs
  <2> QED BY <1>1, <1>3, <2>1
<1>5. FlattenSeq(seqs) \in Seq(Leaves)
  <2> HIDE DEF seqs
  <2> QED BY <1>4, Flattened
<1> QED
  BY <1>5 DEF Through

(* A call on a leaf finds the leaf, or nothing; a call on a directory page *)
(* what the calls on the pages of its entries find.                        *)
Finds(found, low, high) ==
    \A n \in Nat, p \in DOMAIN pages :
        /\ found[<<n, p>>] \in Seq(Leaves)
        /\ IsLeaf(p) => found[<<n, p>>] = IF Matches(Recs(p), low, high) = << >> THEN << >> ELSE <<p>>
        /\ ~ IsLeaf(p) /\ n = 0 => found[<<n, p>>] = << >>
        /\ ~ IsLeaf(p) /\ n # 0 =>
              found[<<n, p>>] = FlattenSeq([i \in 1 .. Len(Recs(p)) |->
                                    IF i \in Visited(Recs(p), low, high)
                                    THEN found[<<n - 1, Recs(p)[i].ptr>>] ELSE << >>])

(* Discovered is the value of a function that satisfies Finds.             *)
LEMMA DiscoveredBy ==
    ASSUME TypeOK, Pointing, NEW low, NEW high
    PROVE  \E found : /\ Finds(found, low, high)
                      /\ Discovered(low, high) = found[<<Cardinality(Directories), rootLocation>>]
<1> DEFINE Own(p) == IF Matches(Recs(p), low, high) = << >> THEN << >> ELSE <<p>>
           calls == Nat \X DOMAIN pages
           found[call \in calls] ==
              LET n == call[1]
                  p == call[2]
                  visited == Visited(Recs(p), low, high)
              IN  IF IsLeaf(p)
                  THEN IF Matches(Recs(p), low, high) = << >> THEN << >> ELSE <<p>>
                  ELSE IF n = 0 THEN << >>
                  ELSE FlattenSeq([i \in 1 .. Len(Recs(p)) |->
                          IF i \in visited THEN found[<<n - 1, Recs(p)[i].ptr>>] ELSE << >>])
           X == [DOMAIN pages -> Seq(Leaves)]
           first == [p \in DOMAIN pages |-> IF IsLeaf(p) THEN Own(p) ELSE << >>]
           step == [n \in Nat |-> [below \in X |-> [p \in DOMAIN pages |->
                      IF IsLeaf(p) THEN Own(p) ELSE Through(p, low, high, below)]]]
<1>1. \A p \in DOMAIN pages : IsLeaf(p) => Own(p) \in Seq(Leaves)
  <2> SUFFICES ASSUME NEW p \in DOMAIN pages, IsLeaf(p)
               PROVE  Own(p) \in Seq(Leaves)
    OBVIOUS
  <2>1. p \in Leaves
    BY DEF Leaves
  <2>2. << >> \in Seq(Leaves) /\ <<p>> \in Seq(Leaves)
    BY <2>1
  <2> QED BY <2>2
<1>2. \A p \in DOMAIN pages : ~ IsLeaf(p) => p \in Directories
  BY OnPages
<1>3. \A p \in Directories : \A i \in 1 .. Len(Recs(p)) : Recs(p)[i].ptr \in DOMAIN pages
  BY DEF Pointing
<1>4. first \in X
  <2> HIDE DEF Own
  <2>1. << >> \in Seq(Leaves)
    OBVIOUS
  <2> QED BY <1>1, <2>1
<1>5. step \in [Nat -> [X -> X]]
  <2> HIDE DEF Own
  <2> SUFFICES ASSUME NEW below \in X, NEW p \in DOMAIN pages
               PROVE  (IF IsLeaf(p) THEN Own(p) ELSE Through(p, low, high, below)) \in Seq(Leaves)
    OBVIOUS
  <2> QED BY <1>1, <1>2, ThroughLeaves
<1>6. PICK f \in [Nat -> X] : Recurs(f, first, step)
  <2> HIDE DEF first, step, X
  <2> QED BY <1>4, <1>5, PrimitiveRecursion
<1> DEFINE g == [call \in calls |-> f[call[1]][call[2]]]
<1>7. g = [call \in calls |->
              LET n == call[1]
                  p == call[2]
                  visited == Visited(Recs(p), low, high)
              IN  IF IsLeaf(p)
                  THEN IF Matches(Recs(p), low, high) = << >> THEN << >> ELSE <<p>>
                  ELSE IF n = 0 THEN << >>
                  ELSE FlattenSeq([i \in 1 .. Len(Recs(p)) |->
                          IF i \in visited THEN g[<<n - 1, Recs(p)[i].ptr>>] ELSE << >>])]
  <2>1. ASSUME NEW n \in Nat, NEW p \in DOMAIN pages
        PROVE  g[<<n, p>>] =
                  IF IsLeaf(p) THEN Own(p)
                  ELSE IF n = 0 THEN << >>
                  ELSE FlattenSeq([i \in 1 .. Len(Recs(p)) |->
                          IF i \in Visited(Recs(p), low, high)
                          THEN g[<<n - 1, Recs(p)[i].ptr>>] ELSE << >>])
    <3> HIDE DEF Own
    <3>1. g[<<n, p>>] = f[n][p]
      OBVIOUS
    <3>2. CASE n = 0
      <4> QED BY <1>6, <3>1, <3>2 DEF Recurs
    <3>3. CASE n # 0
      <4> PICK m \in Nat : m = n - 1 /\ n = m + 1
        BY <3>3
      <4>1. f[n][p] = IF IsLeaf(p) THEN Own(p) ELSE Through(p, low, high, f[m])
        <5>1. f[m + 1] = step[m][f[m]] /\ f[m] \in X
          BY <1>6 DEF Recurs
        <5> QED BY <5>1
      <4>2. CASE IsLeaf(p)
        BY <3>1, <4>1, <4>2
      <4>3. CASE ~ IsLeaf(p)
        <5>1. \A i \in 1 .. Len(Recs(p)) : g[<<m, Recs(p)[i].ptr>>] = f[m][Recs(p)[i].ptr]
          BY <1>2, <1>3, <4>3
        <5>2. Through(p, low, high, f[m]) =
                 FlattenSeq([i \in 1 .. Len(Recs(p)) |->
                          IF i \in Visited(Recs(p), low, high)
                          THEN g[<<m, Recs(p)[i].ptr>>] ELSE << >>])
          <6>1. [i \in 1 .. Len(Recs(p)) |-> IF i \in Visited(Recs(p), low, high)
                                             THEN f[m][Recs(p)[i].ptr] ELSE << >>]
                = [i \in 1 .. Len(Recs(p)) |-> IF i \in Visited(Recs(p), low, high)
                                             THEN g[<<m, Recs(p)[i].ptr>>] ELSE << >>]
            <7> HIDE DEF g
            <7> QED BY <5>1
          <6> HIDE DEF g
          <6> QED BY <6>1 DEF Through
        <5> HIDE DEF g
        <5> QED BY <3>1, <3>3, <4>1, <4>3, <5>2
      <4> QED BY <4>2, <4>3
    <3> QED BY <3>2, <3>3
  <2>2. g = [call \in calls |-> g[call]]
    OBVIOUS
  <2>3. \A call \in calls : call[1] \in Nat /\ call[2] \in DOMAIN pages /\ call = <<call[1], call[2]>>
    OBVIOUS
  <2> HIDE DEF g
  <2>4. \A call \in calls : g[call] = g[<<call[1], call[2]>>]
    BY <2>3
  <2>5. ASSUME NEW call \in calls
        PROVE  g[call] = LET n == call[1]
                             p == call[2]
                             visited == Visited(Recs(p), low, high)
                         IN  IF IsLeaf(p)
                             THEN IF Matches(Recs(p), low, high) = << >> THEN << >> ELSE <<p>>
                             ELSE IF n = 0 THEN << >>
                             ELSE FlattenSeq([i \in 1 .. Len(Recs(p)) |->
                                     IF i \in visited THEN g[<<n - 1, Recs(p)[i].ptr>>] ELSE << >>])
    BY <2>1, <2>3, <2>4, Zenon
  <2> QED BY <2>2, <2>5, Zenon
<1>8. found = [call \in calls |->
              LET n == call[1]
                  p == call[2]
                  visited == Visited(Recs(p), low, high)
              IN  IF IsLeaf(p)
                  THEN IF Matches(Recs(p), low, high) = << >> THEN << >> ELSE <<p>>
                  ELSE IF n = 0 THEN << >>
                  ELSE FlattenSeq([i \in 1 .. Len(Recs(p)) |->
                          IF i \in visited THEN found[<<n - 1, Recs(p)[i].ptr>>] ELSE << >>])]
  <2> HIDE DEF g, calls
  <2> QED BY <1>7
<1> HIDE DEF found
<1>9. ASSUME NEW n \in Nat, NEW p \in DOMAIN pages
      PROVE  /\ IsLeaf(p) => found[<<n, p>>] = Own(p)
             /\ ~ IsLeaf(p) /\ n = 0 => found[<<n, p>>] = << >>
             /\ ~ IsLeaf(p) /\ n # 0 =>
                   found[<<n, p>>] = FlattenSeq([i \in 1 .. Len(Recs(p)) |->
                                        IF i \in Visited(Recs(p), low, high)
                                        THEN found[<<n - 1, Recs(p)[i].ptr>>] ELSE << >>])
  <2>1. <<n, p>> \in calls /\ <<n, p>>[1] = n /\ <<n, p>>[2] = p
    OBVIOUS
  <2> QED BY <1>8, <2>1, ZenonT(30)
<1> DEFINE T == {n \in Nat : \A p \in DOMAIN pages : found[<<n, p>>] \in Seq(Leaves)}
<1>10. 0 \in T
  <2>1. \A p \in DOMAIN pages : found[<<0, p>>] \in Seq(Leaves)
    <3>1. << >> \in Seq(Leaves)
      OBVIOUS
    <3> HIDE DEF Own
    <3> QED BY <1>1, <1>9, <3>1
  <2> QED BY <2>1
<1>11. \A n \in Nat : n \in T => n + 1 \in T
  <2> SUFFICES ASSUME NEW n \in Nat, \A q \in DOMAIN pages : found[<<n, q>>] \in Seq(Leaves),
                      NEW p \in DOMAIN pages
               PROVE  found[<<n + 1, p>>] \in Seq(Leaves)
    <3>1. \A n \in Nat : n + 1 \in Nat
      OBVIOUS
    <3> QED BY <3>1, Zenon
  <2> DEFINE row == [q \in DOMAIN pages |-> found[<<n, q>>]]
  <2>1. n + 1 \in Nat /\ n + 1 # 0 /\ (n + 1) - 1 = n
    OBVIOUS
  <2>2. CASE IsLeaf(p)
    <3> HIDE DEF Own
    <3> QED BY <1>1, <1>9, <2>1, <2>2
  <2>3. CASE ~ IsLeaf(p)
    <3>1. Through(p, low, high, row) \in Seq(Leaves)
      BY <1>2, <2>3, ThroughLeaves
    <3>2. [i \in 1 .. Len(Recs(p)) |-> IF i \in Visited(Recs(p), low, high)
                                       THEN row[Recs(p)[i].ptr] ELSE << >>]
          = [i \in 1 .. Len(Recs(p)) |-> IF i \in Visited(Recs(p), low, high)
                                       THEN found[<<n, Recs(p)[i].ptr>>] ELSE << >>]
      BY <1>2, <1>3, <2>3
    <3>3. found[<<n + 1, p>>] = FlattenSeq([i \in 1 .. Len(Recs(p)) |->
                                        IF i \in Visited(Recs(p), low, high)
                                        THEN found[<<n, Recs(p)[i].ptr>>] ELSE << >>])
      BY <1>9, <2>1, <2>3
    <3> QED BY <3>1, <3>2, <3>3, Zenon DEF Through
  <2> QED BY <2>2, <2>3
<1>12. Nat \subseteq T
  <2> HIDE DEF T
  <2> QED BY <1>10, <1>11, SetInduction
<1>13. Finds(found, low, high)
  BY <1>9, <1>12 DEF Finds
<1>14. Discovered(low, high) = found[<<Cardinality(Directories), rootLocation>>]
  BY DEF Discovered, found
<1> QED
  BY <1>13, <1>14

(* What discoverPages finds are leaves.                                    *)
LEMMA DiscoveredLeaves ==
    ASSUME TypeOK, Numbered, Pointing, NEW low, NEW high
    PROVE  Discovered(low, high) \in Seq(Leaves)
<1>1. PICK found : /\ Finds(found, low, high)
                   /\ Discovered(low, high) = found[<<Cardinality(Directories), rootLocation>>]
  BY DiscoveredBy
<1>2. Cardinality(Directories) \in Nat /\ rootLocation \in DOMAIN pages
  <2>1. IsFiniteSet(DOMAIN pages) /\ Directories \subseteq DOMAIN pages
    BY LastPage DEF Directories
  <2> QED BY <2>1, FS_Subset, FS_CardinalityType DEF Pointing
<1> QED
  BY <1>1, <1>2 DEF Finds

-----------------------------------------------------------------------------
(* A scan that sorts pages, whichever pages it found, as long as they are  *)
(* leaves: every leaf keeps its records, and maybe moves them.             *)
LEMMA SortedScanKeeps ==
    ASSUME IInv, NEW found \in Seq(Leaves), SortedScan(found)
    PROVE  IInv'
<1> USE DEF IInv
<1>1. /\ pc = "idle" /\ stored # {} /\ DOMAIN pages' = DOMAIN pages
      /\ \A p \in DOMAIN pages :
            pages'[p] = IF p \in Middle(found) THEN Leaf(StableSort(Recs(p))) ELSE pages[p]
      /\ UNCHANGED <<rootLocation, internalStack, pc, appendMe, target, newKey, stored>>
  BY DEF SortedScan
<1>2. \A p \in Middle(found) : p \in Leaves
  <2> SUFFICES ASSUME NEW n \in 2 .. Len(found) - 1
               PROVE  found[n] \in Leaves
    BY DEF Middle
  <2>1. n \in 1 .. Len(found)
    BY LenProperties
  <2> QED BY <2>1, ElementOfSeq
<1>3. ASSUME NEW p \in Leaves
      PROVE  /\ Recs(p) \in Seq(Record)
             /\ Len(StableSort(Recs(p))) = Len(Recs(p))
             /\ Leaf(StableSort(Recs(p))) \in Page
             /\ \E from : Moved(StableSort(Recs(p)), Recs(p), Len(Recs(p)), from)
  <2>1. p \in DOMAIN pages /\ IsLeaf(p) /\ Recs(p) \in Seq(Record)
    BY OnPages
  <2>2. /\ StableSort(Recs(p)) \in Seq(Record) /\ Len(StableSort(Recs(p))) = Len(Recs(p))
        /\ \E from : Moved(StableSort(Recs(p)), Recs(p), Len(Recs(p)), from)
    BY <2>1, StableSorts, KeysAreNumbers
  <2>3. Leaf(StableSort(Recs(p))) \in Page
    BY <2>2 DEF Leaf, Page
  <2> QED BY <2>1, <2>2, <2>3
<1>4. /\ \A p \in DOMAIN pages : pages'[p] \in Page /\ (IsLeaf(p)' <=> IsLeaf(p))
      /\ \A p \in DOMAIN pages : Len(Recs(p)') = Len(Recs(p))
  <2> SUFFICES ASSUME NEW p \in DOMAIN pages
               PROVE  /\ pages'[p] \in Page /\ (IsLeaf(p)' <=> IsLeaf(p))
                      /\ Len(Recs(p)') = Len(Recs(p))
    OBVIOUS
  <2>1. CASE p \in Middle(found)
    <3>1. pages'[p] = Leaf(StableSort(Recs(p))) /\ p \in Leaves
      BY <1>1, <1>2, <2>1
    <3>2. pages'[p].type = "RegularPage" /\ pages'[p].recs = StableSort(Recs(p)) /\ IsLeaf(p)
      BY <3>1 DEF Leaf, Leaves
    <3> QED BY <1>3, <3>1, <3>2 DEF IsLeaf, Recs
  <2>2. CASE p \notin Middle(found)
    <3>1. pages'[p] = pages[p]
      BY <1>1, <2>2
    <3> QED BY <3>1 DEF IsLeaf, Recs, TypeOK
  <2> QED BY <2>1, <2>2
<1>5. /\ Directories' = Directories /\ Leaves' = Leaves
      /\ Directories \subseteq DOMAIN pages /\ Leaves \subseteq DOMAIN pages
      /\ \A p \in Directories : Recs(p)' = Recs(p)
  <2>1. Directories' = Directories /\ Leaves' = Leaves
    BY <1>1, <1>4 DEF Directories, Leaves
  <2>2. \A p \in Directories : p \in DOMAIN pages /\ p \notin Middle(found)
    BY <1>2 DEF Directories, Leaves
  <2>3. \A p \in Directories : Recs(p)' = Recs(p)
    BY <1>1, <2>2 DEF Recs
  <2> QED BY <2>1, <2>3 DEF Directories, Leaves
<1>6. ASSUME NEW p \in Leaves
      PROVE  \E from : Moved(Recs(p)', Recs(p), Len(Recs(p)), from)
  <2>1. CASE p \in Middle(found)
    <3>1. Recs(p)' = StableSort(Recs(p))
      BY <1>1, <1>5, <2>1 DEF Leaf, Recs
    <3> QED BY <1>3, <3>1
  <2>2. CASE p \notin Middle(found)
    <3>1. Recs(p)' = Recs(p)
      BY <1>1, <1>5, <2>2 DEF Recs
    <3>2. PICK n : n = Len(Recs(p))
      OBVIOUS
    <3>3. Moved(Recs(p), Recs(p), n, [m \in 1 .. n |-> m])
      BY DEF Moved
    <3> QED BY <3>1, <3>2, <3>3
  <2> QED BY <2>1, <2>2
<1>7. TypeOK'
  <2>1. \A p \in DOMAIN pages' : Len(Recs(p)') <= IF IsLeaf(p)' THEN LeafCapacity ELSE DirCapacity
    BY <1>1, <1>4 DEF TypeOK
  <2>2. DOMAIN pages' = 0 .. lastPage'
    BY <1>1 DEF TypeOK, lastPage
  <2>3. \A p \in DOMAIN pages' : pages'[p] \in Page
    BY <1>1, <1>4
  <2> QED BY <1>1, <2>1, <2>2, <2>3 DEF TypeOK
<1>8. Numbered'
  BY <1>1 DEF Numbered
<1>9. Pointing' /\ OneEntry' /\ Topped' /\ AllReached'
  <2>1. DirectoriesKept
    BY <1>1, <1>5 DEF DirectoriesKept
  <2>2. LeafAdded
    BY <1>1 DEF LeafAdded, Pointing
  <2> QED BY <1>1, <2>1, <2>2, LeavesChange
<1>10. KeysBounded'
  <2>1. ASSUME NEW q \in Directories, NEW i \in 1 .. Len(Recs(q))
        PROVE  UpTo(Recs(q)[i].ptr, Recs(q)[i].key)'
    <3>1. PICK c, k : c = Recs(q)[i].ptr /\ k = Recs(q)[i].key
      OBVIOUS
    <3>2. c \in DOMAIN pages /\ UpTo(c, k)
      BY <3>1 DEF Pointing, KeysBounded
    <3>3. \A m \in 1 .. Len(Recs(c)') : Recs(c)'[m].key <= k
      <4>1. CASE c \in Directories
        BY <1>5, <3>2, <4>1 DEF UpTo
      <4>2. CASE c \in Leaves
        <5>1. PICK from : Moved(Recs(c)', Recs(c), Len(Recs(c)), from)
          BY <1>6, <4>2
        <5> QED BY <1>4, <3>2, <5>1 DEF Moved, UpTo
      <4> QED BY <3>2, <4>1, <4>2 DEF Directories, Leaves
    <3>4. UpTo(c, k)'
      BY <3>3 DEF UpTo
    <3> QED BY <1>5, <3>1, <3>4 DEF UpTo, Recs
  <2>2. \A q \in Directories' : \A i \in 1 .. Len(Recs(q)') : UpTo(Recs(q)[i].ptr, Recs(q)[i].key)'
    BY <1>5, <2>1
  <2>3. \A q \in Directories' : \A i, j \in 1 .. Len(Recs(q)') : i < j => Recs(q)'[i].key <= Recs(q)'[j].key
    BY <1>5 DEF KeysBounded
  <2>4. pc' # "split"
    BY <1>1
  <2> QED BY <2>2, <2>3, <2>4 DEF KeysBounded, UpTo, Recs
<1>11. NotEmpty'
  <2>1. ASSUME NEW p \in DOMAIN pages
        PROVE  Recs(p)' # << >>
    <3>1. Len(Recs(p)) \in Nat /\ Recs(p) # << >>
      BY <1>1, OnPages DEF NotEmpty
    <3>2. CASE p \in Directories
      BY <1>5, <3>1, <3>2
    <3>3. CASE p \in Leaves
      <4>1. Recs(p) \in Seq(Record)
        BY <1>3, <3>3
      <4>2. Len(Recs(p)) # 0
        BY <3>1, <4>1, EmptySeq
      <4>3. Len(Recs(p)') # 0
        BY <1>4, <4>2
      <4> QED BY <4>3
    <3> QED BY <3>2, <3>3 DEF Directories, Leaves
  <2> QED BY <1>1, <2>1 DEF NotEmpty
<1>12. GoingDown' /\ GoingUp'
  BY <1>1 DEF GoingDown, GoingUp
<1>13. Kept'
  <2>1. ASSUME NEW p \in Leaves, NEW i \in 1 .. Len(Recs(p)')
        PROVE  Recs(p)'[i] \in stored
    <3>1. PICK from : Moved(Recs(p)', Recs(p), Len(Recs(p)), from)
      BY <1>6
    <3> QED BY <1>4, <1>5, <3>1, ZenonT(60) DEF Moved, Kept
  <2>2. ASSUME NEW r \in stored
        PROVE  \E p \in Leaves : \E i \in 1 .. Len(Recs(p)') : Recs(p)'[i] = r
    <3>1. PICK p \in Leaves : \E i \in 1 .. Len(Recs(p)) : Recs(p)[i] = r
      BY DEF Kept
    <3>2. PICK from : Moved(Recs(p)', Recs(p), Len(Recs(p)), from)
      BY <1>6
    <3> QED BY <1>4, <1>5, <3>1, <3>2 DEF Moved
  <2>3. ASSUME NEW p \in Leaves, NEW q \in Leaves,
               NEW i \in 1 .. Len(Recs(p)'), NEW j \in 1 .. Len(Recs(q)'),
               Recs(p)'[i] = Recs(q)'[j]
        PROVE  p = q /\ i = j
    <3>1. PICK from : Moved(Recs(p)', Recs(p), Len(Recs(p)), from)
      BY <1>6
    <3>2. PICK of : Moved(Recs(q)', Recs(q), Len(Recs(q)), of)
      BY <1>6
    <3>3. /\ from[i] \in 1 .. Len(Recs(p)) /\ Recs(p)[from[i]] = Recs(p)'[i]
          /\ of[j] \in 1 .. Len(Recs(q)) /\ Recs(q)[of[j]] = Recs(q)'[j]
      BY <1>4, <1>5, <3>1, <3>2 DEF Moved
    <3>4. p = q /\ from[i] = of[j]
      BY <2>3, <3>3, SMTT(30) DEF Kept
    <3>5. Recs(p)'[i] = Recs(p)[from[i]] /\ Recs(p)'[j] = Recs(p)[from[j]] /\ from[j] \in 1 .. Len(Recs(p))
      BY <1>4, <1>5, <3>1, <3>4, ZenonT(60) DEF Moved
    <3>6. from[i] = from[j]
      BY <2>3, <3>3, <3>4, <3>5, SMTT(30) DEF Kept
    <3> QED BY <1>4, <1>5, <3>1, <3>4, <3>6 DEF Moved
  <2> QED BY <1>1, <1>5, <2>1, <2>2, <2>3 DEF Kept
<1> QED
  BY <1>7, <1>8, <1>9, <1>10, <1>11, <1>12, <1>13

-----------------------------------------------------------------------------
(* The tree that the constructor makes has all of the invariant.           *)
LEMMA InitInvariant == Init => IInv
<1> SUFFICES ASSUME Init
             PROVE  IInv
  OBVIOUS
<1> DEFINE top == [key |-> MaxKey, ptr |-> 1]
<1>1. /\ pages = EmptyTree /\ rootLocation = 0 /\ internalStack = << >> /\ pc = "idle"
      /\ appendMe = [key |-> MaxKey, id |-> 0] /\ target = 0 /\ newKey = top /\ stored = {}
  BY DEF Init
<1>2. top \in Entry /\ top.key = MaxKey /\ top.ptr = 1
  BY DEF Entry
<1> HIDE DEF top
<1>3. /\ DOMAIN pages = 0 .. 1 /\ 0 \in DOMAIN pages /\ 1 \in DOMAIN pages
      /\ \A p \in DOMAIN pages : p = 0 \/ p = 1
      /\ pages[0] = Directory(<<top>>) /\ pages[1] = Leaf(<< >>)
  BY <1>1 DEF EmptyTree, top
<1>4. /\ ~ IsLeaf(0) /\ IsLeaf(1)
      /\ Recs(0) = <<top>> /\ Recs(1) = << >>
  BY <1>3 DEF IsLeaf, Recs, Directory, Leaf
<1>5. /\ Len(Recs(0)) = 1 /\ Recs(0)[1] = top /\ Len(Recs(1)) = 0
      /\ 1 .. 1 = {1} /\ 1 .. 0 = {}
  BY <1>4
<1>6. Directories = {0} /\ Leaves = {1} /\ Rootless = {0}
  BY <1>1, <1>3, <1>4 DEF Directories, Leaves, Rootless
<1>7. Numbered
  BY <1>3 DEF Numbered
<1>8. TypeOK
  <2>1. DOMAIN pages = 0 .. lastPage
    BY <1>7, LastPage
  <2>2. \A p \in DOMAIN pages : pages[p] \in Page
    <3>1. pages[0] \in Page
      BY <1>2, <1>3 DEF Page, Directory
    <3>2. pages[1] \in Page
      BY <1>3 DEF Page, Leaf
    <3> QED BY <1>3, <3>1, <3>2
  <2>3. \A p \in DOMAIN pages : Len(Recs(p)) <= IF IsLeaf(p) THEN LeafCapacity ELSE DirCapacity
    BY <1>3, <1>4, <1>5, ConstantsAssumption
  <2>4. appendMe \in [key : Keys \cup {MaxKey}, id : 0 .. MaxRecords]
    BY <1>1, ConstantsAssumption
  <2>5. stored \subseteq Record /\ internalStack \in Seq(DOMAIN pages)
    BY <1>1
  <2>6. rootLocation \in DOMAIN pages /\ target \in DOMAIN pages /\ newKey \in Entry
    BY <1>1, <1>2, <1>3
  <2> QED BY <1>1, <2>1, <2>2, <2>3, <2>4, <2>5, <2>6 DEF TypeOK
<1>9. Pointing
  BY <1>1, <1>2, <1>3, <1>5, <1>6 DEF Pointing
<1>10. OneEntry
  BY <1>2, <1>3, <1>5, <1>6 DEF OneEntry
<1>11. KeysBounded
  BY <1>1, <1>2, <1>5, <1>6 DEF KeysBounded, UpTo
<1>12. Topped
  BY <1>1, <1>2, <1>5, <1>6 DEF Topped, TopKey
<1>13. NotEmpty
  BY <1>1 DEF NotEmpty
<1>14. AllReached
  <2>1. Children(0) = {1}
    BY <1>2, <1>4, <1>5 DEF Children
  <2> QED BY <1>3, <1>6, <2>1 DEF AllReached, Closed
<1>15. GoingDown /\ GoingUp
  BY <1>1 DEF GoingDown, GoingUp
<1>16. Kept
  <2>1. IsFiniteSet({})
    BY FS_EmptySet
  <2> QED BY <1>1, <1>5, <1>6, <2>1 DEF Kept
<1> QED
  BY <1>7, <1>8, <1>9, <1>10, <1>11, <1>12, <1>13, <1>14, <1>15, <1>16 DEF IInv

(* Steps that change nothing keep it.                                      *)
LEMMA StutterKeeps ==
    ASSUME IInv, UNCHANGED vars
    PROVE  IInv'
<1>1. /\ pages' = pages /\ rootLocation' = rootLocation /\ internalStack' = internalStack /\ pc' = pc
      /\ appendMe' = appendMe /\ target' = target /\ newKey' = newKey /\ stored' = stored
  BY DEF vars
<1>2. TypeOK'
  BY <1>1 DEF IInv, TypeOK, Recs, IsLeaf, lastPage
<1>3. Numbered' /\ Pointing' /\ OneEntry'
  <2>1. Directories' = Directories /\ Rootless' = Rootless /\ \A p : Recs(p)' = Recs(p)
    BY <1>1 DEF Directories, Rootless, Recs, IsLeaf
  <2>2. Numbered'
    BY <1>1 DEF IInv, Numbered
  <2>3. Pointing'
    BY <1>1, <2>1 DEF IInv, Pointing
  <2>4. OneEntry'
    BY <1>1, <2>1 DEF IInv, OneEntry
  <2> QED BY <2>2, <2>3, <2>4
<1>4. KeysBounded'
  BY <1>1 DEF IInv, KeysBounded, UpTo, Directories, Recs, IsLeaf
<1>5. Topped'
  BY <1>1 DEF IInv, Topped, TopKey, Directories, Recs, IsLeaf
<1>6. NotEmpty'
  BY <1>1 DEF IInv, NotEmpty, Recs
<1>7. AllReached'
  <2>1. \A S : Closed(S)' <=> Closed(S)
    BY <1>1 DEF Closed, Children, Recs, IsLeaf
  <2>2. Rootless' = Rootless /\ DOMAIN pages' = DOMAIN pages
    BY <1>1 DEF Rootless
  <2> QED BY <2>1, <2>2 DEF IInv, AllReached
<1>8. GoingDown'
  BY <1>1 DEF IInv, GoingDown, StackReached, StackLeads, Leads, Reached, Closed, Children, Directories,
              Recs, IsLeaf
<1>9. GoingUp'
  BY <1>1 DEF IInv, GoingUp, Reached, Closed, Children, HasRoom, TopKey, Directories, Recs, IsLeaf
<1>10. Kept'
  BY <1>1 DEF IInv, Kept, Leaves, Recs, IsLeaf
<1> QED
  BY <1>2, <1>3, <1>4, <1>5, <1>6, <1>7, <1>8, <1>9, <1>10 DEF IInv

(* Each step of the tree keeps it.                                         *)
LEMMA NextKeeps ==
    ASSUME IInv, [Next]_vars
    PROVE  IInv'
<1>1. ASSUME NEW k \in Keys, Begin(k)
      PROVE  IInv'
  BY <1>1, BeginKeeps
<1>2. CASE Descend
  BY <1>2, DescendKeeps
<1>3. CASE AppendToLeaf
  BY <1>3, AppendToLeafKeeps
<1>4. CASE SplitLeaf
  BY <1>4, SplitLeafKeeps
<1>5. CASE InsertEntry
  BY <1>5, InsertEntryKeeps
<1>6. CASE SplitDirectory
  BY <1>6, SplitDirectoryKeeps
<1>7. CASE GrowRoot
  BY <1>7, GrowRootKeeps
<1>8. ASSUME NEW x \in Ranges, SortedScan(Discovered(x[1], x[2]))
      PROVE  IInv'
  <2>1. Discovered(x[1], x[2]) \in Seq(Leaves)
    BY DiscoveredLeaves DEF IInv
  <2> QED BY <1>8, <2>1, SortedScanKeeps
<1>9. CASE UNCHANGED vars
  BY <1>9, StutterKeeps
<1> QED
  BY <1>1, <1>2, <1>3, <1>4, <1>5, <1>6, <1>7, <1>8, <1>9 DEF Next, AppendRecord

(* The inductive invariant holds in every state of the tree.               *)
LEMMA Invariant == Spec => []IInv
<1>1. IInv /\ [Next]_vars => IInv'
  BY NextKeeps
<1> QED
  BY InitInvariant, <1>1, PTL DEF Spec

(* Every variable of the tree keeps its type, and no page overflows.       *)
THEOREM TypeCorrect == Spec => []TypeOK
<1>1. IInv => TypeOK
  BY DEF IInv
<1> QED
  BY Invariant, <1>1, PTL

(* No entry ever leads to a page with a key above its own, the directory   *)
(* pages stay in order, and so does the half that has no entry yet: what   *)
(* append and the iterators rely on when they search by key.               *)
THEOREM KeysStayBounded == Spec => []KeysBounded
<1>1. IInv => KeysBounded
  BY DEF IInv
<1> QED
  BY Invariant, <1>1, PTL

-----------------------------------------------------------------------------
(* The pages below a page: a walk that goes through as many levels as there *)
(* are directory pages has passed over all of them.                        *)
Walk(down, p) ==
    down[0] = {p} /\ \A n \in Nat : down[n + 1] = down[n] \cup UNION {Children(q) : q \in down[n]}

(* Below is what such a walk has passed.                                   *)
LEMMA WalksBelow ==
    ASSUME TypeOK, Pointing, NEW p \in DOMAIN pages
    PROVE  \E down \in [Nat -> SUBSET DOMAIN pages] :
              Walk(down, p) /\ Below(p) = down[Cardinality(Directories)]
<1> DEFINE down[n \in Nat] == IF n = 0 THEN {p}
                              ELSE down[n - 1] \cup UNION {Children(q) : q \in down[n - 1]}
           X == SUBSET DOMAIN pages
           step == [n \in Nat |-> [S \in X |-> S \cup UNION {Children(q) : q \in S}]]
<1>1. \A q \in DOMAIN pages : Children(q) \subseteq DOMAIN pages
  BY OnPages DEF Children, Pointing
<1>2. {p} \in X /\ step \in [Nat -> [X -> X]]
  BY <1>1
<1>3. PICK f \in [Nat -> X] : Recurs(f, {p}, step)
  <2> HIDE DEF step, X
  <2> QED BY <1>2, PrimitiveRecursion
<1>4. f = [n \in Nat |-> IF n = 0 THEN {p} ELSE f[n - 1] \cup UNION {Children(q) : q \in f[n - 1]}]
  <2>1. ASSUME NEW n \in Nat
        PROVE  f[n] = IF n = 0 THEN {p} ELSE f[n - 1] \cup UNION {Children(q) : q \in f[n - 1]}
    <3>1. CASE n = 0
      BY <1>3, <3>1 DEF Recurs
    <3>2. CASE n # 0
      <4> PICK m \in Nat : m = n - 1 /\ n = m + 1
        BY <3>2
      <4>1. f[m + 1] = step[m][f[m]] /\ f[m] \in X
        BY <1>3 DEF Recurs
      <4>2. f[m + 1] = f[m] \cup UNION {Children(q) : q \in f[m]}
        BY <4>1
      <4> QED BY <3>2, <4>2
    <3> QED BY <3>1, <3>2
  <2> HIDE DEF X, step
  <2> QED BY <1>3, <2>1
<1>5. down = [n \in Nat |-> IF n = 0 THEN {p}
                            ELSE down[n - 1] \cup UNION {Children(q) : q \in down[n - 1]}]
  <2> HIDE DEF X, step
  <2> QED BY <1>4
<1> HIDE DEF down
<1>6. down[0] = {p}
  BY <1>5
<1>7. \A n \in Nat : down[n + 1] = down[n] \cup UNION {Children(q) : q \in down[n]}
  <2> SUFFICES ASSUME NEW n \in Nat
               PROVE  down[n + 1] = down[n] \cup UNION {Children(q) : q \in down[n]}
    OBVIOUS
  <2>1. n + 1 \in Nat /\ n + 1 # 0 /\ (n + 1) - 1 = n
    OBVIOUS
  <2> QED BY <1>5, <2>1
<1>8. \A n \in Nat : down[n] \in X
  <2> DEFINE T == {n \in Nat : down[n] \in X}
  <2>1. 0 \in T
    BY <1>6
  <2>2. \A n \in Nat : n \in T => n + 1 \in T
    BY <1>1, <1>7
  <2>3. Nat \subseteq T
    <3> HIDE DEF T
    <3> QED BY <2>1, <2>2, SetInduction
  <2> QED BY <2>3
<1>9. down \in [Nat -> X]
  BY <1>5, <1>8
<1>10. Below(p) = down[Cardinality(Directories)]
  BY DEF Below, down
<1> QED
  BY <1>6, <1>7, <1>9, <1>10 DEF Walk

(* It has passed all there is: the pages below a page hold the children of *)
(* each of their directory pages.                                          *)
LEMMA BelowClosed ==
    ASSUME TypeOK, Numbered, Pointing, NEW p \in DOMAIN pages
    PROVE  p \in Below(p) /\ Below(p) \subseteq DOMAIN pages /\ Closed(Below(p))
<1>1. PICK down \in [Nat -> SUBSET DOMAIN pages] :
         Walk(down, p) /\ Below(p) = down[Cardinality(Directories)]
  BY WalksBelow
<1> DEFINE passed(n) == Directories \cap down[n]
           T == {n \in Nat : p \in down[n] /\ (Closed(down[n]) \/ Cardinality(passed(n)) > n)}
<1>2. IsFiniteSet(DOMAIN pages) /\ IsFiniteSet(Directories) /\ Cardinality(Directories) \in Nat
  <2>1. IsFiniteSet(DOMAIN pages) /\ Directories \subseteq DOMAIN pages
    BY LastPage DEF Directories
  <2> QED BY <2>1, FS_Subset, FS_CardinalityType
<1>3. \A n \in Nat : /\ IsFiniteSet(passed(n)) /\ Cardinality(passed(n)) \in Nat
                     /\ Cardinality(passed(n)) <= Cardinality(Directories)
  BY <1>2, FS_Subset, FS_CardinalityType
<1>4. \A q \in DOMAIN pages : q \in Directories \/ Children(q) = {}
  BY DEF Directories, Children
<1>5. 0 \in T
  <2>1. down[0] = {p}
    BY <1>1 DEF Walk
  <2>2. CASE p \in Directories
    <3>1. passed(0) = {p}
      BY <2>1, <2>2
    <3>2. Cardinality(passed(0)) = 1
      BY <3>1, FS_Singleton
    <3> QED BY <2>1, <3>2
  <2>3. CASE p \notin Directories
    <3>1. Children(p) = {}
      BY <1>4, <2>3
    <3> QED BY <2>1, <3>1 DEF Closed
  <2> QED BY <2>2, <2>3
<1>6. \A n \in Nat : n \in T => n + 1 \in T
  <2> SUFFICES ASSUME NEW n \in Nat, n \in T
               PROVE  n + 1 \in T
    OBVIOUS
  <2>1. /\ down[n + 1] = down[n] \cup UNION {Children(q) : q \in down[n]}
        /\ p \in down[n + 1] /\ n + 1 \in Nat
    BY <1>1 DEF Walk
  <2>2. CASE Closed(down[n])
    <3>1. down[n + 1] = down[n]
      BY <2>1, <2>2 DEF Closed
    <3> QED BY <2>1, <2>2, <3>1
  <2>3. CASE Cardinality(passed(n)) > n /\ ~ Closed(down[n + 1])
    <3>1. PICK q \in down[n + 1] : ~ (Children(q) \subseteq down[n + 1])
      BY <2>3 DEF Closed
    <3>2. q \notin down[n]
      BY <2>1, <3>1
    <3>3. q \in Directories
      BY <1>4, <3>1
    <3>4. passed(n) \cup {q} \subseteq passed(n + 1) /\ q \notin passed(n)
      BY <2>1, <3>1, <3>2, <3>3
    <3>5. Cardinality(passed(n) \cup {q}) = Cardinality(passed(n)) + 1
      BY <1>3, <3>4, FS_AddElement
    <3>6. Cardinality(passed(n) \cup {q}) <= Cardinality(passed(n + 1))
      <4>1. IsFiniteSet(passed(n + 1))
        BY <1>3
      <4> HIDE DEF passed
      <4> QED BY <3>4, <4>1, FS_Subset
    <3>7. Cardinality(passed(n + 1)) > n + 1
      <4> HIDE DEF passed
      <4> QED BY <1>3, <2>3, <3>5, <3>6
    <3> HIDE DEF passed
    <3> QED BY <2>1, <3>7
  <2>4. CASE Closed(down[n + 1])
    <3> HIDE DEF passed
    <3> QED BY <2>1, <2>4
  <2> QED BY <2>2, <2>3, <2>4
<1>7. Nat \subseteq T
  <2> HIDE DEF T
  <2> QED BY <1>5, <1>6, SetInduction
<1>8. Closed(down[Cardinality(Directories)])
  <2> PICK n \in Nat : n = Cardinality(Directories)
    BY <1>2
  <2>1. n \in T /\ Cardinality(passed(n)) \in Nat /\ Cardinality(passed(n)) <= n
    BY <1>3, <1>7
  <2> HIDE DEF passed
  <2> QED BY <2>1
<1> QED
  BY <1>1, <1>2, <1>7, <1>8

(* Every page of the table hangs on the root, or on the half that has no   *)
(* entry yet.                                                              *)
LEMMA WholeTable ==
    ASSUME IInv
    PROVE  InTree = DOMAIN pages
<1> USE DEF IInv
<1>1. rootLocation \in DOMAIN pages /\ newKey.ptr \in DOMAIN pages
  BY OnPages DEF Pointing
<1>2. /\ rootLocation \in Below(rootLocation) /\ Below(rootLocation) \subseteq DOMAIN pages
      /\ Closed(Below(rootLocation))
      /\ newKey.ptr \in Below(newKey.ptr) /\ Below(newKey.ptr) \subseteq DOMAIN pages
      /\ Closed(Below(newKey.ptr))
  BY <1>1, BelowClosed
<1>3. InTree \in SUBSET DOMAIN pages /\ Closed(InTree) /\ Rootless \subseteq InTree
  BY <1>2 DEF InTree, Closed, Rootless
<1> QED
  BY <1>3 DEF AllReached

(* Where an entry is that leads to page p.                                 *)
LEMMA EntriesAre ==
    ASSUME NEW p, NEW x
    PROVE  x \in EntriesTo(p) <=>
              \E q \in Directories : \E i \in 1 .. Len(Recs(q)) : x = <<q, i>> /\ Recs(q)[i].ptr = p
<1>1. ASSUME x \in EntriesTo(p)
      PROVE  \E q \in Directories : \E i \in 1 .. Len(Recs(q)) : x = <<q, i>> /\ Recs(q)[i].ptr = p
  <2>1. PICK q \in Directories : x \in {<<q, i>> : i \in 1 .. Len(Recs(q))}
    BY <1>1 DEF EntriesTo
  <2>2. PICK i \in 1 .. Len(Recs(q)) : x = <<q, i>>
    BY <2>1
  <2>3. Recs(x[1])[x[2]].ptr = p
    BY <1>1 DEF EntriesTo
  <2>4. x[1] = q /\ x[2] = i
    BY <2>2
  <2> QED BY <2>2, <2>3, <2>4
<1>2. ASSUME NEW q \in Directories, NEW i \in 1 .. Len(Recs(q)), x = <<q, i>>, Recs(q)[i].ptr = p
      PROVE  x \in EntriesTo(p)
  <2>1. x[1] = q /\ x[2] = i
    BY <1>2
  <2> QED BY <1>2, <2>1 DEF EntriesTo
<1> QED
  BY <1>1, <1>2

(* A page is the child of one entry only, the root and a lower half that   *)
(* has no entry yet of none, and no page of the table is lost, between any *)
(* two steps of the splits that an append causes.                          *)
THEOREM TreeKeepsShape == Spec => []TreeShape
<1>1. ASSUME IInv
      PROVE  TreeShape
  <2> USE DEF IInv
  <2>1. ASSUME NEW p \in DOMAIN pages, p \in Rootless
        PROVE  Cardinality(EntriesTo(p)) = 0
    <3>1. \A x : x \notin EntriesTo(p)
      BY <1>1, <2>1, EntriesAre DEF Pointing
    <3> QED BY <3>1, FS_EmptySet
  <2>2. ASSUME NEW p \in DOMAIN pages, p \notin Rootless
        PROVE  Cardinality(EntriesTo(p)) = 1
    <3>1. PICK q \in Directories : \E i \in 1 .. Len(Recs(q)) : Recs(q)[i].ptr = p
      BY <1>1, <2>2 DEF OneEntry
    <3>2. PICK i \in 1 .. Len(Recs(q)) : Recs(q)[i].ptr = p
      BY <3>1
    <3>3. <<q, i>> \in EntriesTo(p)
      BY <3>2, EntriesAre
    <3>4. ASSUME NEW x \in EntriesTo(p)
          PROVE  x = <<q, i>>
      <4>1. PICK d \in Directories : \E j \in 1 .. Len(Recs(d)) : x = <<d, j>> /\ Recs(d)[j].ptr = p
        BY EntriesAre
      <4> QED BY <1>1, <3>2, <4>1 DEF OneEntry
    <3>5. EntriesTo(p) = {<<q, i>>}
      BY <3>3, <3>4
    <3> QED BY <3>5, FS_Singleton
  <2>3. InTree = DOMAIN pages
    BY <1>1, WholeTable
  <2> QED BY <2>1, <2>2, <2>3 DEF TreeShape
<1> QED
  BY Invariant, <1>1, PTL

(* The scan that append makes of a directory page stops at an entry of it, *)
(* and no page that the iterators come to is empty.                        *)
THEOREM ReadsStay == Spec => []ReadsStayOnPage
<1>1. ASSUME IInv
      PROVE  ReadsStayOnPage
  <2> USE DEF IInv
  <2>1. ASSUME pc = "append", ~ IsLeaf(Last(internalStack))
        PROVE  \E i \in 1 .. Len(Recs(Last(internalStack))) :
                  Recs(Last(internalStack))[i].key >= appendMe.key
    <3> PICK p, n : p = Last(internalStack) /\ n = Len(internalStack)
      OBVIOUS
    <3>1. /\ internalStack \in Seq(DOMAIN pages) /\ internalStack # << >>
          /\ internalStack[1] = rootLocation /\ StackLeads /\ appendMe.key <= MaxKey
      BY <1>1, <2>1, ConstantsAssumption DEF TypeOK, GoingDown, Record
    <3>2. n \in Nat \ {0} /\ p = internalStack[n] /\ p \in DOMAIN pages
      BY <3>1, EmptySeq, LenProperties, ElementOfSeq DEF Last
    <3>3. p \in Directories
      BY <2>1, <3>2 DEF Directories
    <3>4. Len(Recs(p)) \in Nat \ {0}
      <4>1. Recs(p) \in Seq(Entry) /\ Len(Recs(p)) \in Nat
        BY <1>1, <3>2, <3>3, OnPages
      <4>2. CASE stored # {}
        BY <1>1, <3>2, <4>1, <4>2, EmptySeq DEF NotEmpty
      <4>3. CASE stored = {}
        <5>1. pages = EmptyTree
          BY <1>1, <4>3 DEF NotEmpty
        <5>2. p = 0
          BY <3>2, <3>3, <5>1 DEF EmptyTree, Directories, IsLeaf, Leaf
        <5>3. Recs(p) = <<[key |-> MaxKey, ptr |-> 1]>>
          BY <5>1, <5>2 DEF EmptyTree, Recs, Directory
        <5> QED BY <5>3
      <4> QED BY <4>2, <4>3
    <3>5. TopKey(p) >= appendMe.key
      <4>1. CASE n = 1
        <5>1. p = rootLocation /\ TopKey(rootLocation) = MaxKey
          BY <1>1, <3>1, <3>2, <4>1 DEF Topped
        <5> QED BY <3>1, <5>1
      <4>2. CASE n # 1
        <5>1. n - 1 \in 1 .. n - 1 /\ (n - 1) + 1 = n
          BY <3>2, <4>2
        <5>2. Leads(internalStack[n - 1], p, appendMe.key)
          BY <3>1, <3>2, <5>1 DEF StackLeads
        <5> QED BY <1>1, <3>3, <5>2 DEF Leads, Topped
      <4> QED BY <4>1, <4>2
    <3> QED BY <3>4, <3>5 DEF TopKey
  <2>2. stored # {} => \A p \in InTree : Recs(p) # << >>
    BY <1>1, WholeTable DEF NotEmpty
  <2> QED BY <2>1, <2>2 DEF ReadsStayOnPage
<1> QED
  BY Invariant, <1>1, PTL

(* Where a record lies in the tree.                                        *)
LEMMA PositionsAre ==
    ASSUME IInv, NEW x
    PROVE  x \in Positions <=> \E p \in Leaves : \E i \in 1 .. Len(Recs(p)) : x = <<p, i>>
<1>1. {q \in InTree : IsLeaf(q)} = Leaves
  BY WholeTable DEF Leaves
<1>2. Positions = UNION {{<<p, i>> : i \in 1 .. Len(Recs(p))} : p \in Leaves}
  BY <1>1 DEF Positions
<1> QED
  BY <1>2

(* What the iterator over the whole table reads between two appends: it    *)
(* passes over the directory pages.                                        *)
LEMMA ScanReadsStored ==
    ASSUME IInv
    PROVE  LET scan == ScanAlt([p \in DOMAIN pages |-> Recs(p)], {p \in DOMAIN pages : IsLeaf(p)},
                               0, HighPage, lastPage)
           IN  lastPage <= HighPage => ToSet(scan) = stored /\ Len(scan) = Cardinality(stored)
<1> USE DEF IInv
<1> DEFINE records == [p \in DOMAIN pages |-> Recs(p)]
<1>1. lastPage \in Nat /\ DOMAIN pages = 0 .. lastPage /\ HighPage \in Nat
  BY LastPage DEF HighPage
<1>2. /\ Leaves \subseteq 0 .. lastPage
      /\ \A p \in Leaves : records[p] = Recs(p) /\ Recs(p) \in Seq(Record)
  BY <1>1, OnPages DEF Leaves
<1> HIDE DEF records
<1>3. TableOf(records, Leaves, lastPage, Record)
  BY <1>2 DEF TableOf, Kept
<1>4. UNION {ToSet(records[q]) : q \in Leaves} = stored
  <2>1. ASSUME NEW p \in Leaves
        PROVE  ToSet(records[p]) \subseteq stored
    <3>1. records[p] = Recs(p) /\ DOMAIN Recs(p) = 1 .. Len(Recs(p))
      BY <1>2, LenProperties
    <3> QED BY <3>1 DEF Kept, ToSet
  <2>2. ASSUME NEW r \in stored
        PROVE  \E p \in Leaves : r \in ToSet(records[p])
    <3>1. PICK p \in Leaves : \E i \in 1 .. Len(Recs(p)) : Recs(p)[i] = r
      BY DEF Kept
    <3>2. records[p] = Recs(p) /\ DOMAIN Recs(p) = 1 .. Len(Recs(p))
      BY <1>2, LenProperties
    <3> QED BY <3>1, <3>2 DEF ToSet
  <2> QED BY <2>1, <2>2
<1>5. {p \in DOMAIN pages : IsLeaf(p)} = Leaves
  BY DEF Leaves
<1> HIDE DEF IInv
<1>6. ASSUME lastPage <= HighPage
      PROVE  LET scan == ScanAlt(records, Leaves, 0, HighPage, lastPage) IN
             ToSet(scan) = stored /\ Len(scan) = Cardinality(stored)
  <2> PICK last \in Nat : last = lastPage
    BY <1>1
  <2> PICK high \in Nat : high = HighPage
    BY <1>1
  <2>1. high >= last
    BY <1>6
  <2>2. TableOf(records, Leaves, last, Record)
    BY <1>3
  <2>3. LET scan == ScanAlt(records, Leaves, 0, high, last) IN
           /\ ToSet(scan) = UNION {ToSet(records[q]) : q \in Leaves}
           /\ Len(scan) = Cardinality(ToSet(scan))
    BY <2>1, <2>2, ScanReadsAll
  <2> QED BY <1>4, <2>3
<1> QED
  BY <1>5, <1>6 DEF records

(* Each record appended is in one place of one leaf of the tree, between   *)
(* any two steps of an append, of its splits and of the sorts of a scan;   *)
(* and an iterator over the whole table reads just these, as long as the   *)
(* table has no page behind the last one that this iterator goes to.       *)
THEOREM EachRecordKept == Spec => [](lastPage <= HighPage => RecordsKept)
<1>1. ASSUME IInv, lastPage <= HighPage
      PROVE  RecordsKept
  <2>1. Kept
    BY <1>1 DEF IInv
  <2>2. {Recs(x[1])[x[2]] : x \in Positions} = stored
    <3>1. ASSUME NEW x \in Positions
          PROVE  Recs(x[1])[x[2]] \in stored
      <4>1. PICK p \in Leaves : \E i \in 1 .. Len(Recs(p)) : x = <<p, i>>
        BY <1>1, PositionsAre
      <4>2. PICK i \in 1 .. Len(Recs(p)) : x = <<p, i>>
        BY <4>1
      <4>3. x[1] = p /\ x[2] = i
        BY <4>2
      <4> QED BY <2>1, <4>3 DEF Kept
    <3>2. ASSUME NEW r \in stored
          PROVE  \E x \in Positions : Recs(x[1])[x[2]] = r
      <4>1. PICK p \in Leaves : \E i \in 1 .. Len(Recs(p)) : Recs(p)[i] = r
        BY <2>1 DEF Kept
      <4>2. PICK i \in 1 .. Len(Recs(p)) : Recs(p)[i] = r
        BY <4>1
      <4>3. PICK x : x = <<p, i>>
        OBVIOUS
      <4>4. x \in Positions /\ x[1] = p /\ x[2] = i
        BY <1>1, <4>3, PositionsAre
      <4> QED BY <4>2, <4>4
    <3> QED BY <3>1, <3>2
  <2>3. Cardinality(Positions) = Cardinality(stored)
    <3> DEFINE f == [x \in Positions |-> Recs(x[1])[x[2]]]
    <3>1. ASSUME NEW x \in Positions, NEW y \in Positions, Recs(x[1])[x[2]] = Recs(y[1])[y[2]]
          PROVE  x = y
      <4>1. PICK p \in Leaves : \E i \in 1 .. Len(Recs(p)) : x = <<p, i>>
        BY <1>1, PositionsAre
      <4>2. PICK i \in 1 .. Len(Recs(p)) : x = <<p, i>>
        BY <4>1
      <4>3. PICK q \in Leaves : \E j \in 1 .. Len(Recs(q)) : y = <<q, j>>
        BY <1>1, PositionsAre
      <4>4. PICK j \in 1 .. Len(Recs(q)) : y = <<q, j>>
        BY <4>3
      <4>5. x[1] = p /\ x[2] = i /\ y[1] = q /\ y[2] = j
        BY <4>2, <4>4
      <4>6. p = q /\ i = j
        BY <2>1, <3>1, <4>5 DEF Kept
      <4> QED BY <4>2, <4>4, <4>6
    <3>2. f \in [Positions -> stored]
      BY <2>2
    <3>3. f \in Injection(Positions, stored)
      BY <3>1, <3>2 DEF Injection, IsInjective
    <3>4. f \in Surjection(Positions, stored)
      BY <2>2, <3>2 DEF Surjection
    <3>5. IsFiniteSet(stored)
      BY <2>1 DEF Kept
    <3> HIDE DEF f
    <3> QED BY <3>3, <3>4, <3>5, FS_Injection
  <2>4. LET scan == ScanAlt([p \in DOMAIN pages |-> Recs(p)], {p \in DOMAIN pages : IsLeaf(p)},
                            0, HighPage, lastPage)
        IN  ToSet(scan) = stored /\ Len(scan) = Cardinality(stored)
    BY <1>1, ScanReadsStored
  <2> QED BY <2>2, <2>3, <2>4 DEF RecordsKept
<1> QED
  BY Invariant, <1>1, PTL

-----------------------------------------------------------------------------
(* The records of a page in a range.                                       *)
LEMMA MatchesAre ==
    ASSUME NEW S, NEW s \in Seq(S), NEW low, NEW high
    PROVE  /\ Matches(s, low, high) \in Seq(S)
           /\ ToSet(Matches(s, low, high)) = {r \in ToSet(s) : InRange(r, low, high)}
<1> DEFINE one(i) == IF InRange(s[i], low, high) THEN <<s[i]>> ELSE << >>
           seqs == [i \in 1 .. Len(s) |-> one(i)]
<1>1. Len(s) \in Nat /\ DOMAIN s = 1 .. Len(s) /\ \A i \in 1 .. Len(s) : s[i] \in S
  BY LenProperties, ElementOfSeq
<1>2. \A i \in 1 .. Len(s) :
         /\ one(i) \in Seq(S)
         /\ ToSet(one(i)) = IF InRange(s[i], low, high) THEN {s[i]} ELSE {}
  <2> SUFFICES ASSUME NEW i \in 1 .. Len(s)
               PROVE  /\ one(i) \in Seq(S)
                      /\ ToSet(one(i)) = IF InRange(s[i], low, high) THEN {s[i]} ELSE {}
    OBVIOUS
  <2>1. \A r \in S : <<r>> \in Seq(S) /\ ToSet(<<r>>) = {r}
    BY DEF ToSet
  <2>2. << >> \in Seq(S) /\ ToSet(<< >>) = {}
    BY DEF ToSet
  <2> QED BY <1>1, <2>1, <2>2
<1> HIDE DEF one
<1>3. seqs \in Seq(Seq(S)) /\ DOMAIN seqs = 1 .. Len(s) /\ \A i \in 1 .. Len(s) : seqs[i] = one(i)
  BY <1>1, <1>2
<1>4. Matches(s, low, high) = FlattenSeq(seqs)
  BY DEF Matches, one
<1> HIDE DEF seqs
<1>5. /\ FlattenSeq(seqs) \in Seq(S)
      /\ ToSet(FlattenSeq(seqs)) = UNION {ToSet(seqs[i]) : i \in DOMAIN seqs}
  BY <1>3, Flattened
<1>6. UNION {ToSet(seqs[i]) : i \in DOMAIN seqs} = {r \in ToSet(s) : InRange(r, low, high)}
  <2>1. \A i \in 1 .. Len(s) : ToSet(seqs[i]) = IF InRange(s[i], low, high) THEN {s[i]} ELSE {}
    BY <1>2, <1>3
  <2>2. ToSet(s) = {s[i] : i \in 1 .. Len(s)}
    BY <1>1 DEF ToSet
  <2> QED BY <1>3, <2>1, <2>2, ZenonT(60)
<1> QED
  BY <1>4, <1>5, <1>6

(* Every entry with a key not below the range is visited.                  *)
LEMMA Visits ==
    ASSUME NEW s \in Seq(Entry), NEW i \in 1 .. Len(s), NEW low \in Int, NEW high \in Int,
           s[i].key >= low
    PROVE  i \in Visited(s, low, high)
<1> DEFINE valid[j \in 0 .. Len(s)] ==
              j > 0 /\ s[j].key < high /\ (s[j].key >= low \/ valid[j - 1])
           step == [n \in Nat |-> [b \in BOOLEAN |->
                      s[n + 1].key < high /\ (s[n + 1].key >= low \/ b)]]
<1>1. step \in [Nat -> [BOOLEAN -> BOOLEAN]]
  OBVIOUS
<1>2. PICK f \in [Nat -> BOOLEAN] : Recurs(f, FALSE, step)
  <2> HIDE DEF step
  <2> QED BY <1>1, PrimitiveRecursion
<1> DEFINE g == [j \in 0 .. Len(s) |-> f[j]]
<1>3. g = [j \in 0 .. Len(s) |-> j > 0 /\ s[j].key < high /\ (s[j].key >= low \/ g[j - 1])]
  <2>1. ASSUME NEW j \in 0 .. Len(s)
        PROVE  f[j] = (j > 0 /\ s[j].key < high /\ (s[j].key >= low \/ g[j - 1]))
    <3>1. CASE j = 0
      BY <1>2, <3>1 DEF Recurs
    <3>2. CASE j # 0
      <4> PICK n \in Nat : n = j - 1 /\ j = n + 1 /\ n \in 0 .. Len(s)
        BY <3>2, LenProperties
      <4>1. f[n + 1] = step[n][f[n]] /\ f[n] \in BOOLEAN
        BY <1>2 DEF Recurs
      <4>2. f[n + 1] = (s[n + 1].key < high /\ (s[n + 1].key >= low \/ f[n]))
        BY <4>1
      <4> QED BY <3>2, <4>2
    <3> QED BY <3>1, <3>2
  <2> QED BY <2>1, Zenon
<1>4. valid = [j \in 0 .. Len(s) |->
                  j > 0 /\ s[j].key < high /\ (s[j].key >= low \/ valid[j - 1])]
  <2> HIDE DEF g
  <2> QED BY <1>3
<1> HIDE DEF valid
<1>5. s[i].key < high => valid[i]
  <2>1. i \in 0 .. Len(s) /\ i > 0
    BY LenProperties
  <2>2. valid[i] = (i > 0 /\ s[i].key < high /\ (s[i].key >= low \/ valid[i - 1]))
    BY <1>4, <2>1
  <2> QED BY <2>1, <2>2
<1>6. s[i].key \in Int
  BY KeysAreNumbers, ElementOfSeq
<1>7. valid[i] \/ s[i].key >= high
  BY <1>5, <1>6
<1>8. Visited(s, low, high) = {j \in 1 .. Len(s) : valid[j] \/ s[j].key >= high}
  BY DEF Visited, valid
<1> QED
  BY <1>7, <1>8

(* A call on a directory page finds all that the calls on the pages of its *)
(* visited entries do.                                                     *)
FoundBelow(found, n, p, low, high) ==
    UNION {ToSet(found[<<n, Recs(p)[i].ptr>>]) :
              i \in {j \in 1 .. Len(Recs(p)) : j \in Visited(Recs(p), low, high)}}

(* That is what FlattenSeq gives of the lists that the calls return.       *)
LEMMA FindsThrough ==
    ASSUME TypeOK, Pointing, NEW found, NEW low, NEW high, Finds(found, low, high),
           NEW n \in Nat, NEW p \in Directories
    PROVE  ToSet(found[<<n + 1, p>>]) = FoundBelow(found, n, p, low, high)
<1> DEFINE seqs == [i \in 1 .. Len(Recs(p)) |-> IF i \in Visited(Recs(p), low, high)
                                                THEN found[<<n, Recs(p)[i].ptr>>] ELSE << >>]
<1>1. n + 1 \in Nat /\ n + 1 # 0 /\ (n + 1) - 1 = n
  OBVIOUS
<1>2. /\ p \in DOMAIN pages /\ ~ IsLeaf(p) /\ Len(Recs(p)) \in Nat
      /\ \A i \in 1 .. Len(Recs(p)) : Recs(p)[i].ptr \in DOMAIN pages
  BY OnPages DEF Pointing
<1>3. found[<<n + 1, p>>] = FlattenSeq(seqs)
  BY <1>1, <1>2, Zenon DEF Finds
<1>4. \A i \in 1 .. Len(Recs(p)) : found[<<n, Recs(p)[i].ptr>>] \in Seq(Leaves)
  BY <1>2, Zenon DEF Finds
<1>5. << >> \in Seq(Leaves) /\ ToSet(<< >>) = {}
  BY DEF ToSet
<1>6. /\ DOMAIN seqs = 1 .. Len(Recs(p))
      /\ \A i \in 1 .. Len(Recs(p)) : seqs[i] \in Seq(Leaves)
      /\ \A i \in 1 .. Len(Recs(p)) :
            ToSet(seqs[i]) = IF i \in Visited(Recs(p), low, high)
                             THEN ToSet(found[<<n, Recs(p)[i].ptr>>]) ELSE {}
  BY <1>4, <1>5
<1>7. seqs \in Seq(Seq(Leaves))
  <2>1. seqs = [i \in 1 .. Len(Recs(p)) |-> seqs[i]]
    OBVIOUS
  <2> HIDE DEF seqs
  <2> QED BY <1>2, <1>6, <2>1
<1> HIDE DEF seqs
<1>8. ToSet(FlattenSeq(seqs)) = UNION {ToSet(seqs[i]) : i \in DOMAIN seqs}
  BY <1>7, Flattened
<1>9. UNION {ToSet(seqs[i]) : i \in DOMAIN seqs} = FoundBelow(found, n, p, low, high)
  <2> DEFINE part(i) == ToSet(found[<<n, Recs(p)[i].ptr>>])
             V == {j \in 1 .. Len(Recs(p)) : j \in Visited(Recs(p), low, high)}
  <2>1. \A i \in DOMAIN seqs : ToSet(seqs[i]) = IF i \in V THEN part(i) ELSE {}
    BY <1>6
  <2>2. V \subseteq DOMAIN seqs
    BY <1>6
  <2> HIDE DEF part, V
  <2>3. UNION {ToSet(seqs[i]) : i \in DOMAIN seqs} = UNION {part(i) : i \in V}
    BY <2>1, <2>2
  <2> QED BY <2>3 DEF part, V, FoundBelow
<1> QED
  BY <1>3, <1>8, <1>9

(* A call that goes deeper finds no less.                                  *)
LEMMA DeeperFindsMore ==
    ASSUME TypeOK, Pointing, NEW found, NEW low, NEW high, Finds(found, low, high),
           NEW n \in Nat, NEW p \in DOMAIN pages
    PROVE  ToSet(found[<<n, p>>]) \subseteq ToSet(found[<<n + 1, p>>])
<1> DEFINE T == {m \in Nat : \A q \in DOMAIN pages :
                                ToSet(found[<<m, q>>]) \subseteq ToSet(found[<<m + 1, q>>])}
<1>1. \A m \in Nat, q \in DOMAIN pages : IsLeaf(q) => found[<<m + 1, q>>] = found[<<m, q>>]
  <2>1. \A m \in Nat : m + 1 \in Nat
    OBVIOUS
  <2> QED BY <2>1, Zenon DEF Finds
<1>2. \A q \in DOMAIN pages : ~ IsLeaf(q) => q \in Directories
  BY DEF Directories
<1>3. 0 \in T
  <2> SUFFICES ASSUME NEW q \in DOMAIN pages
               PROVE  ToSet(found[<<0, q>>]) \subseteq ToSet(found[<<0 + 1, q>>])
    OBVIOUS
  <2>1. CASE IsLeaf(q)
    BY <1>1, <2>1
  <2>2. CASE ~ IsLeaf(q)
    <3>1. found[<<0, q>>] = << >>
      BY <2>2, Zenon DEF Finds
    <3>2. ToSet(<< >>) = {}
      BY DEF ToSet
    <3> QED BY <3>1, <3>2
  <2> QED BY <2>1, <2>2
<1>4. \A m \in Nat : m \in T => m + 1 \in T
  <2> SUFFICES ASSUME NEW m \in Nat, m \in T, NEW q \in DOMAIN pages
               PROVE  ToSet(found[<<m + 1, q>>]) \subseteq ToSet(found[<<(m + 1) + 1, q>>])
    <3>1. \A k \in Nat : k + 1 \in Nat
      OBVIOUS
    <3> QED BY <3>1, Zenon
  <2>0. m + 1 \in Nat
    OBVIOUS
  <2>1. CASE IsLeaf(q)
    BY <1>1, <2>0, <2>1
  <2>2. CASE ~ IsLeaf(q)
    <3>1. /\ ToSet(found[<<m + 1, q>>]) = FoundBelow(found, m, q, low, high)
          /\ ToSet(found[<<(m + 1) + 1, q>>]) = FoundBelow(found, m + 1, q, low, high)
      BY <1>2, <2>0, <2>2, FindsThrough
    <3>2. \A i \in 1 .. Len(Recs(q)) : Recs(q)[i].ptr \in DOMAIN pages
      BY <1>2, <2>2 DEF Pointing
    <3>3. \A i \in 1 .. Len(Recs(q)) :
             ToSet(found[<<m, Recs(q)[i].ptr>>]) \subseteq ToSet(found[<<m + 1, Recs(q)[i].ptr>>])
      BY <3>2
    <3> QED BY <3>1, <3>3, ZenonT(60) DEF FoundBelow
  <2> QED BY <2>1, <2>2
<1>5. Nat \subseteq T
  <2> HIDE DEF T
  <2> QED BY <1>3, <1>4, SetInduction
<1> QED
  BY <1>5

(* A leaf with a record in the range is found: all the entries that lead   *)
(* to it have keys that are not below the key of the record.               *)
LEMMA LeafFound ==
    ASSUME IInv, pc # "split", NEW low \in Int, NEW high \in Int,
           NEW leaf \in Leaves, NEW at \in 1 .. Len(Recs(leaf)), InRange(Recs(leaf)[at], low, high)
    PROVE  leaf \in ToSet(Discovered(low, high))
<1>1. TypeOK /\ Numbered /\ Pointing /\ KeysBounded /\ Topped /\ NotEmpty /\ Kept
  BY DEF IInv
<1>2. PICK found : /\ Finds(found, low, high)
                   /\ Discovered(low, high) = found[<<Cardinality(Directories), rootLocation>>]
  BY <1>1, DiscoveredBy
<1>3. PICK k \in Int : k = Recs(leaf)[at].key /\ low <= k
  BY <1>1, OnPages DEF InRange
<1>4. rootLocation \in DOMAIN pages /\ rootLocation \in Directories
  BY <1>1, OnPages DEF Pointing
<1>5. PICK down \in [Nat -> SUBSET DOMAIN pages] :
         Walk(down, rootLocation) /\ Below(rootLocation) = down[Cardinality(Directories)]
  BY <1>1, <1>4, WalksBelow
<1>6. leaf \in Below(rootLocation)
  <2>1. InTree = DOMAIN pages /\ leaf \in DOMAIN pages
    BY WholeTable DEF Leaves
  <2> QED BY <2>1 DEF InTree
<1> DEFINE Large(q) == q = leaf \/ (q \in Directories /\ TopKey(q) >= k)
           At(m, q) == leaf \in ToSet(found[<<m, q>>])
           T == {n \in Nat : \A m \in Nat, q \in down[n] :
                                Large(q) /\ At(m, q) => At(m + n, rootLocation)}
<1>7. 0 \in T
  <2> HIDE DEF At, Large
  <2>1. down[0] = {rootLocation} /\ \A m \in Nat : m + 0 = m
    BY <1>5 DEF Walk
  <2> QED BY <2>1
<1>8. ASSUME NEW d \in Directories, NEW q \in Children(d), NEW m \in Nat, Large(q), At(m, q)
      PROVE  Large(d) /\ At(m + 1, d)
  <2>1. d \in DOMAIN pages /\ ~ IsLeaf(d) /\ Recs(d) \in Seq(Entry) /\ Len(Recs(d)) \in Nat
    BY <1>1, OnPages
  <2>2. PICK i \in 1 .. Len(Recs(d)) : Recs(d)[i].ptr = q
    BY <2>1 DEF Children
  <2>3. Recs(d)[i].key \in Int /\ Recs(d)[i].key >= k
    <3>1. Recs(d)[i].key \in Int
      BY <1>1, OnPages
    <3>2. CASE q = leaf
      <4>1. UpTo(leaf, Recs(d)[i].key)
        BY <1>1, <2>2, <3>2 DEF KeysBounded
      <4> QED BY <1>3, <3>1, <4>1 DEF UpTo
    <3>3. CASE q \in Directories /\ TopKey(q) >= k
      BY <1>1, <2>2, <3>1, <3>3 DEF Topped
    <3> QED BY <1>8, <3>1, <3>2, <3>3
  <2>4. TopKey(d) >= k
    <3>1. Len(Recs(d)) \in 1 .. Len(Recs(d)) /\ TopKey(d) \in Int
      BY <1>1, <2>1, OnPages DEF TopKey
    <3>2. i = Len(Recs(d)) \/ i < Len(Recs(d))
      BY <2>1
    <3>3. Recs(d)[i].key <= TopKey(d)
      BY <1>1, <2>3, <3>1, <3>2 DEF KeysBounded, TopKey
    <3> QED BY <2>3, <3>1, <3>3
  <2>5. i \in Visited(Recs(d), low, high)
    <3>1. Recs(d)[i].key >= low
      BY <1>3, <2>3
    <3> QED BY <2>1, <3>1, Visits
  <2>6. ToSet(found[<<m + 1, d>>]) = FoundBelow(found, m, d, low, high)
    BY <1>1, <1>2, FindsThrough
  <2>7. ToSet(found[<<m, q>>]) \subseteq FoundBelow(found, m, d, low, high)
    BY <2>2, <2>5 DEF FoundBelow
  <2> QED BY <1>8, <2>4, <2>6, <2>7
<1>9. \A n \in Nat : n \in T => n + 1 \in T
  <2> SUFFICES ASSUME NEW n \in Nat, n \in T, NEW m \in Nat, NEW q \in down[n + 1],
                      Large(q), At(m, q)
               PROVE  At(m + (n + 1), rootLocation)
    <3>1. \A j \in Nat : j + 1 \in Nat
      OBVIOUS
    <3> HIDE DEF At, Large
    <3> QED BY <3>1, Zenon
  <2>1. /\ m + (n + 1) = (m + n) + 1 /\ m + (n + 1) = (m + 1) + n
        /\ m + n \in Nat /\ m + 1 \in Nat
    OBVIOUS
  <2>2. down[n + 1] = down[n] \cup UNION {Children(d) : d \in down[n]} /\ down[n] \subseteq DOMAIN pages
    BY <1>5 DEF Walk
  <2>3. CASE q \in down[n]
    <3>1. At(m + n, rootLocation)
      <4> HIDE DEF At, Large
      <4> QED BY <2>3
    <3>2. ToSet(found[<<m + n, rootLocation>>]) \subseteq ToSet(found[<<(m + n) + 1, rootLocation>>])
      BY <1>1, <1>2, <1>4, <2>1, DeeperFindsMore
    <3> QED BY <2>1, <3>1, <3>2
  <2>4. CASE \E d \in down[n] : q \in Children(d)
    <3>1. PICK d \in down[n] : q \in Children(d)
      BY <2>4
    <3>2. d \in Directories
      BY <2>2, <3>1 DEF Children, Directories
    <3> HIDE DEF At, Large
    <3>3. Large(d) /\ At(m + 1, d)
      BY <1>8, <3>1, <3>2
    <3>4. At((m + 1) + n, rootLocation)
      BY <2>1, <3>1, <3>3
    <3> QED BY <2>1, <3>4
  <2> QED BY <2>2, <2>3, <2>4
<1>10. Nat \subseteq T
  <2> HIDE DEF T
  <2> QED BY <1>7, <1>9, SetInduction
<1>11. At(0, leaf)
  <2>1. leaf \in DOMAIN pages /\ IsLeaf(leaf) /\ Recs(leaf) \in Seq(Record)
    BY <1>1, OnPages
  <2>2. Recs(leaf)[at] \in ToSet(Matches(Recs(leaf), low, high))
    <3>1. Recs(leaf)[at] \in ToSet(Recs(leaf))
      BY <2>1, LenProperties DEF ToSet
    <3>2. ToSet(Matches(Recs(leaf), low, high)) = {r \in ToSet(Recs(leaf)) : InRange(r, low, high)}
      BY <2>1, MatchesAre
    <3> QED BY <3>1, <3>2
  <2>3. Matches(Recs(leaf), low, high) # << >>
    <3>1. ToSet(<< >>) = {}
      BY DEF ToSet
    <3> QED BY <2>2, <3>1
  <2>4. found[<<0, leaf>>] = <<leaf>>
    BY <1>2, <2>1, <2>3, Zenon DEF Finds
  <2>5. leaf \in ToSet(<<leaf>>)
    BY DEF ToSet
  <2> QED BY <2>4, <2>5
<1>12. Cardinality(Directories) \in Nat
  <2>1. IsFiniteSet(DOMAIN pages) /\ Directories \subseteq DOMAIN pages
    BY <1>1, LastPage DEF Directories
  <2> QED BY <2>1, FS_Subset, FS_CardinalityType
<1>13. At(Cardinality(Directories), rootLocation)
  <2> PICK n \in Nat : n = Cardinality(Directories)
    BY <1>12
  <2>1. leaf \in down[n] /\ 0 + n = n
    BY <1>5, <1>6
  <2>2. n \in T
    BY <1>10
  <2> HIDE DEF At
  <2> QED BY <1>11, <2>1, <2>2
<1> QED
  BY <1>2, <1>13

(* Every record in the range is among those that the range iterator gives, *)
(* with duplicates too, in a tree of any height.                           *)
THEOREM RangesComplete == Spec => []RangeComplete
<1>1. ASSUME IInv
      PROVE  RangeComplete
  <2> SUFFICES ASSUME pc = "idle", NEW x \in Ranges, NEW r \in stored, InRange(r, x[1], x[2])
               PROVE  r \in ToSet(RangeResult(x[1], x[2]))
    BY DEF RangeComplete
  <2> PICK low, high : low = x[1] /\ high = x[2]
    OBVIOUS
  <2>1. low \in Int /\ high \in Int
    BY KeysAreNumbers DEF Ranges
  <2>2. PICK leaf \in Leaves : \E i \in 1 .. Len(Recs(leaf)) : Recs(leaf)[i] = r
    BY <1>1 DEF IInv, Kept
  <2>3. PICK at \in 1 .. Len(Recs(leaf)) : Recs(leaf)[at] = r
    BY <2>2
  <2> PICK found : found = Discovered(low, high)
    OBVIOUS
  <2>4. found \in Seq(Leaves) /\ leaf \in ToSet(found)
    <3>1. InRange(Recs(leaf)[at], low, high)
      BY <2>3
    <3> QED BY <1>1, <2>1, <3>1, LeafFound, DiscoveredLeaves DEF IInv
  <2>5. /\ Len(found) \in Nat /\ DOMAIN found = 1 .. Len(found)
        /\ \A n \in 1 .. Len(found) : found[n] \in Leaves
    BY <2>4, LenProperties, ElementOfSeq
  <2>6. PICK n \in 1 .. Len(found) : found[n] = leaf
    BY <2>4, <2>5 DEF ToSet
  <2> DEFINE part(m) == IF m = 1 \/ m = Len(found) THEN Matches(Recs(found[m]), low, high)
                        ELSE Recs(found[m])
             parts == [m \in 1 .. Len(found) |-> part(m)]
  <2>7. \A m \in 1 .. Len(found) :
           /\ Recs(found[m]) \in Seq(Record)
           /\ Matches(Recs(found[m]), low, high) \in Seq(Record)
           /\ ToSet(Matches(Recs(found[m]), low, high)) =
                 {y \in ToSet(Recs(found[m])) : InRange(y, low, high)}
    BY <1>1, <2>5, OnPages, MatchesAre DEF IInv
  <2>8. \A m \in 1 .. Len(found) : part(m) \in Seq(Record)
    BY <2>7
  <2>9. r \in ToSet(part(n))
    <3>1. r \in ToSet(Recs(leaf))
      BY <2>3, <2>6, <2>7, LenProperties DEF ToSet
    <3> QED BY <2>6, <2>7, <3>1
  <2> HIDE DEF part
  <2>10. parts \in Seq(Seq(Record)) /\ DOMAIN parts = 1 .. Len(found) /\ parts[n] = part(n)
    BY <2>5, <2>8
  <2> HIDE DEF parts
  <2>11. ToSet(FlattenSeq(parts)) = UNION {ToSet(parts[m]) : m \in DOMAIN parts}
    BY <2>10, Flattened
  <2>12. r \in ToSet(FlattenSeq(parts))
    BY <2>9, <2>10, <2>11
  <2>13. RangeResult(low, high) = FlattenSeq(parts)
    BY DEF RangeResult, parts, part
  <2> QED BY <2>12, <2>13
<1> QED
  BY Invariant, <1>1, PTL


-----------------------------------------------------------------------------
(* The entries of a directory page, the new one that is on its way to the  *)
(* page among them; e leads to the records with key k.                     *)
RecsOn(p) == {Recs(p)[i] : i \in 1 .. Len(Recs(p))}

Entries(p) == RecsOn(p) \cup (IF pc = "split" /\ p = target THEN {newKey} ELSE {})

Leading(E, e, k) == k <= e.key /\ \A f \in E : f.key < e.key => f.key < k

(* Each page has the keys that a search would look for on it: all of them  *)
(* on the root, those an entry leads to on its page.                       *)
Spans(span) ==
    /\ span \in [DOMAIN pages -> SUBSET Int]
    /\ span[rootLocation] = Int
    /\ \A p \in Directories : \A e \in Entries(p) :
          span[e.ptr] = {k \in span[p] : Leading(Entries(p), e, k)}

(* Every record is on the page where a search for its key ends, and the    *)
(* record that is appended goes there.                                     *)
Located(span) ==
    /\ \A p \in Leaves : \A r \in RecsOn(p) : r.key \in span[p]
    /\ pc = "append" => appendMe.key \in span[Last(internalStack)]

KeysApart(E) == \A e, f \in E : e.key = f.key => e = f

(* The strengthening of IInv for tables with distinct keys.                *)
Searched ==
    KeysApart(stored) =>
        /\ \A p \in Directories : KeysApart(Entries(p))
        /\ \E span : Spans(span) /\ Located(span)

-----------------------------------------------------------------------------
(* Entries.  A new one with a key K that e leads to, and smaller than e's, *)
(* takes the keys up to K away from e and nothing from the others.         *)
LEMMA EntryBefore ==
    ASSUME NEW E, \A f \in E : f.key \in Int, KeysApart(E), NEW e \in E,
           NEW n, n.key \in Int, Leading(E, e, n.key), n.key < e.key
    PROVE  /\ KeysApart(E \cup {n})
           /\ \A k \in Int : Leading(E \cup {n}, n, k) <=> Leading(E, e, k) /\ k <= n.key
           /\ \A k \in Int : Leading(E \cup {n}, e, k) <=> Leading(E, e, k) /\ n.key < k
           /\ \A f \in E \ {e} : \A k \in Int : Leading(E \cup {n}, f, k) <=> Leading(E, f, k)
<1>1. /\ \A f \in E : f.key < e.key <=> f.key < n.key
      /\ \A f \in E : f.key # n.key
  BY DEF Leading
<1>2. KeysApart(E \cup {n})
  BY <1>1 DEF KeysApart
<1>3. ASSUME NEW k \in Int
      PROVE  Leading(E \cup {n}, n, k) <=> Leading(E, e, k) /\ k <= n.key
  BY <1>1 DEF Leading
<1>4. ASSUME NEW k \in Int
      PROVE  Leading(E \cup {n}, e, k) <=> Leading(E, e, k) /\ n.key < k
  BY <1>1 DEF Leading
<1>5. ASSUME NEW f \in E \ {e}, NEW k \in Int
      PROVE  Leading(E \cup {n}, f, k) <=> Leading(E, f, k)
  <2>1. f.key # e.key
    BY DEF KeysApart
  <2>2. Leading(E, f, k) /\ n.key < f.key => n.key < k
    BY <1>1, <2>1 DEF Leading
  <2> QED BY <2>2 DEF Leading
<1> QED
  BY <1>2, <1>3, <1>4, <1>5

(* Entries L and U apart, all keys of L up to K: what they lead to apart,  *)
(* with an entry n with key K for those of L.                              *)
Divided(L, U, K, n) ==
    /\ \A l \in L : \A k \in Int : Leading(L \cup U, l, k) <=> Leading(L, l, k) /\ k <= K
    /\ \A u \in U : \A k \in Int :
          /\ Leading(L \cup U, u, k) <=> Leading(U, u, k) /\ K < k
          /\ Leading(U \cup {n}, u, k) <=> Leading(U, u, k) /\ K < k
    /\ \A k \in Int : Leading(U \cup {n}, n, k) <=> k <= K
    /\ KeysApart(L \cup U) => KeysApart(L) /\ KeysApart(U \cup {n})

(* Entries split in two at K lead to the same keys, but that those of L go *)
(* one level deeper.                                                       *)
LEMMA EntriesApart ==
    ASSUME NEW L, NEW U, \A f \in L \cup U : f.key \in Int,
           NEW K \in Int, \A l \in L : l.key <= K, \A u \in U : K < u.key, \E l \in L : l.key = K,
           NEW n, n.key = K
    PROVE  Divided(L, U, K, n)
<1>1. ASSUME NEW l \in L, NEW k \in Int
      PROVE  Leading(L \cup U, l, k) <=> Leading(L, l, k) /\ k <= K
  BY DEF Leading
<1>2. ASSUME NEW u \in U, NEW k \in Int
      PROVE  /\ Leading(L \cup U, u, k) <=> Leading(U, u, k) /\ K < k
             /\ Leading(U \cup {n}, u, k) <=> Leading(U, u, k) /\ K < k
  BY DEF Leading
<1>3. ASSUME NEW k \in Int
      PROVE  Leading(U \cup {n}, n, k) <=> k <= K
  BY DEF Leading
<1>4. KeysApart(L \cup U) => KeysApart(L) /\ KeysApart(U \cup {n})
  BY DEF KeysApart
<1> QED
  BY <1>1, <1>2, <1>3, <1>4 DEF Divided

(* Distinct, by what it says of two records.                               *)
LEMMA DistinctKeys ==
    ASSUME NEW R, IsFiniteSet(R), Distinct(R)
    PROVE  KeysApart(R)
<1> DEFINE f == [r \in R |-> r.key]
<1>1. f \in Surjection(R, KeysOf(R))
  BY DEF Surjection, KeysOf
<1>2. Cardinality(KeysOf(R)) = Cardinality(R)
  BY DEF Distinct
<1>3. f \in Injection(R, KeysOf(R))
  <2> HIDE DEF f
  <2> QED BY <1>1, <1>2, FS_Surjection
<1>4. \A r, s \in R : f[r] = f[s] => r = s
  <2> HIDE DEF f
  <2> QED BY <1>3 DEF Injection, IsInjective
<1> QED
  BY <1>4 DEF KeysApart

(* An entry leads to a page that is not the root, and to keys it has.      *)
LEMMA OnEntries ==
    ASSUME IInv
    PROVE  \A p \in Directories : \A e \in Entries(p) :
              e \in Entry /\ e.key \in Int /\ e.ptr \in DOMAIN pages /\ e.ptr # rootLocation
<1> SUFFICES ASSUME NEW p \in Directories, NEW e \in Entries(p)
             PROVE  e \in Entry /\ e.ptr \in DOMAIN pages /\ e.ptr # rootLocation
  BY KeysAreNumbers
<1>1. CASE e \in RecsOn(p)
  BY <1>1, OnPages DEF RecsOn, IInv, Pointing, Rootless
<1>2. CASE pc = "split" /\ e = newKey
  BY <1>2 DEF IInv, TypeOK, Pointing
<1> QED
  BY <1>1, <1>2 DEF Entries

-----------------------------------------------------------------------------
(* Each step keeps the strengthening.  A step after which every directory  *)
(* page has the entries it had, counting the one on its way, needs to look *)
(* at the records only.                                                    *)
LEMMA SameEntries ==
    ASSUME Searched, DOMAIN pages' = DOMAIN pages, rootLocation' = rootLocation,
           Directories' = Directories, \A p \in Directories : Entries(p)' = Entries(p),
           stored \subseteq stored',
           \A span : Spans(span) /\ Located(span) => Located(span)'
    PROVE  Searched'
<1> SUFFICES ASSUME KeysApart(stored')
             PROVE  /\ \A p \in Directories' : KeysApart(Entries(p)')
                    /\ \E span : Spans(span)' /\ Located(span)'
  BY DEF Searched, KeysApart
<1>1. KeysApart(stored)
  BY DEF KeysApart
<1>2. PICK span : Spans(span) /\ Located(span)
  BY <1>1 DEF Searched
<1>3. Spans(span)'
  BY <1>2 DEF Spans
<1>4. \A p \in Directories' : KeysApart(Entries(p)')
  BY <1>1 DEF Searched
<1> QED
  BY <1>2, <1>3, <1>4

(* append starts at the root, where all keys are looked for.               *)
LEMMA BeginSearches ==
    ASSUME IInv, Searched, NEW k \in Keys, Begin(k)
    PROVE  Searched'
<1>1. /\ UNCHANGED <<pages, rootLocation, target, newKey, stored>>
      /\ pc = "idle" /\ pc' = "append" /\ appendMe'.key = k
      /\ internalStack' = <<rootLocation>>
  BY DEF Begin
<1>2. /\ Directories' = Directories /\ Leaves' = Leaves
      /\ \A p : RecsOn(p)' = RecsOn(p) /\ Entries(p)' = Entries(p)
  BY <1>1 DEF Directories, Leaves, RecsOn, Entries, Recs, IsLeaf
<1>3. ASSUME NEW span, Spans(span), Located(span)
      PROVE  Located(span)'
  <2>1. Last(internalStack') = rootLocation
    BY <1>1 DEF Last
  <2>2. k \in span[rootLocation]
    BY <1>3, KeysAreNumbers DEF Spans
  <2> QED BY <1>1, <1>2, <1>3, <2>1, <2>2 DEF Located
<1> QED
  BY <1>1, <1>2, <1>3, SameEntries

(* The entry that append goes down by is the one that leads to the key.    *)
LEMMA DescendSearches ==
    ASSUME IInv, Searched, Descend
    PROVE  Searched'
<1>1. PICK p : p = Last(internalStack)
  OBVIOUS
<1>2. PICK i \in 1 .. Len(Recs(p)) :
         /\ FirstNotBelow(Recs(p), appendMe.key, i)
         /\ internalStack' = Append(internalStack, Recs(p)[i].ptr)
  BY <1>1 DEF Descend
<1>3. /\ UNCHANGED <<pages, rootLocation, pc, appendMe, target, newKey, stored>>
      /\ pc = "append" /\ ~ IsLeaf(p)
  BY <1>1 DEF Descend
<1>4. /\ Directories' = Directories /\ Leaves' = Leaves
      /\ \A q : RecsOn(q)' = RecsOn(q) /\ Entries(q)' = Entries(q)
  BY <1>3 DEF Directories, Leaves, RecsOn, Entries, Recs, IsLeaf
<1>5. internalStack \in Seq(DOMAIN pages) /\ internalStack # << >>
  BY <1>3 DEF IInv, TypeOK, GoingDown
<1>6. p \in Directories
  <2>1. Len(internalStack) \in 1 .. Len(internalStack)
    BY <1>5, LenProperties, EmptySeq
  <2>2. p \in DOMAIN pages
    BY <1>1, <1>5, <2>1, ElementOfSeq DEF Last
  <2> QED BY <1>3, <2>2 DEF Directories
<1>7. PICK c : c = Recs(p)[i].ptr
  OBVIOUS
<1>8. Last(internalStack') = c
  <2>1. /\ Len(Append(internalStack, c)) = Len(internalStack) + 1
        /\ Append(internalStack, c)[Len(internalStack) + 1] = c
    <3>1. c \in DOMAIN pages
      BY <1>6, <1>7 DEF IInv, Pointing
    <3> QED BY <1>5, <3>1, AppendProperties
  <2> QED BY <1>2, <1>7, <2>1 DEF Last
<1>9. /\ Recs(p)[i] \in RecsOn(p) /\ Entries(p) = RecsOn(p)
      /\ appendMe.key <= Recs(p)[i].key
      /\ \A f \in RecsOn(p) : f.key < Recs(p)[i].key => f.key < appendMe.key
  <2>1. /\ \A j \in 1 .. Len(Recs(p)) : Recs(p)[j].key \in Int
        /\ Len(Recs(p)) \in Nat /\ appendMe.key \in Int
    BY <1>3, <1>6, OnPages, KeysAreNumbers DEF IInv, Directories, GoingDown
  <2>2. ASSUME NEW j \in 1 .. Len(Recs(p)), Recs(p)[j].key < Recs(p)[i].key
        PROVE  Recs(p)[j].key < appendMe.key
    <3>1. ~ (i < j) /\ i # j
      BY <1>6, <2>1, <2>2 DEF IInv, KeysBounded
    <3>2. j \in 1 .. i - 1
      BY <2>1, <3>1
    <3> QED BY <1>2, <3>2 DEF FirstNotBelow
  <2>3. appendMe.key <= Recs(p)[i].key
    BY <1>2, <2>1 DEF FirstNotBelow
  <2>4. Entries(p) = RecsOn(p)
    BY <1>3 DEF Entries
  <2> QED BY <2>2, <2>3, <2>4 DEF RecsOn
<1>10. ASSUME NEW span, Spans(span), Located(span)
       PROVE  Located(span)'
  <2>1. appendMe.key \in span[p]
    BY <1>1, <1>3, <1>10 DEF Located
  <2>2. span[c] = {k \in span[p] : Leading(Entries(p), Recs(p)[i], k)}
    BY <1>6, <1>7, <1>9, <1>10 DEF Spans
  <2>3. appendMe.key \in span[c]
    BY <1>9, <2>1, <2>2 DEF Leading
  <2> QED BY <1>3, <1>4, <1>8, <1>10, <2>3 DEF Located
<1> QED
  BY <1>3, <1>4, <1>10, SameEntries

(* The record is put on the page where the search for its key has ended.   *)
LEMMA AppendToLeafSearches ==
    ASSUME IInv, Searched, AppendToLeaf
    PROVE  Searched'
<1>1. PICK p : p = Last(internalStack)
  OBVIOUS
<1>2. /\ AtLeaf /\ pc = "append" /\ pc' = "idle"
      /\ pages' = [pages EXCEPT ![p].recs = Append(@, appendMe)]
      /\ stored' = stored \cup {appendMe}
      /\ UNCHANGED <<rootLocation, appendMe, target, newKey>>
  BY <1>1 DEF AppendToLeaf, AtLeaf
<1>3. p \in Leaves /\ p \in DOMAIN pages /\ Recs(p) \in Seq(Record) /\ appendMe \in Record
  BY <1>1, <1>2, LeafEntry, OnPages DEF IInv
<1>4. /\ DOMAIN pages' = DOMAIN pages
      /\ \A q \in DOMAIN pages : q # p => pages'[q] = pages[q]
      /\ pages'[p].type = "RegularPage" /\ pages'[p].recs = Append(Recs(p), appendMe)
  <2>1. pages[p] \in Page /\ pages[p].type = "RegularPage"
    BY <1>3 DEF IInv, TypeOK, Leaves, IsLeaf
  <2>2. pages'[p] = [pages[p] EXCEPT !.recs = Append(Recs(p), appendMe)]
    BY <1>2, <1>3 DEF Recs
  <2>3. Append(Recs(p), appendMe) \in Seq(Record)
    BY <1>3, AppendProperties
  <2>4. LET c == [pages[p] EXCEPT !.recs = Append(Recs(p), appendMe)] IN
        c.type = pages[p].type /\ c.recs = Append(Recs(p), appendMe)
    BY <2>1, <2>3, PageChanged
  <2> QED BY <1>2, <2>1, <2>2, <2>4
<1>5. /\ Directories' = Directories /\ Leaves' = Leaves
      /\ \A q \in DOMAIN pages : q # p => Recs(q)' = Recs(q)
      /\ Recs(p)' = Append(Recs(p), appendMe)
  BY <1>3, <1>4 DEF Directories, Leaves, Recs, IsLeaf
<1>6. \A q \in Directories : Entries(q)' = Entries(q)
  <2>1. \A q \in Directories : q \in DOMAIN pages /\ q # p
    BY <1>3 DEF Directories, Leaves
  <2> QED BY <1>2, <1>5, <2>1 DEF Entries, RecsOn
<1>7. RecsOn(p)' = RecsOn(p) \cup {appendMe}
  <2>1. /\ Append(Recs(p), appendMe) \in Seq(Record)
        /\ ToSet(Append(Recs(p), appendMe)) = ToSet(Recs(p)) \cup {appendMe}
    BY <1>3, AppendedSet
  <2>2. \A s \in Seq(Record) : ToSet(s) = {s[i] : i \in 1 .. Len(s)}
    BY LenProperties DEF ToSet
  <2> QED BY <1>3, <1>5, <2>1, <2>2 DEF RecsOn
<1>8. \A q \in Leaves : q # p => RecsOn(q)' = RecsOn(q)
  BY <1>5 DEF RecsOn, Leaves
<1>9. ASSUME NEW span, Spans(span), Located(span)
      PROVE  Located(span)'
  <2>1. appendMe.key \in span[p]
    BY <1>1, <1>2, <1>9 DEF Located
  <2> QED BY <1>2, <1>5, <1>7, <1>8, <1>9, <2>1 DEF Located
<1> QED
  BY <1>2, <1>4, <1>5, <1>6, <1>9, SameEntries

(* The entry that was on its way has come to its page.                     *)
LEMMA InsertEntrySearches ==
    ASSUME IInv, Searched, InsertEntry
    PROVE  Searched'
<1>1. PICK p, all, n : p = target /\ all = Together(p, newKey) /\ n = Len(Recs(p)) + 1
  OBVIOUS
<1>2. /\ pc = "split" /\ pc' = "idle"
      /\ pages' = [pages EXCEPT ![p].recs = all]
      /\ UNCHANGED <<rootLocation, appendMe, target, newKey, stored>>
  BY <1>1 DEF InsertEntry
<1>3. /\ p \in Directories /\ p \in DOMAIN pages /\ ~ IsLeaf(p)
      /\ all \in Seq(Entry) /\ Len(all) = n
      /\ \A i \in 1 .. Len(Recs(p)) : \E m \in 1 .. n : all[m] = Recs(p)[i]
      /\ \E m \in 1 .. n : all[m] = newKey
      /\ \A m \in 1 .. n : all[m] = newKey \/ \E i \in 1 .. Len(Recs(p)) : all[m] = Recs(p)[i]
  BY <1>1, <1>2, EntriesJoined
<1>4. /\ DOMAIN pages' = DOMAIN pages
      /\ \A q \in DOMAIN pages : q # p => pages'[q] = pages[q]
      /\ pages'[p].type = pages[p].type /\ pages'[p].recs = all
  <2>1. pages[p] \in Page /\ pages[p].type # "RegularPage"
    BY <1>3 DEF IInv, TypeOK, IsLeaf
  <2>2. pages'[p] = [pages[p] EXCEPT !.recs = all]
    BY <1>2, <1>3
  <2>3. LET c == [pages[p] EXCEPT !.recs = all] IN c.type = pages[p].type /\ c.recs = all
    BY <1>3, <2>1, PageChanged
  <2> QED BY <1>2, <2>2, <2>3
<1>5. /\ Directories' = Directories /\ Leaves' = Leaves
      /\ \A q \in DOMAIN pages : q # p => Recs(q)' = Recs(q)
      /\ Recs(p)' = all
  <2>1. \A q \in DOMAIN pages : pages'[q].type = pages[q].type
    BY <1>4
  <2>2. Directories' = Directories /\ Leaves' = Leaves
    BY <1>4, <2>1 DEF Directories, Leaves, IsLeaf
  <2> QED BY <1>4, <2>2 DEF Recs
<1>6. Entries(p)' = Entries(p)
  <2>1. RecsOn(p)' = {all[m] : m \in 1 .. n}
    BY <1>3, <1>5 DEF RecsOn
  <2>2. {all[m] : m \in 1 .. n} = RecsOn(p) \cup {newKey}
    BY <1>3 DEF RecsOn
  <2> QED BY <1>1, <1>2, <2>1, <2>2 DEF Entries
<1>7. \A q \in Directories : q # p => Entries(q)' = Entries(q)
  BY <1>1, <1>2, <1>5 DEF Entries, RecsOn, Directories
<1>8. \A q \in Leaves : RecsOn(q)' = RecsOn(q)
  BY <1>3, <1>5, SMTT(30) DEF RecsOn, Leaves
<1>9. ASSUME NEW span, Spans(span), Located(span)
      PROVE  Located(span)'
  BY <1>2, <1>5, <1>8, <1>9 DEF Located
<1> QED
  BY <1>2, <1>4, <1>5, <1>6, <1>7, <1>9, SameEntries

(* A sorted scan moves records on their pages, and steps that change       *)
(* nothing move none.                                                      *)
LEMMA SortedScanSearches ==
    ASSUME IInv, Searched, NEW found \in Seq(Leaves), SortedScan(found)
    PROVE  Searched'
<1>1. /\ pc = "idle" /\ DOMAIN pages' = DOMAIN pages
      /\ \A p \in DOMAIN pages :
            pages'[p] = IF p \in Middle(found) THEN Leaf(StableSort(Recs(p))) ELSE pages[p]
      /\ UNCHANGED <<rootLocation, internalStack, pc, appendMe, target, newKey, stored>>
  BY DEF SortedScan
<1>2. \A p \in Middle(found) : p \in Leaves
  <2> SUFFICES ASSUME NEW n \in 2 .. Len(found) - 1
               PROVE  found[n] \in Leaves
    BY DEF Middle
  <2>1. n \in 1 .. Len(found)
    BY LenProperties
  <2> QED BY <2>1, ElementOfSeq
<1>3. \A p \in DOMAIN pages : IsLeaf(p)' <=> IsLeaf(p)
  BY <1>1, <1>2 DEF IsLeaf, Leaf, Leaves
<1>4. Directories' = Directories /\ Leaves' = Leaves
  BY <1>1, <1>3 DEF Directories, Leaves
<1>5. \A p \in Directories : Recs(p)' = Recs(p)
  BY <1>1, <1>2 DEF Recs, Directories, Leaves
<1>6. \A p \in Directories : Entries(p)' = Entries(p)
  BY <1>1, <1>5 DEF Entries, RecsOn
<1>7. ASSUME NEW p \in Leaves
      PROVE  RecsOn(p)' = RecsOn(p)
  <2>1. p \in DOMAIN pages /\ Recs(p) \in Seq(Record)
    BY OnPages DEF IInv, Leaves
  <2>2. CASE p \in Middle(found)
    <3>1. Recs(p)' = StableSort(Recs(p))
      BY <1>1, <2>1, <2>2 DEF Recs, Leaf
    <3>2. /\ Len(StableSort(Recs(p))) = Len(Recs(p))
          /\ \E from : Moved(StableSort(Recs(p)), Recs(p), Len(Recs(p)), from)
      BY <2>1, StableSorts, KeysAreNumbers
    <3>3. PICK n, from : n = Len(Recs(p)) /\ Moved(StableSort(Recs(p)), Recs(p), n, from)
      BY <3>2
    <3>4. RecsOn(p)' = {StableSort(Recs(p))[m] : m \in 1 .. n} /\ RecsOn(p) = {Recs(p)[i] : i \in 1 .. n}
      BY <3>1, <3>2, <3>3 DEF RecsOn
    <3>5. \A m \in 1 .. n : from[m] \in 1 .. n /\ StableSort(Recs(p))[m] = Recs(p)[from[m]]
      BY <3>3 DEF Moved
    <3>6. \A i \in 1 .. n : \E m \in 1 .. n : from[m] = i
      BY <3>3 DEF Moved
    <3>7. \A i \in 1 .. n : \E m \in 1 .. n : StableSort(Recs(p))[m] = Recs(p)[i]
      BY <3>5, <3>6
    <3>8. {StableSort(Recs(p))[m] : m \in 1 .. n} \subseteq {Recs(p)[i] : i \in 1 .. n}
      BY <3>5
    <3>9. {Recs(p)[i] : i \in 1 .. n} \subseteq {StableSort(Recs(p))[m] : m \in 1 .. n}
      BY <3>7
    <3> QED BY <3>4, <3>8, <3>9
  <2>3. CASE p \notin Middle(found)
    BY <1>1, <2>1, <2>3 DEF RecsOn, Recs
  <2> QED BY <2>2, <2>3
<1>8. ASSUME NEW span, Spans(span), Located(span)
      PROVE  Located(span)'
  BY <1>1, <1>4, <1>7, <1>8 DEF Located
<1> QED
  BY <1>1, <1>4, <1>6, <1>8, SameEntries

(* A step that changes nothing.                                            *)
LEMMA StutterSearches ==
    ASSUME Searched, UNCHANGED vars
    PROVE  Searched'
<1>1. UNCHANGED <<pages, rootLocation, internalStack, pc, appendMe, target, newKey, stored>>
  BY DEF vars
<1>2. /\ Directories' = Directories /\ Leaves' = Leaves
      /\ \A p : RecsOn(p)' = RecsOn(p) /\ Entries(p)' = Entries(p)
  BY <1>1 DEF Directories, Leaves, RecsOn, Entries, Recs, IsLeaf
<1>3. \A span : Spans(span) /\ Located(span) => Located(span)'
  BY <1>1, <1>2 DEF Located
<1> QED
  BY <1>1, <1>2, <1>3, SameEntries

(* A leaf is split: its keys up to that of the last record of the lower    *)
(* half are looked for on the new page once its entry counts.              *)
LEMMA SplitLeafSearches ==
    ASSUME IInv, Searched, SplitLeaf
    PROVE  Searched'
<1>1. PICK p, all, d, n, h, new :
          /\ p = Last(internalStack) /\ all = Together(p, appendMe)
          /\ d = internalStack[Len(internalStack) - 1]
          /\ n = Len(Recs(p)) + 1 /\ h = Half(n) /\ new = lastPage + 1
  OBVIOUS
<1>2. LeafHalves(p, all, d, n, h, new)
  BY <1>1, LeafHalved
<1>3. /\ AtLeaf /\ pc = "append" /\ pc' = "split" /\ stored' = stored \cup {appendMe}
      /\ rootLocation' = rootLocation /\ target' = d
      /\ newKey'.key = all[h].key /\ newKey'.ptr = new
  BY <1>2 DEF LeafHalves
<1>4. /\ p \in Leaves /\ p \in DOMAIN pages /\ p # rootLocation /\ d \in Directories
      /\ new \notin DOMAIN pages /\ DOMAIN pages' = DOMAIN pages \cup {new}
      /\ Directories' = Directories /\ Leaves' = Leaves \cup {new}
      /\ Directories \subseteq DOMAIN pages /\ Leaves \subseteq DOMAIN pages
      /\ rootLocation \in Directories
  BY <1>2 DEF LeafHalves, IInv, Pointing
<1>5. /\ n \in Nat /\ h \in 1 .. n - 1
      /\ \A i, j \in 1 .. n : i < j => all[i].key <= all[j].key
      /\ \A m \in 1 .. n : all[m] = appendMe \/ \E i \in 1 .. Len(Recs(p)) : all[m] = Recs(p)[i]
      /\ \A a, b \in 1 .. n : all[a] = all[b] => a = b
      /\ \A m \in 1 .. n : all[m] \in stored' /\ all[m].key \in Int
  BY <1>2 DEF LeafHalves
<1>6. /\ \A q \in DOMAIN pages : q # p => Recs(q)' = Recs(q)
      /\ Len(Recs(p)') = n - h /\ \A i \in 1 .. n - h : Recs(p)'[i] = all[h + i]
      /\ Len(Recs(new)') = h /\ \A i \in 1 .. h : Recs(new)'[i] = all[i]
  BY <1>2 DEF LeafHalves
<1> SUFFICES ASSUME KeysApart(stored')
             PROVE  /\ \A q \in Directories' : KeysApart(Entries(q)')
                    /\ \E span : Spans(span)' /\ Located(span)'
  BY DEF Searched
<1>7. KeysApart(stored) /\ \A q \in Directories : KeysApart(Entries(q)) /\ Entries(q) = RecsOn(q)
  BY <1>3 DEF Searched, KeysApart, Entries
<1>8. PICK span : Spans(span) /\ Located(span)
  BY <1>7 DEF Searched
<1>9. PICK K, L, E : K = all[h].key /\ E = RecsOn(d) /\ L = span[p]
  OBVIOUS
<1>10. PICK e \in E : /\ e.ptr = p
                      /\ \A q \in Directories : \A f \in Entries(q) : f.ptr = p => q = d /\ f = e
  <2>1. PICK i \in 1 .. Len(Recs(d)) : Recs(d)[i].ptr = p
    BY <1>1, <1>3, LeafEntry
  <2>2. \A q \in Directories : \A j \in 1 .. Len(Recs(q)) : Recs(q)[j].ptr = p => q = d /\ j = i
    BY <1>4, <2>1 DEF IInv, OneEntry
  <2> QED BY <1>7, <1>9, <2>1, <2>2 DEF RecsOn
<1>11. L = {k \in span[d] : Leading(E, e, k)}
  BY <1>4, <1>7, <1>8, <1>9, <1>10 DEF Spans
<1>12. \A m \in 1 .. n : all[m].key \in L
  <2>1. appendMe.key \in L
    BY <1>1, <1>3, <1>8, <1>9 DEF Located
  <2>2. \A i \in 1 .. Len(Recs(p)) : Recs(p)[i].key \in L
    BY <1>4, <1>8, <1>9 DEF Located, RecsOn
  <2> QED BY <1>5, <2>1, <2>2
<1>13. /\ K \in Int /\ K \in L
       /\ \A i \in 1 .. h : i \in 1 .. n /\ all[i].key <= K
       /\ \A i \in 1 .. n - h : h + i \in 1 .. n /\ K < all[h + i].key
  <2>1. h \in 1 .. n
    BY <1>5
  <2>2. \A i \in 1 .. h : i \in 1 .. n /\ (i < h \/ i = h)
    BY <1>5
  <2>3. \A i \in 1 .. n - h : h + i \in 1 .. n /\ h < h + i /\ h + i # h
    BY <1>5
  <2>4. \A i \in 1 .. n - h : all[h + i].key # K
    BY <1>5, <1>9, <2>1, <2>3 DEF KeysApart
  <2>5. \A i \in 1 .. n - h : K <= all[h + i].key
    BY <1>5, <1>9, <2>1, <2>3
  <2>6. \A i \in 1 .. h : all[i].key <= K
    BY <1>5, <1>9, <2>1, <2>2
  <2>7. K \in Int /\ K \in L
    BY <1>5, <1>9, <1>12, <2>1
  <2>8. \A i \in 1 .. n - h : h + i \in 1 .. n /\ K < all[h + i].key
    <3> SUFFICES ASSUME NEW i \in 1 .. n - h
                 PROVE  h + i \in 1 .. n /\ K < all[h + i].key
      OBVIOUS
    <3>1. h + i \in 1 .. n /\ all[h + i].key \in Int
      BY <1>5, <2>3
    <3> QED BY <2>4, <2>5, <2>7, <3>1
  <2> QED BY <2>2, <2>6, <2>7, <2>8
<1>14. /\ \A f \in E : f.key \in Int
       /\ \A f \in E : f.ptr \in DOMAIN pages
  BY <1>4, <1>7, <1>9, OnEntries
<1>15. Leading(E, e, K) /\ K < e.key
  <2>1. 1 \in 1 .. n - h
    BY <1>5
  <2>2. K < all[h + 1].key /\ h + 1 \in 1 .. n
    BY <1>13, <2>1
  <2>3. all[h + 1].key <= e.key /\ all[h + 1].key \in Int /\ e.key \in Int
    BY <1>5, <1>11, <1>12, <1>14, <2>2 DEF Leading
  <2> QED BY <1>11, <1>13, <2>2, <2>3
<1>16. PICK entry, both : entry = newKey' /\ both = E \cup {entry}
  OBVIOUS
<1>17. /\ KeysApart(both)
       /\ \A k \in Int : Leading(both, entry, k) <=> Leading(E, e, k) /\ k <= K
       /\ \A k \in Int : Leading(both, e, k) <=> Leading(E, e, k) /\ K < k
       /\ \A f \in E \ {e} : \A k \in Int : Leading(both, f, k) <=> Leading(E, f, k)
  <2>1. KeysApart(E) /\ entry.key = K
    BY <1>3, <1>4, <1>7, <1>9, <1>16
  <2> QED BY <1>13, <1>14, <1>15, <1>16, <2>1, EntryBefore
<1>18. /\ \A q \in Directories : q # d => Entries(q)' = Entries(q)
       /\ Entries(d)' = both
  <2>1. \A q \in Directories : RecsOn(q)' = RecsOn(q)
    <3>1. \A q \in Directories : q \in DOMAIN pages /\ q # p
      BY <1>4, OnPages DEF IInv
    <3> QED BY <1>6, <3>1 DEF RecsOn
  <2> QED BY <1>3, <1>4, <1>7, <1>9, <1>16, <2>1 DEF Entries
<1> PICK after : after = [q \in DOMAIN pages' |-> IF q = new THEN {k \in L : k <= K}
                                                ELSE IF q = p THEN {k \in L : K < k} ELSE span[q]]
  OBVIOUS
<1>19. /\ DOMAIN span = DOMAIN pages /\ \A q \in DOMAIN pages : span[q] \subseteq Int
       /\ span[rootLocation] = Int
  BY <1>8 DEF Spans
<1>20. /\ after \in [DOMAIN pages' -> SUBSET Int]
       /\ after[new] = {k \in L : k <= K} /\ after[p] = {k \in L : K < k}
       /\ \A q \in DOMAIN pages : q # p => after[q] = span[q]
  BY <1>4, <1>9, <1>19
<1>21. \A q \in Directories : after[q] = span[q] /\ q # p
  BY <1>4, <1>20, OnPages DEF IInv
<1>22. Spans(after)'
  <2>1. after[rootLocation] = Int
    BY <1>4, <1>19, <1>21
  <2>2. ASSUME NEW q \in Directories, q # d, NEW f \in Entries(q)
        PROVE  after[f.ptr] = {k \in after[q] : Leading(Entries(q), f, k)}
    <3>1. f.ptr \in DOMAIN pages /\ f.ptr # p
      BY <1>10, <2>2, OnEntries
    <3>2. span[f.ptr] = {k \in span[q] : Leading(Entries(q), f, k)}
      BY <1>8, <2>2 DEF Spans
    <3> QED BY <1>20, <1>21, <3>1, <3>2
  <2>3. ASSUME NEW f \in both
        PROVE  after[f.ptr] = {k \in after[d] : Leading(both, f, k)}
    <3>1. after[d] = span[d] /\ span[d] \subseteq Int
      BY <1>4, <1>19, <1>21
    <3>2. CASE f = entry
      BY <1>3, <1>11, <1>16, <1>17, <1>20, <3>1, <3>2
    <3>3. CASE f = e
      BY <1>10, <1>11, <1>17, <1>20, <3>1, <3>3
    <3>4. CASE f \in E \ {e}
      <4>1. f.ptr \in DOMAIN pages /\ f.ptr # p
        BY <1>4, <1>7, <1>9, <1>10, <1>14, <3>4
      <4>2. span[f.ptr] = {k \in span[d] : Leading(E, f, k)}
        BY <1>4, <1>7, <1>8, <1>9, <3>4 DEF Spans
      <4> QED BY <1>17, <1>20, <3>1, <3>4, <4>1, <4>2
    <3> QED BY <1>16, <2>3, <3>2, <3>3, <3>4
  <2>4. \A q \in Directories' : \A f \in Entries(q)' : after[f.ptr] = {k \in after[q] : Leading(Entries(q)', f, k)}
    <3> SUFFICES ASSUME NEW q \in Directories
                 PROVE  \A f \in Entries(q)' : after[f.ptr] = {k \in after[q] : Leading(Entries(q)', f, k)}
      BY <1>4
    <3>2. CASE q = d
      BY <1>18, <2>3, <3>2
    <3>3. CASE q # d
      BY <1>18, <2>2, <3>3
    <3> QED BY <3>2, <3>3
  <2> QED BY <1>3, <1>20, <2>1, <2>4 DEF Spans, Leading
<1>23. Located(after)'
  <2>1. \A r \in RecsOn(new)' : r.key \in after[new]
    <3>1. \A i \in 1 .. h : all[i].key \in after[new]
      BY <1>12, <1>13, <1>20
    <3>2. \A r \in RecsOn(new)' : \E i \in 1 .. h : r = all[i]
      BY <1>6 DEF RecsOn
    <3> QED BY <3>1, <3>2
  <2>2. \A r \in RecsOn(p)' : r.key \in after[p]
    <3>1. \A i \in 1 .. n - h : all[h + i].key \in after[p]
      BY <1>12, <1>13, <1>20
    <3>2. \A r \in RecsOn(p)' : \E i \in 1 .. n - h : r = all[h + i]
      BY <1>6 DEF RecsOn
    <3> QED BY <3>1, <3>2
  <2>3. ASSUME NEW q \in Leaves, q # p
        PROVE  \A r \in RecsOn(q)' : r.key \in after[q]
    <3>1. q \in DOMAIN pages /\ RecsOn(q)' = RecsOn(q) /\ after[q] = span[q]
      BY <1>4, <1>6, <1>20, <2>3 DEF RecsOn
    <3> QED BY <1>8, <2>3, <3>1 DEF Located
  <2>4. \A q \in Leaves' : \A r \in RecsOn(q)' : r.key \in after[q]
    BY <1>4, <2>1, <2>2, <2>3
  <2> QED BY <1>3, <2>4 DEF Located
<1>24. \A q \in Directories' : KeysApart(Entries(q)')
  BY <1>4, <1>7, <1>17, <1>18
<1> QED
  BY <1>22, <1>23, <1>24

(* The entries of a directory page that is split: L go to the new page and *)
(* U stay, each key of L up to K and each key of U beyond it.              *)
Parted(p, new, L, U, K) ==
    /\ Entries(p) = L \cup U /\ K \in Int
    /\ RecsOn(new)' = L /\ RecsOn(p)' = U
    /\ \A f \in L \cup U : f.key \in Int
    /\ \A l \in L : l.key <= K
    /\ \A u \in U : K < u.key
    /\ \E l \in L : l.key = K
    /\ \E u \in U : u.key = TopKey(p)
    /\ \A u \in U : u.key <= TopKey(p)

(* The halves of a split are such, when its entries have distinct keys.    *)
LEMMA SplitParts ==
    ASSUME IInv, pc = "split", NEW p, NEW all, NEW n, NEW h, NEW new, Splits(p, all, n, h, new),
           KeysApart(Entries(p))
    PROVE  \E L, U : Parted(p, new, L, U, all[h].key)
<1>1. /\ p = target /\ all = Together(p, newKey) /\ n = Len(Recs(p)) + 1
  BY DEF Splits
<1>2. /\ n \in Nat /\ n >= 2
      /\ \A m \in 1 .. n : all[m].key \in Int
      /\ \A i, j \in 1 .. n : i < j => all[i].key <= all[j].key
      /\ \A i \in 1 .. Len(Recs(p)) : \E m \in 1 .. n : all[m] = Recs(p)[i]
      /\ \E m \in 1 .. n : all[m] = newKey
      /\ \A m \in 1 .. n : all[m] = newKey \/ \E i \in 1 .. Len(Recs(p)) : all[m] = Recs(p)[i]
      /\ \A a, b \in 1 .. n : all[a].ptr = all[b].ptr => a = b
      /\ all[n].key = TopKey(p)
  BY <1>1, EntriesJoined
<1>3. /\ h \in 1 .. n - 1
      /\ Len(Recs(p)') = n - h /\ \A i \in 1 .. n - h : Recs(p)'[i] = all[h + i]
      /\ Len(Recs(new)') = h /\ \A i \in 1 .. h : Recs(new)'[i] = all[i]
  <2>1. SplitDone(p, all, n, h, new)
    BY SplitPages
  <2> QED BY <2>1 DEF SplitDone
<1>4. PICK L, U : L = {all[i] : i \in 1 .. h} /\ U = {all[h + i] : i \in 1 .. n - h}
  OBVIOUS
<1>5. /\ h \in 1 .. n /\ h \in 1 .. h
      /\ \A i \in 1 .. h : i \in 1 .. n /\ (i < h \/ i = h)
      /\ \A i \in 1 .. n - h : h + i \in 1 .. n /\ h < h + i /\ h + i # h /\ (h + i < n \/ h + i = n)
      /\ \A m \in 1 .. n : m \in 1 .. h \/ (m - h \in 1 .. n - h /\ h + (m - h) = m)
      /\ n - h \in 1 .. n - h /\ h + (n - h) = n /\ n \in 1 .. n
  BY <1>2, <1>3, SMTT(30)
<1>6. L \cup U = {all[m] : m \in 1 .. n}
  <2>1. L \cup U \subseteq {all[m] : m \in 1 .. n}
    BY <1>4, <1>5
  <2>2. \A m \in 1 .. n : all[m] \in L \cup U
    <3> TAKE m \in 1 .. n
    <3>1. CASE m \in 1 .. h
      BY <1>4, <3>1
    <3>2. CASE m - h \in 1 .. n - h /\ h + (m - h) = m
      <4>1. all[h + (m - h)] \in U
        BY <1>4, <3>2
      <4> QED BY <3>2, <4>1
    <3> QED BY <1>5, <3>1, <3>2
  <2> QED BY <2>1, <2>2
<1>7. Entries(p) = L \cup U
  <2>1. Entries(p) = RecsOn(p) \cup {newKey}
    BY <1>1 DEF Entries
  <2>2. {all[m] : m \in 1 .. n} \subseteq RecsOn(p) \cup {newKey}
    BY <1>2 DEF RecsOn
  <2>3. RecsOn(p) \cup {newKey} \subseteq {all[m] : m \in 1 .. n}
    BY <1>2 DEF RecsOn
  <2> QED BY <1>6, <2>1, <2>2, <2>3
<1>8. RecsOn(new)' = L /\ RecsOn(p)' = U
  <2>1. RecsOn(new)' = {Recs(new)'[i] : i \in 1 .. h} /\ RecsOn(p)' = {Recs(p)'[i] : i \in 1 .. n - h}
    BY <1>3 DEF RecsOn
  <2> QED BY <1>3, <1>4, <2>1
<1>9. \A l \in L : l.key <= all[h].key
  <2>1. \A i \in 1 .. h : all[i].key <= all[h].key
    BY <1>2, <1>5
  <2> QED BY <1>4, <2>1
<1>10. \A u \in U : all[h].key < u.key
  <2> SUFFICES ASSUME NEW i \in 1 .. n - h
               PROVE  all[h].key < all[h + i].key
    BY <1>4
  <2>1. h + i \in 1 .. n /\ all[h] \in Entries(p) /\ all[h + i] \in Entries(p)
    BY <1>5, <1>6, <1>7
  <2>2. all[h + i] # all[h]
    BY <1>2, <1>5, <2>1
  <2>3. all[h + i].key # all[h].key
    BY <2>1, <2>2 DEF KeysApart
  <2>4. all[h].key <= all[h + i].key
    BY <1>2, <1>5
  <2>5. all[h + i].key \in Int /\ all[h].key \in Int
    BY <1>2, <1>5
  <2> QED BY <2>3, <2>4, <2>5
<1>11. \A u \in U : u.key <= TopKey(p)
  <2> SUFFICES ASSUME NEW i \in 1 .. n - h
               PROVE  all[h + i].key <= all[n].key
    BY <1>2, <1>4
  <2>1. h + i \in 1 .. n /\ (h + i < n \/ h + i = n) /\ n \in 1 .. n
    BY <1>5
  <2>2. all[h + i].key \in Int
    BY <1>2, <2>1
  <2> QED BY <1>2, <2>1, <2>2
<1>12. \E u \in U : u.key = TopKey(p)
  <2>1. all[h + (n - h)] \in U
    BY <1>4, <1>5
  <2>2. all[h + (n - h)] = all[n]
    BY <1>5
  <2> QED BY <1>2, <2>1, <2>2
<1>13. \A f \in L \cup U : f.key \in Int
  BY <1>2, <1>6
<1>14. all[h] \in L /\ all[h].key \in Int
  BY <1>2, <1>4, <1>5
<1> QED
  BY <1>7, <1>8, <1>9, <1>10, <1>11, <1>12, <1>13, <1>14 DEF Parted

(* A directory page is split: the page is itself the target of the entry   *)
(* for its lower half, and the keys of the two stay what they were for it. *)
LEMMA SplitDirectorySearches ==
    ASSUME IInv, Searched, SplitDirectory
    PROVE  Searched'
<1>1. PICK p, all, n, h, new :
          /\ p = target /\ all = Together(p, newKey)
          /\ n = Len(Recs(p)) + 1 /\ h = Half(n) /\ new = lastPage + 1
  OBVIOUS
<1>2. /\ pc = "split" /\ pc' = "split" /\ ~ HasRoom(p)
      /\ pages' = Halved(p, all) /\ newKey' = EntryOfLower(all)
      /\ target' = Last(internalStack)
      /\ UNCHANGED <<rootLocation, appendMe, stored>>
  BY <1>1 DEF SplitDirectory
<1>3. target' = p /\ rootLocation \in Directories
  BY <1>1, <1>2 DEF IInv, GoingUp, Pointing
<1>4. new \notin DOMAIN pages /\ DOMAIN pages' = DOMAIN pages \cup {new}
  <2>1. DOMAIN pages' = 0 .. lastPage + 1
    BY <1>2 DEF Halved
  <2> QED BY <1>1, <2>1, LastPage DEF IInv
<1>5. Splits(p, all, n, h, new)
  BY <1>1, <1>2, <1>4 DEF Splits
<1>6. /\ p \in Directories /\ ~ IsLeaf(new)' /\ Leaves' = Leaves
      /\ \A q \in DOMAIN pages : IsLeaf(q)' = IsLeaf(q)
      /\ \A q \in DOMAIN pages \ {p} : Recs(q)' = Recs(q)
      /\ Len(all) = n
  <2>1. SplitDone(p, all, n, h, new)
    BY <1>2, <1>5, SplitPages
  <2> QED BY <2>1 DEF SplitDone
<1>7. newKey'.key = all[h].key /\ newKey'.ptr = new
  BY <1>1, <1>2, <1>6 DEF EntryOfLower
<1>8. /\ Directories' = Directories \cup {new} /\ Directories \subseteq DOMAIN pages
      /\ Leaves \subseteq DOMAIN pages \ {p}
  BY <1>4, <1>6 DEF Directories, Leaves
<1> SUFFICES ASSUME KeysApart(stored')
             PROVE  /\ \A q \in Directories' : KeysApart(Entries(q)')
                    /\ \E span : Spans(span)' /\ Located(span)'
  BY DEF Searched
<1>9. \A q \in Directories : KeysApart(Entries(q))
  BY <1>2 DEF Searched
<1>10. PICK span : Spans(span) /\ Located(span)
  BY <1>2 DEF Searched
<1>11. PICK L, U, K : K = all[h].key /\ Parted(p, new, L, U, K)
  BY <1>2, <1>5, <1>6, <1>9, SplitParts
<1>12. PICK entry, both : entry = newKey' /\ both = U \cup {entry}
  OBVIOUS
<1>13. /\ \A l \in L : \A k \in Int : Leading(L \cup U, l, k) <=> Leading(L, l, k) /\ k <= K
       /\ \A u \in U : \A k \in Int : Leading(both, u, k) <=> Leading(L \cup U, u, k)
       /\ \A k \in Int : Leading(both, entry, k) <=> k <= K
       /\ KeysApart(L) /\ KeysApart(both)
  <2>1. KeysApart(L \cup U)
    BY <1>6, <1>9, <1>11 DEF Parted
  <2>2. entry.key = K /\ K \in Int
    BY <1>7, <1>11, <1>12 DEF Parted
  <2>3. Divided(L, U, K, entry)
    <3>1. /\ \A f \in L \cup U : f.key \in Int
          /\ \A l \in L : l.key <= K
          /\ \A u \in U : K < u.key
          /\ \E l \in L : l.key = K
      BY <1>11 DEF Parted
    <3> QED BY <2>2, <3>1, EntriesApart
  <2> QED BY <1>12, <2>1, <2>3 DEF Divided
<1>14. /\ \A q \in Directories : q # p => Entries(q) = RecsOn(q) /\ Entries(q)' = Entries(q)
       /\ Entries(new)' = L /\ Entries(p)' = both /\ Entries(p) = L \cup U
  <2>1. \A q \in Directories : q # p => RecsOn(q)' = RecsOn(q)
    BY <1>6, <1>8 DEF RecsOn
  <2>2. new # p
    BY <1>4, <1>6, <1>8
  <2> QED BY <1>1, <1>2, <1>3, <1>11, <1>12, <2>1, <2>2 DEF Entries, Parted
<1>15. PICK after : after = [q \in DOMAIN pages' |-> IF q = new THEN {k \in span[p] : k <= K} ELSE span[q]]
  OBVIOUS
<1>16. /\ DOMAIN span = DOMAIN pages /\ \A q \in DOMAIN pages : span[q] \subseteq Int
       /\ span[rootLocation] = Int
  BY <1>10 DEF Spans
<1>17. /\ after \in [DOMAIN pages' -> SUBSET Int]
       /\ after[new] = {k \in span[p] : k <= K}
       /\ \A q \in DOMAIN pages : after[q] = span[q]
  BY <1>4, <1>6, <1>8, <1>15, <1>16
<1>18. Spans(after)'
  <2>1. after[rootLocation] = Int
    BY <1>3, <1>8, <1>16, <1>17
  <2>2. ASSUME NEW q \in Directories, NEW f \in Entries(q)
        PROVE  /\ f.ptr \in DOMAIN pages
               /\ after[f.ptr] = {k \in span[q] : Leading(Entries(q), f, k)}
    <3>1. f.ptr \in DOMAIN pages
      BY OnEntries
    <3>2. span[f.ptr] = {k \in span[q] : Leading(Entries(q), f, k)}
      BY <1>10 DEF Spans
    <3> QED BY <1>17, <3>1, <3>2
  <2>3. span[p] \subseteq Int
    BY <1>6, <1>8, <1>16
  <2>4. ASSUME NEW q \in Directories, q # p, NEW f \in Entries(q)'
        PROVE  after[f.ptr] = {k \in after[q] : Leading(Entries(q)', f, k)}
    BY <1>8, <1>14, <1>17, <2>2, <2>4
  <2>5. ASSUME NEW f \in L
        PROVE  after[f.ptr] = {k \in after[new] : Leading(L, f, k)}
    <3>1. after[f.ptr] = {k \in span[p] : Leading(L \cup U, f, k)}
      <4>1. p \in Directories /\ f \in Entries(p) /\ Entries(p) = L \cup U
        BY <1>6, <1>14
      <4>2. after[f.ptr] = {k \in span[p] : Leading(Entries(p), f, k)}
        BY <2>2, <4>1
      <4> QED BY <4>1, <4>2
    <3> QED BY <1>13, <1>17, <2>3, <3>1
  <2>6. ASSUME NEW f \in both
        PROVE  after[f.ptr] = {k \in after[p] : Leading(both, f, k)}
    <3>1. after[p] = span[p]
      BY <1>6, <1>8, <1>17
    <3>2. CASE f = entry
      BY <1>7, <1>12, <1>13, <1>17, <2>3, <3>1, <3>2
    <3>3. CASE f \in U
      <4>1. after[f.ptr] = {k \in span[p] : Leading(L \cup U, f, k)}
        <5>1. p \in Directories /\ f \in Entries(p) /\ Entries(p) = L \cup U
          BY <1>6, <1>14, <3>3
        <5>2. after[f.ptr] = {k \in span[p] : Leading(Entries(p), f, k)}
          BY <2>2, <5>1
        <5> QED BY <5>1, <5>2
      <4> QED BY <1>13, <2>3, <3>1, <3>3, <4>1
    <3> QED BY <1>12, <3>2, <3>3
  <2>7. ASSUME NEW q \in Directories', NEW f \in Entries(q)'
        PROVE  after[f.ptr] = {k \in after[q] : Leading(Entries(q)', f, k)}
    <3>1. CASE q = new
      BY <1>14, <2>5, <2>7, <3>1
    <3>2. CASE q = p
      BY <1>14, <2>6, <2>7, <3>2
    <3>3. CASE q \in Directories /\ q # p
      BY <2>4, <2>7, <3>3
    <3> QED BY <1>8, <3>1, <3>2, <3>3
  <2> QED BY <1>2, <1>17, <2>1, <2>7 DEF Spans, Leading
<1>19. Located(after)'
  <2>1. \A q \in Leaves : RecsOn(q)' = RecsOn(q) /\ after[q] = span[q]
    BY <1>6, <1>8, <1>17 DEF RecsOn
  <2> QED BY <1>2, <1>6, <1>10, <2>1 DEF Located
<1>20. \A q \in Directories' : KeysApart(Entries(q)')
  BY <1>8, <1>9, <1>13, <1>14
<1> QED
  BY <1>18, <1>19, <1>20

(* A new root over the two halves of the old one: K and MaxKey divide the  *)
(* keys between them.                                                      *)
LEMMA GrowRootSearches ==
    ASSUME IInv, Searched, GrowRoot
    PROVE  Searched'
<1>1. PICK p, all, n, h, new, top :
          /\ p = target /\ all = Together(p, newKey)
          /\ n = Len(Recs(p)) + 1 /\ h = Half(n) /\ new = lastPage + 1 /\ top = lastPage + 2
  OBVIOUS
<1>2. /\ pc = "split" /\ pc' = "idle" /\ ~ HasRoom(p) /\ Len(internalStack) <= 1
      /\ pages' = [q \in 0 .. top |-> IF q = top THEN NewRoot(all) ELSE Halved(p, all)[q]]
      /\ rootLocation' = top
      /\ UNCHANGED <<appendMe, target, newKey, stored>>
  BY <1>1 DEF GrowRoot
<1>3. /\ new \in Nat /\ new \notin DOMAIN pages /\ DOMAIN pages = 0 .. new - 1
      /\ top = new + 1 /\ top \notin DOMAIN pages
      /\ DOMAIN pages' = DOMAIN pages \cup {new, top}
  <2>1. /\ new \in Nat /\ new \notin DOMAIN pages /\ DOMAIN pages = 0 .. new - 1
    BY <1>1, LastPage DEF IInv
  <2>2. DOMAIN pages' = 0 .. top /\ top = new + 1
    BY <1>1, <1>2, LastPage DEF IInv
  <2> QED BY <2>1, <2>2
<1>4. Splits(p, all, n, h, new) /\ pages'[top] = NewRoot(all) /\ ~ IsLeaf(top)'
  <2>1. \A q \in DOMAIN pages \cup {new} : pages'[q] = Halved(p, all)[q]
    BY <1>2, <1>3
  <2>2. pages'[top] = NewRoot(all)
    BY <1>2, <1>3
  <2>3. ~ IsLeaf(top)'
    BY <2>2 DEF IsLeaf, NewRoot, Directory
  <2>4. DOMAIN pages' \ (DOMAIN pages \cup {new}) = {top}
    BY <1>3
  <2> QED BY <1>1, <1>2, <1>3, <2>1, <2>2, <2>3, <2>4 DEF Splits
<1>5. /\ p \in Directories /\ ~ IsLeaf(new)' /\ Leaves' = Leaves
      /\ \A q \in DOMAIN pages : IsLeaf(q)' = IsLeaf(q)
      /\ \A q \in DOMAIN pages \ {p} : Recs(q)' = Recs(q)
      /\ Len(all) = n
  <2>1. SplitDone(p, all, n, h, new)
    BY <1>2, <1>4, SplitPages
  <2> QED BY <2>1 DEF SplitDone
<1>6. p = rootLocation /\ TopKey(p) = MaxKey
  BY <1>1, <1>2, LastTarget
<1>7. /\ Directories' = Directories \cup {new, top} /\ Directories \subseteq DOMAIN pages
      /\ Leaves \subseteq DOMAIN pages \ {p}
  BY <1>3, <1>4, <1>5 DEF Directories, Leaves
<1> SUFFICES ASSUME KeysApart(stored')
             PROVE  /\ \A q \in Directories' : KeysApart(Entries(q)')
                    /\ \E span : Spans(span)' /\ Located(span)'
  BY DEF Searched
<1>8. \A q \in Directories : KeysApart(Entries(q))
  BY <1>2 DEF Searched
<1>9. PICK span : Spans(span) /\ Located(span)
  BY <1>2 DEF Searched
<1>10. PICK L, U, K : K = all[h].key /\ Parted(p, new, L, U, K)
  BY <1>2, <1>4, <1>5, <1>8, SplitParts
<1>11. PICK lower, upper : lower = [key |-> K, ptr |-> new] /\ upper = [key |-> MaxKey, ptr |-> p]
  OBVIOUS
<1>12. /\ MaxKey \in Int /\ K \in Int /\ K < MaxKey
       /\ \A u \in U : u.key \in Int /\ u.key <= MaxKey
  <2>1. K \in Int /\ \A u \in U : u.key \in Int /\ u.key <= MaxKey /\ K < u.key
    BY <1>6, <1>10 DEF Parted
  <2>2. PICK u \in U : u.key = MaxKey
    BY <1>6, <1>10 DEF Parted
  <2> QED BY <2>1, <2>2
<1>13. RecsOn(top)' = {lower, upper}
  <2>1. NewRoot(all) = Directory(<<lower, upper>>)
    BY <1>1, <1>5, <1>6, <1>10, <1>11 DEF NewRoot, EntryOfLower
  <2>2. Recs(top)' = <<lower, upper>>
    BY <1>4, <2>1 DEF Directory, Recs
  <2>3. Len(<<lower, upper>>) = 2 /\ 1 .. 2 = {1, 2}
    OBVIOUS
  <2> QED BY <2>2, <2>3 DEF RecsOn
<1>14. /\ \A l \in L : \A k \in Int : Leading(L \cup U, l, k) <=> Leading(L, l, k) /\ k <= K
       /\ \A u \in U : \A k \in Int : Leading(L \cup U, u, k) <=> Leading(U, u, k) /\ K < k
       /\ KeysApart(L) /\ KeysApart(U)
  <2>1. KeysApart(L \cup U)
    BY <1>5, <1>8, <1>10 DEF Parted
  <2>2. lower.key = K /\ K \in Int
    BY <1>11, <1>12
  <2>3. Divided(L, U, K, lower)
    <3>1. /\ \A f \in L \cup U : f.key \in Int
          /\ \A l \in L : l.key <= K
          /\ \A u \in U : K < u.key
          /\ \E l \in L : l.key = K
      BY <1>10 DEF Parted
    <3> QED BY <2>2, <3>1, EntriesApart
  <2> QED BY <2>1, <2>3 DEF Divided, KeysApart
<1>15. /\ KeysApart({lower, upper})
       /\ \A k \in Int : Leading({lower, upper}, lower, k) <=> k <= K
       /\ \A k \in Int : Leading({lower, upper}, upper, k) <=> K < k /\ k <= MaxKey
  BY <1>11, <1>12 DEF KeysApart, Leading
<1>16. /\ \A q \in Directories : q # p => Entries(q)' = Entries(q)
       /\ Entries(new)' = L /\ Entries(p)' = U /\ Entries(p) = L \cup U
       /\ Entries(top)' = {lower, upper}
  <2>1. \A q \in Directories : q # p => RecsOn(q)' = RecsOn(q)
    BY <1>5, <1>7 DEF RecsOn
  <2> QED BY <1>1, <1>2, <1>10, <1>13, <2>1 DEF Entries, Parted
<1>17. PICK after : after = [q \in DOMAIN pages' |-> IF q = top THEN Int
                                                ELSE IF q = new THEN {k \in Int : k <= K}
                                                ELSE IF q = p THEN {k \in Int : K < k /\ k <= MaxKey}
                                                ELSE span[q]]
  OBVIOUS
<1>18. /\ DOMAIN span = DOMAIN pages /\ \A q \in DOMAIN pages : span[q] \subseteq Int
       /\ span[p] = Int
  BY <1>6, <1>9 DEF Spans
<1>19. /\ after \in [DOMAIN pages' -> SUBSET Int]
       /\ after[top] = Int /\ after[new] = {k \in Int : k <= K}
       /\ after[p] = {k \in Int : K < k /\ k <= MaxKey}
       /\ \A q \in DOMAIN pages : q # p => after[q] = span[q]
  <2>1. top # new /\ new # p /\ top # p /\ p \in DOMAIN pages
    BY <1>3, <1>5, <1>7
  <2> QED BY <1>3, <1>17, <1>18, <2>1
<1>20. Spans(after)'
  <2>1. ASSUME NEW q \in Directories, NEW f \in Entries(q)
        PROVE  after[f.ptr] = {k \in span[q] : Leading(Entries(q), f, k)}
    <3>1. f.ptr \in DOMAIN pages /\ f.ptr # p
      BY <1>6, OnEntries
    <3>2. span[f.ptr] = {k \in span[q] : Leading(Entries(q), f, k)}
      BY <1>9 DEF Spans
    <3> QED BY <1>19, <3>1, <3>2
  <2>2. ASSUME NEW q \in Directories, q # p, NEW f \in Entries(q)'
        PROVE  after[f.ptr] = {k \in after[q] : Leading(Entries(q)', f, k)}
    BY <1>7, <1>16, <1>19, <2>1, <2>2
  <2>3. ASSUME NEW f \in L
        PROVE  after[f.ptr] = {k \in after[new] : Leading(L, f, k)}
    <3>1. after[f.ptr] = {k \in Int : Leading(L \cup U, f, k)}
      <4>1. p \in Directories /\ f \in Entries(p) /\ Entries(p) = L \cup U
        BY <1>5, <1>16
      <4>2. after[f.ptr] = {k \in span[p] : Leading(Entries(p), f, k)}
        BY <2>1, <4>1
      <4> QED BY <1>18, <4>1, <4>2
    <3> QED BY <1>14, <1>19, <3>1
  <2>4. ASSUME NEW f \in U
        PROVE  after[f.ptr] = {k \in after[p] : Leading(U, f, k)}
    <3>1. after[f.ptr] = {k \in Int : Leading(L \cup U, f, k)}
      <4>1. p \in Directories /\ f \in Entries(p) /\ Entries(p) = L \cup U
        BY <1>5, <1>16
      <4>2. after[f.ptr] = {k \in span[p] : Leading(Entries(p), f, k)}
        BY <2>1, <4>1
      <4> QED BY <1>18, <4>1, <4>2
    <3>2. \A k \in Int : Leading(U, f, k) => k <= MaxKey
      BY <1>12 DEF Leading
    <3> QED BY <1>14, <1>19, <3>1, <3>2
  <2>5. ASSUME NEW f \in {lower, upper}
        PROVE  after[f.ptr] = {k \in after[top] : Leading({lower, upper}, f, k)}
    <3>1. lower.ptr = new /\ upper.ptr = p
      BY <1>11
    <3>2. CASE f = lower
      BY <1>15, <1>19, <3>1, <3>2
    <3>3. CASE f = upper
      BY <1>15, <1>19, <3>1, <3>3
    <3> QED BY <3>2, <3>3
  <2>6. ASSUME NEW q \in Directories', NEW f \in Entries(q)'
        PROVE  after[f.ptr] = {k \in after[q] : Leading(Entries(q)', f, k)}
    <3>1. CASE q = new
      BY <1>16, <2>3, <2>6, <3>1
    <3>2. CASE q = p
      BY <1>16, <2>4, <2>6, <3>2
    <3>3. CASE q = top
      BY <1>16, <2>5, <2>6, <3>3
    <3>4. CASE q \in Directories /\ q # p
      BY <2>2, <2>6, <3>4
    <3> QED BY <1>7, <3>1, <3>2, <3>3, <3>4
  <2> QED BY <1>2, <1>19, <2>6 DEF Spans, Leading
<1>21. Located(after)'
  <2>1. \A q \in Leaves : RecsOn(q)' = RecsOn(q) /\ after[q] = span[q]
    BY <1>5, <1>7, <1>19 DEF RecsOn
  <2> QED BY <1>2, <1>5, <1>9, <2>1 DEF Located
<1>22. \A q \in Directories' : KeysApart(Entries(q)')
  BY <1>7, <1>8, <1>14, <1>15, <1>16
<1> QED
  BY <1>20, <1>21, <1>22

(* The keys of the first leaf are those up to MaxKey.                      *)
LEMMA InitSearches == Init => Searched
<1> SUFFICES ASSUME Init
             PROVE  Searched
  OBVIOUS
<1> DEFINE entry == [key |-> MaxKey, ptr |-> 1]
           span == [q \in DOMAIN pages |-> IF q = 0 THEN Int ELSE {k \in Int : k <= MaxKey}]
<1>1. pages = EmptyTree /\ rootLocation = 0 /\ pc = "idle"
  BY DEF Init
<1>2. /\ DOMAIN pages = {0, 1} /\ ~ IsLeaf(0) /\ IsLeaf(1)
      /\ Recs(0) = <<entry>> /\ Recs(1) = << >>
  <2>1. DOMAIN pages = 0 .. 1 /\ 0 .. 1 = {0, 1}
    BY <1>1 DEF EmptyTree
  <2>2. pages[0] = Directory(<<entry>>) /\ pages[1] = Leaf(<< >>)
    BY <1>1, <2>1 DEF EmptyTree
  <2> QED BY <2>1, <2>2 DEF IsLeaf, Recs, Directory, Leaf
<1>3. Directories = {0} /\ Leaves = {1}
  BY <1>2 DEF Directories, Leaves
<1>4. Entries(0) = {entry} /\ RecsOn(1) = {}
  <2>1. Len(<<entry>>) = 1 /\ <<entry>>[1] = entry /\ 1 .. 1 = {1} /\ Len(<< >>) = 0 /\ 1 .. 0 = {}
    OBVIOUS
  <2>2. RecsOn(0) = {entry} /\ RecsOn(1) = {}
    BY <1>2, <2>1 DEF RecsOn
  <2> QED BY <1>1, <2>2 DEF Entries
<1>5. entry.ptr = 1 /\ entry.key = MaxKey
  OBVIOUS
<1>6. span \in [DOMAIN pages -> SUBSET Int] /\ span[0] = Int /\ span[1] = {k \in Int : k <= MaxKey}
  BY <1>2
<1> HIDE DEF entry, span
<1>7. \A k \in Int : Leading({entry}, entry, k) <=> k <= MaxKey
  BY <1>5, ConstantsAssumption DEF Leading
<1>8. Spans(span)
  <2>1. span[entry.ptr] = {k \in span[0] : Leading({entry}, entry, k)}
    BY <1>5, <1>6, <1>7
  <2>2. ASSUME NEW p \in Directories, NEW e \in Entries(p)
        PROVE  span[e.ptr] = {k \in span[p] : Leading(Entries(p), e, k)}
    <3>1. p = 0 /\ e = entry
      BY <1>3, <1>4, <2>2
    <3> QED BY <1>4, <2>1, <3>1
  <2> QED BY <1>1, <1>6, <2>2 DEF Spans
<1>9. Located(span)
  BY <1>1, <1>3, <1>4 DEF Located
<1>10. KeysApart({entry})
  BY DEF KeysApart
<1> QED
  BY <1>3, <1>4, <1>8, <1>9, <1>10 DEF Searched

(* Every step keeps it.                                                    *)
LEMMA NextSearches ==
    ASSUME IInv, Searched, [Next]_vars
    PROVE  Searched'
<1>1. ASSUME NEW k \in Keys, Begin(k)
      PROVE  Searched'
  BY <1>1, BeginSearches
<1>2. CASE Descend
  BY <1>2, DescendSearches
<1>3. CASE AppendToLeaf
  BY <1>3, AppendToLeafSearches
<1>4. CASE SplitLeaf
  BY <1>4, SplitLeafSearches
<1>5. CASE InsertEntry
  BY <1>5, InsertEntrySearches
<1>6. CASE SplitDirectory
  BY <1>6, SplitDirectorySearches
<1>7. CASE GrowRoot
  BY <1>7, GrowRootSearches
<1>8. ASSUME NEW x \in Ranges, SortedScan(Discovered(x[1], x[2]))
      PROVE  Searched'
  <2>1. Discovered(x[1], x[2]) \in Seq(Leaves)
    BY DiscoveredLeaves DEF IInv
  <2> QED BY <1>8, <2>1, SortedScanSearches
<1>9. CASE UNCHANGED vars
  BY <1>9, StutterSearches
<1> QED
  BY <1>1, <1>2, <1>3, <1>4, <1>5, <1>6, <1>7, <1>8, <1>9 DEF Next, AppendRecord

(* Searches by key end where the records are, in every state of the tree.  *)
LEMMA SearchesEnd == Spec => [](IInv /\ Searched)
<1>1. IInv /\ Searched /\ [Next]_vars => Searched'
  BY NextSearches
<1>2. IInv /\ [Next]_vars => IInv'
  BY NextKeeps
<1> QED
  BY InitInvariant, InitSearches, <1>1, <1>2, PTL DEF Spec

-----------------------------------------------------------------------------
(* What a call of discoverPages finds: leaves with a record in the range,  *)
(* whose keys are looked for on the page of the call, and all keys of a    *)
(* leaf below those of the leaves found after it.                          *)
LeavesInOrder == {x \in Leaves \X Leaves : \A r \in RecsOn(x[1]), t \in RecsOn(x[2]) : r.key < t.key}

FoundWithin(pagesFound, keys, low, high) ==
    /\ \A x \in ToSet(pagesFound) :
          /\ x \in Leaves /\ Matches(Recs(x), low, high) # << >>
          /\ \A r \in RecsOn(x) : r.key \in keys
    /\ OrderedBy(pagesFound, LeavesInOrder)

(* The entries of a page divide the keys that are looked for on it.        *)
LEMMA EntriesDivide ==
    ASSUME IInv, pc = "idle", NEW span, Spans(span), NEW p \in Directories, KeysApart(Entries(p)),
           NEW i \in 1 .. Len(Recs(p)), NEW j \in 1 .. Len(Recs(p)), i < j,
           NEW k \in span[Recs(p)[i].ptr], NEW l \in span[Recs(p)[j].ptr]
    PROVE  k < l
<1>1. Entries(p) = RecsOn(p) /\ Recs(p)[i] \in RecsOn(p) /\ Recs(p)[j] \in RecsOn(p)
  BY DEF Entries, RecsOn
<1>2. PICK e, f : e = Recs(p)[i] /\ f = Recs(p)[j]
  OBVIOUS
<1>3. e.key \in Int /\ f.key \in Int /\ e.key <= f.key
  BY <1>2, OnPages DEF IInv, KeysBounded
<1>4. e.key # f.key
  <2>1. e.ptr = f.ptr => i = j
    BY <1>2 DEF IInv, OneEntry
  <2>2. i # j
    BY OnPages DEF IInv
  <2> QED BY <1>1, <1>2, <2>1, <2>2 DEF KeysApart
<1>5. span[e.ptr] = {x \in span[p] : Leading(Entries(p), e, x)}
  BY <1>1, <1>2 DEF Spans
<1>6. span[f.ptr] = {x \in span[p] : Leading(Entries(p), f, x)}
  BY <1>1, <1>2 DEF Spans
<1>7. span[p] \subseteq Int
  BY OnPages DEF Spans, IInv
<1>8. k \in Int /\ k <= e.key
  BY <1>2, <1>5, <1>7 DEF Leading
<1>9. l \in Int /\ e.key < l
  BY <1>1, <1>2, <1>3, <1>4, <1>6, <1>7 DEF Leading
<1> QED
  BY <1>3, <1>8, <1>9

(* Nothing found, or a leaf: it is within the keys of the page.            *)
LEMMA FoundOne ==
    ASSUME IInv, pc = "idle", NEW span, Spans(span), Located(span), NEW low, NEW high,
           NEW found, Finds(found, low, high),
           NEW n \in Nat, NEW p \in DOMAIN pages, IsLeaf(p) \/ n = 0
    PROVE  FoundWithin(found[<<n, p>>], span[p], low, high)
<1>1. \/ found[<<n, p>>] = << >>
      \/ IsLeaf(p) /\ Matches(Recs(p), low, high) # << >> /\ found[<<n, p>>] = <<p>>
  BY Zenon DEF Finds
<1>2. CASE found[<<n, p>>] = << >>
  <2>1. ToSet(<< >>) = {} /\ OrderedBy(<< >>, LeavesInOrder)
    BY DEF ToSet, OrderedBy
  <2> QED BY <1>2, <2>1 DEF FoundWithin
<1>3. CASE IsLeaf(p) /\ Matches(Recs(p), low, high) # << >> /\ found[<<n, p>>] = <<p>>
  <2>1. ToSet(<<p>>) = {p} /\ OrderedBy(<<p>>, LeavesInOrder)
    BY DEF ToSet, OrderedBy
  <2>2. p \in Leaves /\ \A r \in RecsOn(p) : r.key \in span[p]
    BY <1>3 DEF Leaves, Located
  <2> QED BY <1>3, <2>1, <2>2 DEF FoundWithin
<1> QED
  BY <1>1, <1>2, <1>3

(* One level up: what the calls for the entries of p find is in order, and *)
(* within the keys of p.                                                   *)
LEMMA FoundMore ==
    ASSUME IInv, pc = "idle", NEW span, Spans(span), Located(span), NEW low, NEW high,
           NEW found, Finds(found, low, high), NEW n \in Nat,
           \A q \in DOMAIN pages : FoundWithin(found[<<n, q>>], span[q], low, high),
           NEW p \in Directories, KeysApart(Entries(p))
    PROVE  FoundWithin(found[<<n + 1, p>>], span[p], low, high)
<1> DEFINE seqs == [i \in 1 .. Len(Recs(p)) |-> IF i \in Visited(Recs(p), low, high)
                                                THEN found[<<n, Recs(p)[i].ptr>>] ELSE << >>]
<1>1. n + 1 \in Nat /\ n + 1 # 0 /\ (n + 1) - 1 = n
  OBVIOUS
<1>2. /\ p \in DOMAIN pages /\ ~ IsLeaf(p) /\ Len(Recs(p)) \in Nat
      /\ \A i \in 1 .. Len(Recs(p)) : Recs(p)[i].ptr \in DOMAIN pages
  BY OnPages DEF IInv, Pointing
<1>3. found[<<n + 1, p>>] = FlattenSeq(seqs)
  BY <1>1, <1>2, ZenonT(90) DEF Finds
<1>4. \A i \in 1 .. Len(Recs(p)) : found[<<n, Recs(p)[i].ptr>>] \in Seq(Leaves)
  BY <1>2, Zenon DEF Finds
<1>5. << >> \in Seq(Leaves) /\ ToSet(<< >>) = {} /\ OrderedBy(<< >>, LeavesInOrder)
  BY DEF ToSet, OrderedBy
<1>6. /\ DOMAIN seqs = 1 .. Len(Recs(p))
      /\ \A i \in 1 .. Len(Recs(p)) : seqs[i] \in Seq(Leaves)
      /\ \A i \in 1 .. Len(Recs(p)) : seqs[i] = found[<<n, Recs(p)[i].ptr>>] \/ seqs[i] = << >>
  BY <1>4, <1>5
<1>7. seqs \in Seq(Seq(Leaves))
  <2>1. seqs = [i \in 1 .. Len(Recs(p)) |-> seqs[i]]
    OBVIOUS
  <2> HIDE DEF seqs
  <2> QED BY <1>2, <1>6, <2>1
<1> HIDE DEF seqs
<1>8. ASSUME NEW i \in 1 .. Len(Recs(p))
      PROVE  /\ OrderedBy(seqs[i], LeavesInOrder)
             /\ \A x \in ToSet(seqs[i]) :
                   /\ x \in Leaves /\ Matches(Recs(x), low, high) # << >>
                   /\ \A r \in RecsOn(x) : r.key \in span[Recs(p)[i].ptr]
  <2>1. FoundWithin(found[<<n, Recs(p)[i].ptr>>], span[Recs(p)[i].ptr], low, high)
    BY <1>2
  <2> QED BY <1>5, <1>6, <2>1 DEF FoundWithin
<1>9. ASSUME NEW i \in 1 .. Len(Recs(p)), NEW j \in 1 .. Len(Recs(p)), i < j,
             NEW x \in ToSet(seqs[i]), NEW y \in ToSet(seqs[j])
      PROVE  <<x, y>> \in LeavesInOrder
  <2>1. ASSUME NEW r \in RecsOn(x), NEW t \in RecsOn(y)
        PROVE  r.key < t.key
    <3>1. r.key \in span[Recs(p)[i].ptr] /\ t.key \in span[Recs(p)[j].ptr]
      BY <1>8, <2>1
    <3> QED BY <1>9, <3>1, EntriesDivide
  <2>2. x \in Leaves /\ y \in Leaves
    BY <1>8
  <2> QED BY <2>1, <2>2 DEF LeavesInOrder
<1>10. OrderedBy(FlattenSeq(seqs), LeavesInOrder)
  BY <1>6, <1>7, <1>8, <1>9, OrderedFlat
<1>11. ASSUME NEW x \in ToSet(FlattenSeq(seqs))
       PROVE  /\ x \in Leaves /\ Matches(Recs(x), low, high) # << >>
              /\ \A r \in RecsOn(x) : r.key \in span[p]
  <2>1. PICK i \in 1 .. Len(Recs(p)) : x \in ToSet(seqs[i])
    <3>1. ToSet(FlattenSeq(seqs)) = UNION {ToSet(seqs[i]) : i \in DOMAIN seqs}
      BY <1>7, Flattened
    <3> QED BY <1>6, <1>11, <3>1
  <2>2. span[Recs(p)[i].ptr] \subseteq span[p]
    <3>1. Recs(p)[i] \in Entries(p)
      BY DEF Entries, RecsOn
    <3>2. span[Recs(p)[i].ptr] = {k \in span[p] : Leading(Entries(p), Recs(p)[i], k)}
      BY <3>1 DEF Spans
    <3> QED BY <3>2
  <2> QED BY <1>8, <2>1, <2>2
<1> QED
  BY <1>3, <1>10, <1>11 DEF FoundWithin

(* The pages that discoverPages finds, of a table with distinct keys.      *)
LEMMA DiscoveredInOrder ==
    ASSUME IInv, Searched, pc = "idle", KeysApart(stored), NEW low, NEW high
    PROVE  FoundWithin(Discovered(low, high), Int, low, high)
<1>1. PICK span : Spans(span) /\ Located(span)
  BY DEF Searched
<1>2. PICK found : /\ Finds(found, low, high)
                   /\ Discovered(low, high) = found[<<Cardinality(Directories), rootLocation>>]
  BY DiscoveredBy DEF IInv
<1> DEFINE T == {n \in Nat : \A p \in DOMAIN pages : FoundWithin(found[<<n, p>>], span[p], low, high)}
<1>3. 0 \in T
  BY <1>1, <1>2, FoundOne
<1>4. \A n \in Nat : n \in T => n + 1 \in T
  <2> SUFFICES ASSUME NEW n \in Nat,
                      \A q \in DOMAIN pages : FoundWithin(found[<<n, q>>], span[q], low, high),
                      NEW p \in DOMAIN pages
               PROVE  FoundWithin(found[<<n + 1, p>>], span[p], low, high)
    <3>1. \A n \in Nat : n + 1 \in Nat
      OBVIOUS
    <3> QED BY <3>1, Zenon
  <2>1. CASE IsLeaf(p)
    <3>1. n + 1 \in Nat
      OBVIOUS
    <3> QED BY <1>1, <1>2, <2>1, <3>1, FoundOne
  <2>2. CASE ~ IsLeaf(p)
    <3>1. p \in Directories /\ KeysApart(Entries(p))
      BY <2>2 DEF Directories, Searched
    <3> QED BY <1>1, <1>2, <3>1, FoundMore
  <2> QED BY <2>1, <2>2
<1>5. Nat \subseteq T
  <2> HIDE DEF T
  <2> QED BY <1>3, <1>4, SetInduction
<1>6. Cardinality(Directories) \in Nat /\ rootLocation \in DOMAIN pages
  <2>1. IsFiniteSet(DOMAIN pages) /\ Directories \subseteq DOMAIN pages
    BY LastPage DEF IInv, Directories
  <2> QED BY <2>1, FS_Subset, FS_CardinalityType DEF IInv, Pointing
<1>7. span[rootLocation] = Int
  BY <1>1 DEF Spans
<1> QED
  BY <1>2, <1>5, <1>6, <1>7

(* The records in the range of an ordered page are ordered.                *)
LEMMA MatchesOrdered ==
    ASSUME NEW S, NEW R, NEW s \in Seq(S), OrderedBy(s, R), NEW low, NEW high
    PROVE  OrderedBy(Matches(s, low, high), R)
<1> DEFINE one(i) == IF InRange(s[i], low, high) THEN <<s[i]>> ELSE << >>
           seqs == [i \in 1 .. Len(s) |-> one(i)]
<1>1. Len(s) \in Nat /\ DOMAIN s = 1 .. Len(s) /\ \A i \in 1 .. Len(s) : s[i] \in S
  BY LenProperties, ElementOfSeq
<1>2. \A i \in 1 .. Len(s) : one(i) \in Seq(S) /\ ToSet(one(i)) \subseteq {s[i]} /\ OrderedBy(one(i), R)
  <2>1. \A r \in S : <<r>> \in Seq(S) /\ ToSet(<<r>>) = {r} /\ OrderedBy(<<r>>, R)
    BY DEF ToSet, OrderedBy
  <2>2. << >> \in Seq(S) /\ ToSet(<< >>) = {} /\ OrderedBy(<< >>, R)
    BY DEF ToSet, OrderedBy
  <2> QED BY <1>1, <2>1, <2>2
<1> HIDE DEF one
<1>3. seqs \in Seq(Seq(S)) /\ DOMAIN seqs = 1 .. Len(s) /\ \A i \in 1 .. Len(s) : seqs[i] = one(i)
  BY <1>1, <1>2
<1>4. Matches(s, low, high) = FlattenSeq(seqs)
  BY DEF Matches, one
<1> HIDE DEF seqs
<1>5. \A i \in DOMAIN seqs : OrderedBy(seqs[i], R)
  BY <1>2, <1>3
<1>6. \A i, j \in DOMAIN seqs : i < j => \A x \in ToSet(seqs[i]), y \in ToSet(seqs[j]) : <<x, y>> \in R
  <2> SUFFICES ASSUME NEW i \in 1 .. Len(s), NEW j \in 1 .. Len(s), i < j,
                      NEW x \in ToSet(seqs[i]), NEW y \in ToSet(seqs[j])
               PROVE  <<x, y>> \in R
    BY <1>3
  <2>1. x = s[i] /\ y = s[j]
    BY <1>2, <1>3
  <2> QED BY <2>1 DEF OrderedBy
<1> QED
  BY <1>3, <1>4, <1>5, <1>6, OrderedFlat

(* The found leaves with their records: some of each are in the range, and *)
(* the keys of a leaf are below those of the leaves after it.              *)
FoundAre(found, low, high) ==
    /\ found \in Seq(Leaves) /\ Len(found) \in Nat /\ DOMAIN found = 1 .. Len(found)
    /\ \A m \in 1 .. Len(found) :
          /\ found[m] \in Leaves /\ Recs(found[m]) \in Seq(Record)
          /\ Matches(Recs(found[m]), low, high) \in Seq(Record)
          /\ ToSet(Matches(Recs(found[m]), low, high)) =
                {r \in ToSet(Recs(found[m])) : InRange(r, low, high)}
          /\ ToSet(Recs(found[m])) = RecsOn(found[m]) /\ RecsOn(found[m]) \subseteq stored
          /\ \E r \in RecsOn(found[m]) : InRange(r, low, high)
    /\ \A m, l \in 1 .. Len(found) : m < l =>
          \A r \in RecsOn(found[m]), t \in RecsOn(found[l]) : r.key < t.key

(* What discoverPages finds between two calls of append.                   *)
LEMMA FoundPages ==
    ASSUME IInv, Searched, pc = "idle", KeysApart(stored), NEW low \in Int, NEW high \in Int,
           NEW found, found = Discovered(low, high)
    PROVE  FoundAre(found, low, high)
<1>1. found \in Seq(Leaves)
  BY DiscoveredLeaves DEF IInv
<1>2. /\ Len(found) \in Nat /\ DOMAIN found = 1 .. Len(found)
      /\ \A m \in 1 .. Len(found) : found[m] \in Leaves
  BY <1>1, LenProperties, ElementOfSeq
<1>3. FoundWithin(found, Int, low, high)
  BY DiscoveredInOrder
<1>4. ASSUME NEW m \in 1 .. Len(found)
      PROVE  /\ found[m] \in Leaves /\ Recs(found[m]) \in Seq(Record)
             /\ Matches(Recs(found[m]), low, high) \in Seq(Record)
             /\ ToSet(Matches(Recs(found[m]), low, high)) =
                   {r \in ToSet(Recs(found[m])) : InRange(r, low, high)}
             /\ ToSet(Recs(found[m])) = RecsOn(found[m]) /\ RecsOn(found[m]) \subseteq stored
             /\ \E r \in RecsOn(found[m]) : InRange(r, low, high)
  <2> PICK x : x = found[m]
    OBVIOUS
  <2>1. x \in Leaves /\ Recs(x) \in Seq(Record)
    BY <1>2, OnPages DEF IInv
  <2>2. /\ Matches(Recs(x), low, high) \in Seq(Record)
        /\ ToSet(Matches(Recs(x), low, high)) = {r \in ToSet(Recs(x)) : InRange(r, low, high)}
    BY <2>1, MatchesAre
  <2>3. ToSet(Recs(x)) = RecsOn(x)
    BY <2>1, LenProperties DEF ToSet, RecsOn
  <2>4. RecsOn(x) \subseteq stored
    BY <2>1 DEF IInv, Kept, RecsOn
  <2>5. Matches(Recs(x), low, high) # << >>
    BY <1>2, <1>3 DEF FoundWithin, ToSet
  <2>6. \E r \in ToSet(Matches(Recs(x), low, high)) : TRUE
    <3>1. Len(Matches(Recs(x), low, high)) \in Nat /\ Len(Matches(Recs(x), low, high)) # 0
      BY <2>2, <2>5, LenProperties, EmptySeq
    <3>2. DOMAIN Matches(Recs(x), low, high) = 1 .. Len(Matches(Recs(x), low, high))
      BY <2>2, LenProperties
    <3>3. 1 \in DOMAIN Matches(Recs(x), low, high)
      BY <3>1, <3>2
    <3> QED BY <3>3 DEF ToSet
  <2> QED BY <2>1, <2>2, <2>3, <2>4, <2>6
<1>5. ASSUME NEW m \in 1 .. Len(found), NEW l \in 1 .. Len(found), m < l,
             NEW r \in RecsOn(found[m]), NEW t \in RecsOn(found[l])
      PROVE  r.key < t.key
  <2>1. <<found[m], found[l]>> \in LeavesInOrder
    BY <1>3, <1>5 DEF FoundWithin, OrderedBy
  <2> QED BY <1>5, <2>1 DEF LeavesInOrder
<1> QED
  BY <1>1, <1>2, <1>4, <1>5 DEF FoundAre

(* The range iterator gives the records in the range and no others, when   *)
(* no two records have one key: the pages that it gives unfiltered lie     *)
(* between two pages with a record in the range.                           *)
THEOREM RangesExact == Spec => []RangeExact
<1>1. ASSUME IInv, Searched, RangeComplete
      PROVE  RangeExact
  <2> SUFFICES ASSUME pc = "idle", Distinct(stored), NEW x \in Ranges,
                      NEW r \in ToSet(RangeResult(x[1], x[2]))
               PROVE  r \in stored /\ InRange(r, x[1], x[2])
    BY <1>1 DEF RangeExact
  <2> PICK low, high : low = x[1] /\ high = x[2]
    OBVIOUS
  <2>1. low \in Int /\ high \in Int
    BY KeysAreNumbers DEF Ranges
  <2>2. KeysApart(stored)
    BY <1>1, DistinctKeys DEF IInv, Kept
  <2> PICK found : found = Discovered(low, high)
    OBVIOUS
  <2>3. /\ Len(found) \in Nat
        /\ \A m \in 1 .. Len(found) :
              /\ Recs(found[m]) \in Seq(Record)
              /\ Matches(Recs(found[m]), low, high) \in Seq(Record)
              /\ ToSet(Matches(Recs(found[m]), low, high)) =
                    {t \in ToSet(Recs(found[m])) : InRange(t, low, high)}
              /\ ToSet(Recs(found[m])) = RecsOn(found[m]) /\ RecsOn(found[m]) \subseteq stored
              /\ \E t \in RecsOn(found[m]) : InRange(t, low, high)
        /\ \A m, l \in 1 .. Len(found) : m < l =>
              \A s \in RecsOn(found[m]), t \in RecsOn(found[l]) : s.key < t.key
    <3>1. FoundAre(found, low, high)
      BY <1>1, <2>1, <2>2, FoundPages
    <3> QED BY <3>1 DEF FoundAre
  <2> DEFINE part(m) == IF m = 1 \/ m = Len(found) THEN Matches(Recs(found[m]), low, high)
                        ELSE Recs(found[m])
             parts == [m \in 1 .. Len(found) |-> part(m)]
  <2>4. \A m \in 1 .. Len(found) : part(m) \in Seq(Record)
    BY <2>3
  <2>5. RangeResult(low, high) = FlattenSeq(parts)
    BY DEF RangeResult
  <2>6. parts \in Seq(Seq(Record)) /\ DOMAIN parts = 1 .. Len(found) /\ \A m \in 1 .. Len(found) : parts[m] = part(m)
    <3> HIDE DEF part
    <3> QED BY <2>3, <2>4
  <2> HIDE DEF parts
  <2>7. PICK m \in 1 .. Len(found) : r \in ToSet(part(m))
    <3>1. ToSet(FlattenSeq(parts)) = UNION {ToSet(parts[m]) : m \in DOMAIN parts}
      <4> HIDE DEF part
      <4> QED BY <2>4, <2>6, Flattened, ZenonT(30)
    <3> HIDE DEF part
    <3> QED BY <2>5, <2>6, <3>1
  <2>8. CASE m = 1 \/ m = Len(found)
    <3>1. r \in ToSet(Matches(Recs(found[m]), low, high))
      BY <2>7, <2>8
    <3> QED BY <2>3, <3>1
  <2>9. CASE ~ (m = 1 \/ m = Len(found))
    <3>1. r \in RecsOn(found[m]) /\ r \in stored
      BY <2>3, <2>7, <2>9
    <3>2. 1 \in 1 .. Len(found) /\ Len(found) \in 1 .. Len(found) /\ 1 < m /\ m < Len(found)
      BY <2>3, <2>9
    <3>3. PICK first \in RecsOn(found[1]) : InRange(first, low, high)
      BY <2>3, <3>2
    <3>4. PICK last \in RecsOn(found[Len(found)]) : InRange(last, low, high)
      BY <2>3, <3>2
    <3>5. first.key < r.key /\ r.key < last.key
      BY <2>3, <3>1, <3>2, <3>3, <3>4, SMTT(30)
    <3>6. first.key \in Int /\ r.key \in Int /\ last.key \in Int
      <4>1. \A t \in stored : t.key \in Int
        BY <1>1, KeysAreNumbers DEF IInv, TypeOK
      <4> QED BY <2>3, <3>1, <3>2, <3>3, <3>4, <4>1
    <3>7. low <= r.key /\ r.key <= high
      BY <2>1, <3>3, <3>4, <3>5, <3>6 DEF InRange
    <3> QED BY <3>1, <3>7 DEF InRange
  <2> QED BY <2>8, <2>9
<1> QED
  BY SearchesEnd, RangesComplete, <1>1, PTL

(* A page that is sorted: the records it had, in the order of their keys.  *)
InKeyOrder == {x \in Record \X Record : x[1].key <= x[2].key}

(* Sorting a page keeps its records and puts them in order.                *)
LEMMA SortedPage ==
    ASSUME NEW s \in Seq(Record)
    PROVE  /\ StableSort(s) \in Seq(Record) /\ ToSet(StableSort(s)) = ToSet(s)
           /\ OrderedBy(StableSort(s), InKeyOrder)
<1>1. /\ StableSort(s) \in Seq(Record) /\ Len(StableSort(s)) = Len(s)
      /\ \A i, j \in 1 .. Len(s) : i < j => StableSort(s)[i].key <= StableSort(s)[j].key
      /\ \E from : Moved(StableSort(s), s, Len(s), from)
  BY StableSorts, KeysAreNumbers
<1>2. PICK t, n, from : t = StableSort(s) /\ n = Len(s) /\ Moved(t, s, n, from)
  BY <1>1
<1>3. /\ \A m \in 1 .. n : from[m] \in 1 .. n /\ t[m] = s[from[m]]
      /\ \A i \in 1 .. n : \E m \in 1 .. n : from[m] = i
  BY <1>2 DEF Moved
<1>4. DOMAIN t = 1 .. n /\ DOMAIN s = 1 .. n /\ t \in Seq(Record) /\ Len(t) = n
  BY <1>1, <1>2, LenProperties
<1>5. ToSet(t) \subseteq ToSet(s)
  BY <1>3, <1>4 DEF ToSet
<1>6. ToSet(s) \subseteq ToSet(t)
  <2> SUFFICES ASSUME NEW i \in 1 .. n
               PROVE  s[i] \in ToSet(t)
    BY <1>4 DEF ToSet
  <2>1. PICK m \in 1 .. n : from[m] = i
    BY <1>3
  <2>2. t[m] = s[i]
    BY <1>3, <2>1
  <2> QED BY <1>4, <2>2 DEF ToSet
<1>7. OrderedBy(t, InKeyOrder)
  <2>1. \A i \in 1 .. n : t[i] \in Record
    BY <1>4, ElementOfSeq
  <2> QED BY <1>1, <1>2, <1>4, <2>1 DEF OrderedBy, InKeyOrder
<1> QED
  BY <1>2, <1>4, <1>5, <1>6, <1>7

(* The sorted iterator gives the records in the range in the order of      *)
(* their keys, each page sorted by itself: when no two records have one    *)
(* key, the pages it gives one after another lie one beyond another.       *)
THEOREM RangesSorted == Spec => []SortedInOrder
<1>1. ASSUME IInv, Searched
      PROVE  SortedInOrder
  <2> SUFFICES ASSUME pc = "idle", Distinct(stored), NEW x \in Ranges,
                      NEW s, s = SortedRangeResult(x[1], x[2])
               PROVE  /\ {r \in stored : InRange(r, x[1], x[2])} = ToSet(s)
                      /\ \A i, j \in 1 .. Len(s) : i < j => s[i].key <= s[j].key
    BY DEF SortedInOrder
  <2> PICK low, high : low = x[1] /\ high = x[2]
    OBVIOUS
  <2>1. low \in Int /\ high \in Int
    BY KeysAreNumbers DEF Ranges
  <2>2. KeysApart(stored)
    BY <1>1, DistinctKeys DEF IInv, Kept
  <2> PICK found : found = Discovered(low, high)
    OBVIOUS
  <2>3. FoundAre(found, low, high)
    BY <1>1, <2>1, <2>2, FoundPages
  <2>4. /\ Len(found) \in Nat /\ DOMAIN found = 1 .. Len(found)
        /\ \A m \in 1 .. Len(found) :
              /\ Recs(found[m]) \in Seq(Record)
              /\ ToSet(Recs(found[m])) = RecsOn(found[m]) /\ RecsOn(found[m]) \subseteq stored
        /\ \A m, l \in 1 .. Len(found) : m < l =>
              \A r \in RecsOn(found[m]), t \in RecsOn(found[l]) : r.key < t.key
    BY <2>3 DEF FoundAre
  <2> DEFINE part(m) == Matches(StableSort(Recs(found[m])), low, high)
             parts == [m \in 1 .. Len(found) |-> part(m)]
  <2>5. s = FlattenSeq(parts)
    BY DEF SortedRangeResult
  <2>6. ASSUME NEW m \in 1 .. Len(found)
        PROVE  /\ part(m) \in Seq(Record) /\ OrderedBy(part(m), InKeyOrder)
               /\ ToSet(part(m)) = {r \in RecsOn(found[m]) : InRange(r, low, high)}
    <3>1. PICK sorted : sorted = StableSort(Recs(found[m]))
      OBVIOUS
    <3>2. sorted \in Seq(Record) /\ ToSet(sorted) = RecsOn(found[m]) /\ OrderedBy(sorted, InKeyOrder)
      BY <2>4, <3>1, SortedPage
    <3>3. /\ Matches(sorted, low, high) \in Seq(Record)
          /\ ToSet(Matches(sorted, low, high)) = {r \in ToSet(sorted) : InRange(r, low, high)}
      BY <3>2, MatchesAre
    <3>4. OrderedBy(Matches(sorted, low, high), InKeyOrder)
      BY <3>2, MatchesOrdered
    <3> QED BY <3>1, <3>2, <3>3, <3>4
  <2> HIDE DEF part
  <2>7. parts \in Seq(Seq(Record)) /\ DOMAIN parts = 1 .. Len(found) /\ \A m \in 1 .. Len(found) : parts[m] = part(m)
    BY <2>4, <2>6
  <2> HIDE DEF parts
  <2>8. /\ FlattenSeq(parts) \in Seq(Record)
        /\ ToSet(FlattenSeq(parts)) = UNION {ToSet(parts[m]) : m \in DOMAIN parts}
    BY <2>7, Flattened
  <2>9. ToSet(s) \subseteq {r \in stored : InRange(r, low, high)}
    BY <2>4, <2>5, <2>6, <2>7, <2>8
  <2>10. ASSUME NEW r \in stored, InRange(r, low, high)
         PROVE  r \in ToSet(s)
    <3>1. PICK leaf \in Leaves : \E i \in 1 .. Len(Recs(leaf)) : Recs(leaf)[i] = r
      BY <1>1 DEF IInv, Kept
    <3>2. PICK at \in 1 .. Len(Recs(leaf)) : Recs(leaf)[at] = r
      BY <3>1
    <3>3. leaf \in ToSet(found)
      BY <1>1, <2>1, <2>10, <3>2, LeafFound
    <3>4. PICK m \in 1 .. Len(found) : found[m] = leaf
      BY <2>4, <3>3 DEF ToSet
    <3>5. r \in ToSet(part(m))
      BY <2>6, <2>10, <3>2, <3>4 DEF RecsOn
    <3> QED BY <2>5, <2>7, <2>8, <3>5
  <2>11. OrderedBy(s, InKeyOrder)
    <3>1. \A m \in DOMAIN parts : OrderedBy(parts[m], InKeyOrder)
      BY <2>6, <2>7
    <3>2. ASSUME NEW m \in DOMAIN parts, NEW l \in DOMAIN parts, m < l,
                 NEW r \in ToSet(parts[m]), NEW t \in ToSet(parts[l])
          PROVE  <<r, t>> \in InKeyOrder
      <4>1. m \in 1 .. Len(found) /\ l \in 1 .. Len(found) /\ r \in RecsOn(found[m]) /\ t \in RecsOn(found[l])
        BY <2>6, <2>7, <3>2
      <4>2. r.key < t.key
        BY <2>4, <3>2, <4>1
      <4>3. r \in Record /\ t \in Record /\ r.key \in Int /\ t.key \in Int
        <5>1. r \in stored /\ t \in stored
          BY <2>4, <4>1
        <5> QED BY <1>1, <5>1, KeysAreNumbers DEF IInv, TypeOK
      <4> QED BY <4>2, <4>3 DEF InKeyOrder
    <3> QED BY <2>5, <2>7, <3>1, <3>2, OrderedFlat
  <2>12. \A i, j \in 1 .. Len(s) : i < j => s[i].key <= s[j].key
    BY <2>11 DEF OrderedBy, InKeyOrder
  <2> QED BY <2>9, <2>10, <2>12
<1> QED
  BY SearchesEnd, <1>1, PTL

=============================================================================
