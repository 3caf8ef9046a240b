------------------------ MODULE BufferManagerProofs ------------------------
(***************************************************************************)
(* Proofs about BufferManager, for every number of frames, tables, pages   *)
(* and handles, with and without failing writes; and that it implements    *)
(* PageStore, as long as no write fails.                                   *)
(***************************************************************************)
EXTENDS BufferManagerRefinement, SequenceTheorems, FiniteSetTheorems, TLAPS

-----------------------------------------------------------------------------
(* Erasing an element of the list and appending another: what becomes of   *)
(* the positions.                                                          *)
LEMMA MoveToEnd ==
    ASSUME NEW S, NEW s \in Seq(S), NEW i \in 1 .. Len(s), NEW k \in S
    PROVE  LET r == Append(RemoveAt(s, i), k) IN
           /\ r \in Seq(S)
           /\ Len(r) = Len(s)
           /\ \A j \in 1 .. Len(s) :
                 r[j] = IF j < i THEN s[j] ELSE IF j < Len(s) THEN s[j + 1] ELSE k
<1> DEFINE front == SubSeq(s, 1, i - 1)
           back == SubSeq(s, i + 1, Len(s))
           rest == front \o back
<1>0. Len(s) \in Nat /\ i \in Int /\ 1 <= i /\ i <= Len(s)
  BY LenProperties
<1>1. \A j \in 1 .. Len(s) : s[j] \in S
  BY ElementOfSeq
<1>2. /\ front \in Seq(S) /\ Len(front) = i - 1
      /\ \A j \in 1 .. i - 1 : front[j] = s[j]
  <2>1. \A j \in 1 .. i - 1 : s[j] \in S
    BY <1>0, <1>1
  <2>2. /\ front \in Seq(S)
        /\ Len(front) = IF 1 <= i - 1 THEN i - 1 - 1 + 1 ELSE 0
        /\ \A j \in 1 .. i - 1 - 1 + 1 : front[j] = s[1 + j - 1]
    BY <1>0, <2>1, SubSeqProperties, Z3
  <2> HIDE DEF front
  <2> QED BY <1>0, <2>2
<1>3. /\ back \in Seq(S) /\ Len(back) = Len(s) - i
      /\ \A j \in 1 .. Len(s) - i : back[j] = s[i + j]
  <2>1. \A j \in i + 1 .. Len(s) : s[j] \in S
    BY <1>0, <1>1
  <2>2. /\ back \in Seq(S)
        /\ Len(back) = IF i + 1 <= Len(s) THEN Len(s) - (i + 1) + 1 ELSE 0
        /\ \A j \in 1 .. Len(s) - (i + 1) + 1 : back[j] = s[i + 1 + j - 1]
    BY <1>0, <2>1, SubSeqProperties, Z3
  <2> HIDE DEF back
  <2>3. Len(back) = Len(s) - i
    BY <1>0, <2>2
  <2>4. ASSUME NEW j \in 1 .. Len(s) - i
        PROVE  back[j] = s[i + j]
    <3>1. j \in 1 .. Len(s) - (i + 1) + 1 /\ i + 1 + j - 1 = i + j
      BY <1>0
    <3> QED BY <2>2, <3>1
  <2> QED BY <2>2, <2>3, <2>4
<1> HIDE DEF front, back
<1>4. /\ rest \in Seq(S) /\ Len(rest) = Len(s) - 1
      /\ \A j \in 1 .. Len(s) - 1 : rest[j] = IF j < i THEN s[j] ELSE s[j + 1]
  <2>1. /\ rest \in Seq(S)
        /\ Len(rest) = Len(front) + Len(back)
        /\ \A j \in 1 .. Len(front) + Len(back) :
             rest[j] = IF j <= Len(front) THEN front[j] ELSE back[j - Len(front)]
    BY <1>2, <1>3, ConcatProperties
  <2> HIDE DEF rest
  <2>2. Len(rest) = Len(s) - 1
    BY <1>0, <1>2, <1>3, <2>1
  <2>3. ASSUME NEW j \in 1 .. Len(s) - 1
        PROVE  rest[j] = IF j < i THEN s[j] ELSE s[j + 1]
    <3>1. rest[j] = IF j <= i - 1 THEN front[j] ELSE back[j - (i - 1)]
      BY <1>0, <1>2, <1>3, <2>1
    <3>2. CASE j < i
      BY <1>0, <1>2, <3>1, <3>2
    <3>3. CASE ~ (j < i)
      <4>1. j - (i - 1) \in 1 .. Len(s) - i /\ i + (j - (i - 1)) = j + 1
        BY <1>0, <3>3
      <4>2. ~ (j <= i - 1)
        BY <1>0, <3>3
      <4> QED BY <1>3, <3>1, <3>3, <4>1, <4>2
    <3> QED BY <3>2, <3>3
  <2> QED BY <2>1, <2>2, <2>3
<1>5. RemoveAt(s, i) = rest
  BY DEF RemoveAt, rest, front, back
<1> HIDE DEF rest
<1>6. /\ Append(rest, k) \in Seq(S)
      /\ Len(Append(rest, k)) = Len(s)
      /\ \A j \in 1 .. Len(s) - 1 : Append(rest, k)[j] = rest[j]
      /\ Append(rest, k)[Len(s)] = k
  BY <1>0, <1>4, AppendProperties
<1>7. ASSUME NEW j \in 1 .. Len(s)
      PROVE  Append(rest, k)[j] =
                IF j < i THEN s[j] ELSE IF j < Len(s) THEN s[j + 1] ELSE k
  BY <1>0, <1>4, <1>6
<1> QED
  BY <1>5, <1>6, <1>7

-----------------------------------------------------------------------------
(* Type correctness.                                                       *)
USE DEF NoFrame

(* The constructor's state has the declared types.                         *)
LEMMA InitType == Init => TypeOK
  BY ConstantsAssumption DEF Init, TypeOK, Names, Bytes, Frames

(* Looking a table up in tableMap leaves it a function on table names.     *)
LEMMA LookupType ==
    ASSUME NEW tm \in [Names -> {"none", "open", "stdin"}], NEW t \in Names
    PROVE  /\ Lookup(tm, t) \in [Names -> {"none", "open", "stdin"}]
           /\ Opened(tm, t) \in [Names -> {"none", "open", "stdin"}]
  BY DEF Lookup, Opened

(* The first part of a key of bufferMap is the name of a table.            *)
LEMMA KeyName == \A k \in Keys : k[1] \in Names
  BY DEF Keys, Names

(* The handles of a page are finitely many, so they can be counted.        *)
LEMMA RefsFinite ==
    ASSUME NEW k
    PROVE  IsFiniteSet(Refs(k)) /\ Cardinality(Refs(k)) \in Nat
<1>1. Refs(k) \in SUBSET Handles
  BY DEF Refs
<1> QED
  BY <1>1, ConstantsAssumption, FS_Subset, FS_CardinalityType

-----------------------------------------------------------------------------
(* The inductive invariant.  The type of disk depends on the structure:    *)
(* what is written back is in a frame only because the list holds resident *)
(* pages.                                                                  *)
Pool ==
    /\ TypeOK
    /\ ListHoldsResident
    /\ FramesExclusive
    /\ MapCoversUse
    /\ NumbersFresh
    /\ EvictedIsIdle

(* An empty pool satisfies the invariant of the pool.                      *)
THEOREM InitPool == Init => Pool
<1> SUFFICES ASSUME Init PROVE Pool
  OBVIOUS
<1>1. TypeOK
  BY InitType
<1>2. Resident = {} /\ Referenced = {} /\ Len(lru) = 0
  BY ConstantsAssumption DEF Init, Resident, Referenced
<1> QED
  BY <1>1, <1>2 DEF Init, Pool, ListHoldsResident, FramesExclusive,
     MapCoversUse, NumbersFresh, EvictedIsIdle

(* What giving page k a frame does, when tableMap was tm: the pages in     *)
(* gone, at most one, not pinned, lose theirs, and those of them that were *)
(* dirty may go to their file.                                             *)
Placed(k, gone, tm) ==
    /\ gone \subseteq Resident \ pin
    /\ memory' \in [Keys -> Frames \cup {NoFrame}]
    /\ memory'[k] \in Frames
    /\ \A l \in Keys \ {k} : memory'[l] = IF l \in gone THEN NoFrame ELSE memory[l]
    /\ dirty' = dirty \ gone
    /\ mapped' = mapped \cup {k}
    /\ lru' \in Seq(Keys)
    /\ disk' \in [Keys -> Bytes]
    /\ tableMap' \in [Names -> {"none", "open", "stdin"}]
    /\ currPage' \in 0 .. NumPages
    /\ ListHoldsResident'
    /\ FramesExclusive'
    /\ \A t \in Names : \/ tableMap'[t] = tm[t]
                        \/ /\ tm[t] = "none" /\ tableMap'[t] = "stdin"
                           /\ \E l \in gone : l[1] = t
    /\ \A l \in Keys : l \notin gone => disk'[l] = disk[l]

(* The list after a page gave its place to page k at the end.  Shifts says *)
(* position by position what MoveToEnd found; seen as a set, the erased    *)
(* element is gone and the new one is there.                               *)
Shifts(s, r, i, k) ==
    /\ Len(r) = Len(s)
    /\ \A j \in 1 .. Len(s) :
          r[j] = IF j < i THEN s[j] ELSE IF j < Len(s) THEN s[j + 1] ELSE k

NoRepeats(s) == \A a, b \in 1 .. Len(s) : s[a] = s[b] => a = b

Occurs(s, x) == \E a \in 1 .. Len(s) : s[a] = x

(* An entry taken out of a list without repetitions and put at its end:    *)
(* still none, and the members are the old ones with k.                    *)
LEMMA ShiftedList ==
    ASSUME NEW s, NEW r, NEW k, NEW i \in 1 .. Len(s), Len(s) \in Nat,
           Shifts(s, r, i, k), NoRepeats(s), s[i] = k \/ ~ Occurs(s, k)
    PROVE  /\ NoRepeats(r)
           /\ \A x : Occurs(r, x) <=> (x = k \/ (Occurs(s, x) /\ x # s[i]))
<1>1. \A j \in 1 .. Len(s) :
         \/ j = Len(s) /\ r[j] = k
         \/ j < i /\ j \in 1 .. Len(s) /\ r[j] = s[j]
         \/ ~ (j < i) /\ j + 1 \in 1 .. Len(s) /\ r[j] = s[j + 1]
  BY DEF Shifts
<1>2. Len(r) = Len(s) /\ Len(s) \in 1 .. Len(s) /\ r[Len(s)] = k
  BY DEF Shifts
<1>3. \A a, b \in 1 .. Len(s) : s[a] = s[b] => a = b
  BY DEF NoRepeats
<1>4. \A a \in 1 .. Len(s) : s[a] = k => a = i
  BY <1>3 DEF Occurs
<1>5. ASSUME NEW a \in 1 .. Len(s), a # i
      PROVE  Occurs(r, s[a])
  <2>1. CASE a < i
    BY <1>2, <2>1 DEF Shifts, Occurs
  <2>2. CASE a > i
    <3>1. a - 1 \in 1 .. Len(s) /\ ~ (a - 1 < i) /\ a - 1 < Len(s)
      BY <2>2
    <3>2. r[a - 1] = s[a - 1 + 1]
      BY <3>1 DEF Shifts
    <3>3. a - 1 + 1 = a
      OBVIOUS
    <3> QED BY <1>2, <3>1, <3>2, <3>3 DEF Occurs
  <2> QED BY <1>5, <2>1, <2>2
<1>6. ASSUME NEW j \in 1 .. Len(s)
      PROVE  r[j] = k \/ (Occurs(s, r[j]) /\ r[j] # s[i])
  <2>1. CASE j < i /\ r[j] = s[j]
    BY <1>3, <2>1 DEF Occurs
  <2>2. CASE ~ (j < i) /\ j + 1 \in 1 .. Len(s) /\ r[j] = s[j + 1]
    <3>1. j + 1 # i
      BY <2>2
    <3> QED BY <1>3, <2>2, <3>1 DEF Occurs
  <2> QED BY <1>1, <2>1, <2>2
<1>7. ASSUME NEW a \in 1 .. Len(s), NEW b \in 1 .. Len(s), r[a] = r[b]
      PROVE  a = b
  <2>1. \A j \in 1 .. Len(s) : j # Len(s) => r[j] # k
    <3> SUFFICES ASSUME NEW j \in 1 .. Len(s), j # Len(s) PROVE r[j] # k
      OBVIOUS
    <3>1. CASE j < i /\ r[j] = s[j]
      BY <1>4, <3>1
    <3>2. CASE ~ (j < i) /\ j + 1 \in 1 .. Len(s) /\ r[j] = s[j + 1]
      <4>1. j + 1 # i
        BY <3>2
      <4> QED BY <1>4, <3>2, <4>1
    <3> QED BY <1>1, <3>1, <3>2
  <2>2. CASE a = Len(s) \/ b = Len(s)
    BY <1>2, <1>7, <2>1, <2>2
  <2>3. CASE a # Len(s) /\ b # Len(s)
    <3>1. CASE a < i /\ b < i
      BY <1>1, <1>3, <1>7, <2>3, <3>1
    <3>2. CASE a < i /\ ~ (b < i)
      BY <1>1, <1>3, <1>7, <2>3, <3>2
    <3>3. CASE ~ (a < i) /\ b < i
      BY <1>1, <1>3, <1>7, <2>3, <3>3
    <3>4. CASE ~ (a < i) /\ ~ (b < i)
      <4>1. s[a + 1] = s[b + 1] /\ a + 1 \in 1 .. Len(s) /\ b + 1 \in 1 .. Len(s)
        BY <1>1, <1>7, <2>3, <3>4
      <4>2. a + 1 = b + 1
        BY <1>3, <4>1
      <4> QED BY <4>2
    <3> QED BY <3>1, <3>2, <3>3, <3>4
  <2> QED BY <2>2, <2>3
<1>8. NoRepeats(r)
  BY <1>2, <1>7 DEF NoRepeats
<1>9. \A x : Occurs(r, x) => x = k \/ (Occurs(s, x) /\ x # s[i])
  BY <1>2, <1>6 DEF Occurs
<1>10. \A x : x = k \/ (Occurs(s, x) /\ x # s[i]) => Occurs(r, x)
  <2>1. Occurs(r, k)
    BY <1>2 DEF Occurs
  <2>2. \A x : Occurs(s, x) /\ x # s[i] => Occurs(r, x)
    BY <1>5 DEF Occurs
  <2> QED BY <2>1, <2>2
<1> QED
  BY <1>8, <1>9, <1>10

(* pageContainer still lists each resident page once after push_back.      *)
LEMMA ListMoved ==
    ASSUME lru \in Seq(Keys), ListHoldsResident, NEW k \in Keys,
           NEW i \in 1 .. Len(lru), lru[i] = k \/ k \notin Resident,
           lru' = Append(RemoveAt(lru, i), k),
           Resident' = (Resident \ {lru[i]}) \cup {k}
    PROVE  /\ lru' \in Seq(Keys) /\ Len(lru') = Len(lru)
           /\ ListHoldsResident'
<1>1. NoRepeats(lru) /\ \A x : Occurs(lru, x) <=> x \in Resident
  BY DEF ListHoldsResident, NoRepeats, Occurs
<1>2. lru' \in Seq(Keys) /\ Shifts(lru, lru', i, k) /\ Len(lru) \in Nat
  BY MoveToEnd, LenProperties DEF Shifts
<1>3. /\ NoRepeats(lru')
      /\ \A x : Occurs(lru', x) <=> (x = k \/ (Occurs(lru, x) /\ x # lru[i]))
  BY <1>1, <1>2, ShiftedList
<1>4. \A x : Occurs(lru', x) <=> x \in Resident'
  BY <1>1, <1>3
<1>5. ListHoldsResident'
  BY <1>3, <1>4 DEF ListHoldsResident, NoRepeats, Occurs
<1> QED
  BY <1>2, <1>5 DEF Shifts

(* The next unused frame is a legal place for a page without one.          *)
LEMMA FreshFrame ==
    ASSUME Pool, NEW k \in Keys, memory[k] = NoFrame,
           NEW tm \in [Names -> {"none", "open", "stdin"}],
           TakeFreshFrame(k, tm)
    PROVE  Placed(k, {}, tm)
<1> USE DEF Pool, TypeOK
<1>1. /\ currPage \in Frames /\ currPage' = currPage + 1
      /\ currPage' \in 0 .. NumPages
  BY ConstantsAssumption DEF TakeFreshFrame, Frames
<1>2. /\ memory' \in [Keys -> Frames \cup {NoFrame}]
      /\ memory'[k] = currPage
      /\ \A l \in Keys \ {k} : memory'[l] = memory[l]
  BY <1>1 DEF TakeFreshFrame
<1>3. Resident' = Resident \cup {k} /\ k \notin Resident
  BY <1>1, <1>2 DEF Resident, Frames
<1>4. /\ lru' \in Seq(Keys)
      /\ Len(lru) \in Nat
      /\ Len(lru') = Len(lru) + 1
      /\ \A i \in 1 .. Len(lru) : lru'[i] = lru[i]
      /\ lru'[Len(lru) + 1] = k
  BY AppendProperties, LenProperties DEF TakeFreshFrame
<1>5. ListHoldsResident'
  <2>1. \A i \in 1 .. Len(lru') :
           \/ i \in 1 .. Len(lru) /\ lru'[i] = lru[i] /\ lru'[i] \in Resident
           \/ i = Len(lru') /\ lru'[i] = k
    BY <1>4 DEF ListHoldsResident
  <2>2. \A i \in 1 .. Len(lru') : lru'[i] \in Resident'
    BY <1>3, <2>1
  <2>3. \A l \in Resident' : \E i \in 1 .. Len(lru') : lru'[i] = l
    BY <1>3, <1>4 DEF ListHoldsResident
  <2>4. \A i, j \in 1 .. Len(lru') : lru'[i] = lru'[j] => i = j
    BY <1>3, <2>1 DEF ListHoldsResident
  <2> QED BY <2>2, <2>3, <2>4 DEF ListHoldsResident
<1>6. FramesExclusive'
  <2>1. \A l \in Resident : /\ l # k /\ memory'[l] = memory[l]
                             /\ memory[l] \in Int /\ memory[l] < currPage
    BY <1>2, <1>3 DEF FramesExclusive, Resident, Frames
  <2>2. currPage \in Int /\ currPage' = currPage + 1 /\ memory'[k] = currPage
    BY <1>1, <1>2
  <2>3. Len(lru') = currPage'
    BY <1>4, <2>2 DEF FramesExclusive
  <2>4. \A l \in Resident' : memory'[l] < currPage'
    BY <1>3, <2>1, <2>2
  <2>5. \A l, m \in Resident' : memory'[l] = memory'[m] => l = m
    <3>1. \A l \in Resident : memory'[l] # memory'[k]
      BY <2>1, <2>2
    <3>2. \A l, m \in Resident : memory'[l] = memory'[m] => l = m
      BY <2>1 DEF FramesExclusive
    <3> QED BY <1>3, <3>1, <3>2
  <2> QED BY <2>3, <2>4, <2>5 DEF FramesExclusive
<1> QED
  BY <1>1, <1>2, <1>4, <1>5, <1>6 DEF Placed, TakeFreshFrame

(* The victim's frame is a legal place for a page without one, and only the*)
(* victim, which is not pinned, loses its frame.                           *)
LEMMA VictimsFrame ==
    ASSUME Pool, NEW k \in Keys, memory[k] = NoFrame,
           NEW tm \in [Names -> {"none", "open", "stdin"}],
           ReplaceVictim(k, tm)
    PROVE  \E v \in Resident \ pin : Placed(k, {v}, tm) /\ memory'[k] = memory[v]
<1> USE DEF Pool, TypeOK
<1>1. PICK i \in 1 .. Len(lru) :
         /\ IsVictim(i)
         /\ \/ /\ lru[i] \in dirty
               /\ tableMap' = Lookup(tm, lru[i][1])
               /\ WritePage(tableMap', lru[i])
            \/ /\ lru[i] \notin dirty
               /\ tableMap' = tm
               /\ disk' = disk
         /\ dirty' = dirty \ {lru[i]}
         /\ memory' = [memory EXCEPT ![k] = memory[lru[i]], ![lru[i]] = NoFrame]
         /\ lru' = Append(RemoveAt(lru, i), k)
         /\ mapped' = {k} \cup
               (IF VictimUseCount(lru[i]) > 1 THEN mapped ELSE mapped \ {lru[i]})
         /\ UNCHANGED currPage
  BY DEF ReplaceVictim
<1> DEFINE v == lru[i]
<1> HIDE DEF v
<1>2. v \in Resident /\ v \notin pin /\ k \notin Resident /\ v # k
  BY <1>1 DEF ListHoldsResident, IsVictim, Resident, v
<1>3. /\ v \in Keys /\ v[1] \in Names /\ memory[v] \in Frames
  BY <1>2, KeyName DEF Resident
<1>4. /\ memory' \in [Keys -> Frames \cup {NoFrame}]
      /\ memory'[k] = memory[v] /\ memory'[v] = NoFrame
      /\ \A l \in Keys \ {k, v} : memory'[l] = memory[l]
  BY <1>1, <1>2, <1>3 DEF v
<1>5. Resident' = (Resident \ {v}) \cup {k}
  BY <1>2, <1>3, <1>4 DEF Resident, Frames
<1>6. mapped' = mapped \cup {k}
  <2>1. v \in mapped
    BY <1>2 DEF MapCoversUse
  <2>2. VictimUseCount(v) > 1
    BY <2>1, RefsFinite DEF VictimUseCount
  <2> QED BY <1>1, <2>2 DEF v
<1>7. disk' \in [Keys -> Bytes]
  <2>1. pool[memory[v]] \in Bytes
    BY <1>3
  <2> QED BY <1>1, <1>3, <2>1 DEF WritePage, v
<1>8. tableMap' \in [Names -> {"none", "open", "stdin"}]
  BY <1>1, <1>3, LookupType DEF v
<1>9. lru' \in Seq(Keys) /\ Len(lru') = Len(lru) /\ ListHoldsResident'
  BY <1>1, <1>2, <1>5, ListMoved DEF v
<1>10. \A t \in Names : \/ tableMap'[t] = tm[t]
                        \/ tm[t] = "none" /\ tableMap'[t] = "stdin" /\ v[1] = t
  BY <1>1, <1>3 DEF Lookup, v
<1>11. \A l \in Keys : l # v => disk'[l] = disk[l]
  BY <1>1 DEF WritePage, v
<1>12. FramesExclusive'
  <2>1. \A l, m \in Resident' : memory'[l] = memory'[m] => l = m
    BY <1>2, <1>3, <1>4, <1>5 DEF FramesExclusive, Resident
  <2>2. \A l \in Resident' : memory'[l] < currPage'
    BY <1>1, <1>2, <1>4, <1>5 DEF FramesExclusive, Resident
  <2> QED BY <1>1, <1>9, <2>1, <2>2 DEF FramesExclusive
<1>13. Placed(k, {v}, tm)
  <2>1. \A l \in Keys \ {k} :
           memory'[l] = IF l \in {v} THEN NoFrame ELSE memory[l]
    BY <1>4
  <2>2. dirty' = dirty \ {v} /\ currPage' \in 0 .. NumPages
    BY <1>1 DEF v
  <2>3. {v} \subseteq Resident \ pin /\ memory'[k] \in Frames
    BY <1>2, <1>3, <1>4
  <2> QED
    BY <1>4, <1>6, <1>7, <1>8, <1>9, <1>12, <1>10, <1>11,
       <2>1, <2>2, <2>3 DEF Placed
<1> QED
  BY <1>2, <1>4, <1>13

(* Either way a page is brought in, it has a frame of its own after.       *)
LEMMA BringInPlaces ==
    ASSUME Pool, NEW k \in Keys, memory[k] = NoFrame,
           NEW tm \in [Names -> {"none", "open", "stdin"}],
           BringIn(k, tm)
    PROVE  \E gone \in SUBSET (Resident \ pin) : Placed(k, gone, tm)
  BY FreshFrame, VictimsFrame DEF BringIn

-----------------------------------------------------------------------------
(* A step that changes neither the list, nor the frames, nor bufferMap.    *)
LEMMA SameResidents ==
    ASSUME Pool, UNCHANGED <<memory, lru, currPage>>
    PROVE  /\ Resident' = Resident
           /\ ListHoldsResident'
           /\ FramesExclusive'
  BY DEF Pool, Resident, ListHoldsResident, FramesExclusive

(* A new handle to a resident page.                                        *)
LEMMA HandleCovered ==
    ASSUME TypeOK, NEW k \in Keys, NEW h \in Handles, NEW pinned \in BOOLEAN,
           NewHandle(h, k, pinned)
    PROVE  /\ Referenced' = Referenced \cup {k}
           /\ handles' \in [Handles -> Keys \cup {NoPage}]
           /\ pin' \subseteq pin \cup {k} /\ pin \subseteq pin'
<1> USE DEF TypeOK, NewHandle
<1>1. handles' \in [Handles -> Keys \cup {NoPage}]
  OBVIOUS
<1>2. \A l \in Keys : (\E g \in Handles : handles'[g] = l) <=>
                     (l = k \/ \E g \in Handles : handles[g] = l)
  BY ConstantsAssumption
<1> QED
  BY <1>1, <1>2, SMTT(60) DEF Referenced

(* Giving page k a frame and a handle, or giving it its frame back.        *)
LEMMA PlacedKeepsPool ==
    ASSUME Pool, NEW k \in Keys, NEW gone, NEW tm, Placed(k, gone, tm),
           Referenced' \subseteq Referenced \cup {k},
           pin' \subseteq pin \cup {k}
    PROVE  /\ Resident' = (Resident \ gone) \cup {k}
           /\ MapCoversUse'
           /\ EvictedIsIdle'
<1>1. Resident' = (Resident \ gone) \cup {k}
  BY DEF Resident, Placed, Frames
<1>2. MapCoversUse'
  BY <1>1 DEF MapCoversUse, Placed, Pool
<1>3. EvictedIsIdle'
  BY <1>1 DEF EvictedIsIdle, Placed, Pool
<1> QED
  BY <1>1, <1>2, <1>3

(* getPage on a resident page keeps the invariant of the pool.             *)
LEMMA GetPageHitKeeps ==
    ASSUME Pool, NEW k \in Tables \X PageIds, NEW h \in Handles,
           NEW pinned \in BOOLEAN, GetPageHit(k, h, pinned)
    PROVE  Pool'
<1> USE DEF Pool, GetPageHit
<1>1. k \in Keys /\ k \in Resident
  BY DEF Keys, Resident
<1>2. Resident' = Resident
  BY DEF Resident
<1>3. PICK i \in 1 .. Len(lru) : lru[i] = k /\ lru' = Append(RemoveAt(lru, i), k)
  OBVIOUS
<1>4. Resident' = (Resident \ {lru[i]}) \cup {k}
  BY <1>1, <1>2, <1>3
<1>5. lru \in Seq(Keys)
  BY DEF TypeOK
<1>6. lru' \in Seq(Keys) /\ Len(lru') = Len(lru) /\ ListHoldsResident'
  BY <1>1, <1>3, <1>4, <1>5, ListMoved
<1>7. FramesExclusive'
  BY <1>2, <1>6 DEF FramesExclusive
<1>8. Referenced' = Referenced \cup {k} /\ pin' \subseteq pin \cup {k}
      /\ handles' \in [Handles -> Keys \cup {NoPage}]
  BY <1>1, HandleCovered
<1>9. MapCoversUse' /\ EvictedIsIdle'
  BY <1>1, <1>2, <1>8 DEF MapCoversUse, EvictedIsIdle
<1>10. TypeOK' /\ NumbersFresh'
  BY <1>1, <1>6, <1>8 DEF TypeOK, NumbersFresh
<1> QED
  BY <1>6, <1>7, <1>9, <1>10

(* getPage on a page that is not resident keeps it.                        *)
LEMMA GetPageMissKeeps ==
    ASSUME Pool, NEW k \in Tables \X PageIds, NEW h \in Handles,
           NEW pinned \in BOOLEAN, GetPageMiss(k, h, pinned)
    PROVE  Pool'
<1> DEFINE tm == Opened(tableMap, k[1])
<1>1. k \in Keys /\ k[1] \in Names /\ memory[k] = NoFrame
  BY DEF Keys, Names, GetPageMiss, Pool, MapCoversUse, Resident
<1>2. tm \in [Names -> {"none", "open", "stdin"}]
  BY <1>1, LookupType DEF Pool, TypeOK
<1>3. PICK gone \in SUBSET (Resident \ pin) : Placed(k, gone, tm)
  BY <1>1, <1>2, BringInPlaces DEF GetPageMiss
<1>4. /\ Referenced' = Referenced \cup {k}
      /\ handles' \in [Handles -> Keys \cup {NoPage}]
      /\ pin' \subseteq pin \cup {k}
  BY <1>1, HandleCovered DEF GetPageMiss, Pool
<1>5. MapCoversUse' /\ EvictedIsIdle'
  BY <1>1, <1>3, <1>4, PlacedKeepsPool
<1>6. ReadPage(tm, k) \in Bytes
  BY <1>1 DEF ReadPage, Pool, TypeOK, Bytes
<1>7. pool' \in [Frames -> Bytes]
  BY <1>3, <1>6 DEF GetPageMiss, Placed, Pool, TypeOK
<1>8. TypeOK'
  BY <1>1, <1>3, <1>4, <1>7 DEF GetPageMiss, Placed, Pool, TypeOK
<1>9. NumbersFresh'
  <2>1. k[1] # TempTable
    BY ConstantsAssumption
  <2>2. mapped' = mapped \cup {k} /\ anonymousID' = anonymousID
    BY <1>3 DEF GetPageMiss, Placed
  <2> QED BY <2>1, <2>2 DEF Pool, NumbersFresh
<1> QED
  BY <1>3, <1>5, <1>8, <1>9 DEF Pool, Placed

(* getPage without a table keeps it.                                       *)
LEMMA GetAnonymousPageKeeps ==
    ASSUME Pool, NEW h \in Handles, NEW pinned \in BOOLEAN,
           GetAnonymousPage(h, pinned)
    PROVE  Pool'
<1> DEFINE k == <<TempTable, anonymousID>>
<1>1. k \in Keys /\ anonymousID' \in 0 .. MaxAnonymous
  BY ConstantsAssumption DEF Keys, AnonIds, GetAnonymousPage, Pool, TypeOK
<1>0. memory[k] = NoFrame
  BY <1>1 DEF Pool, TypeOK, MapCoversUse, NumbersFresh, Resident
<1>2. PICK gone \in SUBSET (Resident \ pin) : Placed(k, gone, tableMap)
  BY <1>0, <1>1, BringInPlaces DEF GetAnonymousPage, Pool, TypeOK
<1>3. /\ Referenced' = Referenced \cup {k}
      /\ handles' \in [Handles -> Keys \cup {NoPage}]
      /\ pin' \subseteq pin \cup {k}
  BY <1>1, HandleCovered DEF GetAnonymousPage, Pool
<1>4. MapCoversUse' /\ EvictedIsIdle'
  BY <1>1, <1>2, <1>3, PlacedKeepsPool
<1>5. NumbersFresh'
  <2>1. /\ k[1] = TempTable /\ k[2] = anonymousID
        /\ mapped' = mapped \cup {k}
        /\ anonymousID' = anonymousID + 1 /\ anonymousID \in Nat
    BY <1>2 DEF GetAnonymousPage, Placed, Pool, TypeOK
  <2>2. \A l \in mapped : l[1] = TempTable => l[2] \in Nat /\ l[2] < anonymousID
    BY ConstantsAssumption
    DEF Pool, TypeOK, NumbersFresh, Keys, AnonIds
  <2> HIDE DEF k
  <2> QED BY <2>1, <2>2 DEF NumbersFresh
<1> HIDE DEF k
<1>6. TypeOK'
  BY <1>1, <1>2, <1>3 DEF GetAnonymousPage, Placed, Pool, TypeOK
<1> QED
  BY <1>2, <1>4, <1>5, <1>6 DEF Pool, Placed

(* getBytes, which may reload the page, keeps it.                          *)
LEMMA GetBytesKeeps ==
    ASSUME Pool, NEW h \in Handles, GetBytes(h)
    PROVE  Pool'
<1> DEFINE k == handles[h]
           tm == Lookup(tableMap, k[1])
<1>1. k \in Keys /\ k[1] \in Names /\ memory[k] = NoFrame /\ k \in Referenced
  BY KeyName DEF GetBytes, Pool, TypeOK, Referenced
<1>2. tm \in [Names -> {"none", "open", "stdin"}]
  BY <1>1, LookupType DEF Pool, TypeOK
<1>3. PICK v \in Resident \ pin : Placed(k, {v}, tm)
  BY <1>1, <1>2, VictimsFrame DEF GetBytes
<1>4. Referenced' = Referenced /\ pin' = pin
  BY DEF GetBytes, Referenced
<1>5. MapCoversUse' /\ EvictedIsIdle'
  BY <1>1, <1>3, <1>4, PlacedKeepsPool
<1>6. ReadPage(tm, k) \in Bytes
  BY <1>1 DEF ReadPage, Pool, TypeOK, Bytes
<1>7. pool' \in [Frames -> Bytes]
  BY <1>3, <1>6 DEF GetBytes, Placed, Pool, TypeOK
<1>8. TypeOK'
  BY <1>1, <1>3, <1>7 DEF GetBytes, Placed, Pool, TypeOK
<1>9. NumbersFresh'
  <2>1. mapped' = mapped /\ anonymousID' = anonymousID
    BY <1>1, <1>3 DEF Placed, Pool, MapCoversUse, GetBytes
  <2> QED BY <2>1 DEF Pool, NumbersFresh
<1> QED
  BY <1>3, <1>5, <1>8, <1>9 DEF Pool, Placed

(* The actions that leave every page where it is.                          *)
LEMMA InPlaceKeeps ==
    ASSUME Pool, UNCHANGED <<memory, lru, currPage, anonymousID>>, TypeOK',
           mapped' \subseteq mapped, pin' \subseteq pin, dirty' \subseteq Resident,
           Resident \cup Referenced' \subseteq mapped'
    PROVE  Pool'
<1>1. Resident' = Resident /\ ListHoldsResident' /\ FramesExclusive'
  BY SameResidents
<1> QED
  BY <1>1 DEF Pool, MapCoversUse, NumbersFresh, EvictedIsIdle

(* wroteBytes keeps it.                                                    *)
LEMMA WriteKeeps ==
    ASSUME Pool, NEW h \in Handles, NEW v \in Values, Write(h, v)
    PROVE  Pool'
<1>1. handles[h] \in Resident
  BY DEF Write, Pool, TypeOK, Resident
<1>2. Referenced' = Referenced
  BY DEF Write, Referenced
<1>3. TypeOK'
  BY <1>1 DEF Write, Pool, TypeOK, Resident, Bytes
<1> QED
  BY <1>1, <1>2, <1>3, InPlaceKeeps DEF Write, Pool, MapCoversUse, EvictedIsIdle

(* unpin keeps it.                                                         *)
LEMMA UnpinKeeps ==
    ASSUME Pool, NEW h \in Handles, Unpin(h)
    PROVE  Pool'
<1>1. TypeOK' /\ Referenced' = Referenced
  BY DEF Unpin, Pool, TypeOK, Referenced
<1> QED
  BY <1>1, InPlaceKeeps DEF Unpin, Pool, MapCoversUse, EvictedIsIdle

(* The use count is what it should be: three for the last handle of a      *)
(* resident page, two for the last handle of an evicted one.               *)
LEMMA UseCounts ==
    ASSUME Pool, NEW h \in Handles, NEW k \in Keys, handles[h] = k
    PROVE  /\ k \in Resident => (UseCount(k) = 3 <=> Refs(k) = {h})
           /\ k \in Resident => UseCount(k) # 2
           /\ k \notin Resident => (UseCount(k) = 2 <=> Refs(k) = {h})
<1>1. k \in mapped
  BY DEF Pool, MapCoversUse, Referenced
<1>2. h \in Refs(k) /\ IsFiniteSet(Refs(k)) /\ Cardinality(Refs(k)) \in Nat
  BY RefsFinite DEF Refs
<1>3. Cardinality(Refs(k)) # 0
  BY <1>2, FS_EmptySet
<1>4. Cardinality(Refs(k)) = 1 <=> Refs(k) = {h}
  <2>1. Cardinality(Refs(k)) = 1 <=> \E x : Refs(k) = {x}
    BY <1>2, FS_Singleton
  <2> QED BY <1>2, <2>1
<1> QED
  BY <1>1, <1>2, <1>3, <1>4 DEF UseCount, Resident

(* The destructor of a handle keeps it.                                    *)
LEMMA DropHandleKeeps ==
    ASSUME Pool, NEW h \in Handles, DropHandle(h)
    PROVE  Pool'
<1> DEFINE k == handles[h]
<1>1. k \in Keys
  BY DEF DropHandle, Pool, TypeOK
<1>2. TypeOK'
  BY DEF DropHandle, Pool, TypeOK
<1>3. Referenced' \subseteq Referenced
  BY ConstantsAssumption DEF DropHandle, Pool, TypeOK, Referenced
<1>4. mapped' \subseteq mapped /\ pin' \subseteq pin /\ dirty' = dirty
  BY DEF DropHandle
<1>5. Resident \cup Referenced' \subseteq mapped'
  <2>1. CASE UseCount(k) # 2
    BY <1>3, <2>1 DEF DropHandle, Pool, MapCoversUse
  <2>2. CASE UseCount(k) = 2
    <3>1. k \notin Resident /\ Refs(k) = {h}
      BY <1>1, <2>2, UseCounts
    <3>2. k \notin Referenced'
      BY <1>1, <3>1, ConstantsAssumption
      DEF DropHandle, Pool, TypeOK, Referenced, Refs
    <3> QED
      BY <1>3, <2>2, <3>1, <3>2 DEF DropHandle, Pool, MapCoversUse
  <2> QED BY <2>1, <2>2
<1> QED
  BY <1>2, <1>4, <1>5, InPlaceKeeps DEF DropHandle, Pool, EvictedIsIdle

(* A call that finds every page pinned keeps it.                           *)
LEMMA RunOutOfFramesKeeps == Pool /\ RunOutOfFrames => Pool'
<1> SUFFICES ASSUME Pool, RunOutOfFrames PROVE Pool'
  OBVIOUS
<1>1. TypeOK' /\ Referenced' = Referenced
  BY DEF RunOutOfFrames, Pool, TypeOK, Referenced
<1> QED
  BY <1>1, InPlaceKeeps DEF RunOutOfFrames, Pool, MapCoversUse, EvictedIsIdle

(* killTable keeps it.                                                     *)
LEMMA KillTableKeeps ==
    ASSUME Pool, NEW t \in Tables, KillTable(t)
    PROVE  Pool'
<1>1. TypeOK' /\ Referenced' = Referenced
  BY DEF KillTable, Pool, TypeOK, Referenced, Names, Bytes
<1> QED
  BY <1>1, InPlaceKeeps DEF KillTable, Pool, MapCoversUse, EvictedIsIdle

(* An empty pool, as the destructor leaves it and the constructor makes it.*)
LEMMA BlankPool ==
    ASSUME Blank, status' \in {"running", "down", "crashed"},
           disk' \in [Keys -> Bytes],
           tableMap' \in [Names -> {"none", "open", "stdin"}]
    PROVE  Pool'
<1>1. TypeOK'
  BY ConstantsAssumption DEF Blank, TypeOK, Frames, Bytes
<1>2. Resident' = {} /\ Referenced' = {} /\ Len(lru') = 0
  BY ConstantsAssumption DEF Blank, Resident, Referenced
<1> QED
  BY <1>1, <1>2 DEF Blank, Pool, ListHoldsResident, FramesExclusive,
     MapCoversUse, NumbersFresh, EvictedIsIdle

(* The destructor of the manager keeps it.                                 *)
LEMMA ShutdownKeeps == Pool /\ Shutdown => Pool'
<1> SUFFICES ASSUME Pool, Shutdown PROVE Pool'
  OBVIOUS
<1>1. \A k \in Keys : k \in dirty => pool[memory[k]] \in Bytes
  BY DEF Pool, TypeOK, EvictedIsIdle, Resident
<1>2. PICK lost \in SUBSET (IF WriteFaults THEN dirty ELSE {}) :
         disk' = [k \in Keys |->
                   CASE k[1] = TempTable -> Junk
                     [] Flushed(k) /\ k \notin lost -> pool[memory[k]]
                     [] OTHER -> disk[k]]
  BY DEF Shutdown
<1>3. ASSUME NEW k \in Keys
      PROVE  (CASE k[1] = TempTable -> Junk
                [] Flushed(k) /\ k \notin lost -> pool[memory[k]]
                [] OTHER -> disk[k]) \in Bytes
  <2>1. Junk \in Bytes /\ disk[k] \in Bytes
    BY DEF Pool, TypeOK, Bytes
  <2>2. Flushed(k) => k[1] # TempTable /\ pool[memory[k]] \in Bytes
    BY <1>1 DEF Flushed
  <2> QED BY <2>1, <2>2
<1>4. disk' \in [Keys -> Bytes]
  BY <1>2, <1>3
<1>5. tableMap' \in [Names -> {"none", "open", "stdin"}]
  BY DEF Shutdown
<1> QED
  BY <1>4, <1>5, BlankPool DEF Shutdown

(* The next session starts with it.                                        *)
LEMMA RestartKeeps == Pool /\ Restart => Pool'
<1> SUFFICES ASSUME Pool, Restart PROVE Pool'
  OBVIOUS
<1>1. /\ disk' \in [Keys -> Bytes]
      /\ tableMap' \in [Names -> {"none", "open", "stdin"}]
  BY DEF Restart, Pool, TypeOK, Bytes
<1> QED
  BY <1>1, BlankPool DEF Restart

(* Every step keeps the invariant of the pool: it is inductive.            *)
THEOREM NextPool == Pool /\ [Next]_vars => Pool'
<1> SUFFICES ASSUME Pool, [Next]_vars PROVE Pool'
  OBVIOUS
<1>1. CASE GetPage
  BY <1>1, GetPageHitKeeps, GetPageMissKeeps DEF GetPage
<1>2. CASE GetAnonymous
  BY <1>2, GetAnonymousPageKeeps DEF GetAnonymous
<1>3. CASE UseHandle
  BY <1>3, GetBytesKeeps, WriteKeeps, UnpinKeeps, DropHandleKeeps DEF UseHandle
<1>4. CASE \E t \in Tables : KillTable(t)
  BY <1>4, KillTableKeeps
<1>5. CASE RunOutOfFrames
  BY <1>5, RunOutOfFramesKeeps
<1>6. CASE Shutdown
  BY <1>6, ShutdownKeeps
<1>7. CASE Restart
  BY <1>7, RestartKeeps
<1>8. CASE UNCHANGED vars
  <2>1. TypeOK' /\ Referenced' = Referenced
    BY <1>8 DEF vars, Pool, TypeOK, Referenced
  <2> QED
    BY <1>8, <2>1, InPlaceKeeps DEF vars, Pool, MapCoversUse, EvictedIsIdle
<1> QED
  BY <1>1, <1>2, <1>3, <1>4, <1>5, <1>6, <1>7, <1>8 DEF Next

(* The variables of the buffer manager keep their types.                   *)
THEOREM TypeCorrect == Spec => []TypeOK
<1>1. Pool => TypeOK
  BY DEF Pool
<1> QED
  BY InitPool, NextPool, <1>1, PTL DEF Spec

-----------------------------------------------------------------------------
(* The bytes.  With the shape of the pool goes what its descriptors and    *)
(* files hold: the temporary file has nothing yet for the numbers that     *)
(* anonymous pages have not had.                                           *)
TempFileFresh ==
    \A k \in Keys : k[1] = TempTable /\ k[2] >= anonymousID => disk[k] = Junk

Data ==
    /\ Pool
    /\ UsedTablesOpen
    /\ TempFileFresh
    /\ CleanMatchesDisk

(* At first no page is resident, so none differs from its file.            *)
THEOREM InitData == Init => Data
<1> SUFFICES ASSUME Init PROVE Data
  OBVIOUS
<1>1. Pool
  BY InitPool
<1>2. Resident = {} /\ mapped = {}
  BY DEF Init, Resident
<1>3. UsedTablesOpen
  BY <1>2 DEF Init, UsedTablesOpen, Names
<1>4. TempFileFresh /\ CleanMatchesDisk
  BY <1>2 DEF Init, TempFileFresh, CleanMatchesDisk
<1> QED
  BY <1>1, <1>3, <1>4 DEF Data

(* After page k got its frame, its own table is open or killed, and so is  *)
(* every other table in use.                                               *)
LEMMA PlacedTablesOpen ==
    ASSUME Data, NEW k \in Keys, NEW gone,
           NEW tm \in [Names -> {"none", "open", "stdin"}],
           Placed(k, gone, tm), UNCHANGED <<status, killed>>,
           \A t \in Names \ {k[1]} : tm[t] = tableMap[t],
           tableMap[k[1]] = "open" => tm[k[1]] = "open",
           k[1] \in killed \/ tm[k[1]] = "open"
    PROVE  UsedTablesOpen'
<1>1. \A l \in Keys : l[1] \in Names
  BY KeyName
<1>2. \A l \in gone : l \in mapped /\ l \in Keys
  BY DEF Data, Pool, MapCoversUse, Placed, Resident
<1>3. \A t \in Names : tableMap[t] = "open" => tableMap'[t] = "open"
  BY DEF Placed
<1>4. status' = "running" => tableMap'[TempTable] = "open"
  BY <1>3 DEF Data, UsedTablesOpen, Names
<1>5. ASSUME NEW l \in mapped', l[1] \notin killed'
      PROVE  tableMap'[l[1]] = "open"
  <2>1. CASE l = k
    BY <1>1, <1>5, <2>1 DEF Placed
  <2>2. CASE l # k
    <3>1. l \in mapped /\ l \in Keys
      BY <2>2 DEF Placed, Data, Pool, TypeOK
    <3> QED BY <1>1, <1>3, <1>5, <3>1 DEF Data, UsedTablesOpen
  <2> QED BY <2>1, <2>2
<1>6. ASSUME NEW t \in Names, tableMap'[t] = "stdin"
      PROVE  t \in killed'
  <2>1. CASE tm[t] = "stdin"
    BY <2>1 DEF Data, UsedTablesOpen
  <2>2. CASE tm[t] # "stdin"
    <3>1. PICK l \in gone : l[1] = t /\ tm[t] = "none"
      BY <1>6, <2>2 DEF Placed
    <3>2. tableMap[t] # "open"
      BY <3>1
    <3> QED BY <1>2, <3>1, <3>2 DEF Data, UsedTablesOpen
  <2> QED BY <2>1, <2>2
<1> QED
  BY <1>4, <1>5, <1>6 DEF UsedTablesOpen

(* The pages that stay in the pool keep their bytes, those that leave are  *)
(* no longer in it.                                                        *)
Clean(k) ==
    \/ k[1] \in killed
    \/ pool[memory[k]] = disk[k]
    \/ k[1] = TempTable /\ disk[k] = Junk

(* A page read from its file is clean and equal to it, and the frames of   *)
(* the others are as they were.                                            *)
LEMMA PlacedClean ==
    ASSUME Data, NEW k \in Keys, k \notin Resident, NEW gone, NEW tm,
           Placed(k, gone, tm), killed' = killed,
           \A f \in Frames : f # memory'[k] => pool'[f] = pool[f],
           Clean(k)'
    PROVE  CleanMatchesDisk'
<1> SUFFICES ASSUME NEW l \in Resident' \ dirty' PROVE Clean(l)'
  BY DEF CleanMatchesDisk, Clean
<1>1. CASE l = k
  BY <1>1
<1>2. CASE l # k
  <2>1. l \in Keys /\ k \in Resident'
    BY DEF Resident, Placed, Frames
  <2>2. /\ l \in Resident /\ l \notin gone /\ l \notin dirty
        /\ memory'[l] = memory[l] /\ memory[l] \in Frames
    BY <1>2, <2>1 DEF Placed, Resident, Data, Pool, TypeOK
  <2>3. memory'[l] # memory'[k]
    BY <1>2, <2>1 DEF Placed, FramesExclusive
  <2>4. pool'[memory'[l]] = pool[memory[l]] /\ disk'[l] = disk[l]
    BY <2>1, <2>2, <2>3 DEF Placed
  <2>5. Clean(l)
    BY <2>2 DEF Data, CleanMatchesDisk, Clean
  <2> QED BY <2>4, <2>5 DEF Clean
<1> QED
  BY <1>1, <1>2

(* getPage on a page that is not resident keeps Data.                      *)
LEMMA GetPageMissData ==
    ASSUME Data, NEW k \in Tables \X PageIds, NEW h \in Handles,
           NEW pinned \in BOOLEAN, GetPageMiss(k, h, pinned), Pool'
    PROVE  Data'
<1> DEFINE tm == Opened(tableMap, k[1])
<1>1. /\ k \in Keys /\ k[1] \in Names /\ k \notin Resident /\ memory[k] = NoFrame
      /\ k[1] # TempTable
  BY ConstantsAssumption
  DEF Keys, Names, GetPageMiss, Data, Pool, MapCoversUse, Resident
<1>2. /\ tm \in [Names -> {"none", "open", "stdin"}]
      /\ \A t \in Names \ {k[1]} : tm[t] = tableMap[t]
      /\ tm[k[1]] = "open"
  <2>1. tableMap \in [Names -> {"none", "open", "stdin"}]
    BY DEF Data, Pool, TypeOK
  <2>2. tableMap[k[1]] # "stdin"
    BY <1>1 DEF Data, UsedTablesOpen, GetPageMiss
  <2> QED BY <1>1, <2>1, <2>2 DEF Opened
<1> HIDE DEF tm
<1>3. /\ BringIn(k, tm)
      /\ pool' = [pool EXCEPT ![memory'[k]] = ReadPage(tm, k)]
      /\ UNCHANGED <<status, anonymousID, killed>>
  BY DEF GetPageMiss, tm
<1>4. PICK gone \in SUBSET (Resident \ pin) : Placed(k, gone, tm)
  BY <1>1, <1>2, <1>3, BringInPlaces DEF Data
<1>5. UsedTablesOpen'
  BY <1>1, <1>2, <1>3, <1>4, PlacedTablesOpen
<1>6. disk'[k] = disk[k] /\ ReadPage(tm, k) = disk[k]
  BY <1>1, <1>2, <1>4 DEF Placed, ReadPage
<1>7. /\ pool'[memory'[k]] = disk[k]
      /\ \A f \in Frames : f # memory'[k] => pool'[f] = pool[f]
  BY <1>3, <1>4, <1>6 DEF Placed, Data, Pool, TypeOK
<1>8. CleanMatchesDisk'
  BY <1>1, <1>3, <1>4, <1>6, <1>7, PlacedClean DEF Clean
<1>9. TempFileFresh'
  <2>1. \A l \in Resident : l[1] = TempTable => l[2] < anonymousID
    BY DEF Data, Pool, MapCoversUse, NumbersFresh
  <2>2. \A l \in Keys : l[1] = TempTable /\ l[2] >= anonymousID => l \notin gone
    BY <2>1, ConstantsAssumption DEF Keys, AnonIds, Data, Pool, TypeOK
  <2> QED BY <1>3, <1>4, <2>2 DEF TempFileFresh, Data, Placed
<1> QED
  BY <1>5, <1>8, <1>9 DEF Data

(* getPage without a table keeps Data.                                     *)
LEMMA GetAnonymousPageData ==
    ASSUME Data, NEW h \in Handles, NEW pinned \in BOOLEAN,
           GetAnonymousPage(h, pinned), Pool'
    PROVE  Data'
<1> DEFINE k == <<TempTable, anonymousID>>
<1>1. /\ k \in Keys /\ k[1] = TempTable /\ k[2] = anonymousID
      /\ anonymousID \in Nat /\ TempTable \in Names
  BY ConstantsAssumption
  DEF Keys, AnonIds, Names, GetAnonymousPage, Data, Pool, TypeOK
<1>2. k \notin Resident /\ memory[k] = NoFrame /\ disk[k] = Junk
  BY <1>1 DEF Data, Pool, TypeOK, MapCoversUse, NumbersFresh, TempFileFresh, Resident
<1>3. /\ BringIn(k, tableMap) /\ anonymousID' = anonymousID + 1
      /\ UNCHANGED <<status, pool, killed>>
  BY DEF GetAnonymousPage
<1> HIDE DEF k
<1>4. tableMap \in [Names -> {"none", "open", "stdin"}] /\ tableMap[TempTable] = "open"
  BY DEF Data, Pool, TypeOK, UsedTablesOpen, GetAnonymousPage
<1>5. PICK gone \in SUBSET (Resident \ pin) : Placed(k, gone, tableMap)
  BY <1>1, <1>2, <1>3, <1>4, BringInPlaces DEF Data
<1>6. UsedTablesOpen'
  BY <1>1, <1>3, <1>4, <1>5, PlacedTablesOpen
<1>7. disk'[k] = Junk
  BY <1>1, <1>2, <1>5 DEF Placed
<1>8. CleanMatchesDisk'
  BY <1>1, <1>2, <1>3, <1>5, <1>7, PlacedClean DEF Clean
<1>9. TempFileFresh'
  <2>1. \A l \in Resident : l[1] = TempTable => l[2] < anonymousID
    BY DEF Data, Pool, MapCoversUse, NumbersFresh
  <2>2. \A l \in Keys : l[1] = TempTable => l[2] \in Nat
    BY ConstantsAssumption DEF Keys, AnonIds
  <2>3. ASSUME NEW l \in Keys, l[1] = TempTable, l[2] >= anonymousID'
        PROVE  disk'[l] = Junk
    <3>1. l[2] >= anonymousID /\ l \notin gone
      BY <1>1, <1>3, <2>1, <2>2, <2>3
    <3> QED BY <1>5, <2>3, <3>1 DEF Placed, TempFileFresh, Data
  <2> QED BY <2>3 DEF TempFileFresh
<1> QED
  BY <1>6, <1>8, <1>9 DEF Data

(* getBytes keeps Data.                                                    *)
LEMMA GetBytesData ==
    ASSUME Data, NEW h \in Handles, GetBytes(h), Pool'
    PROVE  Data'
<1> DEFINE k == handles[h]
           tm == Lookup(tableMap, k[1])
<1>1. /\ k \in Keys /\ k[1] \in Names /\ memory[k] = NoFrame
      /\ k \notin Resident /\ k \in mapped
  BY KeyName DEF GetBytes, Data, Pool, TypeOK, MapCoversUse, Referenced, Resident
<1>2. k[1] \in killed \/ tableMap[k[1]] = "open"
  BY <1>1 DEF Data, UsedTablesOpen
<1>3. /\ ReplaceVictim(k, tm)
      /\ pool' = [pool EXCEPT ![memory'[k]] = ReadPage(tm, k)]
      /\ UNCHANGED <<status, anonymousID, killed>>
  BY DEF GetBytes
<1>4. /\ tm \in [Names -> {"none", "open", "stdin"}]
      /\ \A t \in Names \ {k[1]} : tm[t] = tableMap[t]
      /\ tableMap[k[1]] = "open" => tm[k[1]] = "open"
  BY <1>1 DEF Data, Pool, TypeOK, Lookup
<1> HIDE DEF tm, k
<1>5. PICK v \in Resident \ pin : Placed(k, {v}, tm)
  BY <1>1, <1>3, <1>4, VictimsFrame DEF Data
<1>6. UsedTablesOpen'
  BY <1>1, <1>2, <1>3, <1>4, <1>5, PlacedTablesOpen
<1>7. disk'[k] = disk[k] /\ (k[1] \in killed \/ ReadPage(tm, k) = disk[k])
  BY <1>1, <1>2, <1>4, <1>5 DEF Placed, ReadPage
<1>8. /\ pool'[memory'[k]] = ReadPage(tm, k)
      /\ \A f \in Frames : f # memory'[k] => pool'[f] = pool[f]
  BY <1>3, <1>5 DEF Placed, Data, Pool, TypeOK
<1>9. CleanMatchesDisk'
  BY <1>1, <1>3, <1>5, <1>7, <1>8, PlacedClean DEF Clean
<1>10. TempFileFresh'
  <2>1. \A l \in Resident : l[1] = TempTable => l[2] < anonymousID
    BY DEF Data, Pool, MapCoversUse, NumbersFresh
  <2>2. \A l \in Keys : l[1] = TempTable /\ l[2] >= anonymousID => l # v
    BY <2>1, ConstantsAssumption DEF Keys, AnonIds, Data, Pool, TypeOK
  <2> QED BY <1>3, <1>5, <2>2 DEF TempFileFresh, Data, Placed
<1> QED
  BY <1>6, <1>9, <1>10 DEF Data

(* The actions that touch neither frames nor files.                        *)
LEMMA InPlaceData ==
    ASSUME Data, Pool', status' \in {status, "crashed"}, mapped' \subseteq mapped,
           UNCHANGED <<memory, pool, disk, tableMap, anonymousID, killed, dirty>>
    PROVE  Data'
<1>1. Resident' = Resident
  BY DEF Resident
<1>2. UsedTablesOpen'
  BY DEF Data, UsedTablesOpen
<1>3. TempFileFresh' /\ CleanMatchesDisk'
  BY <1>1 DEF Data, TempFileFresh, CleanMatchesDisk
<1> QED
  BY <1>2, <1>3 DEF Data

(* wroteBytes keeps Data: the page it changes is dirty.                    *)
LEMMA WriteData ==
    ASSUME Data, NEW h \in Handles, NEW v \in Values, Write(h, v), Pool'
    PROVE  Data'
<1>1. Resident' = Resident /\ handles[h] \in Resident
  BY DEF Write, Resident, Data, Pool, TypeOK
<1>2. UsedTablesOpen' /\ TempFileFresh'
  BY DEF Write, Data, UsedTablesOpen, TempFileFresh
<1>3. ASSUME NEW l \in Resident \ dirty'
      PROVE  Clean(l)'
  <2>1. l \notin dirty /\ memory[l] # memory[handles[h]]
    BY <1>1, <1>3 DEF Write, Data, Pool, FramesExclusive
  <2>2. pool'[memory'[l]] = pool[memory[l]]
    BY <1>1, <2>1 DEF Write, Data, Pool, TypeOK, Resident
  <2>3. Clean(l)
    BY <2>1 DEF Data, CleanMatchesDisk, Clean
  <2> QED BY <2>2, <2>3 DEF Write, Clean
<1> QED
  BY <1>1, <1>2, <1>3 DEF Data, CleanMatchesDisk, Clean

(* killTable keeps Data.                                                   *)
LEMMA KillTableData ==
    ASSUME Data, NEW t \in Tables, KillTable(t), Pool'
    PROVE  Data'
<1>1. Resident' = Resident /\ TempTable # t
  BY ConstantsAssumption DEF KillTable, Resident
<1>2. UsedTablesOpen'
  <2>1. \A l \in mapped : l \in Keys /\ l[1] \in Names
    BY KeyName DEF Data, Pool, TypeOK
  <2>2. \A u \in Names \ {t} : tableMap'[u] = tableMap[u]
    BY DEF KillTable, Data, Pool, TypeOK
  <2>3. t \in killed' /\ killed \subseteq killed' /\ mapped' = mapped /\ status' = status
    BY DEF KillTable
  <2>4. TempTable \in Names
    BY DEF Names
  <2> QED BY <1>1, <2>1, <2>2, <2>3, <2>4 DEF Data, UsedTablesOpen
<1>3. TempFileFresh'
  BY <1>1 DEF KillTable, Data, TempFileFresh
<1>4. CleanMatchesDisk'
  BY <1>1 DEF KillTable, Data, CleanMatchesDisk, Resident
<1> QED
  BY <1>2, <1>3, <1>4 DEF Data

(* A manager without pages satisfies Data.                                 *)
LEMMA BlankData ==
    ASSUME Blank, Pool',
           \A k \in Keys : k[1] = TempTable => disk'[k] = Junk,
           status' = "running" => tableMap'[TempTable] = "open",
           \A t \in Names : tableMap'[t] # "stdin"
    PROVE  Data'
<1>1. Resident' = {}
  BY DEF Blank, Resident
<1>2. UsedTablesOpen' /\ TempFileFresh' /\ CleanMatchesDisk'
  BY <1>1 DEF Blank, UsedTablesOpen, TempFileFresh, CleanMatchesDisk
<1> QED
  BY <1>2 DEF Data

(* Every step keeps Data: it is inductive.                                 *)
THEOREM NextData == Data /\ [Next]_vars => Data'
<1> SUFFICES ASSUME Data, [Next]_vars PROVE Data'
  OBVIOUS
<1>0. Pool'
  BY NextPool DEF Data
<1>1. CASE GetPage
  <2>1. PICK k \in Tables \X PageIds, h \in Handles, pinned \in BOOLEAN :
           GetPageHit(k, h, pinned) \/ GetPageMiss(k, h, pinned)
    BY <1>1 DEF GetPage
  <2>2. CASE GetPageHit(k, h, pinned)
    BY <1>0, <2>2, InPlaceData DEF GetPageHit
  <2>3. CASE GetPageMiss(k, h, pinned)
    BY <1>0, <2>3, GetPageMissData
  <2> QED BY <2>1, <2>2, <2>3
<1>2. CASE GetAnonymous
  BY <1>0, <1>2, GetAnonymousPageData DEF GetAnonymous
<1>3. CASE UseHandle
  <2>1. PICK h \in Handles : \/ GetBytes(h)
                             \/ \E v \in Values : Write(h, v)
                             \/ Unpin(h)
                             \/ DropHandle(h)
    BY <1>3 DEF UseHandle
  <2>2. CASE GetBytes(h)
    BY <1>0, <2>2, GetBytesData
  <2>3. CASE \E v \in Values : Write(h, v)
    BY <1>0, <2>3, WriteData
  <2>4. CASE Unpin(h)
    BY <1>0, <2>4, InPlaceData DEF Unpin
  <2>5. CASE DropHandle(h)
    BY <1>0, <2>5, InPlaceData DEF DropHandle
  <2> QED BY <2>1, <2>2, <2>3, <2>4, <2>5
<1>4. CASE \E t \in Tables : KillTable(t)
  BY <1>0, <1>4, KillTableData
<1>5. CASE RunOutOfFrames
  BY <1>0, <1>5, InPlaceData DEF RunOutOfFrames
<1>6. CASE Shutdown
  <2>1. \A k \in Keys : k[1] = TempTable => disk'[k] = Junk
    <3>1. PICK lost : disk' = [k \in Keys |->
                                 CASE k[1] = TempTable -> Junk
                                   [] Flushed(k) /\ k \notin lost -> pool[memory[k]]
                                   [] OTHER -> disk[k]]
      BY <1>6 DEF Shutdown
    <3> QED BY <3>1 DEF Flushed
  <2>2. status' # "running" /\ \A t \in Names : tableMap'[t] # "stdin"
    BY <1>6 DEF Shutdown
  <2> QED BY <1>0, <1>6, <2>1, <2>2, BlankData DEF Shutdown
<1>7. CASE Restart
  BY <1>0, <1>7, BlankData DEF Restart, Names
<1>8. CASE UNCHANGED vars
  BY <1>0, <1>8, InPlaceData DEF vars
<1> QED
  BY <1>1, <1>2, <1>3, <1>4, <1>5, <1>6, <1>7, <1>8 DEF Next

(* The shape of the pool: each resident page once in the list and alone in *)
(* its frame, every page in use known to bufferMap, evicted pages neither  *)
(* pinned nor dirty, every table in use open unless it was killed.         *)
THEOREM StructureHolds == Spec => []Structure
<1>1. Data => Structure
  BY DEF Data, Pool, Structure
<1> QED
  BY InitData, NextData, <1>1, PTL DEF Spec

(* A clean page in the pool is what its file holds, whether or not writes  *)
(* can fail.                                                               *)
THEOREM CleanPagesMatchDisk == Spec => []CleanMatchesDisk
<1>1. Data => CleanMatchesDisk
  BY DEF Data
<1> QED
  BY InitData, NextData, <1>1, PTL DEF Spec

-----------------------------------------------------------------------------
(* Pins.                                                                   *)
THEOREM InitPins == Init => PinnedIsReferenced
  BY DEF Init, PinnedIsReferenced

(* Every step keeps each pinned page under a live handle.                  *)
THEOREM NextPins == Pool /\ PinnedIsReferenced /\ [Next]_vars => PinnedIsReferenced'
<1> SUFFICES ASSUME Pool, PinnedIsReferenced, [Next]_vars
             PROVE  PinnedIsReferenced'
  OBVIOUS
<1> USE DEF PinnedIsReferenced
<1>1. ASSUME NEW k \in Keys, NEW h \in Handles, NEW pinned \in BOOLEAN,
             NewHandle(h, k, pinned)
      PROVE  PinnedIsReferenced'
  BY <1>1, HandleCovered DEF Pool
<1>2. ASSUME UNCHANGED handles, pin' \subseteq pin
      PROVE  PinnedIsReferenced'
  BY <1>2 DEF Referenced
<1>3. CASE GetPage
  BY <1>1, <1>3 DEF GetPage, GetPageHit, GetPageMiss, Keys
<1>4. CASE GetAnonymous
  <2>1. PICK h \in Handles, pinned \in BOOLEAN : GetAnonymousPage(h, pinned)
    BY <1>4 DEF GetAnonymous
  <2>2. <<TempTable, anonymousID>> \in Keys
    BY <2>1, ConstantsAssumption DEF GetAnonymousPage, Keys, AnonIds, Pool, TypeOK
  <2> QED BY <1>1, <2>1, <2>2 DEF GetAnonymousPage
<1>5. ASSUME NEW h \in Handles, DropHandle(h)
      PROVE  PinnedIsReferenced'
  <2> DEFINE k == handles[h]
  <2>1. k \in Keys
    BY <1>5 DEF DropHandle, Pool, TypeOK
  <2>2. ASSUME NEW l \in pin'
        PROVE  l \in Referenced'
    <3>1. l \in pin /\ l \in Keys
      BY <1>5, <2>2 DEF DropHandle, Pool, TypeOK
    <3>2. PICK g \in Handles : handles[g] = l
      BY <3>1 DEF Referenced
    <3>3. CASE g # h
      BY <1>5, <3>1, <3>2, <3>3 DEF DropHandle, Pool, TypeOK, Referenced
    <3>4. CASE g = h
      <4>1. l = k /\ k \in Resident /\ UseCount(k) # 3
        BY <1>5, <2>2, <3>1, <3>2, <3>4 DEF DropHandle, Pool, EvictedIsIdle
      <4>2. PICK f \in Handles : f # h /\ handles[f] = k
        BY <2>1, <4>1, UseCounts DEF Refs
      <4> QED BY <1>5, <3>1, <4>1, <4>2 DEF DropHandle, Pool, TypeOK, Referenced
    <3> QED BY <3>3, <3>4
  <2> QED BY <2>2
<1>6. CASE UseHandle
  BY <1>2, <1>5, <1>6 DEF UseHandle, GetBytes, Write, Unpin
<1>7. CASE \E t \in Tables : KillTable(t)
  BY <1>2, <1>7 DEF KillTable
<1>8. CASE RunOutOfFrames
  BY <1>2, <1>8 DEF RunOutOfFrames
<1>9. CASE Shutdown \/ Restart
  BY <1>9 DEF Shutdown, Restart, Blank
<1>10. CASE UNCHANGED vars
  BY <1>2, <1>10 DEF vars
<1> QED
  BY <1>3, <1>4, <1>6, <1>7, <1>8, <1>9, <1>10 DEF Next

(* A page that no handle refers to is not pinned.                          *)
THEOREM PinsAreReferenced == Spec => []PinnedIsReferenced
  BY InitPool, NextPool, InitPins, NextPins, PTL DEF Spec

(* No step moves a page that is pinned before and after it.                *)
Stays == \A k \in pin \cap pin' : memory'[k] = memory[k]

(* No single step moves a page that is pinned before and after it.         *)
LEMMA StepStays == Pool /\ [Next]_vars => Stays
<1> SUFFICES ASSUME Pool, [Next]_vars PROVE Stays
  OBVIOUS
<1>1. pin \subseteq Resident /\ pin \subseteq Keys
  BY DEF Pool, EvictedIsIdle, TypeOK
<1>2. ASSUME NEW k \in Keys, k \notin Resident,
             NEW gone \in SUBSET (Resident \ pin), NEW tm, Placed(k, gone, tm)
      PROVE  Stays
  BY <1>1, <1>2 DEF Placed, Stays
<1>3. CASE GetPage
  <2>1. PICK k \in Tables \X PageIds, h \in Handles, pinned \in BOOLEAN :
           GetPageHit(k, h, pinned) \/ GetPageMiss(k, h, pinned)
    BY <1>3 DEF GetPage
  <2>2. CASE GetPageHit(k, h, pinned)
    BY <2>2 DEF GetPageHit, Stays
  <2>3. CASE GetPageMiss(k, h, pinned)
    <3> DEFINE tm == Opened(tableMap, k[1])
    <3>1. /\ k \in Keys /\ BringIn(k, tm) /\ k[1] \in Names
          /\ k \notin Resident /\ memory[k] = NoFrame
      BY <2>3, KeyName DEF GetPageMiss, Keys, Resident, Pool, MapCoversUse
    <3>2. tm \in [Names -> {"none", "open", "stdin"}]
      BY <3>1 DEF Opened, Pool, TypeOK
    <3> HIDE DEF tm
    <3>3. PICK gone \in SUBSET (Resident \ pin) : Placed(k, gone, tm)
      BY <3>1, <3>2, BringInPlaces
    <3> QED BY <1>2, <3>1, <3>3
  <2> QED BY <2>1, <2>2, <2>3
<1>4. CASE GetAnonymous
  <2>1. PICK h \in Handles, pinned \in BOOLEAN : GetAnonymousPage(h, pinned)
    BY <1>4 DEF GetAnonymous
  <2> DEFINE k == <<TempTable, anonymousID>>
  <2>2. /\ k \in Keys /\ BringIn(k, tableMap)
        /\ k \notin Resident /\ memory[k] = NoFrame
    BY <2>1, ConstantsAssumption
    DEF GetAnonymousPage, Keys, AnonIds, Pool, TypeOK, MapCoversUse, NumbersFresh,
        Resident
  <2> HIDE DEF k
  <2>3. PICK gone \in SUBSET (Resident \ pin) : Placed(k, gone, tableMap)
    BY <2>2, BringInPlaces DEF Pool, TypeOK
  <2> QED BY <1>2, <2>2, <2>3
<1>5. CASE UseHandle
  <2>1. PICK h \in Handles : \/ GetBytes(h)
                             \/ \E v \in Values : Write(h, v)
                             \/ Unpin(h)
                             \/ DropHandle(h)
    BY <1>5 DEF UseHandle
  <2>2. CASE GetBytes(h)
    <3> DEFINE k == handles[h]
               tm == Lookup(tableMap, k[1])
    <3>1. /\ k \in Keys /\ ReplaceVictim(k, tm) /\ k[1] \in Names
          /\ k \notin Resident /\ memory[k] = NoFrame
      BY <2>2, KeyName DEF GetBytes, Pool, TypeOK, Resident
    <3>2. tm \in [Names -> {"none", "open", "stdin"}]
      BY <3>1 DEF Lookup, Pool, TypeOK
    <3> HIDE DEF tm, k
    <3>3. PICK v \in Resident \ pin : Placed(k, {v}, tm)
      BY <3>1, <3>2, VictimsFrame
    <3> QED BY <1>2, <3>1, <3>3
  <2>3. CASE ~ GetBytes(h)
    BY <2>1, <2>3 DEF Write, Unpin, DropHandle, Stays
  <2> QED BY <2>2, <2>3
<1>6. CASE \E t \in Tables : KillTable(t)
  BY <1>6 DEF KillTable, Stays
<1>7. CASE RunOutOfFrames
  BY <1>7 DEF RunOutOfFrames, Stays
<1>8. CASE Shutdown \/ Restart
  BY <1>8 DEF Shutdown, Restart, Blank, Stays
<1>9. CASE UNCHANGED vars
  BY <1>9 DEF vars, Stays
<1> QED
  BY <1>3, <1>4, <1>5, <1>6, <1>7, <1>8, <1>9 DEF Next

(* The pointer that getBytes returned for a pinned page stays good as long *)
(* as the page is pinned.                                                  *)
THEOREM PinnedPagesStayPut == Spec => PinnedStaysPut
<1>1. Pool /\ [Next]_vars => [Stays]_vars
  BY StepStays
<1> QED
  BY InitPool, NextPool, <1>1, PTL DEF Spec, PinnedStaysPut, Stays

-----------------------------------------------------------------------------
(* A killed table has no descriptor and no bytes: a page of it that is     *)
(* still in the pool never reaches a file.                                 *)
KilledGone ==
    /\ \A t \in killed : tableMap[t] # "open"
    /\ \A k \in Keys : k[1] \in killed => disk[k] = Junk

(* The inductive invariant of the refinement.                              *)
Consistent ==
    /\ Data
    /\ PinnedIsReferenced
    /\ KilledGone

-----------------------------------------------------------------------------
(* The two modules name the same pages.                                    *)
LEMMA StoreKeys == Store!Keys = Keys
  BY DEF Store!Keys, Keys

(* And they count alike.                                                   *)
LEMMA StoreCounts == \A S : Store!Cardinality(S) = Cardinality(S)
  BY DEF Store!Cardinality, Cardinality

(* Two contents are equal when they give every page the same bytes.        *)
LEMMA SameBytes ==
    ASSUME NEW f, NEW g, f = [k \in Keys |-> f[k]], g = [k \in Keys |-> g[k]],
           \A k \in Keys : f[k] = g[k]
    PROVE  f = g
  OBVIOUS

(* What the content of a page is.                                          *)
LEMMA ContentOf ==
    ASSUME NEW k \in Keys
    PROVE  /\ Content[k] = IF k[1] \in killed THEN Junk
                           ELSE IF status = "running" /\ k \in dirty THEN pool[memory[k]]
                           ELSE disk[k]
           /\ Content'[k] = IF k[1] \in killed' THEN Junk
                            ELSE IF status' = "running" /\ k \in dirty' THEN pool'[memory'[k]]
                            ELSE disk'[k]
           /\ Content = [l \in Keys |-> Content[l]]
           /\ Content' = [l \in Keys |-> Content'[l]]
  BY DEF Content

(* What replacing a victim does to the files, when no write fails.         *)
WroteBack(v) ==
    IF v \in dirty /\ v[1] \notin killed
    THEN disk' = [disk EXCEPT ![v] = pool[memory[v]]]
    ELSE disk' = disk

(* The descriptors after the caller's own lookups: tables in use are open, *)
(* killed ones are not.                                                    *)
Prepared(tm) ==
    /\ tm \in [Names -> {"none", "open", "stdin"}]
    /\ \A t \in Names : tableMap[t] = "open" => tm[t] = "open"
    /\ \A t \in killed : tm[t] # "open"

(* A dirty victim goes to its file, unless its table was killed.           *)
LEMMA VictimWrittenBack ==
    ASSUME Consistent, ~ WriteFaults, NEW k \in Keys, memory[k] = NoFrame,
           NEW tm, Prepared(tm), ReplaceVictim(k, tm)
    PROVE  \E v \in Resident : Placed(k, {v}, tm) /\ WroteBack(v)
<1> USE DEF Consistent, Data
<1>1. PICK v \in Resident \ pin : Placed(k, {v}, tm)
  BY VictimsFrame DEF Prepared
<1>2. PICK i \in 1 .. Len(lru) :
         /\ \/ /\ lru[i] \in dirty
               /\ tableMap' = Lookup(tm, lru[i][1])
               /\ WritePage(tableMap', lru[i])
            \/ /\ lru[i] \notin dirty
               /\ disk' = disk
         /\ memory' = [memory EXCEPT ![k] = memory[lru[i]], ![lru[i]] = NoFrame]
  BY DEF ReplaceVictim
<1>3. lru[i] = v
  <2>1. lru[i] \in Resident /\ lru[i] \in Keys /\ lru[i] # k
    BY DEF Pool, ListHoldsResident, Resident
  <2>2. memory'[lru[i]] = NoFrame /\ memory[lru[i]] # NoFrame
    BY <1>2, <2>1 DEF Pool, TypeOK, Resident
  <2> QED BY <1>1, <2>1, <2>2 DEF Placed
<1>4. v \in Keys /\ v \in mapped /\ v[1] \in Names
  BY KeyName DEF Pool, MapCoversUse, Resident
<1>5. CASE v \notin dirty
  BY <1>1, <1>2, <1>3, <1>5 DEF WroteBack
<1>6. CASE v \in dirty
  <2>1. tableMap' = Lookup(tm, v[1]) /\ WritePage(tableMap', v)
    BY <1>2, <1>3, <1>6
  <2>2. tableMap'[v[1]] = "open" <=> tm[v[1]] = "open"
    BY <1>4, <2>1 DEF Lookup, Prepared
  <2>3. tm[v[1]] = "open" <=> v[1] \notin killed
    BY <1>4 DEF Prepared, UsedTablesOpen
  <2>4. WroteBack(v)
    BY <1>6, <2>1, <2>2, <2>3 DEF WritePage, WroteBack
  <2> QED BY <1>1, <2>4
<1> QED
  BY <1>5, <1>6

(* Bringing a page in saves at most one page and changes no content.       *)
LEMMA BringInSaves ==
    ASSUME Consistent, ~ WriteFaults, status = "running",
           NEW k \in Keys, memory[k] = NoFrame, NEW tm, Prepared(tm),
           TakeFreshFrame(k, tm) \/ ReplaceVictim(k, tm),
           \A f \in Frames : f # memory'[k] => pool'[f] = pool[f],
           UNCHANGED <<status, killed>>
    PROVE  Content' = Content /\ Store!SaveOne /\ KilledGone'
<1> USE DEF Consistent, Data
<1>1. \E gone \in SUBSET Resident :
         /\ Placed(k, gone, tm)
         /\ \/ gone = {} /\ disk' = disk
            \/ \E v \in Resident : gone = {v} /\ WroteBack(v)
  <2>1. CASE TakeFreshFrame(k, tm)
    BY <2>1, FreshFrame DEF TakeFreshFrame, Prepared
  <2>2. CASE ReplaceVictim(k, tm)
    BY <2>2, VictimWrittenBack
  <2> QED BY <2>1, <2>2
<1>2. PICK gone \in SUBSET Resident :
         /\ Placed(k, gone, tm)
         /\ \/ gone = {} /\ disk' = disk
            \/ \E v \in Resident : gone = {v} /\ WroteBack(v)
  BY <1>1
<1>3. /\ Resident \subseteq Keys /\ k \notin Resident /\ dirty \subseteq Resident
      /\ disk \in [Keys -> Bytes]
  BY DEF Resident, Pool, EvictedIsIdle, TypeOK
<1>4. \A l \in Keys :
         /\ l \in dirty /\ l \in gone /\ l[1] \notin killed => disk'[l] = pool[memory[l]]
         /\ ~ (l \in dirty /\ l \in gone /\ l[1] \notin killed) => disk'[l] = disk[l]
  BY <1>2, <1>3 DEF WroteBack
<1>5. ASSUME NEW l \in dirty'
      PROVE  pool'[memory'[l]] = pool[memory[l]]
  <2>1. l \in Resident /\ l # k /\ l \notin gone
    BY <1>2, <1>3, <1>5 DEF Placed
  <2>2. memory'[l] = memory[l] /\ memory[l] \in Frames /\ memory'[k] \in Frames
    BY <1>2, <1>3, <2>1 DEF Placed, Resident, Pool, TypeOK
  <2>3. l \in Resident' /\ k \in Resident'
    BY <1>3, <2>1, <2>2 DEF Resident, Frames, NoFrame
  <2>4. memory'[l] # memory'[k]
    BY <1>2, <2>1, <2>3 DEF Placed, FramesExclusive
  <2> QED BY <2>2, <2>4
<1>6. ASSUME NEW l \in Keys
      PROVE  Content'[l] = Content[l]
  <2>1. dirty' = dirty \ gone
    BY <1>2 DEF Placed
  <2> QED BY <1>4, <1>5, <2>1, ContentOf
<1>7. Content' = Content
  BY <1>6, SameBytes, ContentOf
<1>8. Store!SaveOne
  <2>1. CASE disk' = disk
    BY <2>1 DEF Store!SaveOne
  <2>2. CASE disk' # disk
    <3>1. PICK v \in Resident : /\ v \in dirty /\ v[1] \notin killed
                               /\ disk' = [disk EXCEPT ![v] = pool[memory[v]]]
      BY <1>2, <2>2 DEF WroteBack
    <3>2. v \in Keys /\ Content[v] = pool[memory[v]]
      BY <1>3, <3>1, ContentOf
    <3> QED BY <3>1, <3>2, StoreKeys DEF Store!SaveOne
  <2> QED BY <2>1, <2>2
<1>9. KilledGone'
  <2>1. \A t \in Names : tableMap'[t] = tm[t] \/ tableMap'[t] = "stdin"
    BY <1>2 DEF Placed
  <2>2. \A t \in killed' : t \in Names /\ tableMap'[t] # "open"
    BY <2>1 DEF Prepared, Pool, TypeOK, Names
  <2> QED BY <1>4, <2>2 DEF KilledGone
<1> QED
  BY <1>7, <1>8, <1>9

-----------------------------------------------------------------------------
(* getPage and getPinnedPage on a page of a table obtain it.               *)
LEMMA GetPageObtains ==
    ASSUME Consistent, ~ WriteFaults, NEW k \in Tables \X PageIds, NEW h \in Handles,
           NEW pinned \in BOOLEAN, GetPageHit(k, h, pinned) \/ GetPageMiss(k, h, pinned)
    PROVE  Store!Obtain(k, h, pinned) /\ KilledGone'
<1>1. k \in Keys /\ k[1] \in Names
  BY KeyName DEF Keys
<1>2. CASE GetPageHit(k, h, pinned)
  <2>1. Content' = Content /\ KilledGone'
    BY <1>2 DEF GetPageHit, Content, KilledGone, Consistent
  <2> QED BY <1>2, <2>1 DEF GetPageHit, NewHandle, Store!Obtain, Store!SaveOne
<1>3. CASE GetPageMiss(k, h, pinned)
  <2> DEFINE tm == Opened(tableMap, k[1])
  <2>1. /\ memory[k] = NoFrame /\ status = "running" /\ k[1] \notin killed
        /\ TakeFreshFrame(k, tm) \/ ReplaceVictim(k, tm)
        /\ pool' = [pool EXCEPT ![memory'[k]] = ReadPage(tm, k)]
        /\ NewHandle(h, k, pinned)
        /\ UNCHANGED <<status, killed>>
    BY <1>1, <1>3 DEF GetPageMiss, BringIn, Consistent, Data, Pool, MapCoversUse, Resident
  <2>2. Prepared(tm)
    BY <1>1, <2>1 DEF Prepared, Opened, Consistent, Data, Pool, TypeOK, KilledGone, Names
  <2> HIDE DEF tm
  <2>3. \A f \in Frames : f # memory'[k] => pool'[f] = pool[f]
    BY <2>1 DEF Consistent, Data, Pool, TypeOK
  <2>4. Content' = Content /\ Store!SaveOne /\ KilledGone'
    BY <1>1, <2>1, <2>2, <2>3, BringInSaves
  <2> QED BY <2>1, <2>4 DEF NewHandle, Store!Obtain
<1> QED
  BY <1>2, <1>3

(* getPage and getPinnedPage without a table obtain a temporary page that  *)
(* no handle refers to.                                                    *)
LEMMA GetAnonymousObtains ==
    ASSUME Consistent, ~ WriteFaults, NEW h \in Handles, NEW pinned \in BOOLEAN,
           GetAnonymousPage(h, pinned)
    PROVE  /\ \E k \in {TempTable} \X AnonIds : Store!ObtainTemporary(k, h, pinned)
           /\ KilledGone'
<1> DEFINE k == <<TempTable, anonymousID>>
<1>1. /\ k \in Keys /\ k \in {TempTable} \X AnonIds
      /\ k[1] = TempTable /\ k[2] = anonymousID /\ anonymousID \in Nat
      /\ TempTable \notin killed
  BY ConstantsAssumption
  DEF Keys, AnonIds, GetAnonymousPage, Consistent, Data, Pool, TypeOK
<1>2. k \notin mapped
  BY <1>1 DEF Consistent, Data, Pool, NumbersFresh
<1>3. /\ k \notin Resident /\ memory[k] = NoFrame
      /\ \A g \in Handles : handles[g] # k
  BY <1>1, <1>2 DEF Consistent, Data, Pool, MapCoversUse, Resident, Referenced
<1>4. /\ status = "running" /\ NewHandle(h, k, pinned)
      /\ TakeFreshFrame(k, tableMap) \/ ReplaceVictim(k, tableMap)
      /\ UNCHANGED <<status, pool, killed>>
  BY DEF GetAnonymousPage, BringIn
<1> HIDE DEF k
<1>5. Prepared(tableMap)
  BY DEF Prepared, Consistent, Data, Pool, TypeOK, KilledGone
<1>6. Content' = Content /\ Store!SaveOne /\ KilledGone'
  BY <1>1, <1>3, <1>4, <1>5, BringInSaves
<1>7. Store!ObtainTemporary(k, h, pinned)
  BY <1>1, <1>3, <1>4, <1>6 DEF NewHandle, Store!Obtain, Store!ObtainTemporary
<1> QED
  BY <1>1, <1>6, <1>7

(* getBytes reads, from the pool or from the file.                         *)
LEMMA GetBytesReads ==
    ASSUME Consistent, ~ WriteFaults, NEW h \in Handles, GetBytes(h)
    PROVE  Store!Read(h) /\ KilledGone'
<1> DEFINE k == handles[h]
           tm == Lookup(tableMap, k[1])
<1>1. /\ status = "running" /\ k # NoPage /\ memory[k] = NoFrame
      /\ ReplaceVictim(k, tm)
      /\ pool' = [pool EXCEPT ![memory'[k]] = ReadPage(tm, k)]
      /\ UNCHANGED <<status, pin, handles, killed>>
  BY DEF GetBytes
<1>2. k \in Keys /\ k[1] \in Names
  BY <1>1, KeyName DEF Consistent, Data, Pool, TypeOK
<1>3. Prepared(tm)
  BY <1>2 DEF Prepared, Lookup, Consistent, Data, Pool, TypeOK, KilledGone, Names
<1> HIDE DEF tm
<1>4. \A f \in Frames : f # memory'[k] => pool'[f] = pool[f]
  BY <1>1 DEF Consistent, Data, Pool, TypeOK
<1>5. Content' = Content /\ Store!SaveOne /\ KilledGone'
  BY <1>1, <1>2, <1>3, <1>4, BringInSaves
<1> QED
  BY <1>1, <1>5 DEF Store!Read

(* A client's write through any handle of the page is a store.             *)
LEMMA WriteStores ==
    ASSUME Consistent, NEW h \in Handles, NEW v \in Values, Write(h, v)
    PROVE  Store!Store(h, v) /\ KilledGone'
<1> DEFINE k == handles[h]
<1>1. /\ status = "running" /\ k # NoPage /\ memory[k] # NoFrame
      /\ pool' = [pool EXCEPT ![memory[k]] = v]
      /\ dirty' = dirty \cup {k}
      /\ UNCHANGED <<status, memory, pin, disk, tableMap, handles, killed>>
  BY DEF Write
<1>2. k \in Keys /\ k \in Resident /\ memory[k] \in Frames
  BY <1>1 DEF Consistent, Data, Pool, TypeOK, Resident
<1>3. \A l \in dirty : l \in Resident /\ memory[l] \in Frames
  BY DEF Consistent, Data, Pool, TypeOK, EvictedIsIdle, Resident
<1>4. \A l \in dirty : l # k => pool'[memory[l]] = pool[memory[l]]
  BY <1>1, <1>2, <1>3 DEF Consistent, Data, Pool, TypeOK, FramesExclusive
<1>5. pool'[memory[k]] = v
  BY <1>1, <1>2 DEF Consistent, Data, Pool, TypeOK
<1> HIDE DEF k
<1>6. Content' = IF k[1] \in killed THEN Content ELSE [Content EXCEPT ![k] = v]
  <2>1. ASSUME NEW l \in Keys
        PROVE  Content'[l] = IF l = k /\ k[1] \notin killed THEN v ELSE Content[l]
    BY <1>1, <1>4, <1>5, ContentOf
  <2> QED BY <1>2, <2>1, ContentOf
<1>7. Store!Store(h, v)
  BY <1>1, <1>6 DEF Store!Store, k
<1> QED
  BY <1>1, <1>7 DEF KilledGone, Consistent

(* A handle that goes takes the page's pin along when it is the last.      *)
LEMMA DropHandleReleases ==
    ASSUME Consistent, NEW h \in Handles, DropHandle(h)
    PROVE  Store!Release(h) /\ KilledGone'
<1> DEFINE k == handles[h]
<1> USE DEF Consistent, Data
<1>1. /\ status = "running" /\ k # NoPage
      /\ pin' = IF UseCount(k) = 3 THEN pin \ {k} ELSE pin
      /\ handles' = [handles EXCEPT ![h] = NoPage]
      /\ UNCHANGED <<status, memory, dirty, pool, disk, tableMap, killed>>
  BY DEF DropHandle
<1>2. k \in Keys /\ NoPage \notin Keys /\ pin \subseteq Keys /\ pin \subseteq Resident
  BY <1>1, ConstantsAssumption DEF Pool, TypeOK, EvictedIsIdle
<1>3. \A l \in pin : \E g \in Handles : handles[g] = l
  BY DEF PinnedIsReferenced, Referenced
<1>4. \A g \in Handles : handles'[g] = IF g = h THEN NoPage ELSE handles[g]
  BY <1>1 DEF Pool, TypeOK
<1>5. k \in pin => (UseCount(k) = 3 <=> \A g \in Handles : handles'[g] # k)
  <2>1. k \in pin => (UseCount(k) = 3 <=> Refs(k) = {h})
    BY <1>2, UseCounts
  <2>2. Refs(k) = {h} <=> \A g \in Handles \ {h} : handles[g] # k
    BY DEF Refs
  <2> QED BY <1>2, <1>4, <2>1, <2>2
<1>6. pin' = {l \in pin : \E g \in Handles : handles'[g] = l}
  <2>1. ASSUME NEW l \in pin, l # k
        PROVE  \E g \in Handles : handles'[g] = l
    BY <1>3, <1>4, <2>1
  <2> QED BY <1>1, <1>5, <2>1
<1>7. Content' = Content
  BY <1>1 DEF Content
<1> QED
  BY <1>1, <1>6, <1>7 DEF Store!Release, KilledGone

(* killTable: its pages lose their content, in the pool and in the file.   *)
LEMMA KillTableKills ==
    ASSUME Consistent, NEW t \in Tables, KillTable(t)
    PROVE  Store!Kill(t) /\ KilledGone'
<1>1. /\ status = "running"
      /\ tableMap' = [tableMap EXCEPT ![t] = "none"]
      /\ disk' = [k \in Keys |-> IF k[1] = t THEN Junk ELSE disk[k]]
      /\ killed' = killed \cup {t}
      /\ UNCHANGED <<status, memory, pin, dirty, pool, handles>>
  BY DEF KillTable
<1>2. \A k \in Keys : Content'[k] = IF k[1] = t THEN Junk ELSE Content[k]
  BY <1>1, ContentOf
<1>3. Content' = [k \in Keys |-> IF k[1] = t THEN Junk ELSE Content[k]]
  <2> DEFINE killedContent == [k \in Keys |-> IF k[1] = t THEN Junk ELSE Content[k]]
  <2>1. \A k \in Keys : Content'[k] = killedContent[k]
    BY <1>2
  <2>2. killedContent = [k \in Keys |-> killedContent[k]]
    OBVIOUS
  <2>3. Content' = [k \in Keys |-> Content'[k]]
    BY DEF Content
  <2> HIDE DEF killedContent
  <2>4. Content' = killedContent
    BY <2>1, <2>2, <2>3, SameBytes
  <2> QED BY <2>4 DEF killedContent
<1>4. KilledGone'
  BY <1>1 DEF KilledGone, Consistent, Data, Pool, TypeOK, Names
<1> QED
  BY <1>1, <1>3, <1>4, StoreKeys DEF Store!Kill

(* A call finds no frame only when as many pages are pinned as there are   *)
(* frames; what the crash leaves is what is in the files.                  *)
LEMMA RunOutOfFramesFails ==
    ASSUME Consistent, RunOutOfFrames
    PROVE  Store!Fail /\ KilledGone'
<1> USE DEF Consistent, Data
<1>1. /\ status = "running" /\ status' = "crashed"
      /\ currPage = NumPages /\ AllPinned
      /\ UNCHANGED <<pin, dirty, pool, disk, tableMap, handles, killed>>
  BY DEF RunOutOfFrames
<1>2. Len(lru) = NumPages /\ NumPages \in Nat
  BY <1>1, ConstantsAssumption DEF Pool, FramesExclusive
<1>3. Cardinality(pin) >= NumPages
  <2> DEFINE entry == [i \in 1 .. NumPages |-> lru[i]]
  <2>1. pin = {lru[i] : i \in 1 .. NumPages}
    BY <1>1, <1>2 DEF AllPinned, Pool, EvictedIsIdle, ListHoldsResident
  <2>2. entry \in Bijection(1 .. NumPages, pin)
    BY <1>2, <2>1 DEF Pool, ListHoldsResident, Bijection, Injection, Surjection, IsInjective
  <2>3. /\ IsFiniteSet(1 .. NumPages) /\ Cardinality(1 .. NumPages) = NumPages
    BY <1>2, FS_Interval
  <2>4. Cardinality(pin) = NumPages
    BY <2>2, <2>3, FS_Bijection DEF ExistsBijection
  <2> QED BY <1>2, <2>4
<1>4. \A k \in Keys : Content'[k] = disk[k]
  BY <1>1, ContentOf DEF KilledGone
<1>5. Content' = disk
  <2>1. Content' = [k \in Keys |-> Content'[k]]
    BY DEF Content
  <2>2. disk = [k \in Keys |-> disk[k]]
    BY DEF Pool, TypeOK
  <2> QED BY <1>4, <2>1, <2>2, SameBytes
<1>6. KilledGone'
  BY <1>1 DEF KilledGone
<1>7. Store!Fail
  BY <1>1, <1>3, <1>5, StoreCounts DEF Store!Fail
<1> QED
  BY <1>6, <1>7

(* The destructor saves every table page.                                  *)
LEMMA ShutdownCloses ==
    ASSUME Consistent, ~ WriteFaults, Shutdown
    PROVE  Store!Close /\ KilledGone'
<1> USE DEF Consistent, Data
<1>1. /\ status = "running" /\ status' = "down"
      /\ \A h \in Handles : handles[h] = NoPage
      /\ disk' = [k \in Keys |->
                    CASE k[1] = TempTable -> Junk
                      [] Flushed(k) /\ k \notin {} -> pool[memory[k]]
                      [] OTHER -> disk[k]]
      /\ pin' = {} /\ handles' = [h \in Handles |-> NoPage] /\ killed' = {}
  BY DEF Shutdown, Blank
<1>2. ASSUME NEW k \in Keys
      PROVE  disk'[k] = IF k[1] = TempTable THEN Junk ELSE Content[k]
  <2>1. CASE k[1] = TempTable
    BY <1>1, <2>1 DEF Flushed
  <2>2. CASE k[1] # TempTable /\ k[1] \in killed
    <3>1. ~ Flushed(k)
      BY <2>2, KeyName DEF Flushed, Lookup, KilledGone, Pool, TypeOK
    <3>2. disk'[k] = disk[k]
      BY <1>1, <2>2, <3>1
    <3> QED BY <2>2, <3>2, ContentOf DEF KilledGone
  <2>3. CASE k[1] # TempTable /\ k[1] \notin killed
    <3>1. Flushed(k) <=> k \in dirty
      <4>1. k \in dirty => tableMap[k[1]] = "open"
        BY <2>3 DEF UsedTablesOpen, Pool, EvictedIsIdle, MapCoversUse
      <4> QED BY <2>3, <4>1, KeyName DEF Flushed, Lookup, Pool, TypeOK
    <3>2. disk'[k] = IF k \in dirty THEN pool[memory[k]] ELSE disk[k]
      BY <1>1, <2>3, <3>1
    <3> QED BY <1>1, <2>3, <3>2, ContentOf
  <2> QED BY <2>1, <2>2, <2>3
<1> DEFINE closed == [k \in Keys |-> IF k[1] = TempTable THEN Junk ELSE Content[k]]
<1>3. \A k \in Keys : disk'[k] = closed[k] /\ Content'[k] = disk'[k]
  BY <1>1, <1>2, ContentOf
<1>4. /\ closed = [k \in Keys |-> closed[k]]
      /\ disk' = [k \in Keys |-> disk'[k]]
      /\ Content' = [k \in Keys |-> Content'[k]]
  BY <1>1 DEF Content
<1> HIDE DEF closed
<1>5. Content' = closed /\ disk' = Content'
  BY <1>3, <1>4, SameBytes
<1>6. Store!Empty
  BY <1>1 DEF Store!Empty
<1>7. Store!Close
  BY <1>1, <1>5, <1>6, StoreKeys DEF Store!Close, closed
<1> QED
  BY <1>1, <1>7 DEF KilledGone

(* The constructor finds what was saved.                                   *)
LEMMA RestartOpens ==
    ASSUME Consistent, Restart
    PROVE  Store!Open /\ KilledGone'
<1>1. /\ status # "running" /\ status' = "running"
      /\ disk' = [k \in Keys |-> IF k[1] = TempTable THEN Junk ELSE disk[k]]
      /\ dirty' = {} /\ pin' = {} /\ killed' = {}
      /\ handles' = [h \in Handles |-> NoPage]
  BY DEF Restart, Blank
<1>2. \A k \in Keys : Content'[k] = disk'[k]
  BY <1>1, ContentOf
<1>3. Content' = [k \in Keys |-> Content'[k]] /\ disk' = [k \in Keys |-> disk'[k]]
  BY <1>1 DEF Content
<1>4. Content' = disk'
  BY <1>2, <1>3, SameBytes
<1>5. Store!Open
  BY <1>1, <1>4, StoreKeys DEF Store!Open, Store!Empty
<1> QED
  BY <1>1, <1>5 DEF KilledGone

-----------------------------------------------------------------------------
(* The first state of the pool is the first state of the store.            *)
THEOREM InitImplements == Init => Store!Init /\ Consistent
<1> SUFFICES ASSUME Init PROVE Store!Init /\ Consistent
  OBVIOUS
<1>1. \A k \in Keys : Content[k] = disk[k]
  BY ContentOf DEF Init
<1>2. Content = [k \in Keys |-> Content[k]] /\ disk = [k \in Keys |-> disk[k]]
  BY DEF Init, Content
<1>3. Content = disk
  BY <1>1, <1>2, SameBytes
<1>4. Store!Init
  BY <1>3, StoreKeys DEF Init, Store!Init
<1>5. KilledGone
  BY DEF Init, KilledGone
<1> QED
  BY <1>4, <1>5, InitData, InitPins DEF Consistent

(* Every call is a call of the store, or none of its business.             *)
THEOREM NextImplements ==
    Consistent /\ ~ WriteFaults /\ [Next]_vars => [Store!Next]_(Store!storeVars) /\ Consistent'
<1> SUFFICES ASSUME Consistent, ~ WriteFaults, [Next]_vars
             PROVE  [Store!Next]_(Store!storeVars) /\ KilledGone'
  BY NextData, NextPins DEF Consistent, Data
<1>1. CASE GetPage
  <2>1. PICK k \in Tables \X PageIds, h \in Handles, pinned \in BOOLEAN :
           GetPageHit(k, h, pinned) \/ GetPageMiss(k, h, pinned)
    BY <1>1 DEF GetPage
  <2> QED BY <2>1, GetPageObtains DEF Store!Next
<1>2. CASE GetAnonymous
  BY <1>2, GetAnonymousObtains DEF GetAnonymous, Store!Next
<1>3. CASE UseHandle
  <2>1. PICK h \in Handles : \/ GetBytes(h)
                             \/ \E v \in Values : Write(h, v)
                             \/ Unpin(h)
                             \/ DropHandle(h)
    BY <1>3 DEF UseHandle
  <2>2. CASE GetBytes(h)
    BY <2>2, GetBytesReads DEF Store!Next
  <2>3. CASE \E v \in Values : Write(h, v)
    BY <2>3, WriteStores DEF Store!Next
  <2>4. CASE Unpin(h)
    <3>1. Content' = Content /\ KilledGone'
      BY <2>4 DEF Unpin, Content, KilledGone, Consistent
    <3>2. Store!Unpin(h)
      BY <2>4, <3>1 DEF Unpin, Store!Unpin
    <3> QED BY <3>1, <3>2 DEF Store!Next
  <2>5. CASE DropHandle(h)
    BY <2>5, DropHandleReleases DEF Store!Next
  <2> QED BY <2>1, <2>2, <2>3, <2>4, <2>5
<1>4. CASE \E t \in Tables : KillTable(t)
  BY <1>4, KillTableKills DEF Store!Next
<1>5. CASE RunOutOfFrames
  BY <1>5, RunOutOfFramesFails DEF Store!Next
<1>6. CASE Shutdown
  BY <1>6, ShutdownCloses DEF Store!Next
<1>7. CASE Restart
  BY <1>7, RestartOpens DEF Store!Next
<1>8. CASE UNCHANGED vars
  BY <1>8 DEF vars, Store!storeVars, Content, KilledGone, Consistent
<1> QED
  BY <1>1, <1>2, <1>3, <1>4, <1>5, <1>6, <1>7, <1>8 DEF Next

(* Whatever is evicted, reloaded, pinned, shared by several handles or     *)
(* shut down and reopened, a client sees the last bytes written through    *)
(* any handle of the page, and the pool fails only when it is all pinned.  *)
THEOREM ImplementsPageStore ==
    ASSUME ~ WriteFaults
    PROVE  Spec => PageStoreSpec
<1>1. Consistent /\ [Next]_vars => [Store!Next]_(Store!storeVars) /\ Consistent'
  BY NextImplements
<1> QED
  BY InitImplements, <1>1, PTL DEF Spec, PageStoreSpec, Store!Spec

(* What is in the frame of a resident page is the page's content; only an  *)
(* anonymous page that nobody has written may hold anything.               *)
FramesShowContent ==
    \A k \in Resident :
        status = "running" /\ k[1] \notin killed =>
            \/ pool[memory[k]] = Content[k]
            \/ k \notin dirty /\ k[1] = TempTable /\ Content[k] = Junk

(* getBytes on a resident page returns a pointer to the page's content.    *)
THEOREM ReadsShowContent == Spec => []FramesShowContent
<1>1. Data => FramesShowContent
  BY ContentOf DEF Data, CleanMatchesDisk, FramesShowContent, Resident
<1> QED
  BY InitData, NextData, <1>1, PTL DEF Spec

=============================================================================
