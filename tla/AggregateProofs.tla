-------------------------- MODULE AggregateProofs --------------------------
(***************************************************************************)
(* Proofs about Aggregate, for all tables, aggregates and hash functions:  *)
(* what its folds over records compute, the records under each hash value, *)
(* and from them the result.                                               *)
(***************************************************************************)
EXTENDS Aggregate, SequenceLemmas

-----------------------------------------------------------------------------
(* The places of a sequence, but for the last of them, are fewer places.   *)
LEMMA WithoutLast ==
    ASSUME NEW S, NEW s \in Seq(S), NEW t \in SUBSET DOMAIN s, t # {}
    PROVE  Max(t) \in DOMAIN s /\ s[Max(t)] \in S /\ t \ {Max(t)} \in SUBSET DOMAIN s
<1>1. PICK n \in Nat : DOMAIN s = 1 .. n
  BY LenProperties
<1>2. \A u \in SUBSET (1 .. n) : u # {} => Max(u) \in u
  BY GreatestPlace
<1>3. Max(t) \in t
  BY <1>1, <1>2
<1> QED
  BY <1>3, ElementOfSeq, LenProperties

(* The records that are selected, from left to right.                      *)
LEMMA SelectedGrows ==
    ASSUME NEW S, NEW P
    PROVE  /\ Selected(<< >>, P) = << >>
           /\ \A s \in Seq(S) : /\ Selected(s, P) \in Seq(S)
                                /\ \A x \in S : Selected(Append(s, x), P)
                                                   = IF x \in P THEN Append(Selected(s, P), x) ELSE Selected(s, P)
<1> DEFINE step == [x \in S |-> [t \in Seq(S) |-> IF x \in P THEN Append(t, x) ELSE t]]
<1>1. step \in [S -> [Seq(S) -> Seq(S)]] /\ << >> \in Seq(S)
  BY AppendProperties
<1>2. \A x \in S : \A t \in Seq(S) : step[x][t] = IF x \in P THEN Append(t, x) ELSE t
  OBVIOUS
<1> HIDE DEF step
<1>3. PICK F : FoldOf(F, << >>, step, S, Seq(S))
  BY <1>1, FoldOfSequences
<1>4. ASSUME NEW s \in Seq(S)
      PROVE  Selected(s, P) = F[s]
  <2> DEFINE Fold(f) == [t \in SUBSET DOMAIN s |->
                            IF t = {} THEN << >>
                            ELSE IF s[Max(t)] \in P THEN Append(f[t \ {Max(t)}], s[Max(t)]) ELSE f[t \ {Max(t)}]]
             states == CHOOSE f : f = Fold(f)
  <2>1. PICK f \in [SUBSET DOMAIN s -> Seq(S)] : Follows(f, << >>, step, s, Seq(S))
    BY <1>1, FollowExists
  <2>2. f = Fold(f)
    <3>1. \A t \in SUBSET DOMAIN s : t # {} =>
             f[t] = IF s[Max(t)] \in P THEN Append(f[t \ {Max(t)}], s[Max(t)]) ELSE f[t \ {Max(t)}]
      <4> TAKE t \in SUBSET DOMAIN s
      <4> HAVE t # {}
      <4>1. s[Max(t)] \in S /\ t \ {Max(t)} \in SUBSET DOMAIN s
        BY WithoutLast
      <4>2. f[t \ {Max(t)}] \in Seq(S)
        BY <2>1, <4>1
      <4>3. f[t] = step[s[Max(t)]][f[t \ {Max(t)}]]
        BY <2>1, <4>2 DEF Follows
      <4> QED BY <1>2, <4>1, <4>2, <4>3
    <3>2. f[{}] = << >>
      BY <2>1 DEF Follows
    <3>3. f = [t \in SUBSET DOMAIN s |-> f[t]]
      BY <2>1
    <3>4. Fold(f) = [t \in SUBSET DOMAIN s |-> f[t]]
      BY <3>1, <3>2
    <3> QED BY <3>3, <3>4
  <2>3. states = Fold(states)
    <3> HIDE DEF Fold
    <3> QED BY <2>2
  <2>4. Selected(s, P) = states[DOMAIN s]
    BY DEF Selected, FoldLeft, MapThenFoldSet
  <2> HIDE DEF states
  <2>5. /\ states[{}] = << >>
        /\ \A t \in SUBSET DOMAIN s : t # {} => states[t] = IF s[Max(t)] \in P THEN Append(states[t \ {Max(t)}], s[Max(t)]) ELSE states[t \ {Max(t)}]
    BY <2>3
  <2>6. Follows(states, << >>, step, s, Seq(S))
    <3>1. ASSUME NEW t \in SUBSET DOMAIN s, t # {}, states[t \ {Max(t)}] \in Seq(S)
          PROVE  states[t] = step[s[Max(t)]][states[t \ {Max(t)}]]
      <4>1. s[Max(t)] \in S
        BY <3>1, WithoutLast
      <4> QED BY <1>2, <2>5, <3>1, <4>1
    <3> QED BY <2>5, <3>1 DEF Follows
  <2> QED BY <1>3, <2>4, <2>6 DEF FoldOf
<1>5. << >> \in Seq(S) /\ \A s \in Seq(S) : \A x \in S : Append(s, x) \in Seq(S)
  BY AppendProperties
<1>6. /\ F \in [Seq(S) -> Seq(S)] /\ F[<< >>] = << >>
      /\ \A s \in Seq(S) : \A x \in S : F[Append(s, x)] = step[x][F[s]]
  BY <1>3 DEF FoldOf
<1>7. ASSUME NEW s \in Seq(S), NEW x \in S
      PROVE  Selected(Append(s, x), P) = IF x \in P THEN Append(Selected(s, P), x) ELSE Selected(s, P)
  <2>1. F[Append(s, x)] = IF x \in P THEN Append(F[s], x) ELSE F[s]
    <3>1. F[s] \in Seq(S) /\ F[Append(s, x)] = step[x][F[s]]
      BY <1>6
    <3> QED BY <1>2, <3>1
  <2> QED BY <1>4, <1>5, <2>1
<1> QED
  BY <1>4, <1>5, <1>6, <1>7

(* A sum, from left to right.                                              *)
LEMMA SumGrows ==
    /\ Sum(<< >>) = 0
    /\ \A s \in Seq(Int) : Sum(s) \in Int /\ \A x \in Int : Sum(Append(s, x)) = Sum(s) + x
<1> DEFINE step == [x \in Int |-> [m \in Int |-> m + x]]
<1>1. step \in [Int -> [Int -> Int]] /\ 0 \in Int
  OBVIOUS
<1>2. \A x, m \in Int : step[x][m] = m + x
  OBVIOUS
<1> HIDE DEF step
<1>3. PICK F : FoldOf(F, 0, step, Int, Int)
  BY <1>1, FoldOfSequences
<1>4. ASSUME NEW s \in Seq(Int)
      PROVE  Sum(s) = F[s]
  <2> DEFINE Fold(f) == [t \in SUBSET DOMAIN s |-> IF t = {} THEN 0 ELSE f[t \ {Max(t)}] + s[Max(t)]]
             states == CHOOSE f : f = Fold(f)
  <2>1. PICK f \in [SUBSET DOMAIN s -> Int] : Follows(f, 0, step, s, Int)
    BY <1>1, FollowExists
  <2>2. f = Fold(f)
    <3>1. \A t \in SUBSET DOMAIN s : t # {} => f[t] = f[t \ {Max(t)}] + s[Max(t)]
      <4> TAKE t \in SUBSET DOMAIN s
      <4> HAVE t # {}
      <4>1. s[Max(t)] \in Int /\ t \ {Max(t)} \in SUBSET DOMAIN s
        BY WithoutLast
      <4>2. f[t \ {Max(t)}] \in Int
        BY <2>1, <4>1
      <4>3. f[t] = step[s[Max(t)]][f[t \ {Max(t)}]]
        BY <2>1, <4>2 DEF Follows
      <4> QED BY <1>2, <4>1, <4>2, <4>3
    <3>2. f[{}] = 0
      BY <2>1 DEF Follows
    <3>3. f = [t \in SUBSET DOMAIN s |-> f[t]]
      BY <2>1
    <3>4. Fold(f) = [t \in SUBSET DOMAIN s |-> f[t]]
      BY <3>1, <3>2
    <3> QED BY <3>3, <3>4
  <2>3. states = Fold(states)
    <3> HIDE DEF Fold
    <3> QED BY <2>2
  <2>4. Sum(s) = states[DOMAIN s]
    BY DEF Sum, FoldLeft, MapThenFoldSet
  <2> HIDE DEF states
  <2>5. /\ states[{}] = 0
        /\ \A t \in SUBSET DOMAIN s : t # {} => states[t] = states[t \ {Max(t)}] + s[Max(t)]
    BY <2>3
  <2>6. Follows(states, 0, step, s, Int)
    <3>1. ASSUME NEW t \in SUBSET DOMAIN s, t # {}, states[t \ {Max(t)}] \in Int
          PROVE  states[t] = step[s[Max(t)]][states[t \ {Max(t)}]]
      <4>1. s[Max(t)] \in Int
        BY <3>1, WithoutLast
      <4> QED BY <1>2, <2>5, <3>1, <4>1
    <3> QED BY <2>5, <3>1 DEF Follows
  <2> QED BY <1>3, <2>4, <2>6 DEF FoldOf
<1>5. << >> \in Seq(Int) /\ \A s \in Seq(Int) : \A x \in Int : Append(s, x) \in Seq(Int)
  BY AppendProperties
<1>6. /\ F \in [Seq(Int) -> Int] /\ F[<< >>] = 0
      /\ \A s \in Seq(Int) : \A x \in Int : F[Append(s, x)] = step[x][F[s]]
  BY <1>3 DEF FoldOf
<1>7. ASSUME NEW s \in Seq(Int), NEW x \in Int
      PROVE  Sum(Append(s, x)) = Sum(s) + x
  <2>1. F[Append(s, x)] = F[s] + x
    BY <1>2, <1>6
  <2> QED BY <1>4, <1>5, <2>1
<1> QED
  BY <1>4, <1>5, <1>6, <1>7

(* The aggregates of records.                                              *)
AggRecs == [1 .. NumAggs -> Int]

(* They have the types of the record they are added to.                    *)
LEMMA AddedIsAggs ==
    ASSUME NEW aggs \in AggRecs, NEW r \in Rows
    PROVE  Added(aggs, r) \in AggRecs
BY DEF Added, AggRecs, Rows, NumAggs

(* The totals of some records, from left to right.                         *)
LEMMA TotalsGrow ==
    /\ Totals(<< >>) = Zero
    /\ \A s \in Seq(Rows) : /\ Totals(s) \in AggRecs
                            /\ \A r \in Rows : Totals(Append(s, r)) = Added(Totals(s), r)
<1> DEFINE step == [r \in Rows |-> [aggs \in AggRecs |-> Added(aggs, r)]]
<1>1. step \in [Rows -> [AggRecs -> AggRecs]] /\ Zero \in AggRecs
  <2>1. step \in [Rows -> [AggRecs -> AggRecs]]
    BY AddedIsAggs
  <2>2. Zero \in AggRecs
    BY DEF Zero, AggRecs
  <2> QED BY <2>1, <2>2
<1>2. \A r \in Rows : \A aggs \in AggRecs : step[r][aggs] = Added(aggs, r)
  OBVIOUS
<1> HIDE DEF step
<1>3. PICK F : FoldOf(F, Zero, step, Rows, AggRecs)
  BY <1>1, FoldOfSequences
<1>4. ASSUME NEW s \in Seq(Rows)
      PROVE  Totals(s) = F[s]
  <2> DEFINE Fold(f) == [t \in SUBSET DOMAIN s |-> IF t = {} THEN Zero ELSE Added(f[t \ {Max(t)}], s[Max(t)])]
             states == CHOOSE f : f = Fold(f)
  <2>1. PICK f \in [SUBSET DOMAIN s -> AggRecs] : Follows(f, Zero, step, s, AggRecs)
    BY <1>1, FollowExists
  <2>2. f = Fold(f)
    <3>1. \A t \in SUBSET DOMAIN s : t # {} => f[t] = Added(f[t \ {Max(t)}], s[Max(t)])
      <4> TAKE t \in SUBSET DOMAIN s
      <4> HAVE t # {}
      <4>1. s[Max(t)] \in Rows /\ t \ {Max(t)} \in SUBSET DOMAIN s
        BY WithoutLast
      <4>2. f[t \ {Max(t)}] \in AggRecs
        BY <2>1, <4>1
      <4>3. f[t] = step[s[Max(t)]][f[t \ {Max(t)}]]
        BY <2>1, <4>2 DEF Follows
      <4> QED BY <1>2, <4>1, <4>2, <4>3
    <3>2. f[{}] = Zero
      BY <2>1 DEF Follows
    <3>3. f = [t \in SUBSET DOMAIN s |-> f[t]]
      BY <2>1
    <3>4. Fold(f) = [t \in SUBSET DOMAIN s |-> f[t]]
      BY <3>1, <3>2
    <3> QED BY <3>3, <3>4
  <2>3. states = Fold(states)
    <3> HIDE DEF Fold
    <3> QED BY <2>2
  <2>4. Totals(s) = states[DOMAIN s]
    BY DEF Totals, FoldLeft, MapThenFoldSet
  <2> HIDE DEF states
  <2>5. /\ states[{}] = Zero
        /\ \A t \in SUBSET DOMAIN s : t # {} => states[t] = Added(states[t \ {Max(t)}], s[Max(t)])
    BY <2>3
  <2>6. Follows(states, Zero, step, s, AggRecs)
    <3>1. ASSUME NEW t \in SUBSET DOMAIN s, t # {}, states[t \ {Max(t)}] \in AggRecs
          PROVE  states[t] = step[s[Max(t)]][states[t \ {Max(t)}]]
      <4>1. s[Max(t)] \in Rows
        BY <3>1, WithoutLast
      <4> QED BY <1>2, <2>5, <3>1, <4>1
    <3> QED BY <2>5, <3>1 DEF Follows
  <2> QED BY <1>3, <2>4, <2>6 DEF FoldOf
<1>5. << >> \in Seq(Rows) /\ \A s \in Seq(Rows) : \A x \in Rows : Append(s, x) \in Seq(Rows)
  BY AppendProperties
<1>6. /\ F \in [Seq(Rows) -> AggRecs] /\ F[<< >>] = Zero
      /\ \A s \in Seq(Rows) : \A x \in Rows : F[Append(s, x)] = step[x][F[s]]
  BY <1>3 DEF FoldOf
<1>7. ASSUME NEW s \in Seq(Rows), NEW x \in Rows
      PROVE  Totals(Append(s, x)) = Added(Totals(s), x)
  <2>1. F[Append(s, x)] = Added(F[s], x)
    BY <1>2, <1>6
  <2> QED BY <1>4, <1>5, <2>1
<1> QED
  BY <1>4, <1>5, <1>6, <1>7

-----------------------------------------------------------------------------
(* The first records of a sequence: none, one more, all of them.           *)
LEMMA FirstOnes ==
    ASSUME NEW S, NEW s \in Seq(S)
    PROVE  /\ SubSeq(s, 1, 0) = << >> /\ SubSeq(s, 1, Len(s)) = s
           /\ \A k \in Nat : k <= Len(s) => /\ SubSeq(s, 1, k) \in Seq(S) /\ Len(SubSeq(s, 1, k)) = k
                                            /\ \A i \in 1 .. k : SubSeq(s, 1, k)[i] = s[i]
           /\ \A k \in Nat : k < Len(s) => s[k + 1] \in S /\ SubSeq(s, 1, k + 1) = Append(SubSeq(s, 1, k), s[k + 1])
<1>1. Len(s) \in Nat /\ SubSeq(s, 1, Len(s)) = s /\ \A i \in 1 .. Len(s) : s[i] \in S
  BY LenProperties, ElementOfSeq, SubSeqFull
<1>2. ASSUME NEW k \in Nat, k <= Len(s)
      PROVE  /\ SubSeq(s, 1, k) \in Seq(S) /\ Len(SubSeq(s, 1, k)) = k
             /\ \A i \in 1 .. k : SubSeq(s, 1, k)[i] = s[i]
  BY <1>1, <1>2, SubSeqProperties
<1>3. ASSUME NEW k \in Nat, k < Len(s)
      PROVE  s[k + 1] \in S /\ SubSeq(s, 1, k + 1) = Append(SubSeq(s, 1, k), s[k + 1])
  <2> PICK t, u : t = SubSeq(s, 1, k) /\ u = SubSeq(s, 1, k + 1)
    OBVIOUS
  <2>1. k + 1 \in Nat /\ k + 1 <= Len(s) /\ k <= Len(s) /\ k + 1 \in 1 .. Len(s)
    BY <1>1, <1>3
  <2>2. s[k + 1] \in S
    BY <1>1, <2>1
  <2>3. /\ t \in Seq(S) /\ Len(t) = k /\ \A i \in 1 .. k : t[i] = s[i]
        /\ u \in Seq(S) /\ Len(u) = k + 1 /\ \A i \in 1 .. k + 1 : u[i] = s[i]
    BY <1>2, <2>1
  <2>4. /\ Append(t, s[k + 1]) \in Seq(S) /\ Len(Append(t, s[k + 1])) = k + 1
        /\ \A i \in 1 .. k : Append(t, s[k + 1])[i] = t[i] /\ Append(t, s[k + 1])[k + 1] = s[k + 1]
    BY <2>2, <2>3, AppendProperties
  <2>5. \A i \in 1 .. k + 1 : Append(t, s[k + 1])[i] = u[i]
    <3>1. \A i \in 1 .. k + 1 : i \in 1 .. k \/ i = k + 1
      OBVIOUS
    <3>2. Append(t, s[k + 1])[k + 1] = s[k + 1]
      BY <2>2, <2>3, AppendProperties
    <3> QED BY <2>3, <2>4, <3>1, <3>2
  <2>6. Append(t, s[k + 1]) = u
    BY <2>3, <2>4, <2>5, SeqEqual
  <2> QED BY <2>2, <2>6
<1>4. SubSeq(s, 1, 0) = << >>
  <2>1. SubSeq(s, 1, 0) \in Seq(S) /\ Len(SubSeq(s, 1, 0)) = 0
    BY <1>1, <1>2
  <2> QED BY <2>1, EmptySeq
<1> QED
  BY <1>1, <1>2, <1>3, <1>4

(* Records of the sequence are selected, and all that are in the set.      *)
LEMMA SelectedElements ==
    ASSUME NEW S, NEW P, NEW s \in Seq(S)
    PROVE  /\ \A i \in 1 .. Len(Selected(s, P)) : Selected(s, P)[i] \in P /\ Selected(s, P)[i] \in ToSet(s)
           /\ \A n \in 1 .. Len(s) : s[n] \in P => Selected(s, P) # << >>
<1> DEFINE sel(k) == Selected(SubSeq(s, 1, k), P)
           Right(k) == /\ \A i \in 1 .. Len(sel(k)) : sel(k)[i] \in P /\ sel(k)[i] \in ToSet(s)
                       /\ \A n \in 1 .. k : s[n] \in P => sel(k) # << >>
           T == {k \in Nat : k <= Len(s) => Right(k)}
<1>8. /\ Selected(<< >>, P) = << >>
      /\ \A t \in Seq(S) : /\ Selected(t, P) \in Seq(S)
                           /\ \A x \in S : Selected(Append(t, x), P)
                                              = IF x \in P THEN Append(Selected(t, P), x) ELSE Selected(t, P)
  BY SelectedGrows
<1>1. sel(0) = << >> /\ Len(s) \in Nat
  BY <1>8, FirstOnes, LenProperties
<1>2. ASSUME NEW k \in Nat, k < Len(s)
      PROVE  /\ s[k + 1] \in S /\ s[k + 1] \in ToSet(s) /\ sel(k) \in Seq(S)
             /\ sel(k + 1) = IF s[k + 1] \in P THEN Append(sel(k), s[k + 1]) ELSE sel(k)
  <2>1. s[k + 1] \in S /\ SubSeq(s, 1, k) \in Seq(S) /\ SubSeq(s, 1, k + 1) = Append(SubSeq(s, 1, k), s[k + 1])
    BY <1>1, <1>2, FirstOnes
  <2>2. s[k + 1] \in ToSet(s)
    <3>1. k + 1 \in DOMAIN s
      BY <1>1, <1>2, LenProperties
    <3> QED BY <3>1 DEF ToSet
  <2> PICK t, x : t = SubSeq(s, 1, k) /\ x = s[k + 1]
    OBVIOUS
  <2>3. Selected(t, P) \in Seq(S) /\ Selected(Append(t, x), P)
                                      = IF x \in P THEN Append(Selected(t, P), x) ELSE Selected(t, P)
    BY <1>8, <2>1
  <2> QED BY <2>1, <2>2, <2>3
<1> HIDE DEF sel
<1>3. 0 \in T
  BY <1>1
<1>4. \A k \in Nat : k \in T => k + 1 \in T
  <2> SUFFICES ASSUME NEW k \in Nat, k \in T, k + 1 <= Len(s)
               PROVE  Right(k + 1)
    OBVIOUS
  <2>1. k < Len(s) /\ Right(k)
    BY <1>1
  <2> PICK x, t, u : x = s[k + 1] /\ t = sel(k) /\ u = sel(k + 1)
    OBVIOUS
  <2>2. /\ x \in S /\ x \in ToSet(s) /\ t \in Seq(S)
        /\ u = IF x \in P THEN Append(t, x) ELSE t
    BY <1>2, <2>1
  <2>3. /\ \A i \in 1 .. Len(t) : t[i] \in P /\ t[i] \in ToSet(s)
        /\ \A n \in 1 .. k : s[n] \in P => t # << >>
    BY <2>1
  <2>4. \A n \in 1 .. k + 1 : n \in 1 .. k \/ n = k + 1
    OBVIOUS
  <2>5. CASE x \notin P
    <3>1. u = t
      BY <2>2, <2>5
    <3> QED BY <2>3, <2>4, <2>5, <3>1
  <2>6. CASE x \in P
    <3>1. u = Append(t, x)
      BY <2>2, <2>6
    <3>2. /\ Len(u) = Len(t) + 1 /\ u[Len(t) + 1] = x /\ Len(t) \in Nat
          /\ \A i \in 1 .. Len(t) : u[i] = t[i]
      BY <2>2, <3>1, AppendProperties, LenProperties
    <3>3. \A i \in 1 .. Len(u) : i \in 1 .. Len(t) \/ i = Len(t) + 1
      BY <3>2
    <3>4. \A i \in 1 .. Len(u) : u[i] \in P /\ u[i] \in ToSet(s)
      BY <2>2, <2>3, <2>6, <3>2, <3>3
    <3>5. u # << >>
      BY <3>2
    <3> QED BY <3>4, <3>5
  <2> QED BY <2>5, <2>6
<1>5. Nat \subseteq T
  <2> HIDE DEF T
  <2> QED BY <1>3, <1>4, SetInduction
<1>6. Right(Len(s))
  BY <1>1, <1>5
<1>7. sel(Len(s)) = Selected(s, P)
  BY FirstOnes DEF sel
<1> QED
  BY <1>6, <1>7

(* Sets that hold the same records of a sequence select the same.          *)
LEMMA SelectedSame ==
    ASSUME NEW S, NEW P, NEW Q, NEW s \in Seq(S), \A n \in 1 .. Len(s) : s[n] \in P <=> s[n] \in Q
    PROVE  Selected(s, P) = Selected(s, Q)
<1> DEFINE T == {k \in Nat : k <= Len(s) => Selected(SubSeq(s, 1, k), P) = Selected(SubSeq(s, 1, k), Q)}
<1>6. \A t \in Seq(S) : \A x \in S : Selected(Append(t, x), P)
                                        = IF x \in P THEN Append(Selected(t, P), x) ELSE Selected(t, P)
  BY SelectedGrows
<1>7. \A t \in Seq(S) : \A x \in S : Selected(Append(t, x), Q)
                                        = IF x \in Q THEN Append(Selected(t, Q), x) ELSE Selected(t, Q)
  BY SelectedGrows
<1>1. Len(s) \in Nat
  BY LenProperties
<1>2. 0 \in T
  BY FirstOnes, SelectedGrows
<1>3. \A k \in Nat : k \in T => k + 1 \in T
  <2> SUFFICES ASSUME NEW k \in Nat, k \in T, k + 1 <= Len(s)
               PROVE  Selected(SubSeq(s, 1, k + 1), P) = Selected(SubSeq(s, 1, k + 1), Q)
    OBVIOUS
  <2>1. k < Len(s) /\ k + 1 \in 1 .. Len(s) /\ Selected(SubSeq(s, 1, k), P) = Selected(SubSeq(s, 1, k), Q)
    BY <1>1
  <2> HIDE DEF T
  <2>2. s[k + 1] \in S /\ SubSeq(s, 1, k) \in Seq(S) /\ SubSeq(s, 1, k + 1) = Append(SubSeq(s, 1, k), s[k + 1])
    BY <1>1, <2>1, FirstOnes
  <2>3. s[k + 1] \in P <=> s[k + 1] \in Q
    BY <2>1
  <2>6. PICK t, u, x : t = SubSeq(s, 1, k) /\ u = SubSeq(s, 1, k + 1) /\ x = s[k + 1]
    OBVIOUS
  <2>4. x \in S /\ t \in Seq(S) /\ u = Append(t, x) /\ (x \in P <=> x \in Q) /\ Selected(t, P) = Selected(t, Q)
    BY <2>1, <2>2, <2>3, <2>6
  <2>5. /\ Selected(Append(t, x), P) = IF x \in P THEN Append(Selected(t, P), x) ELSE Selected(t, P)
        /\ Selected(Append(t, x), Q) = IF x \in Q THEN Append(Selected(t, Q), x) ELSE Selected(t, Q)
    <3>1. x \in S /\ t \in Seq(S)
      BY <2>4
    <3>2. Selected(Append(t, x), P) = IF x \in P THEN Append(Selected(t, P), x) ELSE Selected(t, P)
      BY <1>6, <3>1
    <3>3. Selected(Append(t, x), Q) = IF x \in Q THEN Append(Selected(t, Q), x) ELSE Selected(t, Q)
      BY <1>7, <3>1
    <3> QED BY <3>2, <3>3
  <2>7. Selected(u, P) = Selected(u, Q)
    BY <2>4, <2>5
  <2> QED BY <2>6, <2>7
<1>4. Nat \subseteq T
  <2> HIDE DEF T
  <2> QED BY <1>2, <1>3, SetInduction
<1>5. Selected(SubSeq(s, 1, Len(s)), P) = Selected(SubSeq(s, 1, Len(s)), Q)
  BY <1>1, <1>4
<1> QED
  BY <1>5, FirstOnes

-----------------------------------------------------------------------------
(* What is made of each element, with an element more.                     *)
LEMMA MappedGrows ==
    ASSUME NEW S, NEW X, NEW f \in [S -> X], NEW s \in Seq(S)
    PROVE  /\ [n \in DOMAIN s |-> f[s[n]]] \in Seq(X)
           /\ \A e \in S : [n \in DOMAIN Append(s, e) |-> f[Append(s, e)[n]]]
                              = Append([n \in DOMAIN s |-> f[s[n]]], f[e])
<1> DEFINE mapped(t) == [n \in DOMAIN t |-> f[t[n]]]
<1>1. ASSUME NEW t \in Seq(S)
      PROVE  mapped(t) \in Seq(X) /\ Len(mapped(t)) = Len(t) /\ \A m \in 1 .. Len(t) : mapped(t)[m] = f[t[m]]
  <2>1. PICK n : n = Len(t) /\ n \in Nat /\ DOMAIN t = 1 .. n
    BY LenProperties
  <2>2. \A m \in 1 .. n : t[m] \in S
    BY <2>1, ElementOfSeq
  <2>3. mapped(t) \in [1 .. n -> X] /\ \A m \in 1 .. n : mapped(t)[m] = f[t[m]]
    BY <2>1, <2>2
  <2>4. mapped(t) \in Seq(X)
    BY <2>1, <2>3, IsASeq
  <2>5. DOMAIN mapped(t) = 1 .. n
    BY <2>1
  <2> HIDE DEF mapped
  <2>6. Len(mapped(t)) = n
    BY <2>1, <2>4, <2>5, LenProperties
  <2> QED BY <2>1, <2>3, <2>4, <2>6
<1> HIDE DEF mapped
<1>2. ASSUME NEW e \in S
      PROVE  mapped(Append(s, e)) = Append(mapped(s), f[e])
  <2>1. PICK n, t, a, b, x : n = Len(s) /\ t = Append(s, e) /\ a = mapped(s) /\ b = mapped(t) /\ x = f[e]
    OBVIOUS
  <2>2. /\ n \in Nat /\ t \in Seq(S) /\ Len(t) = n + 1 /\ t[n + 1] = e
        /\ \A m \in 1 .. n : t[m] = s[m]
    BY <2>1, LenProperties, AppendProperties
  <2>3. a \in Seq(X) /\ Len(a) = n /\ \A m \in 1 .. n : a[m] = f[s[m]]
    BY <1>1, <2>1
  <2>4. b \in Seq(X) /\ Len(b) = n + 1 /\ \A m \in 1 .. n + 1 : b[m] = f[t[m]]
    BY <1>1, <2>1, <2>2
  <2>5. PICK c : c = Append(a, x)
    OBVIOUS
  <2>6. x \in X
    BY <2>1
  <2>7. c \in Seq(X) /\ Len(c) = n + 1 /\ c[n + 1] = x /\ \A m \in 1 .. n : c[m] = a[m]
    BY <2>3, <2>5, <2>6, AppendProperties
  <2>8. \A m \in 1 .. n + 1 : b[m] = c[m]
    <3>1. \A m \in 1 .. n + 1 : m \in 1 .. n \/ m = n + 1
      BY <2>2
    <3>2. n + 1 \in 1 .. n + 1 /\ \A m \in 1 .. n : m \in 1 .. n + 1
      BY <2>2
    <3>3. b[n + 1] = x
      BY <2>1, <2>2, <2>4, <3>2
    <3>4. \A m \in 1 .. n : b[m] = f[s[m]] /\ c[m] = f[s[m]]
      BY <2>2, <2>3, <2>4, <2>7, <3>2
    <3> QED BY <2>7, <3>1, <3>3, <3>4
  <2>9. b = c
    BY <2>4, <2>7, <2>8, SeqEqual
  <2> QED BY <2>1, <2>5, <2>9
<1> QED
  BY <1>1, <1>2 DEF mapped

(* The sum of an argument, with a record more.                             *)
LEMMA SumOfGrows ==
    ASSUME NEW i \in 1 .. NumAggs
    PROVE  /\ SumOf(i, << >>) = 0
           /\ \A s \in Seq(Rows) : /\ SumOf(i, s) \in Int
                                   /\ \A r \in Rows : SumOf(i, Append(s, r)) = SumOf(i, s) + r.args[i]
<1> DEFINE f == [r \in Rows |-> r.args[i]]
           args(s) == [n \in DOMAIN s |-> f[s[n]]]
<1>1. f \in [Rows -> Int] /\ \A r \in Rows : f[r] = r.args[i]
  BY DEF Rows, NumAggs
<1>2. args(<< >>) = << >>
  OBVIOUS
<1>3. ASSUME NEW s \in Seq(Rows)
      PROVE  SumOf(i, s) = Sum(args(s))
  <2>1. \A n \in DOMAIN s : f[s[n]] = s[n].args[i]
    BY <1>1, ElementOfSeq, LenProperties
  <2>2. args(s) = [n \in DOMAIN s |-> s[n].args[i]]
    <3> HIDE DEF f
    <3> QED BY <2>1
  <2> QED BY <2>2 DEF SumOf
<1> HIDE DEF f
<1>4. \A s \in Seq(Rows) : args(s) \in Seq(Int) /\ \A r \in Rows : args(Append(s, r)) = Append(args(s), f[r])
  BY <1>1, MappedGrows
<1> HIDE DEF args
<1>5. SumOf(i, << >>) = 0
  <2>1. << >> \in Seq(Rows)
    OBVIOUS
  <2> QED BY <1>2, <1>3, <2>1, SumGrows
<1>6. ASSUME NEW s \in Seq(Rows)
      PROVE  SumOf(i, s) \in Int /\ \A r \in Rows : SumOf(i, Append(s, r)) = SumOf(i, s) + r.args[i]
  <2>1. args(s) \in Seq(Int) /\ SumOf(i, s) = Sum(args(s))
    BY <1>3, <1>4
  <2>2. SumOf(i, s) \in Int
    BY <2>1, SumGrows
  <2>3. ASSUME NEW r \in Rows
        PROVE  SumOf(i, Append(s, r)) = SumOf(i, s) + r.args[i]
    <3>1. Append(s, r) \in Seq(Rows)
      BY AppendProperties
    <3>2. SumOf(i, Append(s, r)) = Sum(Append(args(s), f[r]))
      BY <1>3, <1>4, <3>1
    <3>3. f[r] \in Int /\ f[r] = r.args[i]
      BY <1>1
    <3> PICK a, x : a = args(s) /\ x = f[r]
      OBVIOUS
    <3>4. Sum(Append(a, x)) = Sum(a) + x
      BY <2>1, <3>3, SumGrows
    <3> QED BY <2>1, <3>2, <3>3, <3>4
  <2> QED BY <2>2, <2>3
<1> QED
  BY <1>5, <1>6

(* The totals are the sums of the arguments and the number of records.     *)
LEMMA TotalsAre ==
    ASSUME NEW s \in Seq(Rows)
    PROVE  /\ Totals(s) \in AggRecs
           /\ \A i \in 1 .. NumAggs : Totals(s)[i] = IF Aggs[i] = "cnt" THEN Len(s) ELSE SumOf(i, s)
<1> DEFINE first(k) == SubSeq(s, 1, k)
           Right(k) == \A i \in 1 .. NumAggs : Totals(first(k))[i] = IF Aggs[i] = "cnt" THEN k ELSE SumOf(i, first(k))
           T == {k \in Nat : k <= Len(s) => Right(k)}
<1>1. /\ Len(s) \in Nat /\ first(0) = << >> /\ first(Len(s)) = s
      /\ \A k \in Nat : k <= Len(s) => first(k) \in Seq(Rows)
      /\ \A k \in Nat : k < Len(s) => s[k + 1] \in Rows /\ first(k + 1) = Append(first(k), s[k + 1])
  BY FirstOnes, LenProperties
<1> HIDE DEF first
<1>2. 0 \in T
  <2>1. \A i \in 1 .. NumAggs : Totals(<< >>)[i] = 0 /\ SumOf(i, << >>) = 0
    BY TotalsGrow, SumOfGrows DEF Zero
  <2> QED BY <1>1, <2>1
<1>3. \A k \in Nat : k \in T => k + 1 \in T
  <2> SUFFICES ASSUME NEW k \in Nat, k \in T, k + 1 <= Len(s), NEW i \in 1 .. NumAggs
               PROVE  Totals(first(k + 1))[i] = IF Aggs[i] = "cnt" THEN k + 1 ELSE SumOf(i, first(k + 1))
    OBVIOUS
  <2>1. k < Len(s) /\ k <= Len(s)
    BY <1>1
  <2>2. Totals(first(k))[i] = IF Aggs[i] = "cnt" THEN k ELSE SumOf(i, first(k))
    BY <2>1
  <2> HIDE DEF T
  <2>3. PICK t, u, r : t = first(k) /\ u = first(k + 1) /\ r = s[k + 1]
    OBVIOUS
  <2>4. t \in Seq(Rows) /\ r \in Rows /\ u = Append(t, r)
    BY <1>1, <2>1, <2>3
  <2>5. Totals(u) = Added(Totals(t), r) /\ SumOf(i, u) = SumOf(i, t) + r.args[i]
    BY <2>4, TotalsGrow, SumOfGrows
  <2>6. Totals(u)[i] = IF Aggs[i] = "cnt" THEN Totals(t)[i] + 1 ELSE Totals(t)[i] + r.args[i]
    BY <2>5 DEF Added
  <2>7. Totals(t)[i] = IF Aggs[i] = "cnt" THEN k ELSE SumOf(i, t)
    BY <2>2, <2>3
  <2>8. Totals(u)[i] = IF Aggs[i] = "cnt" THEN k + 1 ELSE SumOf(i, u)
    BY <2>5, <2>6, <2>7
  <2> QED BY <2>3, <2>8
<1>4. Nat \subseteq T
  <2> HIDE DEF T
  <2> QED BY <1>2, <1>3, SetInduction
<1> HIDE DEF Right
<1>5. Right(Len(s))
  BY <1>1, <1>4
<1> QED
  BY <1>1, <1>5, TotalsGrow DEF Right

-----------------------------------------------------------------------------
(* The places of the records under some hash values.                       *)
Places(pages, hashes) == UNION {{h} \X (1 .. Len(pages[h])) : h \in hashes}

(* A table of sequences of records under finitely many hash values.        *)
Tabled(pages) ==
    /\ pages = [h \in DOMAIN pages |-> pages[h]] /\ IsFiniteSet(DOMAIN pages)
    /\ \A h \in DOMAIN pages : pages[h] \in Seq(Rows)

(* All the records under all hash values.                                  *)
Grouped(pages) == MapThenSumSet(LAMBDA h : Len(pages[h]), DOMAIN pages)

(* Under one hash value less there are as many records less.               *)
LEMMA PlacesWithout ==
    ASSUME NEW pages, Tabled(pages), NEW hashes \in SUBSET DOMAIN pages
    PROVE  /\ IsFiniteSet(Places(pages, hashes)) /\ Cardinality(Places(pages, hashes)) \in Nat
           /\ \A h \in hashes : Cardinality(Places(pages, hashes))
                                   = Len(pages[h]) + Cardinality(Places(pages, hashes \ {h}))
           /\ Places(pages, {}) = {}
<1>1. ASSUME NEW some \in SUBSET DOMAIN pages
      PROVE  IsFiniteSet(Places(pages, some))
  <2> DEFINE T == {{h} \X (1 .. Len(pages[h])) : h \in some}
             f == [h \in some |-> {h} \X (1 .. Len(pages[h]))]
  <2>1. IsFiniteSet(some)
    BY FS_Subset DEF Tabled
  <2>2. f \in Surjection(some, T)
    BY DEF Surjection
  <2>3. \A t \in T : IsFiniteSet(t)
    <3>1. ASSUME NEW h \in some
          PROVE  IsFiniteSet({h} \X (1 .. Len(pages[h])))
      <4>1. Len(pages[h]) \in Nat
        BY LenProperties DEF Tabled
      <4>2. IsFiniteSet(1 .. Len(pages[h]))
        BY <4>1, FS_Interval
      <4>3. IsFiniteSet({h})
        BY FS_Singleton, ZenonT(60)
      <4> QED BY <4>2, <4>3, FS_Product
    <3> QED BY <3>1
  <2> HIDE DEF f, T
  <2>4. IsFiniteSet(T)
    BY <2>1, <2>2, FS_Surjection
  <2>5. IsFiniteSet(UNION T)
    BY <2>3, <2>4, FS_UNION
  <2> QED BY <2>5 DEF Places, T
<1>2. ASSUME NEW h \in hashes
      PROVE  Cardinality(Places(pages, hashes)) = Len(pages[h]) + Cardinality(Places(pages, hashes \ {h}))
  <2> DEFINE Q == {h} \X (1 .. Len(pages[h]))
             R == Places(pages, hashes \ {h})
  <2>1. Places(pages, hashes) = Q \cup R /\ Q \cap R = {}
    BY DEF Places
  <2>2. Len(pages[h]) \in Nat
    BY LenProperties DEF Tabled
  <2>3. IsFiniteSet(Q) /\ Cardinality(Q) = Len(pages[h])
    <3>1. /\ IsFiniteSet(1 .. Len(pages[h])) /\ IsFiniteSet({h})
          /\ Cardinality(1 .. Len(pages[h])) = Len(pages[h]) /\ Cardinality({h}) = 1
      <4>1. /\ IsFiniteSet(1 .. Len(pages[h])) /\ Cardinality(1 .. Len(pages[h])) = Len(pages[h])
        <5>1. PICK k : k = Len(pages[h])
          OBVIOUS
        <5>2. k \in Nat /\ (1 <= k \/ k = 0)
          BY <2>2, <5>1
        <5>3. IsFiniteSet(1 .. k) /\ Cardinality(1 .. k) = k
          BY <5>2, FS_Interval
        <5> QED BY <5>1, <5>3
      <4>2. IsFiniteSet({h}) /\ Cardinality({h}) = 1
        BY FS_Singleton, ZenonT(60)
      <4> QED BY <4>1, <4>2
    <3>2. IsFiniteSet(Q) /\ Cardinality(Q) = Cardinality({h}) * Cardinality(1 .. Len(pages[h]))
      BY <3>1, FS_Product
    <3> QED BY <2>2, <3>1, <3>2
  <2>4. IsFiniteSet(R) /\ Cardinality(R) \in Nat
    BY <1>1, FS_CardinalityType
  <2> HIDE DEF Q, R
  <2>5. Cardinality(Q \cup R) = Cardinality(Q) + Cardinality(R) - Cardinality(Q \cap R)
    BY <2>3, <2>4, FS_Union
  <2>6. Cardinality(Q \cap R) = 0
    BY <2>1, FS_EmptySet
  <2> QED BY <2>1, <2>2, <2>3, <2>4, <2>5, <2>6 DEF R
<1>3. Places(pages, {}) = {}
  BY DEF Places
<1> QED
  BY <1>1, <1>2, <1>3, FS_CardinalityType

(* The sum counts them.                                                    *)
LEMMA GroupedCounts ==
    ASSUME NEW pages, Tabled(pages)
    PROVE  Grouped(pages) = Cardinality(Places(pages, DOMAIN pages))
<1> DEFINE D == DOMAIN pages
           Fold(f) == [s \in SUBSET D |-> IF s = {} THEN 0
                                          ELSE Len(pages[CHOOSE x \in s : TRUE]) + f[s \ {CHOOSE x \in s : TRUE}]]
           sums == CHOOSE f : f = Fold(f)
           counts == [s \in SUBSET D |-> Cardinality(Places(pages, s))]
<1>9. \A s \in SUBSET DOMAIN pages : \A h \in s :
         Cardinality(Places(pages, s)) = Len(pages[h]) + Cardinality(Places(pages, s \ {h}))
  BY PlacesWithout
<1>1. counts = Fold(counts)
  <2>1. counts[{}] = 0
    BY PlacesWithout, FS_EmptySet
  <2>2. ASSUME NEW s \in SUBSET D, s # {}
        PROVE  counts[s] = Len(pages[CHOOSE x \in s : TRUE]) + counts[s \ {CHOOSE x \in s : TRUE}]
    <3> PICK h \in s : h = CHOOSE x \in s : TRUE
      BY <2>2
    <3>1. Cardinality(Places(pages, s)) = Len(pages[h]) + Cardinality(Places(pages, s \ {h}))
      BY <1>9
    <3> QED BY <3>1
  <2>3. counts = [s \in SUBSET D |-> counts[s]]
    OBVIOUS
  <2> HIDE DEF counts, D
  <2>4. Fold(counts) = [s \in SUBSET D |-> counts[s]]
    BY <2>1, <2>2
  <2> QED BY <2>3, <2>4
<1>2. sums = Fold(sums)
  <2> HIDE DEF Fold, counts
  <2> QED BY <1>1
<1>3. Grouped(pages) = sums[D]
  BY DEF Grouped, MapThenSumSet, MapThenFoldSet
<1> HIDE DEF sums
<1>4. /\ sums[{}] = 0
      /\ \A s \in SUBSET D : s # {} => sums[s] = Len(pages[CHOOSE x \in s : TRUE]) + sums[s \ {CHOOSE x \in s : TRUE}]
  BY <1>2
<1> DEFINE P == {s \in SUBSET D : sums[s] = Cardinality(Places(pages, s))}
<1>5. {} \in P
  BY <1>4, PlacesWithout, FS_EmptySet
<1>6. ASSUME NEW s \in SUBSET D, s # {}, \A x \in s : s \ {x} \in P
      PROVE  s \in P
  <2> PICK h \in s : h = CHOOSE x \in s : TRUE
    BY <1>6
  <2>1. sums[s] = Len(pages[h]) + sums[s \ {h}]
    BY <1>4, <1>6
  <2>2. sums[s \ {h}] = Cardinality(Places(pages, s \ {h}))
    BY <1>6
  <2>3. Cardinality(Places(pages, s)) = Len(pages[h]) + Cardinality(Places(pages, s \ {h}))
    BY <1>9
  <2> QED BY <2>1, <2>2, <2>3
<1>7. IsFiniteSet(D)
  BY DEF Tabled
<1>8. SUBSET D \subseteq P
  <2> HIDE DEF P, D
  <2> QED BY <1>5, <1>6, <1>7, SubsetInduction
<1> QED
  BY <1>3, <1>8

-----------------------------------------------------------------------------
(* Records of a group have the hash value of the group.                    *)
LEMMA HashOfGroup ==
    ASSUME NEW r \in Rows
    PROVE  HashVal(r) = HashVal([group |-> r.group])
BY DEF HashVal

HashIs(h) == {r \in Rows : HashVal(r) = h}

(* The records with a hash value.                                          *)
Under(s, h) == Selected(s, HashIs(h))

HashesOf(s) == {HashVal(s[n]) : n \in DOMAIN s}

(* They are selected from left to right.                                   *)
LEMMA UnderGrows ==
    ASSUME NEW h
    PROVE  /\ Under(<< >>, h) = << >>
           /\ \A s \in Seq(Rows) : /\ Under(s, h) \in Seq(Rows)
                                   /\ \A r \in Rows : Under(Append(s, r), h)
                                                        = IF HashVal(r) = h THEN Append(Under(s, h), r) ELSE Under(s, h)
<1>1. /\ Selected(<< >>, HashIs(h)) = << >>
      /\ \A s \in Seq(Rows) :
            /\ Selected(s, HashIs(h)) \in Seq(Rows)
            /\ \A r \in Rows : Selected(Append(s, r), HashIs(h))
                                  = IF r \in HashIs(h) THEN Append(Selected(s, HashIs(h)), r) ELSE Selected(s, HashIs(h))
  BY SelectedGrows
<1>2. \A r \in Rows : r \in HashIs(h) <=> HashVal(r) = h
  BY DEF HashIs
<1> QED
  BY <1>1, <1>2 DEF Under

(* There are some exactly under the hash values that occur.                *)
LEMMA UnderHashes ==
    ASSUME NEW s \in Seq(Rows), NEW h
    PROVE  /\ h \in HashesOf(s) <=> Under(s, h) # << >>
           /\ \A i \in 1 .. Len(Under(s, h)) : /\ HashVal(Under(s, h)[i]) = h
                                               /\ Under(s, h)[i] \in ToSet(s) /\ Under(s, h)[i] \in Rows
<1>1. /\ \A i \in 1 .. Len(Under(s, h)) : Under(s, h)[i] \in HashIs(h) /\ Under(s, h)[i] \in ToSet(s)
      /\ \A n \in 1 .. Len(s) : s[n] \in HashIs(h) => Under(s, h) # << >>
  BY SelectedElements DEF Under
<1>2. \A i \in 1 .. Len(Under(s, h)) : HashVal(Under(s, h)[i]) = h /\ Under(s, h)[i] \in ToSet(s) /\ Under(s, h)[i] \in Rows
  BY <1>1 DEF HashIs
<1>3. ASSUME h \in HashesOf(s)
      PROVE  Under(s, h) # << >>
  <2>1. PICK n \in 1 .. Len(s) : HashVal(s[n]) = h
    BY <1>3, LenProperties DEF HashesOf
  <2>2. s[n] \in HashIs(h)
    BY <2>1, ElementOfSeq DEF HashIs
  <2> QED BY <1>1, <2>2
<1>4. ASSUME Under(s, h) # << >>
      PROVE  h \in HashesOf(s)
  <2>1. Under(s, h) \in Seq(Rows)
    BY UnderGrows
  <2>2. 1 \in 1 .. Len(Under(s, h))
    BY <1>4, <2>1, LenProperties, EmptySeq
  <2>3. HashVal(Under(s, h)[1]) = h /\ Under(s, h)[1] \in ToSet(s)
    BY <1>2, <2>2
  <2>4. PICK n \in DOMAIN s : s[n] = Under(s, h)[1]
    BY <2>3 DEF ToSet
  <2> QED BY <2>3, <2>4 DEF HashesOf
<1> QED
  BY <1>2, <1>3, <1>4

(* One record more has its hash value.                                     *)
LEMMA HashesGrow ==
    ASSUME NEW s \in Seq(Rows), NEW r \in Rows
    PROVE  HashesOf(Append(s, r)) = HashesOf(s) \cup {HashVal(r)}
<1>1. PICK n, t : n = Len(s) /\ t = Append(s, r)
  OBVIOUS
<1>2. n \in Nat /\ DOMAIN s = 1 .. n /\ DOMAIN t = 1 .. n + 1 /\ t[n + 1] = r /\ \A m \in 1 .. n : t[m] = s[m]
  BY <1>1, LenProperties, AppendProperties
<1>3. \A m \in 1 .. n + 1 : m \in 1 .. n \/ m = n + 1
  BY <1>2
<1>4. n + 1 \in 1 .. n + 1 /\ \A m \in 1 .. n : m \in 1 .. n + 1
  BY <1>2
<1>5. HashesOf(t) \subseteq HashesOf(s) \cup {HashVal(r)}
  BY <1>2, <1>3 DEF HashesOf
<1>6. HashesOf(s) \subseteq HashesOf(t)
  BY <1>2, <1>4 DEF HashesOf
<1>7. HashVal(r) \in HashesOf(t)
  BY <1>2, <1>4 DEF HashesOf
<1> QED
  BY <1>1, <1>5, <1>6, <1>7

-----------------------------------------------------------------------------
(* WithRecord adds a record to those under its hash value.                 *)
LEMMA WithRecordAdds ==
    ASSUME Tabled(pagesByGroups), NEW h, NEW r \in Rows
    PROVE  /\ Tabled(WithRecord(h, r))
           /\ DOMAIN WithRecord(h, r) = DOMAIN pagesByGroups \cup {h}
           /\ WithRecord(h, r)[h] = IF h \in DOMAIN pagesByGroups THEN Append(pagesByGroups[h], r) ELSE <<r>>
           /\ \A k \in DOMAIN pagesByGroups \ {h} : WithRecord(h, r)[k] = pagesByGroups[k]
           /\ Grouped(pagesByGroups) \in Nat /\ Grouped(WithRecord(h, r)) = Grouped(pagesByGroups) + 1
<1> DEFINE old == pagesByGroups
           new == WithRecord(h, r)
           D == DOMAIN old
<1>1. /\ new = [k \in D \cup {h} |-> new[k]] /\ DOMAIN new = D \cup {h}
      /\ new[h] = IF h \in D THEN Append(old[h], r) ELSE <<r>>
      /\ \A k \in D \ {h} : new[k] = old[k]
  BY DEF WithRecord
<1>2. /\ IsFiniteSet(D) /\ \A k \in D : old[k] \in Seq(Rows)
  BY DEF Tabled
<1> HIDE DEF old, new, D
<1>3. IsFiniteSet(D \cup {h})
  BY <1>2, FS_AddElement
<1>4. new[h] \in Seq(Rows) /\ Len(new[h]) = (IF h \in D THEN Len(old[h]) ELSE 0) + 1 /\ (h \in D => Len(old[h]) \in Nat)
  <2>1. CASE h \in D
    <3>1. old[h] \in Seq(Rows)
      BY <1>2, <2>1
    <3> QED BY <1>1, <2>1, <3>1, AppendProperties, LenProperties
  <2>2. CASE h \notin D
    <3>1. <<r>> \in Seq(Rows) /\ Len(<<r>>) = 1
      OBVIOUS
    <3>2. new[h] = <<r>>
      BY <1>1, <2>2
    <3> QED BY <2>2, <3>1, <3>2
  <2> QED BY <2>1, <2>2
<1>5. \A k \in D \cup {h} : new[k] \in Seq(Rows)
  BY <1>1, <1>2, <1>4
<1>6. Tabled(new)
  BY <1>1, <1>3, <1>5 DEF Tabled
<1>7. Tabled(old)
  BY DEF old
<1>8. /\ Grouped(old) = Cardinality(Places(old, D)) /\ Grouped(old) \in Nat
      /\ Grouped(new) = Cardinality(Places(new, D \cup {h}))
  <2>1. Grouped(old) = Cardinality(Places(old, DOMAIN old)) /\ Cardinality(Places(old, DOMAIN old)) \in Nat
    BY <1>7, GroupedCounts, PlacesWithout
  <2>2. Grouped(new) = Cardinality(Places(new, DOMAIN new))
    BY <1>6, GroupedCounts
  <2> QED BY <1>1, <2>1, <2>2 DEF D
<1>9. Places(new, D \ {h}) = Places(old, D \ {h})
  BY <1>1 DEF Places
<1>10. Cardinality(Places(new, D \cup {h})) = Len(new[h]) + Cardinality(Places(new, D \ {h}))
  <2>1. D \cup {h} \in SUBSET DOMAIN new /\ h \in D \cup {h}
    BY <1>1
  <2>2. Cardinality(Places(new, D \cup {h})) = Len(new[h]) + Cardinality(Places(new, (D \cup {h}) \ {h}))
    BY <1>6, <2>1, PlacesWithout
  <2>3. (D \cup {h}) \ {h} = D \ {h}
    OBVIOUS
  <2> QED BY <2>2, <2>3
<1>11. h \in D => Cardinality(Places(old, D)) = Len(old[h]) + Cardinality(Places(old, D \ {h}))
  <2>1. D \in SUBSET DOMAIN old
    BY DEF D
  <2> QED BY <1>7, <2>1, PlacesWithout
<1>12. h \notin D => D \ {h} = D
  OBVIOUS
<1>13. Cardinality(Places(old, D \ {h})) \in Nat
  <2>1. D \ {h} \in SUBSET DOMAIN old
    BY DEF D
  <2> QED BY <1>7, <2>1, PlacesWithout
<1>14. Grouped(new) = Grouped(old) + 1
  <2>1. CASE h \in D
    BY <2>1, <1>4, <1>8, <1>9, <1>10, <1>11, <1>13
  <2>2. CASE h \notin D
    <3>1. Cardinality(Places(new, D \ {h})) = Grouped(old)
      BY <1>8, <1>9, <1>12, <2>2
    <3>2. Grouped(new) = Len(new[h]) + Grouped(old) /\ Len(new[h]) = 1
      BY <1>4, <1>8, <1>10, <2>2, <3>1
    <3> QED BY <1>8, <3>2
  <2> QED BY <2>1, <2>2
<1> QED
  BY <1>1, <1>6, <1>8, <1>14 DEF old, new, D

(* A hash value less leaves out the records under it.                      *)
LEMMA GroupLeaves ==
    ASSUME NEW pages, Tabled(pages), NEW h \in DOMAIN pages,
           NEW rest, rest = [k \in DOMAIN pages \ {h} |-> pages[k]]
    PROVE  /\ Tabled(rest) /\ Grouped(rest) \in Nat
           /\ Grouped(pages) = Len(pages[h]) + Grouped(rest)
<1>1. DOMAIN rest = DOMAIN pages \ {h} /\ \A k \in DOMAIN pages \ {h} : rest[k] = pages[k]
  OBVIOUS
<1>2. Tabled(rest)
  <2>1. IsFiniteSet(DOMAIN rest)
    BY <1>1, FS_Subset DEF Tabled
  <2>2. \A k \in DOMAIN rest : rest[k] \in Seq(Rows)
    BY <1>1 DEF Tabled
  <2>3. rest = [k \in DOMAIN rest |-> rest[k]]
    OBVIOUS
  <2> QED BY <2>1, <2>2, <2>3 DEF Tabled
<1>3. Places(rest, DOMAIN pages \ {h}) = Places(pages, DOMAIN pages \ {h})
  BY <1>1 DEF Places
<1>4. Grouped(rest) = Cardinality(Places(rest, DOMAIN pages \ {h}))
  BY <1>1, <1>2, GroupedCounts
<1>5. Grouped(rest) \in Nat
  BY <1>1, <1>2, <1>4, PlacesWithout
<1>6. Cardinality(Places(pages, DOMAIN pages)) = Len(pages[h]) + Cardinality(Places(pages, DOMAIN pages \ {h}))
  BY PlacesWithout
<1>7. Grouped(pages) = Cardinality(Places(pages, DOMAIN pages))
  BY GroupedCounts
<1> QED
  BY <1>2, <1>3, <1>4, <1>5, <1>6, <1>7

-----------------------------------------------------------------------------
(* The records of the result, and the sum of their last aggregates.        *)
Results == [group : Seq(Nat), aggs : [1 .. NumAggs -> Int \X Int]]

Counted(s) == Sum([n \in DOMAIN s |-> s[n].aggs[NumAggs][1]])

(* There is a last aggregate.                                              *)
LEMMA SomeAggs ==
    NumAggs \in Nat /\ NumAggs \in 1 .. NumAggs
<1>1. Len(Aggs) \in Nat /\ Len(Aggs) # 0
  BY AggregateAssumption, LenProperties, EmptySeq
<1> QED
  BY <1>1 DEF NumAggs

(* That sum, with a record more.                                           *)
LEMMA CountedGrows ==
    /\ Counted(<< >>) = 0
    /\ \A s \in Seq(Results) : /\ Counted(s) \in Int
                               /\ \A x \in Results : Counted(Append(s, x)) = Counted(s) + x.aggs[NumAggs][1]
<1> DEFINE f == [x \in Results |-> x.aggs[NumAggs][1]]
           counts(s) == [n \in DOMAIN s |-> f[s[n]]]
<1>1. f \in [Results -> Int] /\ \A x \in Results : f[x] = x.aggs[NumAggs][1]
  BY SomeAggs DEF Results
<1>2. counts(<< >>) = << >>
  OBVIOUS
<1>3. ASSUME NEW s \in Seq(Results)
      PROVE  Counted(s) = Sum(counts(s))
  <2>1. \A n \in DOMAIN s : f[s[n]] = s[n].aggs[NumAggs][1]
    BY <1>1, ElementOfSeq, LenProperties
  <2>2. counts(s) = [n \in DOMAIN s |-> s[n].aggs[NumAggs][1]]
    <3> HIDE DEF f
    <3> QED BY <2>1
  <2> QED BY <2>2 DEF Counted
<1> HIDE DEF f
<1>4. \A s \in Seq(Results) : counts(s) \in Seq(Int) /\ \A x \in Results : counts(Append(s, x)) = Append(counts(s), f[x])
  BY <1>1, MappedGrows
<1> HIDE DEF counts
<1>5. Counted(<< >>) = 0
  <2>1. << >> \in Seq(Results)
    OBVIOUS
  <2> QED BY <1>2, <1>3, <2>1, SumGrows
<1>6. ASSUME NEW s \in Seq(Results)
      PROVE  Counted(s) \in Int /\ \A x \in Results : Counted(Append(s, x)) = Counted(s) + x.aggs[NumAggs][1]
  <2>1. counts(s) \in Seq(Int) /\ Counted(s) = Sum(counts(s))
    BY <1>3, <1>4
  <2>2. Counted(s) \in Int
    BY <2>1, SumGrows
  <2>3. ASSUME NEW x \in Results
        PROVE  Counted(Append(s, x)) = Counted(s) + x.aggs[NumAggs][1]
    <3>1. Append(s, x) \in Seq(Results)
      BY AppendProperties
    <3>2. Counted(Append(s, x)) = Sum(Append(counts(s), f[x]))
      BY <1>3, <1>4, <3>1
    <3>3. f[x] \in Int /\ f[x] = x.aggs[NumAggs][1]
      BY <1>1
    <3> PICK a, m : a = counts(s) /\ m = f[x]
      OBVIOUS
    <3>4. Sum(Append(a, m)) = Sum(a) + m
      BY <2>1, <3>3, SumGrows
    <3> QED BY <2>1, <3>2, <3>3, <3>4
  <2> QED BY <2>2, <2>3
<1> QED
  BY <1>5, <1>6

-----------------------------------------------------------------------------
(* The record of the result for a hash value.                              *)
ResultFor(h) ==
    LET rows == Under(Accepted, h) IN
    [group |-> Last(rows).group, aggs |-> [i \in 1 .. NumAggs |-> Result(i, Totals(rows))]]

(* The hash values whose records are aggregated already.                   *)
Finished == HashesOf(Accepted) \ DOMAIN pagesByGroups

CountLast == Aggs[NumAggs] = "cnt"

(* The records that are read already are under their hash values.          *)
InBuckets(pages, s) ==
    /\ Tabled(pages) /\ DOMAIN pages = HashesOf(s)
    /\ \A h \in DOMAIN pages : pages[h] = Under(s, h)

(* Every record is under its hash value until a result stands for it.      *)
Aggregated ==
    /\ Tabled(pagesByGroups) /\ DOMAIN pagesByGroups \subseteq HashesOf(Accepted)
    /\ \A h \in DOMAIN pagesByGroups : pagesByGroups[h] = Under(Accepted, h)
    /\ output \in Seq(Results)
    /\ \A n \in 1 .. Len(output) : \E h \in Finished : output[n] = ResultFor(h)
    /\ \A h \in Finished : \E n \in 1 .. Len(output) : output[n] = ResultFor(h)
    /\ CountLast => Grouped(pagesByGroups) + Counted(output) = Len(Accepted)

IInv ==
    /\ input \in Inputs
    /\ phase \in {"project", "group", "aggregate", "done"}
    /\ phase = "project" => output = << >> /\ next = 1 /\ pagesByGroups = << >>
    /\ phase = "group" => /\ output = Accepted /\ next \in 1 .. Len(Accepted) + 1
                          /\ InBuckets(pagesByGroups, SubSeq(Accepted, 1, next - 1))
                          /\ Grouped(pagesByGroups) = next - 1
    /\ phase \in {"aggregate", "done"} => Aggregated
    /\ phase = "done" => DOMAIN pagesByGroups = {}

(* The accepted records are records.                                       *)
LEMMA AcceptedRows ==
    ASSUME input \in Inputs
    PROVE  Accepted \in Seq(Rows) /\ Len(Accepted) \in Nat
<1>1. input \in Seq(Rows)
  BY AggregateAssumption
<1>2. Accepted \in Seq(Rows)
  BY <1>1, SelectedGrows DEF Accepted
<1> QED
  BY <1>2, LenProperties

(* A record that is read goes under its hash value.                        *)
LEMMA BucketsGrow ==
    ASSUME NEW s \in Seq(Rows), NEW r \in Rows, InBuckets(pagesByGroups, s)
    PROVE  InBuckets(WithRecord(HashVal(r), r), Append(s, r))
<1> DEFINE h == HashVal(r)
           old == pagesByGroups
           new == WithRecord(h, r)
<1>1. /\ Tabled(new) /\ DOMAIN new = DOMAIN old \cup {h}
      /\ new[h] = IF h \in DOMAIN old THEN Append(old[h], r) ELSE <<r>>
      /\ \A k \in DOMAIN old \ {h} : new[k] = old[k]
  BY WithRecordAdds DEF InBuckets
<1>2. DOMAIN old = HashesOf(s) /\ \A k \in DOMAIN old : old[k] = Under(s, k)
  BY DEF InBuckets
<1>3. \A k : Under(Append(s, r), k) = IF h = k THEN Append(Under(s, k), r) ELSE Under(s, k)
  BY UnderGrows
<1>4. HashesOf(Append(s, r)) = HashesOf(s) \cup {h}
  BY HashesGrow
<1> HIDE DEF h, old, new
<1>5. new[h] = Under(Append(s, r), h)
  <2>1. CASE h \in DOMAIN old
    BY <1>1, <1>2, <1>3, <2>1
  <2>2. CASE h \notin DOMAIN old
    <3>1. Under(s, h) = << >>
      BY <1>2, <2>2, UnderHashes
    <3>2. Append(<< >>, r) = <<r>>
      OBVIOUS
    <3> QED BY <1>1, <1>3, <2>2, <3>1, <3>2
  <2> QED BY <2>1, <2>2
<1>6. \A k \in DOMAIN new : new[k] = Under(Append(s, r), k)
  BY <1>1, <1>2, <1>3, <1>5
<1> QED
  BY <1>1, <1>2, <1>4, <1>6 DEF InBuckets, h, new

(* What stands for some records in the result.                             *)
LEMMA ResultOf ==
    ASSUME NEW s \in Seq(Rows), s # << >>,
           NEW x, x = [group |-> Last(s).group, aggs |-> [i \in 1 .. NumAggs |-> Result(i, Totals(s))]]
    PROVE  x \in Results /\ (CountLast => x.aggs[NumAggs][1] = Len(s))
<1>1. Last(s) \in Rows
  <2>1. Len(s) \in 1 .. Len(s)
    BY LenProperties, EmptySeq
  <2> QED BY <2>1, ElementOfSeq DEF Last
<1>2. Totals(s) \in AggRecs /\ \A i \in 1 .. NumAggs : Totals(s)[i] = IF Aggs[i] = "cnt" THEN Len(s) ELSE SumOf(i, s)
  BY TotalsAre
<1>3. \A i \in 1 .. NumAggs : Result(i, Totals(s)) \in Int \X Int /\ Result(i, Totals(s))[1] = Totals(s)[i]
  BY <1>2, SomeAggs DEF Result, AggRecs
<1>4. x.group = Last(s).group /\ x.aggs = [i \in 1 .. NumAggs |-> Result(i, Totals(s))]
  OBVIOUS
<1>5. Last(s).group \in Seq(Nat)
  BY <1>1 DEF Rows
<1>6. [i \in 1 .. NumAggs |-> Result(i, Totals(s))] \in [1 .. NumAggs -> Int \X Int]
  BY <1>3
<1>7. x \in Results
  BY <1>5, <1>6 DEF Results
<1>8. CountLast => x.aggs[NumAggs][1] = Len(s)
  <2>1. x.aggs[NumAggs] = Result(NumAggs, Totals(s))
    BY <1>4, SomeAggs
  <2>2. Result(NumAggs, Totals(s))[1] = Totals(s)[NumAggs]
    BY <1>3, SomeAggs
  <2>3. CountLast => Totals(s)[NumAggs] = Len(s)
    BY <1>2, SomeAggs DEF CountLast
  <2> QED BY <2>1, <2>2, <2>3
<1> QED
  BY <1>7, <1>8

-----------------------------------------------------------------------------
(* Nothing is grouped at first.                                            *)
LEMMA NothingGrouped ==
    Tabled(<< >>) /\ Grouped(<< >>) = 0 /\ HashesOf(<< >>) = {} /\ DOMAIN << >> = {}
<1>1. DOMAIN << >> = {}
  OBVIOUS
<1>2. Tabled(<< >>)
  <2>1. << >> = [h \in DOMAIN << >> |-> << >>[h]]
    OBVIOUS
  <2>2. IsFiniteSet(DOMAIN << >>)
    BY <1>1, FS_EmptySet
  <2> QED BY <1>1, <2>1, <2>2 DEF Tabled
<1>3. Places(<< >>, {}) = {}
  BY DEF Places
<1>4. Grouped(<< >>) = 0
  BY <1>1, <1>2, <1>3, GroupedCounts, FS_EmptySet
<1>5. HashesOf(<< >>) = {}
  BY <1>1 DEF HashesOf
<1> QED
  BY <1>1, <1>2, <1>4, <1>5

(* Project leaves the accepted records in the output table.                *)
LEMMA ProjectKeeps ==
    ASSUME IInv, Project
    PROVE  IInv'
<1>1. input \in Inputs /\ input' = input /\ next' = 1 /\ pagesByGroups' = << >> /\ phase' = "group"
      /\ output' = Accepted /\ Accepted' = Accepted
  BY DEF IInv, Project, Accepted
<1>2. Accepted \in Seq(Rows) /\ Len(Accepted) \in Nat
  BY <1>1, AcceptedRows
<1>3. SubSeq(Accepted, 1, next' - 1) = << >> /\ 1 \in 1 .. Len(Accepted) + 1
  BY <1>1, <1>2, FirstOnes
<1>4. InBuckets(<< >>, << >>)
  BY NothingGrouped DEF InBuckets
<1>5. Grouped(<< >>) = next' - 1
  BY <1>1, NothingGrouped
<1>6. /\ InBuckets(pagesByGroups', SubSeq(Accepted', 1, next' - 1))
      /\ Grouped(pagesByGroups') = next' - 1
  BY <1>1, <1>3, <1>4, <1>5
<1>7. input' \in Inputs /\ output' = Accepted' /\ next' \in 1 .. Len(Accepted') + 1
  BY <1>1, <1>3
<1> QED
  BY <1>1, <1>6, <1>7 DEF IInv

(* GroupRecord puts the record it stands at under its hash value.          *)
LEMMA GroupRecordKeeps ==
    ASSUME IInv, GroupRecord
    PROVE  IInv'
<1>1. /\ input \in Inputs /\ input' = input /\ phase' = "group" /\ output' = Accepted /\ Accepted' = Accepted
      /\ output = Accepted /\ next \in 1 .. Len(Accepted) + 1 /\ next <= Len(Accepted) /\ next' = next + 1
      /\ pagesByGroups' = WithRecord(HashVal(Accepted[next]), Accepted[next])
      /\ InBuckets(pagesByGroups, SubSeq(Accepted, 1, next - 1)) /\ Grouped(pagesByGroups) = next - 1
  BY DEF IInv, GroupRecord, Accepted
<1>2. Accepted \in Seq(Rows) /\ Len(Accepted) \in Nat
  BY <1>1, AcceptedRows
<1>3. PICK k : k = next - 1
  OBVIOUS
<1>4. k \in Nat /\ k < Len(Accepted) /\ k <= Len(Accepted) /\ next = k + 1 /\ next' - 1 = k + 1
  BY <1>1, <1>2, <1>3
<1>5. PICK s, r : s = SubSeq(Accepted, 1, k) /\ r = Accepted[k + 1]
  OBVIOUS
<1>6. s \in Seq(Rows) /\ r \in Rows /\ SubSeq(Accepted, 1, k + 1) = Append(s, r)
  BY <1>2, <1>4, <1>5, FirstOnes
<1>7. InBuckets(pagesByGroups, s) /\ Grouped(pagesByGroups) = k /\ pagesByGroups' = WithRecord(HashVal(r), r)
  BY <1>1, <1>3, <1>4, <1>5
<1>8. InBuckets(WithRecord(HashVal(r), r), Append(s, r))
  BY <1>6, <1>7, BucketsGrow
<1>9. Grouped(WithRecord(HashVal(r), r)) = k + 1
  BY <1>6, <1>7, WithRecordAdds DEF InBuckets
<1>10. /\ InBuckets(pagesByGroups', SubSeq(Accepted', 1, next' - 1))
       /\ Grouped(pagesByGroups') = next' - 1
  BY <1>1, <1>4, <1>6, <1>7, <1>8, <1>9
<1>11. input' \in Inputs /\ output' = Accepted' /\ next' \in 1 .. Len(Accepted') + 1
  BY <1>1, <1>2, <1>4
<1> QED
  BY <1>1, <1>10, <1>11 DEF IInv

(* When all are grouped, ClearOutput leaves no result.                     *)
LEMMA ClearOutputKeeps ==
    ASSUME IInv, ClearOutput
    PROVE  IInv'
<1>1. /\ input \in Inputs /\ input' = input /\ phase' = "aggregate" /\ output' = << >> /\ Accepted' = Accepted
      /\ output = Accepted /\ next \in 1 .. Len(Accepted) + 1 /\ next > Len(Accepted)
      /\ pagesByGroups' = pagesByGroups
      /\ InBuckets(pagesByGroups, SubSeq(Accepted, 1, next - 1)) /\ Grouped(pagesByGroups) = next - 1
  BY DEF IInv, ClearOutput, Accepted
<1>2. Accepted \in Seq(Rows) /\ Len(Accepted) \in Nat
  BY <1>1, AcceptedRows
<1>3. next - 1 = Len(Accepted) /\ SubSeq(Accepted, 1, Len(Accepted)) = Accepted
  BY <1>1, <1>2, FirstOnes
<1>4. InBuckets(pagesByGroups, Accepted) /\ Grouped(pagesByGroups) = Len(Accepted)
  BY <1>1, <1>3
<1>5. Finished' = {}
  BY <1>1, <1>4 DEF Finished, InBuckets
<1>6. << >> \in Seq(Results) /\ Len(<< >>) = 0 /\ 1 .. 0 = {} /\ Counted(<< >>) = 0
  BY CountedGrows
<1>7. Counted(output') = 0 /\ Grouped(pagesByGroups') + Counted(output') = Len(Accepted')
  BY <1>1, <1>2, <1>4, <1>6
<1>8. Aggregated'
  BY <1>1, <1>4, <1>5, <1>6, <1>7 DEF Aggregated, InBuckets
<1> QED
  BY <1>1, <1>8 DEF IInv

(* AggregateGroup lets a result stand for the records under a hash value.  *)
LEMMA AggregateGroupKeeps ==
    ASSUME IInv, AggregateGroup
    PROVE  IInv'
<1> PICK h \in DOMAIN pagesByGroups :
        /\ aggRec' = Totals(pagesByGroups[h])
        /\ output' = Append(output, [group |-> Last(pagesByGroups[h]).group,
                                     aggs  |-> [i \in 1 .. NumAggs |-> Result(i, aggRec')]])
        /\ pagesByGroups' = [k \in DOMAIN pagesByGroups \ {h} |-> pagesByGroups[k]]
  BY DEF AggregateGroup
<1>1. /\ input \in Inputs /\ input' = input /\ phase' = "aggregate" /\ Accepted' = Accepted
      /\ \A k : ResultFor(k)' = ResultFor(k)
      /\ Aggregated
  BY DEF IInv, AggregateGroup, Accepted, ResultFor
<1>2. Accepted \in Seq(Rows) /\ Len(Accepted) \in Nat
  BY <1>1, AcceptedRows
<1>3. /\ Tabled(pagesByGroups) /\ DOMAIN pagesByGroups \subseteq HashesOf(Accepted)
      /\ \A k \in DOMAIN pagesByGroups : pagesByGroups[k] = Under(Accepted, k)
      /\ output \in Seq(Results)
      /\ \A n \in 1 .. Len(output) : \E k \in Finished : output[n] = ResultFor(k)
      /\ \A k \in Finished : \E n \in 1 .. Len(output) : output[n] = ResultFor(k)
      /\ CountLast => Grouped(pagesByGroups) + Counted(output) = Len(Accepted)
  BY <1>1 DEF Aggregated
<1>4. pagesByGroups[h] = Under(Accepted, h) /\ Under(Accepted, h) \in Seq(Rows) /\ Under(Accepted, h) # << >>
  BY <1>2, <1>3, UnderGrows, UnderHashes
<1>5. output' = Append(output, ResultFor(h))
  BY <1>4 DEF ResultFor
<1>6. ResultFor(h) \in Results /\ (CountLast => ResultFor(h).aggs[NumAggs][1] = Len(Under(Accepted, h)))
  BY <1>4, ResultOf DEF ResultFor
<1>7. /\ Tabled(pagesByGroups') /\ Grouped(pagesByGroups') \in Nat
      /\ Grouped(pagesByGroups) = Len(Under(Accepted, h)) + Grouped(pagesByGroups')
      /\ Len(Under(Accepted, h)) \in Nat
  <2>1. PICK rest : rest = [k \in DOMAIN pagesByGroups \ {h} |-> pagesByGroups[k]]
    OBVIOUS
  <2>2. /\ Tabled(rest) /\ Grouped(rest) \in Nat
        /\ Grouped(pagesByGroups) = Len(pagesByGroups[h]) + Grouped(rest)
    BY <1>3, <2>1, GroupLeaves
  <2>3. Len(Under(Accepted, h)) \in Nat
    BY <1>4, LenProperties
  <2> QED BY <1>4, <2>1, <2>2, <2>3
<1>8. /\ DOMAIN pagesByGroups' = DOMAIN pagesByGroups \ {h}
      /\ \A k \in DOMAIN pagesByGroups' : pagesByGroups'[k] = Under(Accepted, k)
      /\ Finished' = Finished \cup {h}
  <2>1. /\ DOMAIN pagesByGroups' = DOMAIN pagesByGroups \ {h}
        /\ \A k \in DOMAIN pagesByGroups' : pagesByGroups'[k] = Under(Accepted, k)
    BY <1>3
  <2>2. Finished' = HashesOf(Accepted) \ (DOMAIN pagesByGroups \ {h})
    BY <1>1, <2>1 DEF Finished
  <2>3. Finished' = Finished \cup {h}
    BY <1>3, <2>2 DEF Finished
  <2> QED BY <2>1, <2>3
<1>9. CountLast => Grouped(pagesByGroups') + Counted(output') = Len(Accepted)
  <2> SUFFICES ASSUME CountLast
               PROVE  Grouped(pagesByGroups') + Counted(output') = Len(Accepted)
    OBVIOUS
  <2>1. Counted(output) \in Int /\ Counted(Append(output, ResultFor(h))) = Counted(output) + ResultFor(h).aggs[NumAggs][1]
    BY <1>3, <1>6, CountedGrows
  <2>2. Counted(output') = Counted(output) + Len(Under(Accepted, h))
    BY <1>5, <1>6, <2>1
  <2> QED BY <1>3, <1>7, <2>1, <2>2
<1>10. PICK m, x : m = Len(output) /\ x = ResultFor(h)
  OBVIOUS
<1>11. /\ m \in Nat /\ output' \in Seq(Results) /\ Len(output') = m + 1 /\ output'[m + 1] = x
       /\ \A n \in 1 .. m : output'[n] = output[n]
  BY <1>3, <1>5, <1>6, <1>10, AppendProperties, LenProperties
<1>12. \A n \in 1 .. Len(output') : \E k \in Finished' : output'[n] = ResultFor(k)
  <2> TAKE n \in 1 .. Len(output')
  <2>1. CASE n \in 1 .. m
    <3>1. output'[n] = output[n] /\ n \in 1 .. Len(output)
      BY <1>10, <1>11, <2>1
    <3> QED BY <1>3, <1>8, <3>1
  <2>2. CASE n = m + 1
    BY <1>8, <1>10, <1>11, <2>2
  <2> QED BY <1>11, <2>1, <2>2
<1>13. \A k \in Finished' : \E n \in 1 .. Len(output') : output'[n] = ResultFor(k)
  <2> TAKE k \in Finished'
  <2>1. CASE k \in Finished
    <3>1. PICK n \in 1 .. Len(output) : output[n] = ResultFor(k)
      BY <1>3, <2>1
    <3>2. n \in 1 .. m /\ n \in 1 .. Len(output') /\ output'[n] = output[n]
      BY <1>10, <1>11
    <3> QED BY <3>1, <3>2
  <2>2. CASE k = h
    <3>1. m + 1 \in 1 .. Len(output') /\ output'[m + 1] = ResultFor(k)
      BY <1>10, <1>11, <2>2
    <3> QED BY <3>1
  <2> QED BY <1>8, <2>1, <2>2
<1>14. Aggregated'
  <2>1. /\ \A n \in 1 .. Len(output') : \E k \in Finished' : output'[n] = ResultFor(k)'
        /\ \A k \in Finished' : \E n \in 1 .. Len(output') : output'[n] = ResultFor(k)'
    BY <1>1, <1>12, <1>13
  <2>2. DOMAIN pagesByGroups' \subseteq HashesOf(Accepted')
    BY <1>1, <1>3, <1>8
  <2>3. \A k \in DOMAIN pagesByGroups' : pagesByGroups'[k] = Under(Accepted', k)
    BY <1>1, <1>8
  <2>4. CountLast => Grouped(pagesByGroups') + Counted(output') = Len(Accepted')
    BY <1>1, <1>9
  <2>5. Tabled(pagesByGroups') /\ output' \in Seq(Results)
    BY <1>7, <1>11
  <2> QED BY <2>1, <2>2, <2>3, <2>4, <2>5 DEF Aggregated
<1> QED
  BY <1>1, <1>14 DEF IInv

-----------------------------------------------------------------------------
(* Init establishes the invariant and every step keeps it.                 *)
LEMMA InitInvariant ==
    Init => IInv
BY DEF Init, IInv

LEMMA NextInvariant ==
    IInv /\ [Next]_vars => IInv'
<1> SUFFICES ASSUME IInv, [Next]_vars
             PROVE  IInv'
  OBVIOUS
<1>1. CASE Project
  BY <1>1, ProjectKeeps
<1>2. CASE GroupRecord
  BY <1>2, GroupRecordKeeps
<1>3. CASE ClearOutput
  BY <1>3, ClearOutputKeeps
<1>4. CASE AggregateGroup
  BY <1>4, AggregateGroupKeeps
<1>5. CASE Return
  <2>1. /\ phase' = "done" /\ input' = input /\ output' = output /\ pagesByGroups' = pagesByGroups /\ Accepted' = Accepted
        /\ DOMAIN pagesByGroups = {} /\ Aggregated /\ input \in Inputs
    BY <1>5 DEF Return, IInv, Accepted
  <2>2. Aggregated'
    BY <2>1 DEF Aggregated, Finished, ResultFor
  <2> QED BY <2>1, <2>2 DEF IInv
<1>6. CASE UNCHANGED vars
  <2>1. Accepted' = Accepted
    BY <1>6 DEF vars, Accepted
  <2>2. Aggregated' = Aggregated
    BY <1>6, <2>1 DEF vars, Aggregated, Finished, ResultFor
  <2> QED BY <1>6, <2>1, <2>2 DEF vars, IInv
<1> QED
  BY <1>1, <1>2, <1>3, <1>4, <1>5, <1>6 DEF Next

(* Each record is under its hash value until a result stands for all those *)
(* that are: for all tables, aggregates and hash functions.                *)
THEOREM AggregateInvariant ==
    Spec => []IInv
<1> QED
  BY InitInvariant, NextInvariant, PTL DEF Spec

(* When the last aggregate is a count, each accepted record is, once the   *)
(* output table is emptied, in one group or counted in one record of it.   *)
THEOREM AggregateCountsOnce ==
    ASSUME CountLast
    PROVE  Spec => []EachCountedOnce
<1>1. IInv => EachCountedOnce
  BY DEF IInv, Aggregated, EachCountedOnce, Grouped, Counted
<1> QED
  BY <1>1, AggregateInvariant, PTL

-----------------------------------------------------------------------------
(* When no other group has its hash value, the members of a group are what *)
(* is under it.                                                            *)
LEMMA AloneMembers ==
    ASSUME input \in Inputs, NEW g \in Groups, Alone(g), NEW h, h = HashVal([group |-> g])
    PROVE  /\ h \in HashesOf(Accepted) /\ Under(Accepted, h) = Members(g)
           /\ \A i \in 1 .. Len(Members(g)) : Members(g)[i].group = g
<1>1. Accepted \in Seq(Rows) /\ Len(Accepted) \in Nat /\ DOMAIN Accepted = 1 .. Len(Accepted)
  BY AcceptedRows, LenProperties
<1>2. \A n \in 1 .. Len(Accepted) : /\ Accepted[n] \in Rows /\ Accepted[n] \in ToSet(Accepted)
                                    /\ HashVal(Accepted[n]) = HashVal([group |-> Accepted[n].group])
  BY <1>1, ElementOfSeq, HashOfGroup DEF ToSet
<1>3. \A n \in 1 .. Len(Accepted) : HashVal(Accepted[n]) = h <=> Accepted[n].group = g
  <2> TAKE n \in 1 .. Len(Accepted)
  <2>1. Accepted[n].group \in Groups
    BY <1>2 DEF Groups
  <2>2. Accepted[n].group # g => HashVal([group |-> Accepted[n].group]) # h
    BY <2>1 DEF Alone
  <2>3. Accepted[n].group = g => HashVal([group |-> Accepted[n].group]) = h
    OBVIOUS
  <2> QED BY <1>2, <2>2, <2>3
<1>4. \A n \in 1 .. Len(Accepted) : Accepted[n] \in HashIs(h) <=> Accepted[n] \in {r \in ToSet(Accepted) : r.group = g}
  BY <1>2, <1>3 DEF HashIs
<1>5. Under(Accepted, h) = Members(g)
  BY <1>1, <1>4, SelectedSame DEF Under, Members
<1>6. PICK n \in 1 .. Len(Accepted) : Accepted[n].group = g
  BY <1>1 DEF Groups, ToSet
<1>7. h \in HashesOf(Accepted)
  BY <1>1, <1>3, <1>6 DEF HashesOf
<1>8. \A i \in 1 .. Len(Members(g)) : Members(g)[i].group = g
  <2>1. \A i \in 1 .. Len(Members(g)) : Members(g)[i] \in {r \in ToSet(Accepted) : r.group = g}
    BY <1>1, SelectedElements DEF Members
  <2> QED BY <2>1
<1> QED
  BY <1>5, <1>7, <1>8

(* When the last aggregate is a count if there is an average, the result   *)
(* has the sums, averages and counts of every group whose hash value is    *)
(* its own, whatever the function that makes the hash values.              *)
THEOREM AggregateGroupsExact ==
    ASSUME (\E i \in 1 .. NumAggs : Aggs[i] = "avg") => CountLast
    PROVE  Spec => []GroupsExact
<1>1. ASSUME IInv
      PROVE  GroupsExact
  <2> SUFFICES ASSUME phase = "done", NEW g \in Groups, Alone(g)
               PROVE  /\ \E n \in DOMAIN output : output[n].group = g
                      /\ \A n \in DOMAIN output : output[n].group = g => output[n] = Expected(g)
    BY DEF GroupsExact
  <2>1. /\ input \in Inputs /\ DOMAIN pagesByGroups = {} /\ output \in Seq(Results)
        /\ \A n \in 1 .. Len(output) : \E h \in HashesOf(Accepted) : output[n] = ResultFor(h)
        /\ \A h \in HashesOf(Accepted) : \E n \in 1 .. Len(output) : output[n] = ResultFor(h)
    BY <1>1 DEF IInv, Aggregated, Finished
  <2>2. DOMAIN output = 1 .. Len(output) /\ Accepted \in Seq(Rows)
    BY <2>1, LenProperties, AcceptedRows
  <2>3. PICK h : h = HashVal([group |-> g])
    OBVIOUS
  <2>4. /\ h \in HashesOf(Accepted) /\ Under(Accepted, h) = Members(g)
        /\ \A i \in 1 .. Len(Members(g)) : Members(g)[i].group = g
    BY <2>1, <2>3, AloneMembers
  <2>5. \A k \in HashesOf(Accepted) : /\ Under(Accepted, k) \in Seq(Rows)
                                      /\ Len(Under(Accepted, k)) \in 1 .. Len(Under(Accepted, k))
                                      /\ HashVal([group |-> Last(Under(Accepted, k)).group]) = k
    <3> TAKE k \in HashesOf(Accepted)
    <3>1. Under(Accepted, k) \in Seq(Rows) /\ Under(Accepted, k) # << >>
      BY <2>2, UnderGrows, UnderHashes
    <3>2. Len(Under(Accepted, k)) \in 1 .. Len(Under(Accepted, k))
      BY <3>1, LenProperties, EmptySeq
    <3>3. HashVal(Last(Under(Accepted, k))) = k /\ Last(Under(Accepted, k)) \in Rows
      BY <2>2, <3>2, UnderHashes DEF Last
    <3> QED BY <3>1, <3>2, <3>3, HashOfGroup
  <2>6. ResultFor(h).group = g
    <3>1. Last(Members(g)).group = g
      BY <2>4, <2>5 DEF Last
    <3> QED BY <2>4, <3>1 DEF ResultFor
  <2>7. ResultFor(h) = Expected(g)
    <3>1. Members(g) \in Seq(Rows)
      BY <2>4, <2>5
    <3>2. \A i \in 1 .. NumAggs : Totals(Members(g))[i] = IF Aggs[i] = "cnt" THEN Len(Members(g)) ELSE SumOf(i, Members(g))
      BY <3>1, TotalsAre
    <3>3. \A i \in 1 .. NumAggs : Aggs[i] \in {"sum", "avg", "cnt"}
      BY AggregateAssumption, ElementOfSeq DEF NumAggs
    <3>4. ASSUME NEW i \in 1 .. NumAggs
          PROVE  Result(i, Totals(Members(g)))
                    = CASE Aggs[i] = "sum" -> <<SumOf(i, Members(g)), 1>>
                        [] Aggs[i] = "avg" -> <<SumOf(i, Members(g)), Len(Members(g))>>
                        [] Aggs[i] = "cnt" -> <<Len(Members(g)), 1>>
      <4>1. CASE Aggs[i] = "sum"
        BY <3>2, <4>1 DEF Result
      <4>2. CASE Aggs[i] = "avg"
        <5>1. Totals(Members(g))[NumAggs] = Len(Members(g))
          BY <3>2, <4>2, SomeAggs DEF CountLast
        <5> QED BY <3>2, <4>2, <5>1 DEF Result
      <4>3. CASE Aggs[i] = "cnt"
        BY <3>2, <4>3 DEF Result
      <4> QED BY <3>3, <4>1, <4>2, <4>3
    <3>5. [i \in 1 .. NumAggs |-> Result(i, Totals(Members(g)))]
             = [i \in 1 .. NumAggs |-> CASE Aggs[i] = "sum" -> <<SumOf(i, Members(g)), 1>>
                                         [] Aggs[i] = "avg" -> <<SumOf(i, Members(g)), Len(Members(g))>>
                                         [] Aggs[i] = "cnt" -> <<Len(Members(g)), 1>>]
      BY <3>4
    <3>6. ResultFor(h) = [group |-> g, aggs |-> [i \in 1 .. NumAggs |-> Result(i, Totals(Members(g)))]]
      BY <2>4, <2>6 DEF ResultFor
    <3> QED BY <3>5, <3>6 DEF Expected
  <2>8. \E n \in DOMAIN output : output[n].group = g
    BY <2>1, <2>2, <2>4, <2>6
  <2>9. \A n \in DOMAIN output : output[n].group = g => output[n] = Expected(g)
    <3> SUFFICES ASSUME NEW n \in 1 .. Len(output), output[n].group = g
                 PROVE  output[n] = Expected(g)
      BY <2>2
    <3>1. PICK k \in HashesOf(Accepted) : output[n] = ResultFor(k)
      BY <2>1
    <3>2. ResultFor(k).group = Last(Under(Accepted, k)).group
      BY DEF ResultFor
    <3>3. Last(Under(Accepted, k)).group = g
      BY <3>1, <3>2
    <3>4. k = h
      BY <2>3, <2>5, <3>3
    <3> QED BY <2>7, <3>1, <3>4
  <2> QED BY <2>8, <2>9
<1> QED
  BY <1>1, AggregateInvariant, PTL

=============================================================================
