--------------------------- MODULE SequenceLemmas ---------------------------
(***************************************************************************)
(* Lemmas about sequences, prefixes, folds and recursive functions that    *)
(* the proofs about several components rest on, and what the iterators     *)
(* over the pages of a table read, for tables and pages of any size.       *)
(***************************************************************************)
EXTENDS TableIterators, StableSorting, SequencesExt, SequenceTheorems, FunctionTheorems, FiniteSetTheorems,
        WellFoundedInduction, TLAPS

-----------------------------------------------------------------------------
(* Induction, about sets: every set of numbers has a least one, and a set  *)
(* that holds 0 and with each number the next holds them all.              *)
LEMMA LeastNumber ==
    ASSUME NEW T, T \subseteq Nat, T # {}
    PROVE  \E x \in T : \A y \in T : ~ (y < x)
<1>1. \E R : /\ R = {ss \in Nat \X Nat : ss[1] < ss[2]}
             /\ \E x \in T : \A y \in T : ~ (<<y, x>> \in R)
  BY Zenon, WFMin, NatLessThanWellFounded DEF OpToRel
<1> QED
  BY <1>1

(* A set that holds 0, and with each number the next, holds all numbers.   *)
LEMMA SetInduction ==
    ASSUME NEW S, 0 \in S, \A n \in Nat : n \in S => n + 1 \in S
    PROVE  Nat \subseteq S
<1> SUFFICES ASSUME NEW m \in Nat \ S
             PROVE  FALSE
  OBVIOUS
<1>1. PICK x \in Nat \ S : \A y \in Nat \ S : ~ (y < x)
  BY LeastNumber
<1>2. x # 0 /\ x - 1 \in Nat /\ x - 1 < x
  BY <1>1
<1>3. x - 1 \in S
  BY <1>1, <1>2
<1>4. (x - 1) + 1 \in S
  BY <1>2, <1>3
<1> QED
  BY <1>1, <1>4

(* A function on numbers is given by its first value x and by what each    *)
(* step makes of a value.                                                  *)
Recurs(f, x, step) == f[0] = x /\ \A n \in Nat : f[n + 1] = step[n][f[n]]

(* There is such a function for every first value and every step.          *)
LEMMA PrimitiveRecursion ==
    ASSUME NEW X, NEW x \in X, NEW step \in [Nat -> [X -> X]]
    PROVE  \E f \in [Nat -> X] : Recurs(f, x, step)
<1> DEFINE Upto(n, f) == /\ f \in [0 .. n -> X] /\ f[0] = x
                         /\ \A m \in Nat : m < n => f[m + 1] = step[m][f[m]]
           S == {n \in Nat : \E f \in [0 .. n -> X] : Upto(n, f)}
<1>1. 0 \in S
  <2> DEFINE f == [m \in 0 .. 0 |-> x]
  <2>1. f \in [0 .. 0 -> X] /\ Upto(0, f)
    OBVIOUS
  <2> QED BY <2>1
<1>2. \A n \in Nat : n \in S => n + 1 \in S
  <2> SUFFICES ASSUME NEW n \in Nat, n \in S
               PROVE  \E g \in [0 .. n + 1 -> X] : Upto(n + 1, g)
    <3> HIDE DEF Upto
    <3> QED OBVIOUS
  <2> PICK f \in [0 .. n -> X] : Upto(n, f)
    OBVIOUS
  <2> DEFINE g == [m \in 0 .. n + 1 |-> IF m = n + 1 THEN step[n][f[n]] ELSE f[m]]
  <2>1. g \in [0 .. n + 1 -> X]
    OBVIOUS
  <2>2. g[0] = x
    OBVIOUS
  <2>3. ASSUME NEW m \in Nat, m < n + 1
        PROVE  g[m + 1] = step[m][g[m]]
    <3>1. CASE m = n
      BY <3>1
    <3>2. CASE m # n
      <4>1. m < n /\ m \in 0 .. n /\ m + 1 \in 0 .. n /\ m + 1 # n + 1 /\ m # n + 1
        BY <2>3, <3>2
      <4> QED BY <4>1
    <3> QED BY <3>1, <3>2
  <2> HIDE DEF g
  <2> QED BY <2>1, <2>2, <2>3
<1>3. Nat \subseteq S
  <2> HIDE DEF S
  <2> QED BY <1>1, <1>2, SetInduction
<1> DEFINE h == [n \in Nat |-> CHOOSE f \in [0 .. n -> X] : Upto(n, f)]
<1>4. \A n \in Nat : h[n] \in [0 .. n -> X] /\ Upto(n, h[n])
  BY <1>3
<1>5. \A k \in Nat, n \in Nat, m \in Nat : k <= n /\ k <= m => h[n][k] = h[m][k]
  <2> DEFINE T == {k \in Nat : \A n, m \in Nat : k <= n /\ k <= m => h[n][k] = h[m][k]}
  <2> HIDE DEF h
  <2>1. 0 \in T
    BY <1>4
  <2>2. \A k \in Nat : k \in T => k + 1 \in T
    <3> SUFFICES ASSUME NEW k \in Nat, k \in T, NEW n \in Nat, NEW m \in Nat, k + 1 <= n, k + 1 <= m
                 PROVE  h[n][k + 1] = h[m][k + 1]
      OBVIOUS
    <3>1. k < n /\ k < m /\ k <= n /\ k <= m
      OBVIOUS
    <3>2. h[n][k] = h[m][k]
      BY <3>1
    <3>3. h[n][k + 1] = step[k][h[n][k]] /\ h[m][k + 1] = step[k][h[m][k]]
      BY <1>4, <3>1
    <3> QED BY <3>2, <3>3
  <2>3. Nat \subseteq T
    <3> HIDE DEF T
    <3> QED BY <2>1, <2>2, SetInduction
  <2> QED BY <2>3
<1> DEFINE f == [n \in Nat |-> h[n][n]]
<1> HIDE DEF h, Upto
<1>6. f \in [Nat -> X] /\ f[0] = x
  BY <1>4 DEF Upto
<1>7. ASSUME NEW n \in Nat
      PROVE  f[n + 1] = step[n][f[n]]
  <2>1. h[n + 1][n + 1] = step[n][h[n + 1][n]]
    BY <1>4 DEF Upto
  <2>2. h[n + 1][n] = h[n][n]
    BY <1>5
  <2> QED BY <2>1, <2>2
<1> QED
  BY <1>6, <1>7 DEF Recurs

-----------------------------------------------------------------------------
(* The first element of a sequence, and what is left without it.           *)
LEMMA HeadAndTail ==
    ASSUME NEW S, NEW s \in Seq(S), s # << >>
    PROVE  /\ Len(s) \in Nat \ {0} /\ DOMAIN s = 1 .. Len(s)
           /\ Head(s) = s[1] /\ Head(s) \in ToSet(s) /\ ToSet(s) \subseteq S
           /\ Tail(s) \in Seq(S) /\ Len(Tail(s)) = Len(s) - 1
           /\ \A i \in 1 .. Len(s) - 1 : Tail(s)[i] = s[i + 1]
           /\ ToSet(s) = {Head(s)} \cup ToSet(Tail(s))
           /\ Tail(s) # << >> <=> Len(s) > 1
<1>1. /\ Len(s) \in Nat \ {0} /\ DOMAIN s = 1 .. Len(s)
      /\ Head(s) = s[1] /\ \A i \in 1 .. Len(s) : s[i] \in S
  BY EmptySeq, LenProperties, ElementOfSeq
<1>2. /\ Tail(s) \in Seq(S) /\ Len(Tail(s)) = Len(s) - 1
      /\ \A i \in 1 .. Len(s) - 1 : Tail(s)[i] = s[i + 1]
  BY <1>1, HeadTailProperties
<1>3. DOMAIN Tail(s) = 1 .. Len(s) - 1
  BY <1>2, LenProperties
<1>4. ToSet(s) = {Head(s)} \cup ToSet(Tail(s))
  <2>1. ASSUME NEW i \in DOMAIN s
        PROVE  s[i] \in {Head(s)} \cup ToSet(Tail(s))
    <3>1. CASE i = 1
      BY <1>1, <3>1
    <3>2. CASE i # 1
      <4>1. i - 1 \in 1 .. Len(s) - 1 /\ Tail(s)[i - 1] = s[i]
        BY <1>1, <1>2, <3>2
      <4> QED BY <1>3, <4>1 DEF ToSet
    <3> QED BY <3>1, <3>2
  <2>2. ASSUME NEW i \in DOMAIN Tail(s)
        PROVE  Tail(s)[i] \in ToSet(s)
    <3>1. i + 1 \in DOMAIN s /\ Tail(s)[i] = s[i + 1]
      BY <1>1, <1>2, <1>3
    <3> QED BY <3>1 DEF ToSet
  <2>3. Head(s) \in ToSet(s)
    BY <1>1 DEF ToSet
  <2> QED BY <2>1, <2>2, <2>3 DEF ToSet
<1>5. Tail(s) # << >> <=> Len(s) > 1
  <2>1. Tail(s) = << >> <=> Len(Tail(s)) = 0
    BY <1>2, EmptySeq
  <2> QED BY <1>1, <1>2, <2>1
<1> QED
  BY <1>1, <1>2, <1>4, <1>5 DEF ToSet

(* One more element.                                                       *)
LEMMA AppendedSet ==
    ASSUME NEW S, NEW s \in Seq(S), NEW x \in S
    PROVE  Append(s, x) \in Seq(S) /\ ToSet(Append(s, x)) = ToSet(s) \cup {x}
<1>1. /\ Append(s, x) \in Seq(S) /\ Len(Append(s, x)) = Len(s) + 1
      /\ \A i \in 1 .. Len(s) : Append(s, x)[i] = s[i]
      /\ Append(s, x)[Len(s) + 1] = x
  BY AppendProperties
<1>2. /\ Len(s) \in Nat /\ DOMAIN s = 1 .. Len(s)
      /\ DOMAIN Append(s, x) = 1 .. Len(s) + 1
  BY <1>1, LenProperties
<1>3. \A i \in 1 .. Len(s) + 1 : i \in 1 .. Len(s) \/ i = Len(s) + 1
  BY <1>2
<1>4. Len(s) + 1 \in 1 .. Len(s) + 1 /\ \A i \in 1 .. Len(s) : i \in 1 .. Len(s) + 1
  BY <1>2
<1> QED
  BY <1>1, <1>2, <1>3, <1>4 DEF ToSet

(* Sequences put behind one another.                                       *)
LEMMA Concatenated ==
    ASSUME NEW S, NEW s \in Seq(S), NEW t \in Seq(S)
    PROVE  s \o t \in Seq(S) /\ ToSet(s \o t) = ToSet(s) \cup ToSet(t)
<1>1. /\ s \o t \in Seq(S) /\ Len(s \o t) = Len(s) + Len(t)
      /\ \A i \in 1 .. Len(s) + Len(t) :
            (s \o t)[i] = IF i <= Len(s) THEN s[i] ELSE t[i - Len(s)]
  BY ConcatProperties
<1>2. /\ Len(s) \in Nat /\ DOMAIN s = 1 .. Len(s)
      /\ Len(t) \in Nat /\ DOMAIN t = 1 .. Len(t)
      /\ DOMAIN (s \o t) = 1 .. Len(s) + Len(t)
  BY <1>1, LenProperties
<1>3. \A i \in 1 .. Len(s) : i \in 1 .. Len(s) + Len(t) /\ (s \o t)[i] = s[i]
  BY <1>1, <1>2
<1>4. \A i \in 1 .. Len(t) : i + Len(s) \in 1 .. Len(s) + Len(t) /\ (s \o t)[i + Len(s)] = t[i]
  <2> TAKE i \in 1 .. Len(t)
  <2>1. i + Len(s) \in 1 .. Len(s) + Len(t) /\ ~ (i + Len(s) <= Len(s)) /\ (i + Len(s)) - Len(s) = i
    BY <1>2
  <2> QED BY <1>1, <2>1
<1>5. \A i \in 1 .. Len(s) + Len(t) : \/ i \in 1 .. Len(s)
                                      \/ i - Len(s) \in 1 .. Len(t) /\ (i - Len(s)) + Len(s) = i
  BY <1>2
<1>6. ToSet(s \o t) \subseteq ToSet(s) \cup ToSet(t)
  <2> SUFFICES ASSUME NEW i \in 1 .. Len(s) + Len(t)
               PROVE  (s \o t)[i] \in ToSet(s) \cup ToSet(t)
    BY <1>2 DEF ToSet
  <2> QED BY <1>2, <1>3, <1>4, <1>5 DEF ToSet
<1>7. ToSet(s) \cup ToSet(t) \subseteq ToSet(s \o t)
  BY <1>2, <1>3, <1>4 DEF ToSet
<1> QED
  BY <1>1, <1>6, <1>7

(* There is a function that puts a sequence of sequences together, as      *)
(* FlattenSeq defines it.                                                  *)
LEMMA FlattensBy ==
    ASSUME NEW S, NEW seqs \in Seq(Seq(S)), Len(seqs) # 0
    PROVE  \E f : f = [i \in 1 .. Len(seqs) |-> IF i = 1 THEN seqs[i] ELSE f[i - 1] \o seqs[i]]
<1>1. Len(seqs) \in Nat /\ \A i \in 1 .. Len(seqs) : seqs[i] \in Seq(S)
  BY LenProperties, ElementOfSeq
<1> DEFINE step == [n \in Nat |-> [s \in Seq(S) |-> IF n + 2 \in 1 .. Len(seqs) THEN s \o seqs[n + 2] ELSE s]]
<1>2. step \in [Nat -> [Seq(S) -> Seq(S)]]
  BY <1>1
<1>3. seqs[1] \in Seq(S)
  BY <1>1
<1> HIDE DEF step
<1>4. PICK f \in [Nat -> Seq(S)] : Recurs(f, seqs[1], step)
  BY <1>2, <1>3, PrimitiveRecursion
<1> DEFINE g == [i \in 1 .. Len(seqs) |-> f[i - 1]]
<1>5. g = [i \in 1 .. Len(seqs) |-> IF i = 1 THEN seqs[i] ELSE g[i - 1] \o seqs[i]]
  <2>1. ASSUME NEW i \in 1 .. Len(seqs), i # 1
        PROVE  g[i] = g[i - 1] \o seqs[i]
    <3>1. i - 2 \in Nat /\ (i - 2) + 1 = i - 1 /\ (i - 2) + 2 = i /\ i - 1 \in 1 .. Len(seqs) /\ (i - 1) - 1 = i - 2
      BY <1>1, <2>1
    <3>2. f[i - 1] = step[i - 2][f[i - 2]]
      BY <1>4, <3>1 DEF Recurs
    <3>3. step[i - 2][f[i - 2]] = f[i - 2] \o seqs[i]
      BY <3>1 DEF step
    <3> QED BY <3>1, <3>2, <3>3
  <2>2. ASSUME 1 \in 1 .. Len(seqs)
        PROVE  g[1] = seqs[1]
    BY <1>4, <2>2 DEF Recurs
  <2> QED BY <2>1, <2>2
<1> HIDE DEF g
<1> QED
  BY <1>5

(* FlattenSeq: the elements of all sequences, and no other.                *)
LEMMA Flattened ==
    ASSUME NEW S, NEW seqs \in Seq(Seq(S))
    PROVE  /\ FlattenSeq(seqs) \in Seq(S)
           /\ ToSet(FlattenSeq(seqs)) = UNION {ToSet(seqs[i]) : i \in DOMAIN seqs}
<1>1. Len(seqs) \in Nat /\ DOMAIN seqs = 1 .. Len(seqs) /\ \A i \in 1 .. Len(seqs) : seqs[i] \in Seq(S)
  BY LenProperties, ElementOfSeq
<1>2. CASE Len(seqs) = 0
  <2>1. seqs = << >> /\ DOMAIN seqs = {}
    BY <1>1, <1>2, EmptySeq
  <2>2. FlattenSeq(seqs) = << >>
    BY <1>2, <2>1 DEF FlattenSeq
  <2>3. << >> \in Seq(S) /\ ToSet(<< >>) = {}
    BY DEF ToSet
  <2>4. UNION {ToSet(seqs[i]) : i \in DOMAIN seqs} = {}
    BY <2>1
  <2> QED BY <2>2, <2>3, <2>4
<1>3. CASE Len(seqs) # 0
  <2> DEFINE flatten[i \in 1 .. Len(seqs)] == IF i = 1 THEN seqs[i] ELSE flatten[i - 1] \o seqs[i]
  <2>1. flatten = [i \in 1 .. Len(seqs) |-> IF i = 1 THEN seqs[i] ELSE flatten[i - 1] \o seqs[i]]
    <3>1. \E f : f = [i \in 1 .. Len(seqs) |-> IF i = 1 THEN seqs[i] ELSE f[i - 1] \o seqs[i]]
      BY <1>3, FlattensBy
    <3> QED BY <3>1
  <2> HIDE DEF flatten
  <2>2. FlattenSeq(seqs) = flatten[Len(seqs)]
    BY <1>3 DEF FlattenSeq, flatten
  <2> DEFINE Flat(i) == /\ flatten[i] \in Seq(S)
                        /\ ToSet(flatten[i]) = UNION {ToSet(seqs[j]) : j \in 1 .. i}
             T == {n \in Nat : n + 1 \in 1 .. Len(seqs) => Flat(n + 1)}
  <2>3. 0 \in T
    <3>1. flatten[1] = seqs[1] /\ seqs[1] \in Seq(S) /\ 1 .. 1 = {1}
      BY <1>1, <1>3, <2>1
    <3>2. Flat(1)
      BY <3>1
    <3> HIDE DEF Flat
    <3> QED BY <3>2
  <2>4. \A n \in Nat : n \in T => n + 1 \in T
    <3> SUFFICES ASSUME NEW n \in Nat, n \in T, n + 2 \in 1 .. Len(seqs)
                 PROVE  Flat(n + 2)
      <4>1. \A n \in Nat : (n + 1) + 1 = n + 2 /\ n + 1 \in Nat
        OBVIOUS
      <4> HIDE DEF Flat
      <4> QED BY <4>1
    <3>1. n + 1 \in 1 .. Len(seqs) /\ n + 2 # 1 /\ (n + 2) - 1 = n + 1
      BY <1>1
    <3>2. Flat(n + 1)
      BY <3>1
    <3>3. flatten[n + 2] = flatten[n + 1] \o seqs[n + 2] /\ seqs[n + 2] \in Seq(S)
      BY <1>1, <2>1, <3>1
    <3>4. 1 .. n + 2 = 1 .. n + 1 \cup {n + 2}
      OBVIOUS
    <3>5. /\ flatten[n + 2] \in Seq(S)
          /\ ToSet(flatten[n + 2]) = ToSet(flatten[n + 1]) \cup ToSet(seqs[n + 2])
      BY <3>2, <3>3, Concatenated, SMTT(30)
    <3> QED BY <3>2, <3>4, <3>5
  <2>5. Nat \subseteq T
    <3> HIDE DEF T
    <3> QED BY <2>3, <2>4, SetInduction
  <2>6. Len(seqs) - 1 \in Nat /\ (Len(seqs) - 1) + 1 = Len(seqs) /\ Len(seqs) \in 1 .. Len(seqs)
    BY <1>1, <1>3
  <2>7. Flat(Len(seqs))
    <3> HIDE DEF Flat
    <3>1. Len(seqs) - 1 \in T
      BY <2>5, <2>6
    <3> QED BY <2>6, <3>1
  <2> QED BY <1>1, <2>2, <2>7
<1> QED
  BY <1>2, <1>3

-----------------------------------------------------------------------------
(* Sequences whose elements are in an order: what stands before is related *)
(* to what stands behind.                                                  *)
OrderedBy(s, R) == \A i, j \in 1 .. Len(s) : i < j => <<s[i], s[j]>> \in R

(* Ordered sequences behind one another, if each element of an earlier one *)
(* is related to each of a later one.                                      *)
LEMMA OrderedConcat ==
    ASSUME NEW S, NEW R, NEW s \in Seq(S), NEW t \in Seq(S), OrderedBy(s, R), OrderedBy(t, R),
           \A x \in ToSet(s), y \in ToSet(t) : <<x, y>> \in R
    PROVE  OrderedBy(s \o t, R)
<1>1. /\ s \o t \in Seq(S) /\ Len(s \o t) = Len(s) + Len(t)
      /\ \A i \in 1 .. Len(s) + Len(t) :
            (s \o t)[i] = IF i <= Len(s) THEN s[i] ELSE t[i - Len(s)]
  BY ConcatProperties
<1>2. /\ Len(s) \in Nat /\ DOMAIN s = 1 .. Len(s)
      /\ Len(t) \in Nat /\ DOMAIN t = 1 .. Len(t)
  BY LenProperties
<1>3. PICK m, n, st : m = Len(s) /\ n = Len(t) /\ st = s \o t
  OBVIOUS
<1> SUFFICES ASSUME NEW i \in 1 .. m + n, NEW j \in 1 .. m + n, i < j
             PROVE  <<st[i], st[j]>> \in R
  BY <1>1, <1>3 DEF OrderedBy
<1>4. /\ m \in Nat /\ n \in Nat /\ DOMAIN s = 1 .. m /\ DOMAIN t = 1 .. n
      /\ st[i] = IF i <= m THEN s[i] ELSE t[i - m]
      /\ st[j] = IF j <= m THEN s[j] ELSE t[j - m]
  BY <1>1, <1>2, <1>3
<1>5. CASE j <= m
  <2>1. i \in 1 .. m /\ j \in 1 .. m /\ i <= m
    BY <1>4, <1>5
  <2> QED BY <1>3, <1>4, <1>5, <2>1 DEF OrderedBy
<1>6. CASE i <= m /\ ~ (j <= m)
  <2>1. i \in 1 .. m /\ j - m \in 1 .. n
    BY <1>4, <1>6
  <2>2. s[i] \in ToSet(s) /\ t[j - m] \in ToSet(t)
    BY <1>4, <2>1 DEF ToSet
  <2> QED BY <1>4, <1>6, <2>2
<1>7. CASE ~ (i <= m)
  <2>1. i - m \in 1 .. n /\ j - m \in 1 .. n /\ i - m < j - m /\ ~ (j <= m)
    BY <1>4, <1>7
  <2> QED BY <1>3, <1>4, <1>7, <2>1 DEF OrderedBy
<1> QED
  BY <1>5, <1>6, <1>7

(* FlattenSeq of ordered sequences, the earlier ones before the later.     *)
LEMMA OrderedFlat ==
    ASSUME NEW S, NEW R, NEW seqs \in Seq(Seq(S)),
           \A i \in DOMAIN seqs : OrderedBy(seqs[i], R),
           \A i, j \in DOMAIN seqs : i < j =>
              \A x \in ToSet(seqs[i]), y \in ToSet(seqs[j]) : <<x, y>> \in R
    PROVE  OrderedBy(FlattenSeq(seqs), R)
<1>1. Len(seqs) \in Nat /\ DOMAIN seqs = 1 .. Len(seqs) /\ \A i \in 1 .. Len(seqs) : seqs[i] \in Seq(S)
  BY LenProperties, ElementOfSeq
<1>2. CASE Len(seqs) = 0
  <2>1. seqs = << >>
    BY <1>1, <1>2, EmptySeq
  <2>2. FlattenSeq(seqs) = << >>
    BY <1>2, <2>1 DEF FlattenSeq
  <2>3. Len(<< >>) = 0 /\ 1 .. 0 = {}
    OBVIOUS
  <2> QED BY <2>2, <2>3 DEF OrderedBy
<1>3. CASE Len(seqs) # 0
  <2> DEFINE flatten[i \in 1 .. Len(seqs)] == IF i = 1 THEN seqs[i] ELSE flatten[i - 1] \o seqs[i]
  <2>1. flatten = [i \in 1 .. Len(seqs) |-> IF i = 1 THEN seqs[i] ELSE flatten[i - 1] \o seqs[i]]
    <3>1. \E f : f = [i \in 1 .. Len(seqs) |-> IF i = 1 THEN seqs[i] ELSE f[i - 1] \o seqs[i]]
      BY <1>3, FlattensBy
    <3> QED BY <3>1
  <2> HIDE DEF flatten
  <2>2. FlattenSeq(seqs) = flatten[Len(seqs)]
    BY <1>3 DEF FlattenSeq, flatten
  <2> DEFINE Flat(i) == /\ flatten[i] \in Seq(S)
                        /\ ToSet(flatten[i]) = UNION {ToSet(seqs[j]) : j \in 1 .. i}
                        /\ OrderedBy(flatten[i], R)
             T == {n \in Nat : n + 1 \in 1 .. Len(seqs) => Flat(n + 1)}
  <2>3. 0 \in T
    <3>1. flatten[1] = seqs[1] /\ seqs[1] \in Seq(S) /\ 1 .. 1 = {1} /\ 1 \in DOMAIN seqs
      BY <1>1, <1>3, <2>1
    <3>2. Flat(1)
      BY <3>1
    <3> HIDE DEF Flat
    <3> QED BY <3>2
  <2>4. \A n \in Nat : n \in T => n + 1 \in T
    <3> SUFFICES ASSUME NEW n \in Nat, n \in T, n + 2 \in 1 .. Len(seqs)
                 PROVE  Flat(n + 2)
      <4>1. \A n \in Nat : (n + 1) + 1 = n + 2 /\ n + 1 \in Nat
        OBVIOUS
      <4> HIDE DEF Flat
      <4> QED BY <4>1
    <3>1. n + 1 \in 1 .. Len(seqs) /\ n + 2 # 1 /\ (n + 2) - 1 = n + 1
      BY <1>1
    <3>2. Flat(n + 1)
      BY <3>1
    <3>3. flatten[n + 2] = flatten[n + 1] \o seqs[n + 2] /\ seqs[n + 2] \in Seq(S)
      BY <1>1, <2>1, <3>1
    <3>4. 1 .. n + 2 = 1 .. n + 1 \cup {n + 2}
      OBVIOUS
    <3>5. /\ flatten[n + 2] \in Seq(S)
          /\ ToSet(flatten[n + 2]) = ToSet(flatten[n + 1]) \cup ToSet(seqs[n + 2])
      <4>1. flatten[n + 1] \in Seq(S)
        BY <3>2
      <4> HIDE DEF Flat, T
      <4> QED BY <3>3, <4>1, Concatenated
    <3>6. \A x \in ToSet(flatten[n + 1]), y \in ToSet(seqs[n + 2]) : <<x, y>> \in R
      <4> SUFFICES ASSUME NEW j \in 1 .. n + 1, NEW x \in ToSet(seqs[j]), NEW y \in ToSet(seqs[n + 2])
                   PROVE  <<x, y>> \in R
        BY <3>2
      <4>1. j \in DOMAIN seqs /\ n + 2 \in DOMAIN seqs /\ j < n + 2
        BY <1>1, <3>1
      <4> QED BY <4>1
    <3>7. OrderedBy(flatten[n + 2], R)
      <4>1. OrderedBy(flatten[n + 1], R) /\ OrderedBy(seqs[n + 2], R) /\ flatten[n + 1] \in Seq(S)
        BY <1>1, <3>2
      <4> QED BY <3>3, <3>6, <4>1, OrderedConcat
    <3>8. ToSet(flatten[n + 2]) = UNION {ToSet(seqs[j]) : j \in 1 .. n + 2}
      BY <3>2, <3>4, <3>5
    <3> QED BY <3>5, <3>7, <3>8
  <2>5. Nat \subseteq T
    <3> HIDE DEF T
    <3> QED BY <2>3, <2>4, SetInduction
  <2>6. Len(seqs) - 1 \in Nat /\ (Len(seqs) - 1) + 1 = Len(seqs) /\ Len(seqs) \in 1 .. Len(seqs)
    BY <1>1, <1>3
  <2>7. Flat(Len(seqs))
    <3> HIDE DEF Flat
    <3>1. Len(seqs) - 1 \in T
      BY <2>5, <2>6
    <3> QED BY <2>6, <3>1
  <2> QED BY <2>2, <2>7
<1> QED
  BY <1>2, <1>3

-----------------------------------------------------------------------------
(* Stable sorting permutes a sequence, of any length.                      *)

(* The elements up to i, itself included.                                  *)
UpToElement(keys, i) == {j \in DOMAIN keys : j = i \/ Earlier(keys, j, i)}

(* An element's rank is a place in the sequence, and earlier elements have *)
(* smaller ranks.                                                          *)
LEMMA RanksFollowKeys ==
    ASSUME NEW n \in Nat, NEW keys \in [1 .. n -> Int]
    PROVE  /\ \A i \in 1 .. n : Rank(keys, i) \in 1 .. n
           /\ \A i, j \in 1 .. n : Earlier(keys, i, j) => Rank(keys, i) < Rank(keys, j)
<1>1. IsFiniteSet(1 .. n) /\ Cardinality(1 .. n) = n
  BY FS_Interval
<1>2. ASSUME NEW i \in 1 .. n
      PROVE  /\ i \in UpToElement(keys, i) /\ UpToElement(keys, i) \subseteq 1 .. n
             /\ IsFiniteSet(UpToElement(keys, i))
             /\ Rank(keys, i) = Cardinality(UpToElement(keys, i))
             /\ Rank(keys, i) \in Nat
  <2>1. i \in UpToElement(keys, i) /\ UpToElement(keys, i) \subseteq 1 .. n
    BY DEF UpToElement
  <2>2. IsFiniteSet(UpToElement(keys, i))
    BY <1>1, <2>1, FS_Subset
  <2> QED BY <2>1, <2>2, FS_CardinalityType DEF UpToElement, Rank
<1>3. ASSUME NEW i \in 1 .. n
      PROVE  Rank(keys, i) \in 1 .. n
  <2>1. Rank(keys, i) <= n
    BY <1>1, <1>2, FS_Subset
  <2>2. Rank(keys, i) # 0
    BY <1>2, FS_EmptySet
  <2> QED BY <1>2, <2>1, <2>2
<1>4. ASSUME NEW i \in 1 .. n, NEW j \in 1 .. n, Earlier(keys, i, j)
      PROVE  Rank(keys, i) < Rank(keys, j)
  <2>1. UpToElement(keys, i) \subseteq UpToElement(keys, j)
    BY <1>4 DEF UpToElement, Earlier
  <2>2. j \in UpToElement(keys, j) /\ j \notin UpToElement(keys, i)
    BY <1>4 DEF UpToElement, Earlier
  <2>3. UpToElement(keys, i) # UpToElement(keys, j)
    BY <2>2
  <2> QED BY <1>2, <2>1, <2>3, FS_Subset
<1> QED
  BY <1>3, <1>4

(* The arranged sequence is s with its elements moved by a permutation p   *)
(* that puts the keys in order and keeps equal ones in the order they had. *)
Arranges(p, n, keys) ==
    /\ p \in [1 .. n -> 1 .. n]
    /\ \A i \in 1 .. n : \E m \in 1 .. n : p[m] = i
    /\ \A a, b \in 1 .. n : a < b => Earlier(keys, p[a], p[b])
    /\ \A a, b \in 1 .. n : p[a] = p[b] => a = b

(* Stable sorting loses no element, repeats none, and puts them in order.  *)
THEOREM ArrangedIsPermuted ==
    ASSUME NEW n \in Nat, NEW keys \in [1 .. n -> Int], NEW s, DOMAIN s = 1 .. n
    PROVE  \E p : Arranges(p, n, keys) /\ Arranged(s, keys) = [m \in 1 .. n |-> s[p[m]]]
<1> DEFINE rank == [i \in 1 .. n |-> Rank(keys, i)]
           p == [m \in 1 .. n |-> CHOOSE i \in 1 .. n : Rank(keys, i) = m]
<1>1. \A i, j \in 1 .. n : i # j => Earlier(keys, i, j) \/ Earlier(keys, j, i)
  BY DEF Earlier
<1>2. \A i \in 1 .. n : Rank(keys, i) \in 1 .. n
  BY RanksFollowKeys
<1>3. \A i, j \in 1 .. n : Rank(keys, i) = Rank(keys, j) => i = j
  <2>1. ASSUME NEW i \in 1 .. n, NEW j \in 1 .. n, Earlier(keys, i, j)
        PROVE  Rank(keys, i) # Rank(keys, j)
    <3>1. Rank(keys, i) < Rank(keys, j)
      BY <2>1, RanksFollowKeys
    <3> QED BY <1>2, <3>1
  <2> QED BY <1>1, <2>1
<1>4. \A m \in 1 .. n : \E i \in 1 .. n : Rank(keys, i) = m
  <2>1. rank \in Injection(1 .. n, 1 .. n)
    BY <1>2, <1>3 DEF Injection, IsInjective
  <2>2. IsFiniteSet(1 .. n)
    BY FS_Interval
  <2>3. rank \in Surjection(1 .. n, 1 .. n)
    BY <2>1, <2>2, FS_Injection
  <2> QED BY <2>3 DEF Surjection
<1>5. \A m \in 1 .. n : p[m] \in 1 .. n /\ Rank(keys, p[m]) = m
  BY <1>4
<1>6. p \in [1 .. n -> 1 .. n]
  BY <1>5
<1>7. Arranged(s, keys) = [m \in 1 .. n |-> s[p[m]]]
  BY DEF Arranged
<1> HIDE DEF p
<1>8. \A i \in 1 .. n : p[Rank(keys, i)] = i
  BY <1>2, <1>3, <1>5
<1>9. \A a, b \in 1 .. n : a < b => Earlier(keys, p[a], p[b])
  <2>1. ASSUME NEW a \in 1 .. n, NEW b \in 1 .. n, a < b, Earlier(keys, p[b], p[a])
        PROVE  FALSE
    <3>1. Rank(keys, p[b]) < Rank(keys, p[a])
      BY <1>5, <2>1, RanksFollowKeys
    <3> QED BY <1>5, <2>1, <3>1
  <2> QED BY <1>1, <1>5, <2>1
<1>10. Arranges(p, n, keys)
  BY <1>2, <1>5, <1>6, <1>8, <1>9 DEF Arranges
<1> QED
  BY <1>7, <1>10

-----------------------------------------------------------------------------
(* The iterator of a page reads its records, in the order they lie on it.  *)
LEMMA OnPageReads ==
    ASSUME NEW S, NEW s \in Seq(S)
    PROVE  OnPage(s) = s
<1> DEFINE n == Len(s)
           advance[slot \in 1 .. Len(s) + 1] ==
              IF MoreOn(s, slot) THEN <<s[slot]>> \o advance[slot + 1] ELSE << >>
           rest == [slot \in 1 .. Len(s) + 1 |-> SubSeq(s, slot, Len(s))]
<1>1. n \in Nat
  BY LenProperties
<1>2. /\ \A k \in 1 .. n : rest[k] = <<s[k]>> \o rest[k + 1]
      /\ rest[n + 1] = << >> /\ rest[1] = s
  <2>1. ASSUME NEW k \in 1 .. n
        PROVE  rest[k] = <<s[k]>> \o rest[k + 1]
    <3>1. k \in 1 .. Len(s) + 1 /\ k + 1 \in 1 .. Len(s) + 1
      BY <1>1
    <3>2. SubSeq(s, k, Len(s)) = <<s[k]>> \o SubSeq(s, k + 1, Len(s))
      BY <1>1, SubSeqRecursiveFirst
    <3> QED BY <3>1, <3>2
  <2>2. SubSeq(s, n + 1, n) = << >>
    BY <1>1, SubSeqEmpty
  <2>3. SubSeq(s, 1, n) = s
    BY SubSeqFull
  <2> QED BY <1>1, <2>1, <2>2, <2>3
<1>3. \A slot \in 1 .. n + 1 : MoreOn(s, slot) <=> slot \in 1 .. n
  BY <1>1 DEF MoreOn
<1>4. rest = [slot \in 1 .. Len(s) + 1 |->
                 IF MoreOn(s, slot) THEN <<s[slot]>> \o rest[slot + 1] ELSE << >>]
  <2>1. rest = [slot \in 1 .. n + 1 |-> rest[slot]]
    OBVIOUS
  <2> HIDE DEF rest
  <2>2. ASSUME NEW slot \in 1 .. n + 1
        PROVE  rest[slot] = IF MoreOn(s, slot) THEN <<s[slot]>> \o rest[slot + 1] ELSE << >>
    <3>1. slot \in 1 .. n \/ slot = n + 1
      BY <1>1
    <3> QED BY <1>2, <1>3, <3>1
  <2> QED BY <2>1, <2>2, Zenon
<1>5. advance = [slot \in 1 .. Len(s) + 1 |->
                    IF MoreOn(s, slot) THEN <<s[slot]>> \o advance[slot + 1] ELSE << >>]
  <2> HIDE DEF rest
  <2> QED BY <1>4
<1> HIDE DEF advance, rest
<1>6. /\ \A k \in 1 .. n : advance[k] = <<s[k]>> \o advance[k + 1]
      /\ advance[n + 1] = << >>
  <2>1. \A k \in 1 .. n : k \in 1 .. n + 1
    BY <1>1
  <2>2. n + 1 \in 1 .. n + 1 /\ n + 1 \notin 1 .. n
    BY <1>1
  <2> QED BY <1>3, <1>5, <2>1, <2>2
<1> DEFINE T == {d \in Nat : d <= n => advance[(n + 1) - d] = rest[(n + 1) - d]}
<1>7. 0 \in T
  BY <1>1, <1>2, <1>6
<1>8. \A d \in Nat : d \in T => d + 1 \in T
  <2> SUFFICES ASSUME NEW d \in Nat, d \in T, d + 1 <= n
               PROVE  advance[(n + 1) - (d + 1)] = rest[(n + 1) - (d + 1)]
    OBVIOUS
  <2> PICK k \in 1 .. n : k = (n + 1) - (d + 1) /\ k + 1 = (n + 1) - d /\ d <= n
    BY <1>1
  <2>1. advance[k + 1] = rest[k + 1]
    OBVIOUS
  <2> QED BY <1>2, <1>6, <2>1
<1>9. Nat \subseteq T
  <2> HIDE DEF T
  <2> QED BY <1>7, <1>8, SetInduction
<1>10. advance[1] = s
  <2>1. n \in T /\ (n + 1) - n = 1
    BY <1>1, <1>9
  <2> QED BY <1>1, <1>2, <2>1
<1>11. OnPage(s) = advance[1]
  BY DEF OnPage, advance
<1> QED
  BY <1>10, <1>11

-----------------------------------------------------------------------------
(* The iterator over the pages low to high of a table: at each page it     *)
(* reads this page and goes on.                                            *)
OwnRecords(pages, regular, page) == IF page \in regular THEN pages[page] ELSE << >>

GoesOn(advance, pages, regular, low, high, last) ==
    \A page \in low .. last :
        advance[page] = OwnRecords(pages, regular, page)
                        \o (IF page = last \/ page = high THEN << >> ELSE advance[page + 1])

(* The scan is what such an iterator at page low gives.                    *)
LEMMA ScanGoesOn ==
    ASSUME NEW S, NEW pages, NEW regular, NEW high, NEW low \in Nat, NEW last \in Nat, low <= last,
           \A page \in low .. last : page \in regular => pages[page] \in Seq(S)
    PROVE  \E advance : /\ GoesOn(advance, pages, regular, low, high, last)
                        /\ ScanAlt(pages, regular, low, high, last) = advance[low]
<1> DEFINE Behind(page, s) == OwnRecords(pages, regular, page)
                              \o (IF page = last \/ page = high THEN << >> ELSE s)
           advance[page \in low .. last] ==
              (IF page \in regular THEN OnPage(pages[page]) ELSE << >>)
              \o (IF page = last \/ page = high THEN << >> ELSE advance[page + 1])
           step == [n \in Nat |-> [s \in Seq(S) |->
                      IF last - (n + 1) \in low .. last THEN Behind(last - (n + 1), s) ELSE s]]
<1>1. \A page \in low .. last :
         /\ OwnRecords(pages, regular, page) \in Seq(S)
         /\ OwnRecords(pages, regular, page) = IF page \in regular THEN OnPage(pages[page]) ELSE << >>
  <2>1. << >> \in Seq(S)
    OBVIOUS
  <2>2. \A page \in low .. last : page \in regular => OnPage(pages[page]) = pages[page]
    BY OnPageReads
  <2> QED BY <2>1, <2>2 DEF OwnRecords
<1>2. \A page \in low .. last, s \in Seq(S) : Behind(page, s) \in Seq(S)
  BY <1>1, ConcatProperties
<1>3. step \in [Nat -> [Seq(S) -> Seq(S)]]
  <2> HIDE DEF Behind
  <2> QED BY <1>2
<1>4. Behind(last, << >>) \in Seq(S)
  <2>1. last \in low .. last /\ << >> \in Seq(S)
    OBVIOUS
  <2> HIDE DEF Behind
  <2> QED BY <1>2, <2>1
<1>5. PICK f \in [Nat -> Seq(S)] : Recurs(f, Behind(last, << >>), step)
  <2> HIDE DEF Behind, step
  <2> QED BY <1>3, <1>4, PrimitiveRecursion
<1> DEFINE g == [page \in low .. last |-> f[last - page]]
<1>6. ASSUME NEW page \in low .. last
      PROVE  g[page] = Behind(page, g[page + 1])
  <2>1. CASE page = last
    <3>1. g[last] = f[0]
      OBVIOUS
    <3>2. f[0] = Behind(last, << >>)
      BY <1>5 DEF Recurs
    <3> QED BY <2>1, <3>1, <3>2
  <2>2. CASE page # last
    <3> PICK n \in Nat : last - page = n + 1 /\ last - (n + 1) = page /\ last - (page + 1) = n
      <4>1. last - page - 1 \in Nat
        BY <2>2
      <4> QED BY <4>1
    <3>1. page + 1 \in low .. last
      BY <2>2
    <3>2. f[n + 1] = step[n][f[n]]
      BY <1>5 DEF Recurs
    <3>3. step[n][f[n]] = Behind(page, f[n])
      <4> HIDE DEF Behind
      <4> QED OBVIOUS
    <3>4. g[page] = f[n + 1] /\ g[page + 1] = f[n]
      BY <3>1
    <3> HIDE DEF Behind, g, step
    <3> QED BY <3>2, <3>3, <3>4
  <2> QED BY <2>1, <2>2
<1>7. g = [page \in low .. last |->
              (IF page \in regular THEN OnPage(pages[page]) ELSE << >>)
              \o (IF page = last \/ page = high THEN << >> ELSE g[page + 1])]
  <2>1. g = [page \in low .. last |-> g[page]]
    OBVIOUS
  <2> HIDE DEF g
  <2>2. ASSUME NEW page \in low .. last
        PROVE  g[page] = (IF page \in regular THEN OnPage(pages[page]) ELSE << >>)
                         \o (IF page = last \/ page = high THEN << >> ELSE g[page + 1])
    BY <1>1, <1>6
  <2> QED BY <2>1, <2>2, Zenon
<1>8. advance = [page \in low .. last |->
              (IF page \in regular THEN OnPage(pages[page]) ELSE << >>)
              \o (IF page = last \/ page = high THEN << >> ELSE advance[page + 1])]
  <2> HIDE DEF g
  <2> QED BY <1>7
<1> HIDE DEF advance
<1>9. GoesOn(advance, pages, regular, low, high, last)
  <2> SUFFICES ASSUME NEW page \in low .. last
               PROVE  advance[page] = OwnRecords(pages, regular, page)
                          \o (IF page = last \/ page = high THEN << >> ELSE advance[page + 1])
    BY DEF GoesOn
  <2> QED BY <1>1, <1>8
<1>10. ScanAlt(pages, regular, low, high, last) = advance[low]
  BY DEF ScanAlt, advance
<1> QED
  BY <1>9, <1>10

(* As many records as there are on a page with no record twice.            *)
Once(s) == \A i, j \in 1 .. Len(s) : s[i] = s[j] => i = j

(* Its set of records has as many members as it has places.                *)
LEMMA OnceCounted ==
    ASSUME NEW S, NEW s \in Seq(S), Once(s)
    PROVE  IsFiniteSet(ToSet(s)) /\ Cardinality(ToSet(s)) = Len(s)
<1>1. Len(s) \in Nat /\ DOMAIN s = 1 .. Len(s) /\ s \in [1 .. Len(s) -> ToSet(s)]
  <2>1. Len(s) \in Nat /\ DOMAIN s = 1 .. Len(s) /\ s \in [1 .. Len(s) -> S]
    BY LenProperties
  <2>2. s \in [1 .. Len(s) -> ToSet(s)]
    BY <2>1 DEF ToSet
  <2> QED BY <2>1, <2>2
<1>2. s \in Bijection(1 .. Len(s), ToSet(s))
  <2>1. s \in Injection(1 .. Len(s), ToSet(s))
    BY <1>1 DEF Injection, IsInjective, Once
  <2>2. s \in Surjection(1 .. Len(s), ToSet(s))
    BY <1>1 DEF Surjection, ToSet
  <2> QED BY <2>1, <2>2 DEF Bijection
<1>3. ExistsBijection(1 .. Len(s), ToSet(s))
  BY <1>2 DEF ExistsBijection
<1>4. IsFiniteSet(1 .. Len(s)) /\ Cardinality(1 .. Len(s)) = Len(s)
  BY <1>1, FS_Interval
<1> QED
  BY <1>3, <1>4, FS_Bijection

(* The records of a table, each on one page and there once, are all read,  *)
(* and each of them once.                                                  *)
TableOf(pages, regular, last, S) ==
    /\ regular \subseteq 0 .. last
    /\ \A p \in regular : pages[p] \in Seq(S)
    /\ \A p, q \in regular : \A i \in 1 .. Len(pages[p]), j \in 1 .. Len(pages[q]) :
          pages[p][i] = pages[q][j] => p = q /\ i = j

OnPagesFrom(pages, regular, page) == UNION {ToSet(pages[q]) : q \in {r \in regular : r >= page}}

(* The scan of all pages gives the records of the regular ones, as many as *)
(* there are.                                                              *)
LEMMA ScanReadsAll ==
    ASSUME NEW S, NEW pages, NEW regular, NEW last \in Nat, TableOf(pages, regular, last, S),
           NEW high \in Nat, high >= last
    PROVE  LET scan == ScanAlt(pages, regular, 0, high, last) IN
           /\ ToSet(scan) = UNION {ToSet(pages[q]) : q \in regular}
           /\ Len(scan) = Cardinality(ToSet(scan))
<1>1. /\ \A p \in regular : p \in 0 .. last /\ pages[p] \in Seq(S)
      /\ \A p \in regular : DOMAIN pages[p] = 1 .. Len(pages[p]) /\ Len(pages[p]) \in Nat
  BY LenProperties DEF TableOf
<1>2. PICK advance : /\ GoesOn(advance, pages, regular, 0, high, last)
                     /\ ScanAlt(pages, regular, 0, high, last) = advance[0]
  BY <1>1, ScanGoesOn
<1> DEFINE behind(page) == OnPagesFrom(pages, regular, page)
           Read(page) == /\ advance[page] \in Seq(S) /\ ToSet(advance[page]) = behind(page)
                         /\ IsFiniteSet(behind(page)) /\ Len(advance[page]) = Cardinality(behind(page))
<1>3. ASSUME NEW page \in 0 .. last
      PROVE  LET own == OwnRecords(pages, regular, page) IN
             /\ own \in Seq(S) /\ IsFiniteSet(ToSet(own)) /\ Len(own) = Cardinality(ToSet(own))
             /\ behind(page) = ToSet(own) \cup behind(page + 1)
             /\ ToSet(own) \cap behind(page + 1) = {}
  <2> DEFINE own == OwnRecords(pages, regular, page)
  <2>1. own \in Seq(S) /\ Once(own)
    <3>1. CASE page \in regular
      BY <1>1, <3>1 DEF OwnRecords, Once, TableOf
    <3>2. CASE page \notin regular
      BY <3>2 DEF OwnRecords, Once
    <3> QED BY <3>1, <3>2
  <2>2. IsFiniteSet(ToSet(own)) /\ Len(own) = Cardinality(ToSet(own))
    <3> HIDE DEF own
    <3> QED BY <2>1, OnceCounted
  <2>3. \A q \in regular : q >= page <=> q = page \/ q >= page + 1
    BY <1>1
  <2>4. behind(page) = ToSet(own) \cup behind(page + 1) /\ ToSet(own) \cap behind(page + 1) = {}
    <3>1. CASE page \in regular
      <4>1. own = pages[page]
        BY <3>1 DEF OwnRecords
      <4>2. behind(page) = ToSet(pages[page]) \cup behind(page + 1)
        BY <2>3, <3>1 DEF OnPagesFrom
      <4>3. ASSUME NEW q \in regular, q >= page + 1, NEW x \in ToSet(pages[q]), x \in ToSet(pages[page])
            PROVE  FALSE
        <5>1. PICK i \in 1 .. Len(pages[q]) : x = pages[q][i]
          BY <1>1, <4>3 DEF ToSet
        <5>2. PICK j \in 1 .. Len(pages[page]) : x = pages[page][j]
          BY <1>1, <3>1, <4>3 DEF ToSet
        <5>3. pages[q][i] = pages[page][j]
          BY <5>1, <5>2
        <5>4. q = page
          BY <3>1, <5>3 DEF TableOf
        <5> QED BY <4>3, <5>4
      <4> QED BY <4>1, <4>2, <4>3 DEF OnPagesFrom
    <3>2. CASE page \notin regular
      <4>1. own = << >> /\ ToSet(<< >>) = {}
        BY <3>2 DEF OwnRecords, ToSet
      <4>2. {r \in regular : r >= page} = {r \in regular : r >= page + 1}
        BY <2>3, <3>2
      <4> QED BY <4>1, <4>2 DEF OnPagesFrom
    <3> QED BY <3>1, <3>2
  <2> QED BY <2>1, <2>2, <2>4
<1>4. behind(last + 1) = {} /\ behind(0) = UNION {ToSet(pages[q]) : q \in regular}
  <2>1. {r \in regular : r >= last + 1} = {} /\ {r \in regular : r >= 0} = regular
    BY <1>1
  <2> QED BY <2>1 DEF OnPagesFrom
<1>5. Read(last)
  <2>1. last \in 0 .. last
    OBVIOUS
  <2>2. advance[last] = OwnRecords(pages, regular, last) \o << >>
    BY <1>2, <2>1 DEF GoesOn
  <2>3. advance[last] = OwnRecords(pages, regular, last)
    BY <1>3, <2>1, <2>2, ConcatEmptySeq
  <2> PICK own : own = OwnRecords(pages, regular, last)
    OBVIOUS
  <2>4. /\ own \in Seq(S) /\ IsFiniteSet(ToSet(own)) /\ Len(own) = Cardinality(ToSet(own))
        /\ behind(last) = ToSet(own) \cup {}
    BY <1>3, <1>4, <2>1
  <2> HIDE DEF behind
  <2> QED BY <2>3, <2>4
<1>6. ASSUME NEW page \in 0 .. last, page # last, Read(page + 1)
      PROVE  Read(page)
  <2>1. PICK own : own = OwnRecords(pages, regular, page)
    OBVIOUS
  <2>2. page # high
    BY <1>6
  <2>3. advance[page] = own \o advance[page + 1]
    BY <1>2, <1>6, <2>1, <2>2 DEF GoesOn
  <2>4. /\ own \in Seq(S) /\ IsFiniteSet(ToSet(own)) /\ Len(own) = Cardinality(ToSet(own))
        /\ behind(page) = ToSet(own) \cup behind(page + 1)
        /\ ToSet(own) \cap behind(page + 1) = {}
    BY <1>3, <2>1
  <2> HIDE DEF behind
  <2>5. /\ advance[page] \in Seq(S) /\ ToSet(advance[page]) = behind(page)
        /\ Len(advance[page]) = Len(own) + Len(advance[page + 1])
    BY <1>6, <2>3, <2>4, Concatenated, ConcatProperties
  <2>6. /\ IsFiniteSet(behind(page))
        /\ Cardinality(behind(page)) =
              Cardinality(ToSet(own)) + Cardinality(behind(page + 1)) - Cardinality({})
    BY <1>6, <2>4, FS_Union
  <2>7. Cardinality({}) = 0 /\ Cardinality(ToSet(own)) \in Nat /\ Cardinality(behind(page + 1)) \in Nat
    BY <1>6, <2>4, FS_EmptySet, FS_CardinalityType
  <2> QED BY <1>6, <2>4, <2>5, <2>6, <2>7
<1> DEFINE T == {d \in Nat : d <= last => Read(last - d)}
<1>7. 0 \in T
  <2>1. last - 0 = last
    OBVIOUS
  <2> HIDE DEF Read
  <2> QED BY <1>5, <2>1
<1>8. \A d \in Nat : d \in T => d + 1 \in T
  <2> HIDE DEF Read
  <2> SUFFICES ASSUME NEW d \in Nat, d \in T, d + 1 <= last
               PROVE  Read(last - (d + 1))
    OBVIOUS
  <2> PICK page \in 0 .. last : page = last - (d + 1) /\ page + 1 = last - d /\ page # last /\ d <= last
    OBVIOUS
  <2>1. Read(page + 1)
    OBVIOUS
  <2> QED BY <1>6, <2>1
<1>9. Nat \subseteq T
  <2> HIDE DEF T
  <2> QED BY <1>7, <1>8, SetInduction
<1>10. Read(0)
  <2>1. last \in T /\ last - last = 0
    BY <1>9
  <2> HIDE DEF Read
  <2> QED BY <2>1
<1> QED
  BY <1>2, <1>4, <1>10

-----------------------------------------------------------------------------
(* A fold over the subsets of S is given by its value base at the empty    *)
(* set and by what step makes, with the member chosen, of its value        *)
(* without that member.                                                    *)
FoldsBy(f, base, chosen, step, S) ==
    \A s \in SUBSET S : f[s] = IF s = {} THEN base ELSE step[chosen[s]][f[s \ {chosen[s]}]]

(* There is such a fold over every finite set.                             *)
LEMMA FoldExists ==
    ASSUME NEW X, NEW base \in X, NEW S, IsFiniteSet(S), NEW step \in [S -> [X -> X]],
           NEW chosen, \A s \in SUBSET S : s # {} => chosen[s] \in s
    PROVE  \E f \in [SUBSET S -> X] : FoldsBy(f, base, chosen, step, S)
<1> DEFINE Small(n) == {s \in SUBSET S : Cardinality(s) <= n}
           Value(f, s) == IF s = {} THEN base ELSE step[chosen[s]][f[s \ {chosen[s]}]]
           T == {n \in Nat : \E f \in [Small(n) -> X] : \A s \in Small(n) : f[s] = Value(f, s)}
<1>1. \A s \in SUBSET S : IsFiniteSet(s) /\ Cardinality(s) \in Nat /\ (Cardinality(s) = 0 <=> s = {})
  BY FS_Subset, FS_CardinalityType, FS_EmptySet
<1>2. \A s \in SUBSET S : s # {} =>
         /\ s \ {chosen[s]} \in SUBSET S /\ chosen[s] \in S
         /\ Cardinality(s \ {chosen[s]}) = Cardinality(s) - 1
  BY <1>1, FS_RemoveElement
<1>3. 0 \in T
  <2>1. Small(0) = {{}}
    BY <1>1
  <2> DEFINE f == [s \in Small(0) |-> base]
  <2>2. f \in [Small(0) -> X] /\ \A s \in Small(0) : f[s] = Value(f, s)
    <3>1. \A s \in Small(0) : s = {} /\ f[s] = base
      BY <2>1
    <3> QED BY <3>1
  <2> QED BY <2>2
<1>4. \A n \in Nat : n \in T => n + 1 \in T
  <2> SUFFICES ASSUME NEW n \in Nat, n \in T
               PROVE  \E g \in [Small(n + 1) -> X] : \A s \in Small(n + 1) : g[s] = Value(g, s)
    <3> HIDE DEF Small, Value
    <3> QED OBVIOUS
  <2> PICK f \in [Small(n) -> X] : \A s \in Small(n) : f[s] = Value(f, s)
    OBVIOUS
  <2> DEFINE g == [s \in Small(n + 1) |-> Value(f, s)]
  <2>1. ASSUME NEW s \in Small(n + 1), s # {}
        PROVE  s \ {chosen[s]} \in Small(n) /\ s \ {chosen[s]} \in Small(n + 1)
    BY <1>1, <1>2, <2>1
  <2>2. g \in [Small(n + 1) -> X]
    <3> SUFFICES ASSUME NEW s \in Small(n + 1)
                 PROVE  Value(f, s) \in X
      OBVIOUS
    <3>1. CASE s = {}
      BY <3>1
    <3>2. CASE s # {}
      <4>1. f[s \ {chosen[s]}] \in X /\ chosen[s] \in S
        <5> HIDE DEF Small
        <5>1. s \ {chosen[s]} \in Small(n)
          BY <2>1, <3>2
        <5>2. chosen[s] \in S
          BY <1>2, <3>2 DEF Small
        <5> QED BY <5>1, <5>2
      <4>2. step[chosen[s]] \in [X -> X]
        BY <4>1
      <4>3. Value(f, s) = step[chosen[s]][f[s \ {chosen[s]}]]
        BY <3>2
      <4> HIDE DEF Value, Small
      <4>4. step[chosen[s]][f[s \ {chosen[s]}]] \in X
        BY <4>1, <4>2, Zenon
      <4> QED BY <4>3, <4>4
    <3> QED BY <3>1, <3>2
  <2>3. ASSUME NEW s \in Small(n + 1)
        PROVE  g[s] = Value(g, s)
    <3>1. CASE s = {}
      BY <3>1
    <3>2. CASE s # {}
      <4> DEFINE r == s \ {chosen[s]}
      <4>1. r \in Small(n) /\ r \in Small(n + 1)
        BY <2>1, <3>2
      <4>2. g[r] = f[r]
        <5>1. f[r] = Value(f, r)
          BY <4>1
        <5>2. g[r] = Value(f, r)
          BY <4>1
        <5> QED BY <5>1, <5>2
      <4>3. g[s] = Value(f, s)
        OBVIOUS
      <4> HIDE DEF g
      <4> QED BY <3>2, <4>2, <4>3
    <3> QED BY <3>1, <3>2
  <2> HIDE DEF g, Value, Small
  <2> QED BY <2>2, <2>3
<1>5. Nat \subseteq T
  <2> HIDE DEF T
  <2> QED BY <1>3, <1>4, SetInduction
<1>6. Cardinality(S) \in Nat /\ Small(Cardinality(S)) = SUBSET S
  BY FS_Subset, FS_CardinalityType
<1>7. Cardinality(S) \in T
  BY <1>5, <1>6
<1> HIDE DEF Small
<1> QED
  BY <1>6, <1>7 DEF FoldsBy

(* What holds of no member and, if it holds without some member, with that *)
(* member too, holds of every subset of a finite set.                      *)
LEMMA SubsetInduction ==
    ASSUME NEW S, IsFiniteSet(S), NEW P, {} \in P,
           \A s \in SUBSET S : s # {} /\ (\A x \in s : s \ {x} \in P) => s \in P
    PROVE  SUBSET S \subseteq P
<1> DEFINE T == {n \in Nat : \A s \in SUBSET S : Cardinality(s) = n => s \in P}
<1>1. \A s \in SUBSET S : IsFiniteSet(s) /\ Cardinality(s) \in Nat /\ (Cardinality(s) = 0 <=> s = {})
  BY FS_Subset, FS_CardinalityType, FS_EmptySet
<1>2. 0 \in T
  BY <1>1
<1>3. \A n \in Nat : n \in T => n + 1 \in T
  <2> SUFFICES ASSUME NEW n \in Nat, n \in T, NEW s \in SUBSET S, Cardinality(s) = n + 1
               PROVE  s \in P
    OBVIOUS
  <2>1. \A x \in s : Cardinality(s \ {x}) = n /\ s \ {x} \in SUBSET S
    <3> TAKE x \in s
    <3>1. IsFiniteSet(s) /\ Cardinality(s \ {x}) = Cardinality(s) - 1
      BY <1>1, FS_RemoveElement
    <3> QED BY <3>1
  <2>2. s # {} /\ \A x \in s : s \ {x} \in P
    BY <1>1, <2>1
  <2> QED BY <2>2
<1>4. Nat \subseteq T
  <2> HIDE DEF T
  <2> QED BY <1>2, <1>3, SetInduction
<1> QED
  BY <1>1, <1>4

(* The greatest of some of the places of a sequence, by which FoldLeft     *)
(* takes them.                                                             *)
LEMMA GreatestPlace ==
    ASSUME NEW n \in Nat
    PROVE  /\ \A s \in SUBSET (1 .. n) : s # {} => Max(s) \in s
           /\ \A k \in 0 .. n - 1 : Max(1 .. k + 1) = k + 1 /\ (1 .. k + 1) \ {k + 1} = 1 .. k
<1>1. ASSUME NEW s \in SUBSET (1 .. n), s # {}
      PROVE  Max(s) \in s
  <2> DEFINE T == {n - x : x \in s}
  <2>1. T \subseteq Nat /\ T # {}
    BY <1>1
  <2> PICK y \in T : \A z \in T : ~ (z < y)
    <3> HIDE DEF T
    <3> QED BY <2>1, LeastNumber
  <2> PICK x \in s : y = n - x
    OBVIOUS
  <2>2. \A z \in s : x >= z
    <3> TAKE z \in s
    <3>1. n - z \in T /\ x \in Nat /\ z \in Nat
      OBVIOUS
    <3> HIDE DEF T
    <3>2. ~ (n - z < n - x)
      BY <3>1
    <3> QED BY <3>1, <3>2
  <2> QED BY <2>2 DEF Max
<1>2. ASSUME NEW k \in 0 .. n - 1
      PROVE  Max(1 .. k + 1) = k + 1 /\ (1 .. k + 1) \ {k + 1} = 1 .. k
  <2>1. k + 1 \in 1 .. k + 1 /\ \A z \in 1 .. k + 1 : k + 1 >= z
    OBVIOUS
  <2>2. \A x \in 1 .. k + 1 : (\A z \in 1 .. k + 1 : x >= z) => x = k + 1
    OBVIOUS
  <2>3. Max(1 .. k + 1) = k + 1
    BY <2>1, <2>2 DEF Max
  <2>4. (1 .. k + 1) \ {k + 1} = 1 .. k
    OBVIOUS
  <2> QED BY <2>3, <2>4
<1> QED
  BY <1>1, <1>2

(* The smaller of two numbers.                                             *)
LEMMA MinOfTwo ==
    ASSUME NEW m \in Int, NEW n \in Int
    PROVE  Min({m, n}) = IF m <= n THEN m ELSE n
<1>1. \A x \in {m, n} : (\A y \in {m, n} : x <= y) <=> x = (IF m <= n THEN m ELSE n)
  OBVIOUS
<1>2. (IF m <= n THEN m ELSE n) \in {m, n}
  OBVIOUS
<1> QED
  BY <1>1, <1>2 DEF Min

-----------------------------------------------------------------------------
(* FlattenSeq with a sequence more: what the others give, then that one.   *)
LEMMA FlattenedLast ==
    ASSUME NEW S, NEW seqs \in Seq(Seq(S)), NEW more \in Seq(Seq(S)), NEW s \in Seq(S),
           Len(more) = Len(seqs) + 1, more[Len(more)] = s, \A i \in 1 .. Len(seqs) : more[i] = seqs[i]
    PROVE  FlattenSeq(more) = FlattenSeq(seqs) \o s
<1>1. /\ Len(seqs) \in Nat /\ \A i \in 1 .. Len(seqs) : seqs[i] \in Seq(S)
      /\ Len(more) \in Nat /\ Len(more) # 0 /\ \A i \in 1 .. Len(more) : more[i] \in Seq(S)
      /\ more # << >>
  BY LenProperties, ElementOfSeq, EmptySeq
<1> DEFINE flatmore[i \in 1 .. Len(more)] == IF i = 1 THEN more[i] ELSE flatmore[i - 1] \o more[i]
           flat[i \in 1 .. Len(seqs)] == IF i = 1 THEN seqs[i] ELSE flat[i - 1] \o seqs[i]
<1>2. flatmore = [i \in 1 .. Len(more) |-> IF i = 1 THEN more[i] ELSE flatmore[i - 1] \o more[i]]
  <2>1. \E f : f = [i \in 1 .. Len(more) |-> IF i = 1 THEN more[i] ELSE f[i - 1] \o more[i]]
    BY <1>1, FlattensBy
  <2> QED BY <2>1
<1>3. FlattenSeq(more) = flatmore[Len(more)]
  BY <1>1 DEF FlattenSeq, flatmore
<1>4. CASE Len(seqs) = 0
  <2>1. seqs = << >> /\ FlattenSeq(seqs) = << >>
    BY <1>1, <1>4, EmptySeq DEF FlattenSeq
  <2>2. flatmore[1] = s /\ Len(more) = 1
    BY <1>1, <1>2, <1>4
  <2> HIDE DEF flatmore
  <2> QED BY <1>3, <2>1, <2>2, ConcatEmptySeq
<1>5. CASE Len(seqs) # 0
  <2>1. flat = [i \in 1 .. Len(seqs) |-> IF i = 1 THEN seqs[i] ELSE flat[i - 1] \o seqs[i]]
    <3>1. \E f : f = [i \in 1 .. Len(seqs) |-> IF i = 1 THEN seqs[i] ELSE f[i - 1] \o seqs[i]]
      BY <1>5, FlattensBy
    <3> QED BY <3>1
  <2>2. FlattenSeq(seqs) = flat[Len(seqs)]
    <3>1. seqs # << >>
      BY <1>5
    <3> QED BY <3>1 DEF FlattenSeq, flat
  <2> HIDE DEF flat, flatmore
  <2> DEFINE T == {n \in Nat : n + 1 <= Len(seqs) => flatmore[n + 1] = flat[n + 1]}
  <2>3. 0 \in T
    BY <1>1, <1>2, <1>5, <2>1
  <2>4. \A n \in Nat : n \in T => n + 1 \in T
    <3> SUFFICES ASSUME NEW n \in Nat, n \in T, (n + 1) + 1 <= Len(seqs)
                 PROVE  flatmore[(n + 1) + 1] = flat[(n + 1) + 1]
      OBVIOUS
    <3> PICK k \in 1 .. Len(seqs) : k = (n + 1) + 1 /\ k - 1 = n + 1 /\ k # 1 /\ k \in 1 .. Len(more)
      BY <1>1
    <3>1. flatmore[k] = flatmore[k - 1] \o more[k] /\ flat[k] = flat[k - 1] \o seqs[k]
      BY <1>2, <2>1
    <3>2. flatmore[k - 1] = flat[k - 1] /\ more[k] = seqs[k]
      <4>1. n + 1 <= Len(seqs)
        BY <1>1
      <4> QED BY <4>1
    <3> QED BY <3>1, <3>2
  <2>5. Nat \subseteq T
    <3> HIDE DEF T
    <3> QED BY <2>3, <2>4, SetInduction
  <2>6. flatmore[Len(seqs)] = flat[Len(seqs)]
    <3> PICK n \in Nat : n + 1 = Len(seqs)
      <4>1. Len(seqs) - 1 \in Nat
        BY <1>1, <1>5
      <4>2. (Len(seqs) - 1) + 1 = Len(seqs)
        BY <1>1
      <4> QED BY <4>1, <4>2
    <3>1. n \in T
      BY <2>5
    <3> QED BY <3>1
  <2>7. flatmore[Len(more)] = flatmore[Len(more) - 1] \o more[Len(more)] /\ Len(more) - 1 = Len(seqs)
    <3> PICK k \in 1 .. Len(more) : k = Len(more) /\ k # 1 /\ k - 1 = Len(seqs)
      BY <1>1, <1>5
    <3> QED BY <1>2
  <2> QED BY <1>3, <2>2, <2>6, <2>7
<1> QED
  BY <1>4, <1>5

(* A prefix, place by place; and what a sequence is when another is put    *)
(* behind it.                                                              *)
LEMMA PrefixPlaces ==
    ASSUME NEW S, NEW s \in Seq(S), NEW t \in Seq(S)
    PROVE  IsPrefix(s, t) <=> Len(s) <= Len(t) /\ \A i \in 1 .. Len(s) : s[i] = t[i]
<1>1. Len(s) \in Nat /\ Len(t) \in Nat /\ DOMAIN s = 1 .. Len(s)
  BY LenProperties
<1>2. SubSeq(s, 1, Len(s)) = s
  BY SubSeqFull
<1>3. CASE Len(s) <= Len(t)
  <2>1. /\ SubSeq(t, 1, Len(s)) \in Seq(S) /\ Len(SubSeq(t, 1, Len(s))) = Len(s)
        /\ \A i \in 1 .. Len(s) : SubSeq(t, 1, Len(s))[i] = t[i]
    <3>1. \A i \in 1 .. Len(s) : i \in 1 .. Len(t)
      BY <1>1, <1>3
    <3> QED BY <1>1, <1>3, <3>1, SubSeqProperties
  <2> PICK u \in Seq(S) : u = SubSeq(t, 1, Len(s))
    BY <2>1
  <2>2. s = u <=> \A i \in 1 .. Len(s) : s[i] = u[i]
    BY <1>1, <2>1, SeqEqual
  <2> QED BY <1>2, <1>3, <2>1, <2>2 DEF IsPrefix
<1>4. CASE ~ (Len(s) <= Len(t))
  BY <1>4 DEF IsPrefix
<1> QED
  BY <1>3, <1>4

(* A sequence begins one that goes on behind it.                           *)
LEMMA PrefixOfConcat ==
    ASSUME NEW S, NEW s \in Seq(S), NEW t \in Seq(S), NEW u \in Seq(S)
    PROVE  /\ IsPrefix(s, s \o t)
           /\ IsPrefix(t, u) => IsPrefix(s \o t, s \o u)
<1>1. /\ s \o t \in Seq(S) /\ Len(s \o t) = Len(s) + Len(t)
      /\ \A i \in 1 .. Len(s) + Len(t) : (s \o t)[i] = IF i <= Len(s) THEN s[i] ELSE t[i - Len(s)]
  BY ConcatProperties
<1>2. /\ s \o u \in Seq(S) /\ Len(s \o u) = Len(s) + Len(u)
      /\ \A i \in 1 .. Len(s) + Len(u) : (s \o u)[i] = IF i <= Len(s) THEN s[i] ELSE u[i - Len(s)]
  BY ConcatProperties
<1>3. Len(s) \in Nat /\ Len(t) \in Nat /\ Len(u) \in Nat
  BY LenProperties
<1> PICK m, n, k, st, su : /\ m = Len(s) /\ n = Len(t) /\ k = Len(u) /\ st = s \o t /\ su = s \o u
  OBVIOUS
<1>4. IsPrefix(s, s \o t)
  <2>1. m <= m + n /\ \A i \in 1 .. m : s[i] = st[i]
    BY <1>1, <1>3
  <2> QED BY <1>1, <2>1, PrefixPlaces
<1>5. ASSUME IsPrefix(t, u)
      PROVE  IsPrefix(s \o t, s \o u)
  <2>1. n <= k /\ \A i \in 1 .. n : t[i] = u[i]
    <3>1. Len(t) <= Len(u) /\ \A i \in 1 .. Len(t) : t[i] = u[i]
      BY <1>5, PrefixPlaces, SMTT(30), ZenonT(120)
    <3> QED BY <3>1
  <2>2. m + n <= m + k
    BY <1>3, <2>1
  <2>3. ASSUME NEW i \in 1 .. m + n
        PROVE  st[i] = su[i]
    <3>1. i \in 1 .. m + k /\ (i <= m \/ i - m \in 1 .. n)
      BY <1>3, <2>1
    <3> QED BY <1>1, <1>2, <2>1, <3>1
  <2> QED BY <1>1, <1>2, <2>2, <2>3, PrefixPlaces
<1> QED
  BY <1>4, <1>5

(* The beginning of a beginning is a beginning.                            *)
LEMMA PrefixTransitive ==
    ASSUME NEW S, NEW s \in Seq(S), NEW t \in Seq(S), NEW u \in Seq(S)
    PROVE  /\ IsPrefix(s, s) /\ IsPrefix(<< >>, s)
           /\ IsPrefix(s, t) /\ IsPrefix(t, u) => IsPrefix(s, u)
<1>1. Len(s) \in Nat /\ Len(t) \in Nat /\ Len(u) \in Nat
  BY LenProperties
<1>2. IsPrefix(s, s)
  BY <1>1, PrefixPlaces
<1>3. IsPrefix(<< >>, s)
  <2>1. << >> \in Seq(S) /\ Len(<< >>) = 0
    OBVIOUS
  <2>2. Len(<< >>) <= Len(s) /\ \A i \in 1 .. Len(<< >>) : << >>[i] = s[i]
    BY <1>1, <2>1
  <2> QED BY <2>1, <2>2, PrefixPlaces
<1>4. ASSUME IsPrefix(s, t), IsPrefix(t, u)
      PROVE  IsPrefix(s, u)
  <2>1. /\ Len(s) <= Len(t) /\ \A i \in 1 .. Len(s) : s[i] = t[i]
        /\ Len(t) <= Len(u) /\ \A i \in 1 .. Len(t) : t[i] = u[i]
    BY <1>4, PrefixPlaces
  <2>2. Len(s) <= Len(u) /\ \A i \in 1 .. Len(s) : s[i] = u[i]
    BY <1>1, <2>1
  <2> QED BY <2>2, PrefixPlaces
<1> QED
  BY <1>2, <1>3, <1>4

(* A record appended to the records of the last page.                      *)
LEMMA AppendedLast ==
    ASSUME NEW S, NEW before \in Seq(S), NEW on \in Seq(S), NEW e \in S
    PROVE  /\ Append(on, e) \in Seq(S) /\ IsPrefix(on, Append(on, e))
           /\ before \o Append(on, e) = Append(before \o on, e)
<1>1. <<e>> \in Seq(S) /\ before \o on \in Seq(S)
  BY ConcatProperties
<1>2. Append(on, e) \in Seq(S)
  BY AppendProperties
<1>3. Append(on, e) = on \o <<e>> /\ Append(before \o on, e) = (before \o on) \o <<e>>
  BY <1>1, AppendIsConcat
<1>4. (before \o on) \o <<e>> = before \o (on \o <<e>>)
  BY <1>1, ConcatAssociative
<1>5. IsPrefix(on, on \o <<e>>)
  BY <1>1, PrefixOfConcat
<1> QED
  BY <1>2, <1>3, <1>4, <1>5

-----------------------------------------------------------------------------
(* f follows a fold over a sequence from left to right: its value at the   *)
(* first places is what step makes, with the last of them, of its value at *)
(* the others.  FoldLeft is such a function's value at all places.         *)
Follows(f, base, step, s, X) ==
    /\ f[{}] = base
    /\ \A t \in SUBSET DOMAIN s :
          t # {} /\ f[t \ {Max(t)}] \in X => f[t] = step[s[Max(t)]][f[t \ {Max(t)}]]

(* The fold F of all sequences over S.                                     *)
FoldOf(F, base, step, S, X) ==
    /\ F \in [Seq(S) -> X] /\ F[<< >>] = base
    /\ \A s \in Seq(S) : \A x \in S : F[Append(s, x)] = step[x][F[s]]
    /\ \A s \in Seq(S) : \A f : Follows(f, base, step, s, X) => f[DOMAIN s] = F[s]

(* Place by place: the fold exists.                                        *)
LEMMA FollowExists ==
    ASSUME NEW S, NEW X, NEW base \in X, NEW step \in [S -> [X -> X]], NEW s \in Seq(S)
    PROVE  \E f \in [SUBSET DOMAIN s -> X] : Follows(f, base, step, s, X)
<1> PICK n \in Nat : n = Len(s) /\ DOMAIN s = 1 .. n /\ \A i \in 1 .. n : s[i] \in S
  BY LenProperties, ElementOfSeq
<1> DEFINE P == 1 .. n
           chosen == [t \in SUBSET P |-> Max(t)]
           steps == [i \in P |-> step[s[i]]]
<1>1. /\ \A t \in SUBSET P : t # {} => chosen[t] \in t /\ chosen[t] = Max(t)
      /\ IsFiniteSet(P)
  <2>1. IsFiniteSet(P)
    BY FS_Interval
  <2>2. \A t \in SUBSET P : t # {} => Max(t) \in t
    BY GreatestPlace
  <2> HIDE DEF P
  <2> QED BY <2>1, <2>2
<1>2. steps \in [P -> [X -> X]]
  OBVIOUS
<1>3. PICK f \in [SUBSET P -> X] : FoldsBy(f, base, chosen, steps, P)
  <2> HIDE DEF P, chosen, steps
  <2> QED BY <1>1, <1>2, FoldExists
<1>4. f[{}] = base
  BY <1>3 DEF FoldsBy
<1>5. ASSUME NEW t \in SUBSET P, t # {}
      PROVE  f[t] = step[s[Max(t)]][f[t \ {Max(t)}]]
  <2> HIDE DEF P, chosen
  <2>1. f[t] = steps[chosen[t]][f[t \ {chosen[t]}]]
    BY <1>3, <1>5 DEF FoldsBy
  <2>2. chosen[t] = Max(t) /\ Max(t) \in P
    BY <1>1, <1>5
  <2> QED BY <2>1, <2>2
<1> QED
  BY <1>4, <1>5 DEF Follows

(* The fold of sequences exists, and with an element more it is what step  *)
(* makes of it.                                                            *)
LEMMA FoldOfSequences ==
    ASSUME NEW S, NEW X, NEW base \in X, NEW step \in [S -> [X -> X]]
    PROVE  \E F : FoldOf(F, base, step, S, X)
<1> DEFINE Goes(c, s) == /\ c \in [Nat -> X] /\ c[0] = base
                         /\ \A k \in Nat : k < Len(s) => c[k + 1] = step[s[k + 1]][c[k]]
           C == [s \in Seq(S) |-> CHOOSE c : Goes(c, s)]
           F == [s \in Seq(S) |-> C[s][Len(s)]]
<1>1. ASSUME NEW s \in Seq(S)
      PROVE  \E c : Goes(c, s)
  <2> DEFINE steps == [k \in Nat |-> IF k < Len(s) THEN step[s[k + 1]] ELSE [x \in X |-> x]]
  <2>1. steps \in [Nat -> [X -> X]]
    <3>1. ASSUME NEW k \in Nat, k < Len(s)
          PROVE  s[k + 1] \in S
      <4>1. k + 1 \in 1 .. Len(s)
        BY <3>1, LenProperties
      <4> QED BY <4>1, ElementOfSeq
    <3> QED BY <3>1
  <2>2. \A k \in Nat : k < Len(s) => steps[k] = step[s[k + 1]]
    OBVIOUS
  <2> HIDE DEF steps
  <2>3. PICK c \in [Nat -> X] : Recurs(c, base, steps)
    BY <2>1, PrimitiveRecursion
  <2> QED BY <2>2, <2>3, ZenonT(60) DEF Recurs
<1>2. \A s \in Seq(S) : Goes(C[s], s)
  <2> HIDE DEF Goes
  <2> QED BY <1>1
<1> HIDE DEF C
<1>3. ASSUME NEW s \in Seq(S), NEW r \in Seq(S), NEW n \in Nat, n <= Len(s), n <= Len(r),
             \A i \in 1 .. n : s[i] = r[i]
      PROVE  C[s][n] = C[r][n]
  <2> DEFINE T == {k \in Nat : k <= n => C[s][k] = C[r][k]}
  <2>1. 0 \in T
    BY <1>2
  <2>2. \A k \in Nat : k \in T => k + 1 \in T
    <3> SUFFICES ASSUME NEW k \in Nat, k \in T, k + 1 <= n
                 PROVE  C[s][k + 1] = C[r][k + 1]
      OBVIOUS
    <3>1. k <= n /\ k < Len(s) /\ k < Len(r) /\ k + 1 \in 1 .. n
      BY <1>3, LenProperties
    <3>2. C[s][k] = C[r][k] /\ s[k + 1] = r[k + 1]
      BY <1>3, <3>1
    <3>3. C[s][k + 1] = step[s[k + 1]][C[s][k]] /\ C[r][k + 1] = step[r[k + 1]][C[r][k]]
      BY <1>2, <3>1
    <3> QED BY <3>2, <3>3
  <2>3. Nat \subseteq T
    <3> HIDE DEF T
    <3> QED BY <2>1, <2>2, SetInduction
  <2> QED BY <2>3
<1>4. F \in [Seq(S) -> X]
  <2>1. \A s \in Seq(S) : C[s][Len(s)] \in X
    BY <1>2, LenProperties
  <2> QED BY <2>1
<1>5. F[<< >>] = base
  <2>1. << >> \in Seq(S) /\ Len(<< >>) = 0
    OBVIOUS
  <2> QED BY <1>2, <2>1
<1>6. ASSUME NEW s \in Seq(S), NEW x \in S
      PROVE  F[Append(s, x)] = step[x][F[s]]
  <2>5. PICK r, n : r = Append(s, x) /\ n = Len(s)
    OBVIOUS
  <2>1. /\ n \in Nat /\ r \in Seq(S) /\ Len(r) = n + 1 /\ r[n + 1] = x
        /\ \A i \in 1 .. n : r[i] = s[i]
    BY <2>5, AppendProperties, LenProperties
  <2>2. C[r][n] = C[s][n]
    <3>1. n <= Len(s) /\ n <= Len(r) /\ \A i \in 1 .. n : s[i] = r[i]
      BY <2>1, <2>5
    <3> QED BY <1>3, <2>1, <3>1
  <2>3. C[r][n + 1] = step[r[n + 1]][C[r][n]]
    <3>1. n < Len(r)
      BY <2>1
    <3> QED BY <1>2, <2>1, <3>1
  <2>4. F[r] = C[r][n + 1] /\ F[s] = C[s][n]
    BY <2>1, <2>5
  <2> QED BY <2>1, <2>2, <2>3, <2>4, <2>5
<1>7. ASSUME NEW s \in Seq(S), NEW f, Follows(f, base, step, s, X)
      PROVE  f[DOMAIN s] = F[s]
  <2> PICK n \in Nat : n = Len(s) /\ DOMAIN s = 1 .. n
    BY LenProperties
  <2> DEFINE T == {k \in Nat : k <= n => f[1 .. k] = C[s][k]}
  <2>1. 0 \in T
    <3>1. 1 .. 0 = {}
      OBVIOUS
    <3> QED BY <1>2, <1>7, <3>1 DEF Follows
  <2>2. \A k \in Nat : k \in T => k + 1 \in T
    <3> SUFFICES ASSUME NEW k \in Nat, k \in T, k + 1 <= n
                 PROVE  f[1 .. k + 1] = C[s][k + 1]
      OBVIOUS
    <3> PICK t : t = 1 .. k + 1
      OBVIOUS
    <3>1. t \in SUBSET DOMAIN s /\ t # {} /\ k \in 0 .. n - 1 /\ k <= n /\ k < Len(s)
      <4>1. k + 1 \in t /\ t \subseteq 1 .. n
        OBVIOUS
      <4>2. k \in 0 .. n - 1 /\ k <= n /\ k < Len(s)
        OBVIOUS
      <4> QED BY <4>1, <4>2
    <3>2. Max(t) = k + 1 /\ t \ {k + 1} = 1 .. k
      BY <3>1, GreatestPlace
    <3>3. f[1 .. k] = C[s][k] /\ C[s][k] \in X
      BY <1>2, <3>1
    <3>4. t # {} /\ f[t \ {Max(t)}] \in X
      BY <3>1, <3>2, <3>3
    <3>5. f[t] = step[s[Max(t)]][f[t \ {Max(t)}]]
      BY <1>7, <3>1, <3>4 DEF Follows
    <3>6. f[t] = step[s[k + 1]][C[s][k]]
      BY <3>2, <3>3, <3>5
    <3>7. C[s][k + 1] = step[s[k + 1]][C[s][k]]
      BY <1>2, <3>1
    <3> QED BY <3>6, <3>7
  <2>3. Nat \subseteq T
    <3> HIDE DEF T
    <3> QED BY <2>1, <2>2, SetInduction
  <2>4. f[1 .. n] = C[s][n]
    BY <2>3
  <2> QED BY <2>4
<1> HIDE DEF F
<1> QED
  BY <1>4, <1>5, <1>6, <1>7 DEF FoldOf

=============================================================================
