------------------------ MODULE RecordBufferProofs --------------------------
(***************************************************************************)
(* Proofs about RecordBuffer, for all types of attributes, values of them  *)
(* and sizes of the first buffer.  Where a value lies in the buffer it is  *)
(* read as it is (LiesRead); writing the attributes back from left to      *)
(* right either keeps each of them at its place, with its value, or says   *)
(* that one was moved (OneMoreWritten).                                    *)
(***************************************************************************)
EXTENDS RecordBuffer, SequenceLemmas

-----------------------------------------------------------------------------
(* The values of an attribute, and what the model knows of its cells.      *)
Values(a) == IF Types[a] = "number" THEN Numbers ELSE Strings

(* A number is one cell; a string has no end in it.                        *)
LEMMA ValueCells ==
    ASSUME NEW a \in Atts, NEW v \in Values(a)
    PROVE  /\ v \in Seq(Nat) /\ Payload(a, v) \in Seq(Nat) /\ Cells(a, v) \in Seq(Nat)
           /\ Len(Cells(a, v)) = Len(Payload(a, v)) + 1 /\ Len(Payload(a, v)) \in Nat \ {0}
           /\ Cells(a, v)[1] = Len(Payload(a, v)) + 1
           /\ \A i \in 1 .. Len(Payload(a, v)) : Cells(a, v)[i + 1] = Payload(a, v)[i]
           /\ Types[a] = "number" => Payload(a, v) = v /\ Len(v) = 1 /\ v = <<v[1]>>
           /\ Types[a] # "number" => /\ Len(Payload(a, v)) = Len(v) + 1 /\ Payload(a, v)[Len(v) + 1] = End
                                     /\ \A i \in 1 .. Len(v) : Payload(a, v)[i] = v[i] /\ v[i] # End
<1> PICK w : w = Payload(a, v)
  OBVIOUS
<1>3. ASSUME w \in Seq(Nat)
      PROVE  /\ Cells(a, v) \in Seq(Nat) /\ Len(Cells(a, v)) = Len(w) + 1 /\ Cells(a, v)[1] = Len(w) + 1
             /\ \A i \in 1 .. Len(w) : Cells(a, v)[i + 1] = w[i]
  <2>1. Cells(a, v) = <<Len(w) + 1>> \o w
    BY DEF Cells
  <2>2. Len(w) \in Nat /\ <<Len(w) + 1>> \in Seq(Nat)
    BY <1>3, LenProperties
  <2> QED BY <1>3, <2>1, <2>2
<1>1. CASE Types[a] = "number"
  <2>1. v \in [{1} -> Nat \ {0}]
    BY <1>1, RecordAssumption DEF Values, RecordAssumption
  <2>2. v \in Seq(Nat) /\ Len(v) = 1
    <3>4. PICK k \in Nat : k = 1
      OBVIOUS
    <3>1. {1} = 1 .. k
      BY <3>4
    <3>2. v \in [1 .. k -> Nat]
      BY <2>1, <3>1
    <3>3. v \in Seq(Nat) /\ DOMAIN v = 1 .. k
      BY <3>2
    <3> QED BY <3>3, <3>4, LenProperties
  <2>3. v \in Seq(Nat) /\ Len(v) = 1 /\ v = <<v[1]>>
    <3>1. v[1] \in Nat
      BY <2>1
    <3>2. <<v[1]>> \in Seq(Nat) /\ Len(<<v[1]>>) = 1 /\ <<v[1]>>[1] = v[1]
      BY <3>1
    <3>3. \A i \in 1 .. Len(v) : v[i] = <<v[1]>>[i]
      BY <2>2, <3>2
    <3> QED BY <2>2, <3>2, <3>3, SeqEqual
  <2>4. w = v
    BY <1>1 DEF Payload
  <2>5. w \in Seq(Nat) /\ Len(w) \in Nat \ {0}
    BY <2>3, <2>4
  <2> QED BY <1>1, <1>3, <2>3, <2>4, <2>5
<1>2. CASE Types[a] # "number"
  <2>1. v \in Seq(Nat \ {0})
    BY <1>2, RecordAssumption DEF Values, RecordAssumption
  <2>2. /\ v \in Seq(Nat) /\ Len(v) \in Nat /\ \A i \in 1 .. Len(v) : v[i] # 0
    BY <2>1, LenProperties, ElementOfSeq
  <2>3. w = v \o <<0>>
    BY <1>2 DEF Payload, End
  <2>4. /\ w \in Seq(Nat) /\ Len(w) = Len(v) + 1 /\ w[Len(v) + 1] = 0
        /\ \A i \in 1 .. Len(v) : w[i] = v[i]
    BY <2>2, <2>3
  <2>5. Len(w) \in Nat \ {0}
    BY <2>2, <2>4
  <2> QED BY <1>2, <1>3, <2>2, <2>4, <2>5 DEF End
<1> QED
  BY <1>1, <1>2

(* A value of the attribute lies at a place in the buffer.                 *)
Lies(b, a, p, v) ==
    /\ p \in Nat \ {0} /\ p + Len(Payload(a, v)) - 1 <= Len(b)
    /\ \A i \in 1 .. Len(Payload(a, v)) : b[p + i - 1] = Payload(a, v)[i]

(* It is read there as it is.                                              *)
LEMMA LiesRead ==
    ASSUME NEW b \in Seq(Nat), NEW a \in Atts, NEW v \in Values(a), NEW p, Lies(b, a, p, v)
    PROVE  ReadAt(b, a, p) = v
<1> PICK w : w = Payload(a, v)
  OBVIOUS
<1>1. /\ w \in Seq(Nat) /\ v \in Seq(Nat) /\ Len(w) \in Nat \ {0} /\ p \in Nat \ {0}
      /\ p + Len(w) - 1 <= Len(b) /\ Len(b) \in Nat /\ Len(v) \in Nat
      /\ \A i \in 1 .. Len(w) : b[p + i - 1] = w[i]
  BY ValueCells, LenProperties DEF Lies
<1>2. CASE Types[a] = "number"
  <2>1. w = v /\ Len(v) = 1 /\ v = <<v[1]>>
    BY <1>2, ValueCells
  <2>2. b[p] = v[1]
    <3>1. b[p + 1 - 1] = w[1] /\ p + 1 - 1 = p
      BY <1>1, <2>1
    <3> QED BY <2>1, <3>1
  <2>3. ReadAt(b, a, p) = <<b[p]>>
    BY <1>2 DEF ReadAt
  <2> QED BY <2>1, <2>2, <2>3
<1>3. CASE Types[a] # "number"
  <2> PICK n : n = Len(v)
    OBVIOUS
  <2>1. /\ n \in Nat /\ Len(w) = n + 1 /\ w[n + 1] = 0
        /\ \A i \in 1 .. n : w[i] = v[i] /\ v[i] # 0
    <3>1. /\ Len(w) = Len(v) + 1 /\ w[Len(v) + 1] = 0
          /\ \A i \in 1 .. Len(v) : w[i] = v[i] /\ v[i] # 0
      BY <1>3, ValueCells, ZenonT(60) DEF End
    <3> QED BY <1>1, <3>1
  <2>2. /\ p + n <= Len(b) /\ b[p + n] = 0
        /\ \A i \in 1 .. n : b[p + i - 1] = v[i]
    <3>1. \A i \in 1 .. n + 1 : b[p + i - 1] = w[i]
      BY <1>1, <2>1
    <3>2. n + 1 \in 1 .. n + 1 /\ p + (n + 1) - 1 = p + n /\ \A i \in 1 .. n : i \in 1 .. n + 1
      BY <1>1, <2>1
    <3>3. b[p + n] = w[n + 1]
      BY <3>1, <3>2
    <3>4. \A i \in 1 .. n : b[p + i - 1] = v[i]
      BY <2>1, <3>1, <3>2
    <3>5. p + n <= Len(b)
      BY <1>1, <2>1
    <3> QED BY <2>1, <3>3, <3>4, <3>5
  <2> DEFINE ends == {m \in p .. Len(b) : b[m] = End}
  <2>3. p + n \in ends /\ \A m \in ends : p + n <= m
    <3>1. ASSUME NEW m \in p .. Len(b), m < p + n
          PROVE  b[m] # 0
      <4> PICK i \in 1 .. n : m = p + i - 1
        <5>1. m - p + 1 \in 1 .. n /\ m = p + (m - p + 1) - 1
          BY <1>1, <2>1, <3>1
        <5> QED BY <5>1
      <4> QED BY <2>1, <2>2
    <3> QED BY <1>1, <2>1, <2>2, <3>1, SMTT(30) DEF End
  <2>4. ends # {} /\ Min(ends) = p + n
    <3>1. \A x \in ends : (\A y \in ends : x <= y) <=> x = p + n
      <4>1. \A x \in ends : x \in Int
        BY <1>1
      <4>2. p + n \in Int
        BY <1>1, <2>1
      <4> HIDE DEF ends
      <4> QED BY <2>3, <4>1, <4>2
    <3> HIDE DEF ends
    <3> QED BY <2>3, <3>1 DEF Min
  <2>5. ReadAt(b, a, p) = SubSeq(b, p, p + n - 1)
    <3>1. ReadAt(b, a, p) = SubSeq(b, p, IF ends = {} THEN Len(b) ELSE Min(ends) - 1)
      BY <1>3 DEF ReadAt
    <3>2. p + n - 1 = (p + n) - 1
      BY <1>1, <2>1
    <3> HIDE DEF ends
    <3> QED BY <2>4, <3>1, <3>2
  <2>6. SubSeq(b, p, p + n - 1) = v
    <3> PICK u : u = SubSeq(b, p, p + n - 1)
      OBVIOUS
    <3>1. /\ \A i \in p .. p + n - 1 : b[i] \in Nat
          /\ p \in Int /\ p + n - 1 \in Int
      <4>1. \A i \in 1 .. Len(b) : b[i] \in Nat
        BY ElementOfSeq
      <4>2. \A i \in p .. p + n - 1 : i \in 1 .. Len(b)
        BY <1>1, <2>1, <2>2
      <4> QED BY <1>1, <2>1, <4>1, <4>2
    <3>2. u \in Seq(Nat) /\ Len(u) = n /\ \A i \in 1 .. n : u[i] = b[p + i - 1]
      <4>1. /\ u \in Seq(Nat) /\ Len(u) = IF p <= p + n - 1 THEN (p + n - 1) - p + 1 ELSE 0
            /\ \A i \in 1 .. (p + n - 1) - p + 1 : u[i] = b[p + i - 1]
        BY <3>1, SubSeqProperties
      <4>2. (p + n - 1) - p + 1 = n /\ (p <= p + n - 1 <=> n # 0)
        BY <1>1, <2>1
      <4> QED BY <2>1, <4>1, <4>2
    <3>3. u = v
      BY <1>1, <2>1, <2>2, <3>2, SeqEqual
    <3> QED BY <3>3
  <2> QED BY <2>5, <2>6
<1> QED
  BY <1>2, <1>3

(* It still lies there in a buffer with the same cells.                    *)
LEMMA LiesKept ==
    ASSUME NEW b, NEW c, NEW a \in Atts, NEW v \in Values(a), NEW p, Lies(b, a, p, v),
           p + Len(Payload(a, v)) - 1 <= Len(c),
           \A n \in p .. p + Len(Payload(a, v)) - 1 : c[n] = b[n]
    PROVE  Lies(c, a, p, v)
<1>1. Len(Payload(a, v)) \in Nat /\ p \in Nat
  BY ValueCells DEF Lies
<1>2. \A i \in 1 .. Len(Payload(a, v)) : p + i - 1 \in p .. p + Len(Payload(a, v)) - 1
  BY <1>1
<1> QED
  BY <1>2 DEF Lies

-----------------------------------------------------------------------------
(* The cells of the first k attributes, and that they are in a buffer,     *)
(* behind the cell of the size.                                            *)
Body(c, k) == FlattenSeq([a \in 1 .. k |-> Cells(a, c[a])])

Laid(b, c, k) ==
    /\ Len(Body(c, k)) + 1 <= Len(b)
    /\ \A i \in 1 .. Len(Body(c, k)) : b[i + 1] = Body(c, k)[i]

(* A record's contents are values of its attributes.                       *)
LEMMA ContentValues ==
    ASSUME NEW c \in Contents
    PROVE  /\ Len(Types) \in Nat \ {0} /\ Atts = 1 .. Len(Types)
           /\ \A a \in Atts : c[a] \in Values(a)
<1>1. Len(Types) \in Nat \ {0} /\ Atts = 1 .. Len(Types)
  BY RecordAssumption, LenProperties, EmptySeq DEF RecordAssumption, Atts
<1> QED
  BY <1>1 DEF Contents, Values

(* The cells of one more attribute come behind those of the others.        *)
LEMMA BodyNext ==
    ASSUME NEW c \in Contents, NEW k \in Nat, k <= Len(Types)
    PROVE  /\ Body(c, k) \in Seq(Nat) /\ Body(c, 0) = << >>
           /\ k + 1 <= Len(Types) => Body(c, k + 1) = Body(c, k) \o Cells(k + 1, c[k + 1])
<1> DEFINE seqs(j) == [a \in 1 .. j |-> Cells(a, c[a])]
<1>1. ASSUME NEW j \in Nat, j <= Len(Types)
      PROVE  /\ seqs(j) \in Seq(Seq(Nat)) /\ Len(seqs(j)) = j
             /\ \A i \in 1 .. j : seqs(j)[i] = Cells(i, c[i]) /\ Cells(i, c[i]) \in Seq(Nat)
  <2>1. \A i \in 1 .. j : Cells(i, c[i]) \in Seq(Nat)
    <3>1. \A i \in 1 .. j : i \in Atts /\ c[i] \in Values(i)
      BY <1>1, ContentValues
    <3> QED BY <3>1, ValueCells
  <2>2. seqs(j) \in [1 .. j -> Seq(Nat)]
    BY <2>1
  <2>3. seqs(j) \in Seq(Seq(Nat)) /\ Len(seqs(j)) = j
    BY <2>2
  <2> QED BY <2>1, <2>3
<1>2. Body(c, 0) = << >>
  <2>1. [a \in 1 .. 0 |-> Cells(a, c[a])] = << >>
    OBVIOUS
  <2>2. FlattenSeq(<< >>) = << >>
    BY DEF FlattenSeq
  <2> QED BY <2>1, <2>2 DEF Body
<1>3. Body(c, k) \in Seq(Nat)
  <2>1. seqs(k) \in Seq(Seq(Nat))
    BY <1>1
  <2>2. Body(c, k) = FlattenSeq(seqs(k))
    BY DEF Body
  <2> HIDE DEF seqs
  <2> QED BY <2>1, <2>2, Flattened
<1>4. ASSUME k + 1 <= Len(Types)
      PROVE  Body(c, k + 1) = Body(c, k) \o Cells(k + 1, c[k + 1])
  <2>1. k + 1 \in Nat /\ k + 1 \in 1 .. k + 1 /\ \A i \in 1 .. k : i \in 1 .. k + 1
    OBVIOUS
  <2> PICK short, long, s : short = seqs(k) /\ long = seqs(k + 1) /\ s = Cells(k + 1, c[k + 1])
    OBVIOUS
  <2>2. /\ short \in Seq(Seq(Nat)) /\ long \in Seq(Seq(Nat)) /\ s \in Seq(Nat)
        /\ Len(short) = k /\ Len(long) = k + 1 /\ long[k + 1] = s
        /\ \A i \in 1 .. k : long[i] = short[i]
    BY <1>1, <1>4, <2>1
  <2>3. /\ Body(c, k) = FlattenSeq(short) /\ Body(c, k + 1) = FlattenSeq(long)
    BY DEF Body
  <2>4. FlattenSeq(long) = FlattenSeq(short) \o s
    <3> HIDE DEF seqs
    <3>1. Len(long) = Len(short) + 1 /\ long[Len(long)] = s /\ \A i \in 1 .. Len(short) : long[i] = short[i]
      BY <2>2
    <3> QED BY <2>2, <3>1, FlattenedLast
  <2> QED BY <2>3, <2>4
<1> QED
  BY <1>2, <1>3, <1>4

(* Where an attribute is, and that the cells of the first k + 1 attributes *)
(* are those of the first k and of the last one.                           *)
LEMMA LaidNext ==
    ASSUME NEW c \in Contents, NEW k \in Nat, NEW a, a = k + 1, a <= Len(Types), NEW b \in Seq(Nat)
    PROVE  /\ PlaceOf(c, a) = Len(Body(c, k)) + 3 /\ PlaceOf(c, a) \in Nat /\ a \in Atts
           /\ Len(Body(c, a)) = Len(Body(c, k)) + Len(Cells(a, c[a]))
           /\ Laid(b, c, a) => Laid(b, c, k) /\ Lies(b, a, PlaceOf(c, a), c[a])
           /\ Laid(b, c, k) /\ Len(Body(c, a)) + 1 <= Len(b)
                /\ (\A i \in 1 .. Len(Cells(a, c[a])) : b[Len(Body(c, k)) + 1 + i] = Cells(a, c[a])[i])
              => Laid(b, c, a)
<1>10. PICK s, t, u : s = Body(c, k) /\ t = Cells(a, c[a]) /\ u = Body(c, a)
  OBVIOUS
<1>11. PICK w : w = Payload(a, c[a])
  OBVIOUS
<1>1. k <= Len(Types) /\ a \in Atts /\ c[a] \in Values(a) /\ a \in 1 .. Len(Types)
  BY ContentValues
<1>2. /\ s \in Seq(Nat) /\ u = s \o t
  BY <1>1, <1>10, BodyNext, ContentValues
<1>3. /\ t \in Seq(Nat) /\ Len(t) = Len(w) + 1 /\ Len(w) \in Nat \ {0}
      /\ \A i \in 1 .. Len(w) : t[i + 1] = w[i]
  BY <1>1, <1>10, <1>11, ValueCells, SMTT(30)
<1>4. Len(s) \in Nat /\ Len(t) \in Nat /\ Len(b) \in Nat
  BY <1>2, <1>3, LenProperties
<1>5. /\ Len(u) = Len(s) + Len(t)
      /\ \A i \in 1 .. Len(s) + Len(t) : u[i] = IF i <= Len(s) THEN s[i] ELSE t[i - Len(s)]
  BY <1>2, <1>3, ConcatProperties, ZenonT(60)
<1>6. /\ \A i \in 1 .. Len(s) : i \in 1 .. Len(u) /\ u[i] = s[i]
      /\ \A i \in 1 .. Len(t) : Len(s) + i \in 1 .. Len(u) /\ u[Len(s) + i] = t[i]
  <2>1. \A i \in 1 .. Len(s) : i \in 1 .. Len(s) + Len(t) /\ i <= Len(s)
    BY <1>4
  <2>2. \A i \in 1 .. Len(t) : /\ Len(s) + i \in 1 .. Len(s) + Len(t) /\ ~ (Len(s) + i <= Len(s))
                               /\ (Len(s) + i) - Len(s) = i
    BY <1>4
  <2> QED BY <1>5, <2>1, <2>2
<1>7. PlaceOf(c, a) = Len(s) + 3 /\ Len(s) + 3 \in Nat
  <2>1. 1 .. a - 1 = 1 .. k
    OBVIOUS
  <2> QED BY <1>4, <1>10, <2>1 DEF PlaceOf, Body
<1>8. ASSUME Laid(b, c, a)
      PROVE  Laid(b, c, k) /\ Lies(b, a, Len(s) + 3, c[a])
  <2>1. Len(u) + 1 <= Len(b) /\ \A i \in 1 .. Len(u) : b[i + 1] = u[i]
    BY <1>8, <1>10 DEF Laid
  <2>2. Len(s) + 1 <= Len(b) /\ \A i \in 1 .. Len(s) : b[i + 1] = s[i]
    <3>1. Len(s) + 1 <= Len(b)
      BY <1>4, <1>5, <2>1
    <3>2. ASSUME NEW i \in 1 .. Len(s)
          PROVE  b[i + 1] = s[i]
      <4>1. i \in 1 .. Len(u) /\ u[i] = s[i]
        BY <1>6
      <4>2. b[i + 1] = u[i]
        BY <2>1, <4>1
      <4> QED BY <4>1, <4>2
    <3> QED BY <3>1, <3>2
  <2>3. \A i \in 1 .. Len(w) : b[(Len(s) + 3) + i - 1] = w[i]
    <3> TAKE i \in 1 .. Len(w)
    <3>1. i + 1 \in 1 .. Len(t) /\ (Len(s) + (i + 1)) + 1 = (Len(s) + 3) + i - 1
      BY <1>3, <1>4
    <3>2. b[(Len(s) + (i + 1)) + 1] = t[i + 1]
      BY <1>6, <2>1, <3>1
    <3> QED BY <1>3, <3>1, <3>2
  <2>4. (Len(s) + 3) + Len(w) - 1 <= Len(b)
    BY <1>3, <1>4, <1>5, <2>1
  <2>5. Laid(b, c, k)
    BY <1>10, <2>2 DEF Laid
  <2>6. PICK p : p = Len(s) + 3
    OBVIOUS
  <2>7. p \in Nat \ {0}
    BY <1>4, <2>6
  <2>8. Lies(b, a, p, c[a])
    BY <1>11, <2>3, <2>4, <2>6, <2>7 DEF Lies
  <2> QED BY <2>5, <2>6, <2>8
<1>9. ASSUME Laid(b, c, k), Len(u) + 1 <= Len(b), \A i \in 1 .. Len(t) : b[Len(s) + 1 + i] = t[i]
      PROVE  Laid(b, c, a)
  <2>1. Len(s) + 1 <= Len(b) /\ \A i \in 1 .. Len(s) : b[i + 1] = s[i]
    BY <1>9, <1>10 DEF Laid
  <2>2. ASSUME NEW i \in 1 .. Len(u)
        PROVE  b[i + 1] = u[i]
    <3>1. CASE i <= Len(s)
      <4>1. i \in 1 .. Len(s) /\ i \in 1 .. Len(s) + Len(t)
        BY <1>4, <1>5, <3>1
      <4>2. u[i] = s[i]
        BY <1>5, <3>1, <4>1
      <4>3. b[i + 1] = s[i]
        BY <2>1, <4>1
      <4> QED BY <4>2, <4>3
    <3>2. CASE ~ (i <= Len(s))
      <4>1. i - Len(s) \in 1 .. Len(t) /\ Len(s) + 1 + (i - Len(s)) = i + 1 /\ i \in 1 .. Len(s) + Len(t)
        BY <1>4, <1>5, <3>2
      <4> QED BY <1>5, <1>9, <3>2, <4>1
    <3> QED BY <3>1, <3>2
  <2> QED BY <1>9, <1>10, <2>2 DEF Laid
<1> QED
  BY <1>1, <1>5, <1>7, <1>8, <1>9, <1>10

(* Every attribute lies at its place.                                      *)
LEMMA LaidLies ==
    ASSUME NEW c \in Contents, NEW b \in Seq(Nat), Laid(b, c, Len(Types)), NEW a \in Atts
    PROVE  Lies(b, a, PlaceOf(c, a), c[a])
<1> PICK n : n = Len(Types)
  OBVIOUS
<1>1. n \in Nat /\ a \in 1 .. n
  BY ContentValues
<1> DEFINE T == {d \in Nat : d <= n => Laid(b, c, n - d)}
<1>2. 0 \in T
  <2>1. n - 0 = n
    BY <1>1
  <2> QED BY <2>1
<1>3. \A d \in Nat : d \in T => d + 1 \in T
  <2> SUFFICES ASSUME NEW d \in Nat, d \in T, d + 1 <= n
               PROVE  Laid(b, c, n - (d + 1))
    BY SMTT(60)
  <2>1. d <= n /\ n - (d + 1) \in Nat /\ n - d = (n - (d + 1)) + 1 /\ n - d <= n
    BY <1>1
  <2>2. Laid(b, c, n - d)
    BY <2>1
  <2> QED BY <2>1, <2>2, LaidNext
<1>4. Nat \subseteq T
  <2> HIDE DEF T
  <2> QED BY <1>2, <1>3, SetInduction
<1>5. Laid(b, c, a)
  <2>1. n - a \in T /\ n - (n - a) = a /\ n - a <= n
    BY <1>1, <1>4
  <2> QED BY <2>1
<1> QED
  <2>1. PICK k \in Nat : a = k + 1
    <3>1. a - 1 \in Nat /\ a = (a - 1) + 1
      BY <1>1
    <3> QED BY <3>1
  <2>2. a <= Len(Types)
    BY <1>1
  <2>3. Laid(b, c, a) => Lies(b, a, PlaceOf(c, a), c[a])
    BY <2>1, <2>2, LaidNext
  <2> QED BY <1>5, <2>3

-----------------------------------------------------------------------------
(* Cells written at a place change these and no other.                     *)
LEMMA WrittenCells ==
    ASSUME NEW b \in Seq(Nat), NEW from \in Nat \ {0}, NEW cells \in Seq(Nat)
    PROVE  /\ Written(b, from, cells) \in Seq(Nat) /\ Len(Written(b, from, cells)) = Len(b)
           /\ \A n \in 1 .. Len(b) : Written(b, from, cells)[n] =
                 IF n \in from .. from + Len(cells) - 1 THEN cells[n - from + 1] ELSE b[n]
<1> PICK w : w = Written(b, from, cells)
  OBVIOUS
<1>1. /\ Len(b) \in Nat /\ DOMAIN b = 1 .. Len(b) /\ Len(cells) \in Nat
      /\ \A n \in 1 .. Len(b) : b[n] \in Nat
      /\ \A n \in 1 .. Len(cells) : cells[n] \in Nat
  BY LenProperties, ElementOfSeq
<1>2. w = [n \in 1 .. Len(b) |-> IF n \in from .. from + Len(cells) - 1 THEN cells[n - from + 1] ELSE b[n]]
  BY <1>1 DEF Written
<1>3. \A n \in from .. from + Len(cells) - 1 : n - from + 1 \in 1 .. Len(cells)
  BY <1>1
<1>4. w \in [1 .. Len(b) -> Nat]
  BY <1>1, <1>2, <1>3
<1>5. w \in Seq(Nat) /\ DOMAIN w = 1 .. Len(b)
  <2>1. \A m \in Nat : \A f \in [1 .. m -> Nat] : f \in Seq(Nat) /\ DOMAIN f = 1 .. m
    OBVIOUS
  <2> QED BY <1>1, <1>4, <2>1
<1>6. Len(w) = Len(b)
  BY <1>1, <1>5, LenProperties
<1> QED
  BY <1>2, <1>5, <1>6

(* A buffer of junk.                                                       *)
LEMMA JunkCells ==
    ASSUME NEW m \in Nat
    PROVE  [i \in 1 .. m |-> Junk] \in Seq(Nat) /\ Len([i \in 1 .. m |-> Junk]) = m
<1>1. PICK w : w = [i \in 1 .. m |-> Junk]
  OBVIOUS
<1>2. w \in [1 .. m -> Nat]
  BY <1>1 DEF Junk
<1>3. w \in Seq(Nat) /\ DOMAIN w = 1 .. m
  BY <1>2
<1> QED
  BY <1>1, <1>3, LenProperties

(* The states of a record that is being written: its buffer has room for   *)
(* what was written so far, and every pointer is into the buffer.          *)
Pointers(data, b) == \A a \in Atts : data[a] \in {NoPointer, Dangling} \cup 1 .. Len(b)

Writings ==
    {s \in [buffer : Seq(Nat), size : Nat \ {0}, data : [Atts -> Int], moved : BOOLEAN] :
        s.size <= Len(s.buffer) /\ Pointers(s.data, s.buffer)}

(* The pointers when the buffer was moved, and when it was not.            *)
Lost(data) == [a \in Atts |-> IF data[a] = NoPointer THEN NoPointer ELSE Dangling]

(* extendBuffer makes room behind what was written and leaves the cells    *)
(* where they were; either nothing is changed or every pointer is lost.    *)
LEMMA ExtendedBuffer ==
    ASSUME NEW s \in Writings, NEW n \in Nat, NEW t, t = Extended(s, n)
    PROVE  /\ t \in Writings /\ t.size = s.size /\ t.moved = s.moved /\ s.size + n <= Len(t.buffer)
           /\ Len(s.buffer) <= Len(t.buffer) /\ \A i \in 1 .. Len(s.buffer) : t.buffer[i] = s.buffer[i]
           /\ t = s \/ t.data = Lost(s.data)
<1>1. /\ s \in [buffer : Seq(Nat), size : Nat \ {0}, data : [Atts -> Int], moved : BOOLEAN]
      /\ s.size <= Len(s.buffer) /\ Pointers(s.data, s.buffer)
  BY DEF Writings
<1> PICK b, d : b = s.buffer /\ d = s.data
  OBVIOUS
<1>2. b \in Seq(Nat) /\ Len(b) \in Nat /\ s.size \in Nat \ {0} /\ s.size <= Len(b) /\ d \in [Atts -> Int]
  BY <1>1, LenProperties
<1>3. CASE s.size + n <= Len(b)
  <2>1. t = s
    BY <1>3 DEF Extended
  <2> QED BY <1>2, <1>3, <2>1
<1>4. CASE ~ (s.size + n <= Len(b))
  <2> PICK m : m = 2 * (s.size + n) - Len(b)
    OBVIOUS
  <2>1. m \in Nat /\ Len(b) + m = 2 * (s.size + n)
    BY <1>2, <1>4
  <2>11. PICK junk : junk = [i \in 1 .. m |-> Junk]
    OBVIOUS
  <2>2. junk \in Seq(Nat) /\ Len(junk) = m
    BY <2>1, <2>11, JunkCells
  <2>12. PICK more : more = b \o junk
    OBVIOUS
  <2>3. /\ more \in Seq(Nat) /\ Len(more) = 2 * (s.size + n)
        /\ \A i \in 1 .. Len(b) : more[i] = b[i]
    <3>1. /\ more \in Seq(Nat) /\ Len(more) = Len(b) + m
          /\ \A i \in 1 .. Len(b) + m : more[i] = IF i <= Len(b) THEN b[i] ELSE junk[i - Len(b)]
      <4>1. /\ b \o junk \in Seq(Nat) /\ Len(b \o junk) = Len(b) + Len(junk)
            /\ \A i \in 1 .. Len(b) + Len(junk) : (b \o junk)[i] = IF i <= Len(b) THEN b[i] ELSE junk[i - Len(b)]
        BY <1>2, <2>2, ConcatProperties, ZenonT(60)
      <4> QED BY <2>2, <2>12, <4>1
    <3>2. \A i \in 1 .. Len(b) : i \in 1 .. Len(b) + m /\ i <= Len(b)
      BY <1>2, <2>1
    <3> QED BY <2>1, <3>1, <3>2
  <2>13. PICK lost : lost = Lost(d)
    OBVIOUS
  <2>4. t = [s EXCEPT !.buffer = more, !.data = lost]
    BY <1>4, <2>11, <2>12, <2>13 DEF Extended, Lost
  <2>5. lost \in [Atts -> Int] /\ Pointers(lost, more)
    <3>1. lost \in [Atts -> {NoPointer, Dangling}]
      BY <2>13 DEF Lost
    <3>2. NoPointer \in Int /\ Dangling \in Int
      BY DEF NoPointer, Dangling
    <3> QED BY <3>1, <3>2 DEF Pointers
  <2>6. t.buffer = more /\ t.data = lost /\ t.size = s.size /\ t.moved = s.moved
        /\ t \in [buffer : Seq(Nat), size : Nat \ {0}, data : [Atts -> Int], moved : BOOLEAN]
    BY <1>1, <2>3, <2>4, <2>5
  <2>7. s.size <= 2 * (s.size + n) /\ s.size + n <= 2 * (s.size + n) /\ Len(b) <= 2 * (s.size + n)
    BY <1>2, <1>4
  <2>8. t \in Writings
    BY <2>3, <2>5, <2>6, <2>7 DEF Writings
  <2> QED BY <2>3, <2>6, <2>7, <2>8, <2>13
<1> QED
  BY <1>3, <1>4

(* What is read of an attribute is a value of it, or junk, or cells of the *)
(* buffer: as many as a number has.                                        *)
LEMMA ValueRead ==
    ASSUME NEW b \in Seq(Nat), NEW data \in [Atts -> Int], Pointers(data, b), value \in Contents, NEW a \in Atts
    PROVE  /\ Value(a, b, data) \in Seq(Nat)
           /\ Types[a] = "number" => Len(Value(a, b, data)) = 1
           /\ data[a] = NoPointer => Value(a, b, data) = value[a]
           /\ \A w \in Values(a) : Lies(b, a, data[a], w) => Value(a, b, data) = w
<1> PICK p : p = data[a]
  OBVIOUS
<1>1. p \in {NoPointer, Dangling} \cup 1 .. Len(b) /\ NoPointer = 0 /\ Dangling = -1
  BY DEF Pointers, NoPointer, Dangling
<1>2. CASE p = NoPointer
  <2>1. Value(a, b, data) = value[a]
    BY <1>1, <1>2 DEF Value
  <2>2. value[a] \in Values(a)
    BY ContentValues
  <2>3. \A w : ~ Lies(b, a, p, w)
    BY <1>1, <1>2 DEF Lies
  <2> QED BY <2>1, <2>2, <2>3, ValueCells
<1>3. CASE p = Dangling
  <2>1. p # NoPointer
    BY <1>1, <1>3
  <2>2. Value(a, b, data) = IF Types[a] = "number" THEN <<Junk>> ELSE << >>
    BY <1>3, <2>1 DEF Value
  <2>3. \A w : ~ Lies(b, a, p, w)
    BY <1>1, <1>3 DEF Lies
  <2>4. <<Junk>> \in Seq(Nat) /\ Len(<<Junk>>) = 1 /\ << >> \in Seq(Nat)
    BY DEF Junk
  <2> QED BY <2>1, <2>2, <2>3, <2>4
<1>4. CASE p \in 1 .. Len(b)
  <2>1. p # NoPointer /\ p # Dangling /\ Len(b) \in Nat /\ p \in Int
    BY <1>1, <1>4
  <2>2. Value(a, b, data) = ReadAt(b, a, p)
    BY <2>1 DEF Value
  <2>3. \A i \in 1 .. Len(b) : b[i] \in Nat
    BY ElementOfSeq
  <2>4. CASE Types[a] = "number"
    <3>1. b[p] \in Nat
      BY <1>4, <2>3
    <3>2. ReadAt(b, a, p) = <<b[p]>>
      BY <2>4 DEF ReadAt
    <3>3. <<b[p]>> \in Seq(Nat) /\ Len(<<b[p]>>) = 1
      BY <3>1
    <3> QED BY <2>1, <2>2, <3>2, <3>3, LiesRead
  <2>5. CASE Types[a] # "number"
    <3> DEFINE ends == {n \in p .. Len(b) : b[n] = End}
    <3>5. PICK last : last = IF ends = {} THEN Len(b) ELSE Min(ends) - 1
      OBVIOUS
    <3>1. last \in Int /\ last <= Len(b)
      <4>1. CASE ends = {}
        BY <2>1, <3>5, <4>1
      <4>2. CASE ends # {}
        <5>1. ends \subseteq Nat /\ \A n \in ends : n \in Int /\ n <= Len(b)
          BY <1>4, <2>1
        <5>2. PICK n \in ends : \A m \in ends : ~ (m < n)
          <6> HIDE DEF ends
          <6> QED BY <4>2, <5>1, LeastNumber
        <5>3. \A m \in ends : n <= m
          <6> HIDE DEF ends
          <6> QED BY <5>1, <5>2
        <5>4. Min(ends) \in ends
          <6> HIDE DEF ends
          <6> QED BY <5>3 DEF Min
        <5> HIDE DEF ends
        <5>5. Min(ends) \in Int /\ Min(ends) <= Len(b)
          BY <5>1, <5>4
        <5>6. last = Min(ends) - 1
          BY <3>5, <4>2
        <5> QED BY <2>1, <5>5, <5>6
      <4> HIDE DEF ends
      <4> QED BY <4>1, <4>2
    <3>2. ReadAt(b, a, p) = SubSeq(b, p, last)
      BY <2>5, <3>5 DEF ReadAt
    <3>3. \A i \in p .. last : b[i] \in Nat
      <4>1. \A i \in p .. last : i \in 1 .. Len(b)
        <5> HIDE DEF ends
        <5> QED BY <1>4, <2>1, <3>1
      <4> QED BY <2>3, <4>1
    <3>4. SubSeq(b, p, last) \in Seq(Nat)
      <4> HIDE DEF ends
      <4> QED BY <2>1, <3>1, <3>3, SubSeqProperties
    <3> QED BY <2>1, <2>2, <2>5, <3>2, <3>4, LiesRead
  <2> QED BY <2>4, <2>5
<1> QED
  BY <1>1, <1>2, <1>3, <1>4

(* The cells of what was read.                                             *)
LEMMA ReadCells ==
    ASSUME NEW a \in Atts, NEW v \in Seq(Nat), Types[a] = "number" => Len(v) = 1
    PROVE  /\ Cells(a, v) \in Seq(Nat) /\ Len(Cells(a, v)) \in Nat \ {0}
           /\ Types[a] = "number" => /\ Len(Cells(a, v)) = 2 /\ Cells(a, v)[1] = 2 /\ Cells(a, v)[2] = v[1]
<1>1. Len(v) \in Nat /\ \A i \in 1 .. Len(v) : v[i] \in Nat
  BY LenProperties, ElementOfSeq
<1> PICK w : w = Payload(a, v)
  OBVIOUS
<1>2. w \in Seq(Nat) /\ Len(w) \in Nat
  <2>1. w = v \/ w = v \o <<End>>
    BY DEF Payload
  <2>2. <<End>> \in Seq(Nat)
    BY DEF End
  <2> QED BY <2>1, <2>2, ConcatProperties, LenProperties
<1>3. /\ <<Len(w) + 1>> \o w \in Seq(Nat) /\ Len(<<Len(w) + 1>> \o w) = Len(w) + 1
      /\ (<<Len(w) + 1>> \o w)[1] = Len(w) + 1
      /\ \A i \in 1 .. Len(w) : (<<Len(w) + 1>> \o w)[i + 1] = w[i]
  <2>1. <<Len(w) + 1>> \in Seq(Nat)
    BY <1>2
  <2> QED BY <1>2, <2>1
<1>4. Cells(a, v) = <<Len(w) + 1>> \o w
  BY DEF Cells
<1>5. ASSUME Types[a] = "number"
      PROVE  Len(Cells(a, v)) = 2 /\ Cells(a, v)[1] = 2 /\ Cells(a, v)[2] = v[1]
  <2>1. w = v /\ Len(w) = 1
    BY <1>5 DEF Payload
  <2>2. 1 \in 1 .. Len(w) /\ 1 + 1 = 2
    BY <2>1
  <2> QED BY <1>3, <1>4, <2>1, <2>2
<1> QED
  BY <1>2, <1>3, <1>4, <1>5

(* An attribute is written: v is what was read of it.                      *)
Wrote(s, a, r, v) ==
    /\ v \in Seq(Nat) /\ r \in Writings
    /\ r.size = s.size + Len(Cells(a, v)) /\ Len(s.buffer) <= Len(r.buffer)
    /\ \A n \in 1 .. Len(s.buffer) : n \notin s.size + 1 .. r.size => r.buffer[n] = s.buffer[n]
    /\ \A i \in 1 .. Len(Cells(a, v)) : r.buffer[s.size + i] = Cells(a, v)[i]
    /\ r.data = s.data \/ r.data = Lost(s.data)
    /\ ~ r.moved => ~ s.moved /\ r.data[a] \in {NoPointer, s.size + 2}
    /\ r.data[a] = NoPointer => v = value[a]
    /\ \A w \in Values(a) : r.data[a] = s.size + 2 /\ Lies(s.buffer, a, s.size + 2, w) => v = w

(* The cells are written behind those of the attributes before.            *)
LEMMA CellsWritten ==
    ASSUME NEW t \in Writings, NEW cells \in Seq(Nat), Len(cells) # 0, t.size + Len(cells) <= Len(t.buffer),
           NEW r \in [buffer : Seq(Nat), size : Nat \ {0}, data : [Atts -> Int], moved : BOOLEAN],
           Len(r.buffer) = Len(t.buffer), r.size = t.size + Len(cells), r.data = t.data,
           \A n \in 1 .. Len(r.buffer) : r.buffer[n] = IF n \in t.size + 1 .. t.size + Len(cells)
                                         THEN cells[n - t.size] ELSE t.buffer[n]
    PROVE  /\ r \in Writings
           /\ \A n \in 1 .. Len(r.buffer) : n \notin t.size + 1 .. r.size => r.buffer[n] = t.buffer[n]
           /\ \A i \in 1 .. Len(cells) : r.buffer[t.size + i] = cells[i]
<1>1. /\ t \in [buffer : Seq(Nat), size : Nat \ {0}, data : [Atts -> Int], moved : BOOLEAN]
      /\ t.size <= Len(t.buffer) /\ Pointers(t.data, t.buffer)
  BY DEF Writings
<1>2. Len(cells) \in Nat /\ t.size \in Nat \ {0} /\ Len(r.buffer) \in Nat
  BY <1>1, LenProperties
<1>4. Pointers(r.data, r.buffer)
  BY <1>1 DEF Pointers
<1>5. r \in Writings
  BY <1>4 DEF Writings
<1>7. \A i \in 1 .. Len(cells) : r.buffer[t.size + i] = cells[i]
  <2> TAKE i \in 1 .. Len(cells)
  <2>4. PICK m, n, l : m = t.size /\ n = Len(cells) /\ l = Len(r.buffer)
    OBVIOUS
  <2>2. m \in Nat /\ n \in Nat /\ l \in Nat /\ m + n <= l /\ i \in 1 .. n
    BY <1>2, <2>4
  <2>3. m + i \in 1 .. l /\ m + i \in m + 1 .. m + n /\ (m + i) - m = i
    BY <2>2
  <2>1. t.size + i \in 1 .. Len(r.buffer) /\ t.size + i \in t.size + 1 .. t.size + Len(cells) /\ (t.size + i) - t.size = i
    BY <2>3, <2>4
  <2> QED BY <2>1
<1> QED
  BY <1>5, <1>7

(* The record that stands for the state after the cells were written.      *)
LEMMA StateWritten ==
    ASSUME NEW t \in Writings, NEW b \in Seq(Nat), NEW size1 \in Nat \ {0}, NEW moved1 \in BOOLEAN
    PROVE  LET r == [t EXCEPT !.buffer = b, !.size = size1, !.moved = moved1]
           IN  /\ r \in [buffer : Seq(Nat), size : Nat \ {0}, data : [Atts -> Int], moved : BOOLEAN]
               /\ r.buffer = b /\ r.size = size1 /\ r.data = t.data /\ r.moved = moved1
BY DEF Writings

(* The pointers that are lost are not those to values outside the buffer.  *)
LEMMA LostPointers ==
    ASSUME NEW data \in [Atts -> Int], NEW a \in Atts
    PROVE  /\ Lost(data)[a] = NoPointer <=> data[a] = NoPointer
           /\ Lost(data)[a] \in {NoPointer, Dangling} /\ NoPointer = 0 /\ Dangling = -1
BY DEF Lost, NoPointer, Dangling

(* The cells at a place, counted from the one before it.                   *)
LEMMA CountedFrom ==
    ASSUME NEW m \in Nat, NEW from \in Nat, m < from, from <= m + 1, NEW len \in Nat, NEW b, NEW cells, NEW n \in Int
    PROVE  (IF n \in from .. from + len - 1 THEN cells[n - from + 1] ELSE b[n])
              = IF n \in m + 1 .. m + len THEN cells[n - m] ELSE b[n]
<1>1. (n \in from .. from + len - 1 <=> n \in m + 1 .. m + len) /\ n - from + 1 = n - m
  OBVIOUS
<1> QED
  BY <1>1

(* serialize of a string: it is read before the buffer is extended, and    *)
(* its cells are copied there.                                             *)
LEMMA StringWritten ==
    ASSUME value \in Contents, NEW s \in Writings, NEW a \in Atts, Types[a] # "number"
    PROVE  \E v : Wrote(s, a, Serialized(s, a), v)
<1>1. /\ s.buffer \in Seq(Nat) /\ s.size \in Nat \ {0} /\ s.data \in [Atts -> Int] /\ s.moved \in BOOLEAN
      /\ Pointers(s.data, s.buffer)
  BY DEF Writings
<1>2. PICK v : v = Value(a, s.buffer, s.data)
  OBVIOUS
<1>3. PICK cells : cells = Cells(a, v)
  OBVIOUS
<1>4. PICK t : t = Extended(s, Len(cells))
  OBVIOUS
<1>5. PICK r : r = Serialized(s, a)
  OBVIOUS
<1>6. /\ v \in Seq(Nat) /\ (s.data[a] = NoPointer => v = value[a])
      /\ \A w \in Values(a) : Lies(s.buffer, a, s.data[a], w) => v = w
  <2> PICK b, data : b = s.buffer /\ data = s.data
    OBVIOUS
  <2>1. /\ Value(a, b, data) \in Seq(Nat) /\ (data[a] = NoPointer => Value(a, b, data) = value[a])
        /\ \A w \in Values(a) : Lies(b, a, data[a], w) => Value(a, b, data) = w
    BY <1>1, ValueRead
  <2> QED BY <1>2, <2>1
<1>7. cells \in Seq(Nat) /\ Len(cells) \in Nat \ {0}
  BY <1>3, <1>6, ReadCells
<1>8. /\ t \in Writings /\ t.size = s.size /\ t.moved = s.moved /\ s.size + Len(cells) <= Len(t.buffer)
      /\ Len(s.buffer) <= Len(t.buffer) /\ \A i \in 1 .. Len(s.buffer) : t.buffer[i] = s.buffer[i]
      /\ t.data = s.data \/ t.data = Lost(s.data)
  BY <1>4, <1>7, ExtendedBuffer
<1>9. t.buffer \in Seq(Nat) /\ t.size + 1 \in Nat \ {0} /\ t.moved \in BOOLEAN /\ Len(t.buffer) \in Nat
  BY <1>1, <1>8, LenProperties DEF Writings
<1>10. PICK b : b = Written(t.buffer, t.size + 1, cells)
  OBVIOUS
<1>11. /\ b \in Seq(Nat) /\ Len(b) = Len(t.buffer)
       /\ \A n \in 1 .. Len(b) : b[n] = IF n \in t.size + 1 .. t.size + Len(cells)
                                         THEN cells[n - t.size] ELSE t.buffer[n]
  <2>1. PICK m, from : m = t.size /\ from = t.size + 1
    OBVIOUS
  <2>2. m \in Nat /\ from \in Nat /\ m < from /\ from <= m + 1
    BY <1>1, <1>8, <2>1
  <2>3. b = Written(t.buffer, from, cells)
    BY <1>10, <2>1
  <2>4. /\ b \in Seq(Nat) /\ Len(b) = Len(t.buffer)
        /\ \A n \in 1 .. Len(b) : b[n] = IF n \in m + 1 .. m + Len(cells) THEN cells[n - m] ELSE t.buffer[n]
    <3>1. PICK old, len : old = t.buffer /\ len = Len(cells)
      OBVIOUS
    <3>2. old \in Seq(Nat) /\ cells \in Seq(Nat) /\ from \in Nat \ {0} /\ len \in Nat /\ Len(old) \in Nat
      BY <1>7, <1>9, <2>2, <2>3, <3>1, LenProperties
    <3>3. b = Written(old, from, cells)
      BY <3>1, <1>7, <1>9, <2>2, <2>3
    <3>4. /\ b \in Seq(Nat) /\ Len(b) = Len(old)
          /\ \A n \in 1 .. Len(old) : b[n] = IF n \in from .. from + Len(cells) - 1 THEN cells[n - from + 1] ELSE old[n]
      BY <3>2, <3>3, WrittenCells
    <3>5. \A n \in 1 .. Len(old) : n \in Int /\ b[n] = IF n \in from .. from + len - 1 THEN cells[n - from + 1] ELSE old[n]
      BY <3>1, <3>2, <3>4
    <3>6. \A n \in 1 .. Len(old) : b[n] = IF n \in m + 1 .. m + len THEN cells[n - m] ELSE old[n]
      BY <2>2, <3>2, <3>5, CountedFrom, SMTT(60), ZenonT(60)
    <3> QED BY <3>1, <3>4, <3>6
  <2> QED BY <2>1, <2>4
<1>12. PICK moved1 \in BOOLEAN : moved1 <=> t.moved \/ t.data[a] \notin {NoPointer, t.size + 2}
  OBVIOUS
<1>13. r = [t EXCEPT !.buffer = b, !.size = t.size + Len(cells), !.moved = moved1]
  <2>1. moved1 = (t.moved \/ t.data[a] \notin {NoPointer, t.size + 2})
    BY <1>9, <1>12
  <2> QED BY <1>2, <1>3, <1>4, <1>5, <1>10, <2>1 DEF Serialized
<1>14. /\ r \in Writings /\ r.buffer = b /\ r.size = t.size + Len(cells) /\ r.data = t.data /\ r.moved = moved1
       /\ \A n \in 1 .. Len(b) : n \notin t.size + 1 .. r.size => b[n] = t.buffer[n]
       /\ \A i \in 1 .. Len(cells) : b[t.size + i] = cells[i]
  <2>1. /\ Len(cells) # 0 /\ t \in Writings /\ cells \in Seq(Nat) /\ b \in Seq(Nat)
        /\ Len(b) = Len(t.buffer) /\ t.size + Len(cells) <= Len(t.buffer)
    BY <1>7, <1>8, <1>11
  <2>2. PICK size1 \in Nat \ {0} : size1 = t.size + Len(cells)
    BY <1>7, <1>8 DEF Writings
  <2>3. r = [t EXCEPT !.buffer = b, !.size = size1, !.moved = moved1]
    BY <1>13, <2>2
  <2>4. /\ r \in [buffer : Seq(Nat), size : Nat \ {0}, data : [Atts -> Int], moved : BOOLEAN]
        /\ r.buffer = b /\ r.size = size1 /\ r.data = t.data /\ r.moved = moved1
    BY <2>1, <2>3, StateWritten, ZenonT(60)
  <2>5. r.size = t.size + Len(cells)
    BY <2>2, <2>4
  <2>6. \A n \in 1 .. Len(r.buffer) : r.buffer[n] = IF n \in t.size + 1 .. t.size + Len(cells)
                                                THEN cells[n - t.size] ELSE t.buffer[n]
    BY <1>11, <2>4
  <2>7. /\ r \in Writings
        /\ \A n \in 1 .. Len(r.buffer) : n \notin t.size + 1 .. r.size => r.buffer[n] = t.buffer[n]
        /\ \A i \in 1 .. Len(cells) : r.buffer[t.size + i] = cells[i]
    BY <2>1, <2>4, <2>5, <2>6, CellsWritten, ZenonT(60)
  <2> QED BY <2>4, <2>5, <2>7
<1>15. /\ ~ r.moved => ~ s.moved /\ r.data[a] \in {NoPointer, s.size + 2}
       /\ r.data = s.data \/ r.data = Lost(s.data)
  BY <1>8, <1>12, <1>14
<1>16. \A n \in 1 .. Len(s.buffer) : n \notin s.size + 1 .. r.size => r.buffer[n] = s.buffer[n]
  <2>1. Len(s.buffer) \in Nat /\ \A n \in 1 .. Len(s.buffer) : n \in 1 .. Len(b)
    BY <1>1, <1>8, <1>9, <1>11, LenProperties
  <2> QED BY <1>8, <1>14, <2>1
<1>17. r.data[a] = NoPointer => v = value[a]
  BY <1>1, <1>6, <1>15, LostPointers
<1>18. \A w \in Values(a) : r.data[a] = s.size + 2 /\ Lies(s.buffer, a, s.size + 2, w) => v = w
  <2> SUFFICES ASSUME NEW w \in Values(a), r.data[a] = s.size + 2, Lies(s.buffer, a, s.size + 2, w)
               PROVE  v = w
    OBVIOUS
  <2>1. r.data = s.data
    BY <1>1, <1>15, LostPointers
  <2> QED BY <1>6, <2>1
<1>19. Wrote(s, a, r, v)
  BY <1>3, <1>6, <1>8, <1>11, <1>14, <1>15, <1>16, <1>17, <1>18 DEF Wrote
<1> QED
  BY <1>5, <1>19

(* serialize of a number: its length is written before it is read, so the  *)
(* cell it is read from is not to be that of the length.                   *)
LEMMA NumberWritten ==
    ASSUME value \in Contents, NEW s \in Writings, NEW a \in Atts, Types[a] = "number"
    PROVE  \E v : Wrote(s, a, Serialized(s, a), v)
<1>1. /\ s.buffer \in Seq(Nat) /\ s.size \in Nat \ {0} /\ s.data \in [Atts -> Int] /\ s.moved \in BOOLEAN
      /\ Len(s.buffer) \in Nat
  BY LenProperties DEF Writings
<1>2. PICK t : t = Extended(s, 2)
  OBVIOUS
<1>3. PICK b : b = Written(t.buffer, t.size + 1, <<2>>)
  OBVIOUS
<1>4. PICK v : v = Value(a, b, t.data)
  OBVIOUS
<1>5. PICK r : r = Serialized(s, a)
  OBVIOUS
<1>6. /\ t \in Writings /\ t.size = s.size /\ t.moved = s.moved /\ s.size + 2 <= Len(t.buffer)
      /\ Len(s.buffer) <= Len(t.buffer) /\ \A i \in 1 .. Len(s.buffer) : t.buffer[i] = s.buffer[i]
      /\ t.data = s.data \/ t.data = Lost(s.data)
  BY <1>2, ExtendedBuffer
<1>7. /\ t.buffer \in Seq(Nat) /\ t.size \in Nat \ {0} /\ t.moved \in BOOLEAN /\ Len(t.buffer) \in Nat
      /\ t.data \in [Atts -> Int] /\ Pointers(t.data, t.buffer)
  BY <1>6, LenProperties DEF Writings
<1>8. /\ b \in Seq(Nat) /\ Len(b) = Len(t.buffer)
      /\ \A n \in 1 .. Len(b) : b[n] = IF n = t.size + 1 THEN 2 ELSE t.buffer[n]
  <2>1. PICK m, from : m = t.size /\ from = t.size + 1
    OBVIOUS
  <2>2. m \in Nat /\ from \in Nat /\ m < from /\ from <= m + 1
    BY <1>7, <2>1
  <2>3. PICK two : two = <<2>>
    OBVIOUS
  <2>4. two \in Seq(Nat) /\ Len(two) = 1 /\ two[1] = 2
    BY <2>3
  <2>5. b = Written(t.buffer, from, two)
    BY <1>3, <2>1, <2>3
  <2>6. /\ b \in Seq(Nat) /\ Len(b) = Len(t.buffer)
        /\ \A n \in 1 .. Len(b) : b[n] = IF n \in m + 1 .. m + Len(two) THEN two[n - m] ELSE t.buffer[n]
    <3>1. PICK old, len : old = t.buffer /\ len = Len(two)
      OBVIOUS
    <3>2. old \in Seq(Nat) /\ two \in Seq(Nat) /\ from \in Nat \ {0} /\ len \in Nat /\ Len(old) \in Nat
      BY <1>7, <2>2, <2>4, <2>5, <3>1, LenProperties
    <3>3. b = Written(old, from, two)
      BY <3>1, <1>7, <2>2, <2>4, <2>5
    <3>4. /\ b \in Seq(Nat) /\ Len(b) = Len(old)
          /\ \A n \in 1 .. Len(old) : b[n] = IF n \in from .. from + Len(two) - 1 THEN two[n - from + 1] ELSE old[n]
      BY <3>2, <3>3, WrittenCells
    <3>5. \A n \in 1 .. Len(old) : n \in Int /\ b[n] = IF n \in from .. from + len - 1 THEN two[n - from + 1] ELSE old[n]
      BY <3>1, <3>2, <3>4
    <3>6. \A n \in 1 .. Len(old) : b[n] = IF n \in m + 1 .. m + len THEN two[n - m] ELSE old[n]
      BY <2>2, <3>2, <3>5, CountedFrom, ZenonT(60)
    <3> QED BY <3>1, <3>4, <3>6
  <2>7. \A n \in Int : (n \in m + 1 .. m + Len(two) <=> n = m + 1) /\ (n = m + 1 => n - m = 1)
    BY <2>2, <2>4
  <2>8. \A n \in 1 .. Len(b) : n \in Int /\ b[n] = IF n = m + 1 THEN 2 ELSE t.buffer[n]
    BY <2>4, <2>6, <2>7
  <2> QED BY <2>1, <2>6, <2>8
<1>9. /\ v \in Seq(Nat) /\ Len(v) = 1 /\ (t.data[a] = NoPointer => v = value[a])
      /\ \A w \in Values(a) : Lies(b, a, t.data[a], w) => v = w
  <2> PICK data : data = t.data
    OBVIOUS
  <2>1. data \in [Atts -> Int] /\ Pointers(data, b)
    BY <1>7, <1>8 DEF Pointers
  <2>2. /\ Value(a, b, data) \in Seq(Nat) /\ Len(Value(a, b, data)) = 1
        /\ (data[a] = NoPointer => Value(a, b, data) = value[a])
        /\ \A w \in Values(a) : Lies(b, a, data[a], w) => Value(a, b, data) = w
    BY <1>8, <2>1, ValueRead
  <2> QED BY <1>4, <2>2
<1>10. PICK cells : cells = Cells(a, v)
  OBVIOUS
<1>11. cells \in Seq(Nat) /\ Len(cells) = 2 /\ cells[1] = 2 /\ cells[2] = v[1]
  BY <1>9, <1>10, ReadCells
<1>12. PICK c : c = Written(b, t.size + 2, v)
  OBVIOUS
<1>13. /\ c \in Seq(Nat) /\ Len(c) = Len(t.buffer)
       /\ \A n \in 1 .. Len(c) : c[n] = IF n = t.size + 2 THEN v[1] ELSE b[n]
  <2>1. PICK m, from : m = t.size + 1 /\ from = t.size + 2
    OBVIOUS
  <2>2. m \in Nat /\ from \in Nat /\ m < from /\ from <= m + 1
    BY <1>7, <2>1
  <2>3. c = Written(b, from, v)
    BY <1>12, <2>1
  <2>4. /\ c \in Seq(Nat) /\ Len(c) = Len(b)
        /\ \A n \in 1 .. Len(c) : c[n] = IF n \in m + 1 .. m + Len(v) THEN v[n - m] ELSE b[n]
    <3>1. PICK old, len : old = b /\ len = Len(v)
      OBVIOUS
    <3>2. old \in Seq(Nat) /\ v \in Seq(Nat) /\ from \in Nat \ {0} /\ len \in Nat /\ Len(old) \in Nat
      BY <1>8, <1>9, <2>2, <2>3, <3>1, LenProperties
    <3>3. c = Written(old, from, v)
      BY <3>1, <1>8, <1>9, <2>2, <2>3
    <3>4. /\ c \in Seq(Nat) /\ Len(c) = Len(old)
          /\ \A n \in 1 .. Len(old) : c[n] = IF n \in from .. from + Len(v) - 1 THEN v[n - from + 1] ELSE old[n]
      BY <3>2, <3>3, WrittenCells
    <3>5. \A n \in 1 .. Len(old) : n \in Int /\ c[n] = IF n \in from .. from + len - 1 THEN v[n - from + 1] ELSE old[n]
      BY <3>1, <3>2, <3>4
    <3>6. \A n \in 1 .. Len(old) : c[n] = IF n \in m + 1 .. m + len THEN v[n - m] ELSE old[n]
      BY <2>2, <3>2, <3>5, CountedFrom, ZenonT(60)
    <3> QED BY <3>1, <3>4, <3>6
  <2>5. \A n \in Int : (n \in m + 1 .. m + Len(v) <=> n = m + 1) /\ (n = m + 1 => n - m = 1)
    BY <1>9, <2>2
  <2>6. \A n \in 1 .. Len(c) : n \in Int /\ c[n] = IF n = m + 1 THEN v[1] ELSE b[n]
    BY <2>4, <2>5
  <2>7. m + 1 = t.size + 2
    BY <1>7, <2>1
  <2> QED BY <1>8, <2>4, <2>6, <2>7
<1>14. \A n \in 1 .. Len(c) : c[n] = IF n \in t.size + 1 .. t.size + Len(cells)
                                    THEN cells[n - t.size] ELSE t.buffer[n]
  <2>1. PICK m \in Nat : m = t.size
    BY <1>7
  <2>2. Len(b) = Len(c)
    BY <1>8, <1>13
  <2>3. \A n \in Int : /\ n \in m + 1 .. m + 2 <=> n = m + 1 \/ n = m + 2
                       /\ n = m + 1 => n - m = 1 /\ n # m + 2
                       /\ n = m + 2 => n - m = 2 /\ n # m + 1
    OBVIOUS
  <2>4. \A n \in 1 .. Len(c) : n \in Int /\ b[n] = (IF n = m + 1 THEN 2 ELSE t.buffer[n])
                             /\ c[n] = IF n = m + 2 THEN v[1] ELSE b[n]
    BY <1>8, <1>13, <2>1, <2>2
  <2>5. \A n \in 1 .. Len(c) : c[n] = IF n \in m + 1 .. m + 2 THEN cells[n - m] ELSE t.buffer[n]
    BY <1>11, <2>3, <2>4
  <2> QED BY <1>11, <2>1, <2>5
<1>15. PICK moved1 \in BOOLEAN : moved1 <=> t.moved \/ t.data[a] \notin {NoPointer, t.size + 2}
  OBVIOUS
<1>16. r = [t EXCEPT !.buffer = c, !.size = t.size + Len(cells), !.moved = moved1]
  <2>1. moved1 = (t.moved \/ t.data[a] \notin {NoPointer, t.size + 2})
    BY <1>7, <1>15
  <2> QED BY <1>2, <1>3, <1>4, <1>5, <1>11, <1>12, <2>1 DEF Serialized
<1>17. /\ r \in Writings /\ r.buffer = c /\ r.size = t.size + Len(cells) /\ r.data = t.data /\ r.moved = moved1
       /\ \A n \in 1 .. Len(c) : n \notin t.size + 1 .. r.size => c[n] = t.buffer[n]
       /\ \A i \in 1 .. Len(cells) : c[t.size + i] = cells[i]
  <2>1. /\ Len(cells) # 0 /\ t \in Writings /\ cells \in Seq(Nat) /\ c \in Seq(Nat)
        /\ Len(c) = Len(t.buffer) /\ t.size + Len(cells) <= Len(t.buffer)
    BY <1>6, <1>11, <1>13
  <2>2. PICK size1 \in Nat \ {0} : size1 = t.size + Len(cells)
    BY <1>7, <1>11 DEF Writings
  <2>3. r = [t EXCEPT !.buffer = c, !.size = size1, !.moved = moved1]
    BY <1>16, <2>2
  <2>4. /\ r \in [buffer : Seq(Nat), size : Nat \ {0}, data : [Atts -> Int], moved : BOOLEAN]
        /\ r.buffer = c /\ r.size = size1 /\ r.data = t.data /\ r.moved = moved1
    BY <2>1, <2>3, StateWritten, ZenonT(60)
  <2>5. r.size = t.size + Len(cells)
    BY <2>2, <2>4
  <2>6. \A n \in 1 .. Len(r.buffer) : r.buffer[n] = IF n \in t.size + 1 .. t.size + Len(cells)
                                                THEN cells[n - t.size] ELSE t.buffer[n]
    BY <1>14, <2>4
  <2>7. /\ r \in Writings
        /\ \A n \in 1 .. Len(r.buffer) : n \notin t.size + 1 .. r.size => r.buffer[n] = t.buffer[n]
        /\ \A i \in 1 .. Len(cells) : r.buffer[t.size + i] = cells[i]
    BY <2>1, <2>4, <2>5, <2>6, CellsWritten, ZenonT(60)
  <2> QED BY <2>4, <2>5, <2>7
<1>18. /\ ~ r.moved => ~ s.moved /\ r.data[a] \in {NoPointer, s.size + 2}
       /\ r.data = s.data \/ r.data = Lost(s.data)
  BY <1>6, <1>15, <1>17
<1>19. \A n \in 1 .. Len(s.buffer) : n \notin s.size + 1 .. r.size => r.buffer[n] = s.buffer[n]
  <2>1. \A n \in 1 .. Len(s.buffer) : n \in 1 .. Len(c)
    BY <1>1, <1>6, <1>7, <1>13
  <2> QED BY <1>6, <1>17, <2>1
<1>20. \A w \in Values(a) : r.data[a] = s.size + 2 /\ Lies(s.buffer, a, s.size + 2, w) => v = w
  <2> SUFFICES ASSUME NEW w \in Values(a), r.data[a] = s.size + 2, Lies(s.buffer, a, s.size + 2, w)
               PROVE  v = w
    OBVIOUS
  <2>1. PICK p, l, len : p = s.size + 2 /\ l = Len(Payload(a, w)) /\ len = Len(s.buffer)
    OBVIOUS
  <2>2. Lies(s.buffer, a, p, w)
    BY <2>1
  <2>3. p \in Nat \ {0} /\ l \in Nat /\ len \in Nat /\ p + l - 1 <= len /\ p # t.size + 1 /\ p = t.size + 2
    BY <1>1, <1>6, <1>7, <2>1, <2>2, ValueCells, SMTT(30) DEF Lies
  <2>4. len <= Len(b) /\ Len(b) \in Nat
    BY <1>6, <1>7, <1>8, <2>1
  <2>5. p + l - 1 <= Len(b)
    BY <2>3, <2>4
  <2>6. \A n \in p .. p + l - 1 : n \in 1 .. len /\ n \in 1 .. Len(b) /\ n # t.size + 1
    <3>1. PICK m \in Nat : m = t.size
      BY <1>7
    <3>2. p = m + 2
      BY <2>3, <3>1
    <3>3. \A n \in p .. p + l - 1 : n \in 1 .. len /\ n \in 1 .. Len(b) /\ n # m + 1
      BY <2>3, <2>4, <3>2
    <3> QED BY <3>1, <3>3
  <2>7. \A n \in p .. p + l - 1 : b[n] = s.buffer[n]
    BY <1>6, <1>8, <2>1, <2>6
  <2>8. Lies(b, a, p, w)
    <3>1. /\ p + Len(Payload(a, w)) - 1 <= Len(b)
          /\ \A n \in p .. p + Len(Payload(a, w)) - 1 : b[n] = s.buffer[n]
      BY <2>1, <2>5, <2>7
    <3> QED BY <2>2, <3>1, LiesKept
  <2>9. t.data[a] = p
    BY <1>17, <2>1
  <2> QED BY <1>9, <2>8, <2>9
<1>21. Wrote(s, a, r, v)
  BY <1>6, <1>9, <1>10, <1>13, <1>17, <1>18, <1>19, <1>20 DEF Wrote
<1> QED
  BY <1>5, <1>21

(* What serialize does to an attribute of either type.                     *)
LEMMA SerializedWrites ==
    ASSUME value \in Contents, NEW s \in Writings, NEW a \in Atts
    PROVE  \E v : Wrote(s, a, Serialized(s, a), v)
BY StringWritten, NumberWritten

-----------------------------------------------------------------------------
(* A record of which the first k attributes are written: unless one was    *)
(* written away from its place, their cells are in the buffer, and every   *)
(* other one has its value in itself or in cells not written yet.          *)
ToWrite(s, k, a) ==
    /\ a > k /\ s.data[a] \in Nat \ {0}
    /\ s.data[a] > s.size => Lies(s.buffer, a, s.data[a], content[a])

SoFar(s, k) ==
    \A a \in Atts :
        \/ s.data[a] = NoPointer /\ value[a] = content[a]
        \/ s.data[a] = Dangling
        \/ a <= k /\ s.data[a] = PlaceOf(content, a)
        \/ ToWrite(s, k, a)

WrittenSoFar(s, k) ==
    /\ s \in Writings
    /\ ~ s.moved => s.size = Len(Body(content, k)) + 1 /\ Laid(s.buffer, content, k) /\ SoFar(s, k)

(* The value of the next attribute is that of the content.                 *)
LEMMA NextValue ==
    ASSUME content \in Contents, NEW k \in Nat, NEW a \in Atts, a = k + 1, NEW s, NEW r, NEW v,
           WrittenSoFar(s, k), Wrote(s, a, r, v), ~ r.moved
    PROVE  v = content[a] /\ ~ s.moved /\ r.data[a] \in {NoPointer, PlaceOf(content, a)}
<1>1. /\ ~ s.moved /\ s.size = Len(Body(content, k)) + 1 /\ SoFar(s, k)
      /\ s.data \in [Atts -> Int] /\ s.size \in Nat \ {0}
  BY DEF WrittenSoFar, Wrote, Writings
<1>2. /\ r.data[a] \in {NoPointer, s.size + 2}
      /\ r.data = s.data \/ r.data = Lost(s.data)
      /\ r.data[a] = NoPointer => v = value[a]
      /\ \A w \in Values(a) : r.data[a] = s.size + 2 /\ Lies(s.buffer, a, s.size + 2, w) => v = w
  BY DEF Wrote
<1>3. a <= Len(Types) /\ content[a] \in Values(a) /\ Len(Types) \in Nat
  BY ContentValues
<1>4. PlaceOf(content, a) = Len(Body(content, k)) + 3 /\ Len(Body(content, k)) \in Nat
  <2>1. k <= Len(Types)
    BY <1>3
  <2>2. Body(content, k) \in Seq(Nat) /\ << >> \in Seq(Nat)
    BY <2>1, BodyNext
  <2>3. PlaceOf(content, a) = Len(Body(content, k)) + 3
    BY <1>3, <2>2, LaidNext
  <2> QED BY <2>2, <2>3, LenProperties
<1>5. s.size + 2 = PlaceOf(content, a)
  BY <1>1, <1>4
<1>6. NoPointer = 0 /\ Dangling = -1
  BY DEF NoPointer, Dangling
<1>7. CASE r.data[a] = NoPointer
  <2>1. s.data[a] = NoPointer
    BY <1>1, <1>2, <1>7, LostPointers
  <2>2. value[a] = content[a]
    <3>1. PlaceOf(content, a) # NoPointer /\ ~ ToWrite(s, k, a)
      BY <1>4, <1>6, <2>1 DEF ToWrite
    <3> QED BY <1>1, <1>6, <2>1, <3>1 DEF SoFar
  <2> QED BY <1>1, <1>2, <1>7, <2>2
<1>8. CASE r.data[a] = s.size + 2
  <2>1. r.data[a] \notin {NoPointer, Dangling}
    BY <1>1, <1>6, <1>8
  <2>2. s.data[a] = s.size + 2
    BY <1>1, <1>2, <1>8, <2>1, LostPointers
  <2>3. ToWrite(s, k, a)
    <3>1. ~ (a <= k)
      OBVIOUS
    <3> QED BY <1>1, <1>2, <1>8, <2>1, <2>2, <3>1 DEF SoFar
  <2>4. s.data[a] > s.size
    BY <1>1, <2>2
  <2>5. Lies(s.buffer, a, s.size + 2, content[a])
    BY <2>2, <2>3, <2>4 DEF ToWrite
  <2> QED BY <1>1, <1>2, <1>3, <1>5, <1>8, <2>5
<1> QED
  BY <1>2, <1>7, <1>8

(* One more attribute is written.                                          *)
LEMMA OneMoreWritten ==
    ASSUME content \in Contents, NEW k \in Nat, NEW a \in Atts, a = k + 1, NEW s, NEW r, NEW v,
           WrittenSoFar(s, k), Wrote(s, a, r, v)
    PROVE  WrittenSoFar(r, a)
<1> SUFFICES ASSUME ~ r.moved
             PROVE  r.size = Len(Body(content, a)) + 1 /\ Laid(r.buffer, content, a) /\ SoFar(r, a)
  BY DEF Wrote, WrittenSoFar
<1>1. v = content[a] /\ ~ s.moved /\ r.data[a] \in {NoPointer, PlaceOf(content, a)}
  BY NextValue
<1>2. /\ s \in Writings /\ r \in Writings
      /\ s.size = Len(Body(content, k)) + 1 /\ Laid(s.buffer, content, k) /\ SoFar(s, k)
  BY <1>1 DEF WrittenSoFar, Wrote
<1>3. PICK cells : cells = Cells(a, content[a])
  OBVIOUS
<1>4. /\ r.size = s.size + Len(cells) /\ Len(s.buffer) <= Len(r.buffer)
      /\ \A n \in 1 .. Len(s.buffer) : n \notin s.size + 1 .. r.size => r.buffer[n] = s.buffer[n]
      /\ \A i \in 1 .. Len(cells) : r.buffer[s.size + i] = cells[i]
      /\ r.data = s.data \/ r.data = Lost(s.data)
  BY <1>1, <1>3 DEF Wrote
<1>5. /\ s.buffer \in Seq(Nat) /\ r.buffer \in Seq(Nat) /\ s.size \in Nat \ {0} /\ r.size \in Nat \ {0}
      /\ s.data \in [Atts -> Int] /\ r.data \in [Atts -> Int] /\ r.size <= Len(r.buffer)
      /\ Len(s.buffer) \in Nat /\ Len(r.buffer) \in Nat
  BY <1>2, LenProperties DEF Writings
<1>6. a <= Len(Types) /\ Len(Types) \in Nat /\ k <= Len(Types) /\ content[a] \in Values(a)
  BY ContentValues
<1>7. Len(Body(content, k)) \in Nat /\ Len(cells) \in Nat
  <2>1. Body(content, k) \in Seq(Nat) /\ cells \in Seq(Nat)
    BY <1>3, <1>6, BodyNext, ValueCells
  <2> QED BY <2>1, LenProperties
<1>8. /\ PlaceOf(content, a) = Len(Body(content, k)) + 3
      /\ Len(Body(content, a)) = Len(Body(content, k)) + Len(cells)
      /\ Laid(r.buffer, content, k) /\ Len(Body(content, a)) + 1 <= Len(r.buffer)
           /\ (\A i \in 1 .. Len(cells) : r.buffer[Len(Body(content, k)) + 1 + i] = cells[i])
         => Laid(r.buffer, content, a)
  BY <1>3, <1>5, <1>6, LaidNext, ZenonT(60)
<1>9. r.size = Len(Body(content, a)) + 1
  <2>1. s.size = Len(Body(content, k)) + 1
    BY <1>2
  <2>2. r.size = s.size + Len(cells)
    BY <1>4
  <2>3. Len(Body(content, a)) = Len(Body(content, k)) + Len(cells)
    BY <1>8
  <2>4. Len(Body(content, k)) \in Nat /\ Len(cells) \in Nat
    BY <1>7
  <2> QED BY <2>1, <2>2, <2>3, <2>4
<1>10. Laid(r.buffer, content, k)
  <2>1. PICK l, old, new : l = Len(Body(content, k)) /\ old = Len(s.buffer) /\ new = Len(r.buffer)
    OBVIOUS
  <2>2. /\ l \in Nat /\ l + 1 <= old /\ old <= new /\ old \in Nat /\ new \in Nat /\ s.size = l + 1
        /\ \A i \in 1 .. l : s.buffer[i + 1] = Body(content, k)[i]
    BY <1>2, <1>4, <1>5, <1>7, <2>1 DEF Laid
  <2>3. \A i \in 1 .. l : i + 1 \in 1 .. old /\ i + 1 \notin l + 1 + 1 .. r.size
    <3>1. l \in Nat /\ old \in Nat /\ l + 1 <= old
      BY <2>2
    <3>2. PICK z : z = r.size
      OBVIOUS
    <3>3. z \in Nat
      BY <1>5, <3>2
    <3>4. \A i \in 1 .. l : i + 1 \in 1 .. old /\ i + 1 \notin l + 1 + 1 .. z
      BY <3>1, <3>3
    <3> QED BY <3>2, <3>4
  <2>4. \A i \in 1 .. l : r.buffer[i + 1] = s.buffer[i + 1]
    BY <1>4, <2>1, <2>2, <2>3
  <2>5. l + 1 <= new
    BY <2>2
  <2> QED BY <2>1, <2>2, <2>4, <2>5 DEF Laid
<1>11. Laid(r.buffer, content, a)
  <2>1. \A i \in 1 .. Len(cells) : r.buffer[Len(Body(content, k)) + 1 + i] = cells[i]
    BY <1>2, <1>4
  <2> QED BY <1>5, <1>8, <1>9, <1>10, <2>1
<1>12. ASSUME NEW d \in Atts
       PROVE  \/ r.data[d] = NoPointer /\ value[d] = content[d]
              \/ r.data[d] = Dangling
              \/ d <= a /\ r.data[d] = PlaceOf(content, d)
              \/ ToWrite(r, a, d)
  <2>1. /\ d \in 1 .. Len(Types) /\ d \in Int
        /\ d <= k => d <= a
        /\ d > k => d = a \/ d > a
    BY <1>6, ContentValues
  <2>2. \/ s.data[d] = NoPointer /\ value[d] = content[d]
        \/ s.data[d] = Dangling
        \/ d <= k /\ s.data[d] = PlaceOf(content, d)
        \/ ToWrite(s, k, d)
    BY <1>2 DEF SoFar
  <2>3. NoPointer = 0 /\ Dangling = -1
    BY DEF NoPointer, Dangling
  <2>4. CASE r.data # s.data
    <3>1. r.data = Lost(s.data)
      BY <1>4, <2>4
    <3>2. /\ r.data[d] = NoPointer <=> s.data[d] = NoPointer
          /\ r.data[d] \in {NoPointer, Dangling}
      BY <1>5, <3>1, LostPointers
    <3>3. CASE r.data[d] = NoPointer
      <4>1. s.data[d] = 0
        BY <2>3, <3>2, <3>3
      <4>2. ~ ToWrite(s, k, d)
        BY <4>1 DEF ToWrite
      <4>3. PlaceOf(content, d) # 0
        <5>1. d - 1 \in Nat /\ d = (d - 1) + 1 /\ d <= Len(Types)
          BY <1>6, <2>1
        <5>2. Body(content, d - 1) \in Seq(Nat)
          BY <1>6, <5>1, BodyNext
        <5>3. PlaceOf(content, d) = Len(Body(content, d - 1)) + 3
          BY <5>1, <5>2, LaidNext
        <5> QED BY <5>2, <5>3, LenProperties
      <4> QED BY <2>2, <2>3, <3>3, <4>1, <4>2, <4>3
    <3> QED BY <3>2, <3>3
  <2>5. CASE r.data = s.data
    <3>1. CASE ToWrite(s, k, d)
      <4>1. CASE d = a
        <5>1. s.data[d] # 0
          BY <3>1 DEF ToWrite
        <5>2. r.data[d] = PlaceOf(content, d)
          BY <1>1, <2>3, <2>5, <4>1, <5>1
        <5> QED BY <2>1, <4>1, <5>2
      <4>2. CASE d > a
        <5>1. ASSUME r.data[d] > r.size
              PROVE  Lies(r.buffer, d, r.data[d], content[d])
          <6>1. PICK p, l, old : p = r.data[d] /\ l = Len(Payload(d, content[d])) /\ old = Len(s.buffer)
            OBVIOUS
          <6>2. p \in Int /\ p > s.size /\ p > r.size /\ p = s.data[d]
            BY <1>4, <1>5, <1>7, <2>5, <5>1, <6>1
          <6>3. Lies(s.buffer, d, p, content[d]) /\ content[d] \in Values(d)
            BY <3>1, <6>2, ContentValues DEF ToWrite
          <6>4. l \in Nat /\ p + l - 1 <= old /\ old \in Nat /\ p \in Nat \ {0} /\ old <= Len(r.buffer)
            BY <1>4, <1>5, <6>1, <6>3, ValueCells DEF Lies
          <6>5. \A n \in p .. p + l - 1 : n \in 1 .. old /\ n \notin s.size + 1 .. r.size
            <7>1. PICK m, e : m = s.size /\ e = r.size
              OBVIOUS
            <7>2. m \in Nat /\ e \in Nat /\ p > e
              BY <1>5, <6>2, <7>1
            <7>3. \A n \in p .. p + l - 1 : n \in 1 .. old /\ n \notin m + 1 .. e
              BY <6>4, <7>2
            <7> QED BY <7>1, <7>3
          <6>6. \A n \in p .. p + l - 1 : r.buffer[n] = s.buffer[n]
            BY <1>4, <6>1, <6>5
          <6>7. p + l - 1 <= Len(r.buffer)
            BY <1>5, <6>4
          <6>8. Lies(r.buffer, d, p, content[d])
            <7>1. /\ p + Len(Payload(d, content[d])) - 1 <= Len(r.buffer)
                  /\ \A n \in p .. p + Len(Payload(d, content[d])) - 1 : r.buffer[n] = s.buffer[n]
              BY <6>1, <6>6, <6>7
            <7> QED BY <6>3, <7>1, LiesKept
          <6> QED BY <6>1, <6>8
        <5>2. r.data[d] \in Nat \ {0}
          BY <2>5, <3>1 DEF ToWrite
        <5> QED BY <4>2, <5>1, <5>2 DEF ToWrite
      <4> QED BY <2>1, <3>1, <4>1, <4>2 DEF ToWrite
    <3> QED BY <2>1, <2>2, <2>5, <3>1
  <2> QED BY <2>4, <2>5
<1> QED
  BY <1>9, <1>11, <1>12 DEF SoFar

(* serialize is applied to the attributes from left to right.              *)
LEMMA AllWritten ==
    ASSUME value \in Contents, content \in Contents, NEW base, WrittenSoFar(base, 0)
    PROVE  WrittenSoFar(FoldLeft(Serialized, base, [n \in Atts |-> n]), Len(Types))
<1> PICK n : n = Len(Types)
  OBVIOUS
<1>1. n \in Nat /\ Atts = 1 .. n
  BY ContentValues
<1> DEFINE S == 1 .. n
           chosen == [s \in SUBSET S |-> Max(s)]
           Fold(f) == [s \in SUBSET S |-> IF s = {} THEN base ELSE Serialized(f[s \ {Max(s)}], [i \in S |-> i][Max(s)])]
           states == CHOOSE f : f = Fold(f)
<1>2. /\ \A s \in SUBSET S : s # {} => chosen[s] \in s /\ Max(s) \in S /\ s \ {Max(s)} \in SUBSET S
      /\ IsFiniteSet(S)
  <2>1. IsFiniteSet(S)
    BY <1>1, FS_Interval
  <2>2. \A s \in SUBSET S : s # {} => Max(s) \in s
    BY <1>1, GreatestPlace
  <2> HIDE DEF S
  <2> QED BY <2>1, <2>2
<1>3. \A s \in Writings : \A a \in S : Serialized(s, a) \in Writings
  BY <1>1, SerializedWrites DEF Wrote
<1>4. base \in Writings
  BY DEF WrittenSoFar
<1> HIDE DEF S
<1>5. \E f : f = Fold(f)
  <2> DEFINE step == [i \in S |-> [x \in Writings |-> Serialized(x, i)]]
  <2>1. step \in [S -> [Writings -> Writings]]
    BY <1>3
  <2> HIDE DEF step
  <2> PICK f \in [SUBSET S -> Writings] : FoldsBy(f, base, chosen, step, S)
    <3> HIDE DEF chosen
    <3> QED BY <1>2, <1>4, <2>1, FoldExists
  <2>2. \A s \in SUBSET S : f[s] = IF s = {} THEN base ELSE Serialized(f[s \ {Max(s)}], [i \in S |-> i][Max(s)])
    <3> TAKE s \in SUBSET S
    <3>1. f[s] = IF s = {} THEN base ELSE step[Max(s)][f[s \ {Max(s)}]]
      BY DEF FoldsBy
    <3>2. CASE s # {}
      <4> PICK x \in Writings, i \in S : x = f[s \ {Max(s)}] /\ i = Max(s)
        BY <1>2, <3>2
      <4>1. step[i][x] = Serialized(x, i) /\ [j \in S |-> j][i] = i
        BY DEF step
      <4> QED BY <3>1, <3>2, <4>1
    <3> QED BY <3>1, <3>2
  <2>3. f = [s \in SUBSET S |-> f[s]]
    OBVIOUS
  <2>4. Fold(f) = [s \in SUBSET S |-> f[s]]
    BY <2>2
  <2> QED BY <2>3, <2>4
<1>6. states = Fold(states)
  <2> HIDE DEF Fold
  <2> QED BY <1>5
<1>7. FoldLeft(Serialized, base, [i \in Atts |-> i]) = states[S]
  BY <1>1 DEF FoldLeft, MapThenFoldSet, states, S
<1> HIDE DEF states
<1>8. /\ states[{}] = base
      /\ \A k \in 0 .. n - 1 : states[1 .. k + 1] = Serialized(states[1 .. k], k + 1)
  <2>1. \A s \in SUBSET S : states[s] = Fold(states)[s]
    <3> HIDE DEF Fold
    <3> QED BY <1>6
  <2>2. states[{}] = base
    BY <2>1
  <2>3. ASSUME NEW k \in 0 .. n - 1
        PROVE  states[1 .. k + 1] = Serialized(states[1 .. k], k + 1)
    <3> PICK s : s = 1 .. k + 1
      OBVIOUS
    <3>1. s \in SUBSET S /\ s # {} /\ Max(s) = k + 1 /\ s \ {k + 1} = 1 .. k /\ k + 1 \in S
      <4>1. k + 1 \in S /\ s \in SUBSET S /\ s # {}
        <5>1. n \in Nat /\ k \in Nat /\ k + 1 <= n
          BY <1>1
        <5>2. k + 1 \in 1 .. n /\ 1 .. k + 1 \subseteq 1 .. n /\ k + 1 \in 1 .. k + 1
          BY <5>1
        <5> QED BY <5>2 DEF S
      <4>2. Max(s) = k + 1 /\ s \ {k + 1} = 1 .. k
        BY <1>1, GreatestPlace
      <4> QED BY <4>1, <4>2
    <3>2. states[s] = Serialized(states[s \ {Max(s)}], [i \in S |-> i][Max(s)])
      BY <2>1, <3>1
    <3>3. [i \in S |-> i][Max(s)] = k + 1
      BY <3>1
    <3> QED BY <3>1, <3>2, <3>3
  <2> QED BY <2>2, <2>3
<1> DEFINE T == {k \in Nat : k <= n => WrittenSoFar(states[1 .. k], k)}
<1>9. 0 \in T
  <2>1. 1 .. 0 = {}
    OBVIOUS
  <2> QED BY <1>8, <2>1
<1>10. \A k \in Nat : k \in T => k + 1 \in T
  <2> SUFFICES ASSUME NEW k \in Nat, k \in T, k + 1 <= n
               PROVE  WrittenSoFar(states[1 .. k + 1], k + 1)
    OBVIOUS
  <2>1. k \in 0 .. n - 1 /\ k <= n /\ k + 1 \in 1 .. n
    BY <1>1
  <2>2. PICK s, a, r : s = states[1 .. k] /\ a = k + 1 /\ r = Serialized(s, a)
    OBVIOUS
  <2>3. WrittenSoFar(s, k) /\ a \in Atts /\ a = k + 1
    BY <1>1, <2>1, <2>2
  <2>4. PICK v : Wrote(s, a, r, v)
    <3>1. s \in Writings
      BY <2>3 DEF WrittenSoFar
    <3> QED BY <2>2, <2>3, <3>1, SerializedWrites
  <2>5. WrittenSoFar(r, a)
    BY <2>3, <2>4, OneMoreWritten
  <2>6. states[1 .. k + 1] = r
    BY <1>8, <2>1, <2>2
  <2> QED BY <2>2, <2>5, <2>6
<1>11. Nat \subseteq T
  <2> HIDE DEF T
  <2> QED BY <1>9, <1>10, SetInduction
<1>12. WrittenSoFar(states[1 .. n], n)
  BY <1>1, <1>11
<1> QED
  BY <1>7, <1>12 DEF S

-----------------------------------------------------------------------------
(* The state of a record that is to be written.                            *)
Start == [buffer |-> buffer, size |-> 1, data |-> myData, moved |-> moved]

(* The types: a pointer is none, dangling or into the buffer.              *)
TypesInv ==
    /\ value \in Contents /\ content \in Contents
    /\ buffer \in Seq(Nat) /\ Len(buffer) >= 1 /\ recSize \in Nat
    /\ myData \in [Atts -> Int] /\ Pointers(myData, buffer)
    /\ bufferOld \in BOOLEAN /\ unmarked \in BOOLEAN /\ moved \in BOOLEAN

(* An attribute has its value in itself, or it lies where the pointer is.  *)
AttsInv ==
    ~ moved => \A a \in Atts : \/ myData[a] = NoPointer /\ value[a] = content[a]
                               \/ Lies(buffer, a, myData[a], content[a])

(* The inductive invariant.                                                *)
IInv == TypesInv /\ AttsInv /\ WritesContent

(* The binary form is the size and the cells of all attributes.            *)
LEMMA BinaryCells ==
    ASSUME NEW c \in Contents, NEW body, body = Body(c, Len(Types))
    PROVE  /\ body \in Seq(Nat) /\ Binary(c) \in Seq(Nat)
           /\ Len(Binary(c)) = Len(body) + 1 /\ Binary(c)[1] = Len(body) + 1
           /\ \A i \in 1 .. Len(body) : Binary(c)[i + 1] = body[i]
<1>1. Len(Types) \in Nat /\ Atts = 1 .. Len(Types)
  BY ContentValues
<1>2. body \in Seq(Nat) /\ Len(body) \in Nat
  <2>1. Body(c, Len(Types)) \in Seq(Nat)
    BY <1>1, BodyNext
  <2> QED BY <2>1, LenProperties
<1>3. Binary(c) = <<Len(body) + 1>> \o body
  BY <1>1 DEF Binary, Body
<1>4. /\ <<Len(body) + 1>> \o body \in Seq(Nat) /\ Len(<<Len(body) + 1>> \o body) = Len(body) + 1
      /\ (<<Len(body) + 1>> \o body)[1] = Len(body) + 1
      /\ \A i \in 1 .. Len(body) : (<<Len(body) + 1>> \o body)[i + 1] = body[i]
  <2>1. <<Len(body) + 1>> \in Seq(Nat)
    BY <1>2
  <2> QED BY <1>2, <2>1
<1> QED
  BY <1>2, <1>3, <1>4

(* A buffer with the size and the cells of all attributes begins with it.  *)
LEMMA LaidIsBinary ==
    ASSUME NEW c \in Contents, NEW b \in Seq(Nat), NEW n, n = Len(Body(c, Len(Types))) + 1,
           Laid(b, c, Len(Types)), b[1] = n
    PROVE  SubSeq(b, 1, n) = Binary(c) /\ n \in Nat
<1>1. PICK body : body = Body(c, Len(Types))
  OBVIOUS
<1>2. /\ body \in Seq(Nat) /\ Binary(c) \in Seq(Nat) /\ Len(body) \in Nat
      /\ Len(Binary(c)) = Len(body) + 1 /\ Binary(c)[1] = Len(body) + 1
      /\ \A i \in 1 .. Len(body) : Binary(c)[i + 1] = body[i]
  BY <1>1, BinaryCells, LenProperties
<1>3. PICK l \in Nat : l = Len(body)
  BY <1>2
<1>4. n = l + 1 /\ Len(Binary(c)) = n /\ Binary(c)[1] = n
  BY <1>1, <1>2, <1>3
<1>5. l + 1 <= Len(b) /\ \A i \in 1 .. l : b[i + 1] = body[i]
  BY <1>1, <1>3 DEF Laid
<1>6. PICK u : u = SubSeq(b, 1, n)
  OBVIOUS
<1>7. u \in Seq(Nat) /\ Len(u) = n /\ \A i \in 1 .. n : u[i] = b[i]
  <2>1. \A i \in 1 .. Len(b) : b[i] \in Nat
    BY ElementOfSeq
  <2>2. Len(b) \in Nat /\ n \in Nat
    BY <1>4, LenProperties
  <2>3. \A i \in 1 .. n : b[i] \in Nat
    BY <1>4, <1>5, <2>1, <2>2
  <2>4. PICK low : low = 1
    OBVIOUS
  <2>5. /\ SubSeq(b, low, n) \in Seq(Nat) /\ Len(SubSeq(b, low, n)) = (IF low <= n THEN n - low + 1 ELSE 0)
        /\ \A i \in 1 .. n - low + 1 : SubSeq(b, low, n)[i] = b[low + i - 1]
    <3>1. low \in Int /\ n \in Int /\ \A i \in low .. n : b[i] \in Nat
      BY <2>2, <2>3, <2>4
    <3> QED BY <3>1, SubSeqProperties
  <2>6. n - low + 1 = n /\ low <= n /\ \A i \in 1 .. n : low + i - 1 = i
    BY <1>3, <1>4, <2>4
  <2>7. u = SubSeq(b, low, n)
    BY <1>6, <2>4
  <2> QED BY <2>5, <2>6, <2>7
<1>8. \A i \in 1 .. n : u[i] = Binary(c)[i]
  <2> TAKE i \in 1 .. n
  <2>1. CASE i = 1
    BY <1>4, <1>7, <2>1
  <2>2. CASE i # 1
    <3>1. PICK j \in 1 .. l : i = j + 1
      <4>1. i - 1 \in 1 .. l /\ i = (i - 1) + 1
        BY <1>3, <1>4, <2>2
      <4> QED BY <4>1
    <3>2. b[j + 1] = body[j] /\ Binary(c)[j + 1] = body[j]
      BY <1>2, <1>3, <1>5, <3>1
    <3> QED BY <1>7, <3>1, <3>2
  <2> QED BY <2>1, <2>2
<1> QED
  BY <1>2, <1>4, <1>6, <1>7, <1>8, SeqEqual

(* Where the attributes are, and that the first cell is not among theirs.  *)
LEMMA FirstCellKept ==
    ASSUME NEW c \in Contents, NEW b \in Seq(Nat), NEW d \in Seq(Nat), Len(d) = Len(b),
           \A n \in 2 .. Len(b) : d[n] = b[n], Laid(b, c, Len(Types))
    PROVE  Laid(d, c, Len(Types))
<1>1. PICK l : l = Len(Body(c, Len(Types)))
  OBVIOUS
<1>2. l + 1 <= Len(b) /\ l \in Nat /\ Len(b) \in Nat /\ \A i \in 1 .. l : b[i + 1] = Body(c, Len(Types))[i]
  BY <1>1, BinaryCells, LenProperties DEF Laid
<1>3. \A i \in 1 .. l : i + 1 \in 2 .. Len(b)
  BY <1>2
<1> QED
  BY <1>1, <1>2, <1>3 DEF Laid

(* A new record has no pointers.                                           *)
LEMMA InitInvariant ==
    Init => IInv
<1> SUFFICES ASSUME Init
             PROVE  IInv
  OBVIOUS
<1>1. InitialSize \in Nat \ {0}
  BY RecordAssumption DEF RecordAssumption
<1>2. buffer \in Seq(Nat) /\ Len(buffer) = InitialSize
  BY <1>1, JunkCells DEF Init
<1>3. myData \in [Atts -> Int] /\ Pointers(myData, buffer)
  BY DEF Init, Pointers, NoPointer
<1>4. TypesInv
  <2>1. Len(buffer) >= 1
    BY <1>1, <1>2
  <2>2. /\ value \in Contents /\ content \in Contents /\ recSize \in Nat
        /\ bufferOld \in BOOLEAN /\ unmarked \in BOOLEAN /\ moved \in BOOLEAN
    BY DEF Init
  <2> QED BY <1>2, <1>3, <2>1, <2>2 DEF TypesInv
<1>5. AttsInv
  BY DEF Init, AttsInv
<1> QED
  BY <1>4, <1>5 DEF Init, IInv, WritesContent

(* Before it is written, nothing of a record is.                           *)
LEMMA StartWritten ==
    ASSUME IInv
    PROVE  WrittenSoFar(Start, 0)
<1>1. Start \in Writings
  BY DEF IInv, TypesInv, Start, Writings
<1>2. ASSUME ~ moved
      PROVE  /\ Start.size = Len(Body(content, 0)) + 1 /\ Laid(Start.buffer, content, 0)
             /\ SoFar(Start, 0)
  <2>1. Body(content, 0) = << >> /\ Len(<< >>) = 0
    <3>1. PICK low \in Nat : low = 0
      OBVIOUS
    <3>2. content \in Contents /\ low <= Len(Types)
      BY <3>1, ContentValues DEF IInv, TypesInv
    <3>3. Body(content, 0) = << >>
      BY <3>2, BodyNext
    <3> QED BY <3>3
  <2>2. Laid(Start.buffer, content, 0)
    BY <2>1 DEF Laid, Start, IInv, TypesInv
  <2>3. ASSUME NEW a \in Atts
        PROVE  \/ Start.data[a] = NoPointer /\ value[a] = content[a]
               \/ ToWrite(Start, 0, a)
    <3>1. a > 0
      BY <2>3, ContentValues DEF IInv, TypesInv
    <3>2. \/ myData[a] = NoPointer /\ value[a] = content[a]
          \/ Lies(buffer, a, myData[a], content[a])
      BY <1>2 DEF IInv, AttsInv
    <3>3. Start.data = myData /\ Start.buffer = buffer
      BY DEF Start
    <3>4. Lies(buffer, a, myData[a], content[a]) => myData[a] \in Nat \ {0}
      BY DEF Lies
    <3> QED BY <3>1, <3>2, <3>3, <3>4 DEF ToWrite
  <2> QED BY <2>1, <2>2, <2>3 DEF Start, SoFar
<1> QED
  BY <1>1, <1>2 DEF WrittenSoFar, Start

(* toBinary: every attribute is then in itself or at its place, and what   *)
(* is in the buffer is the content; the size is written last, before all   *)
(* of them.                                                                *)
LEMMA ToBinaryInvariant ==
    ASSUME IInv, ToBinary
    PROVE  IInv'
<1>1. PICK s : s = Serial
  OBVIOUS
<1>2. WrittenSoFar(s, Len(Types))
  <2>1. value \in Contents /\ content \in Contents
    BY DEF IInv, TypesInv
  <2>2. Serial = FoldLeft(Serialized, Start, [n \in Atts |-> n])
    BY DEF Serial, Start
  <2> QED BY <1>1, <2>1, <2>2, StartWritten, AllWritten
<1>3. /\ s.buffer \in Seq(Nat) /\ s.size \in Nat \ {0} /\ s.data \in [Atts -> Int] /\ s.moved \in BOOLEAN
      /\ s.size <= Len(s.buffer) /\ Pointers(s.data, s.buffer) /\ Len(s.buffer) \in Nat
  BY <1>2, LenProperties DEF WrittenSoFar, Writings
<1>4. PICK b : b = Written(s.buffer, 1, <<s.size>>)
  OBVIOUS
<1>5. /\ buffer' = b /\ recSize' = s.size /\ myData' = s.data
      /\ moved' = (s.moved \/ \E a \in Atts : s.data[a] = Dangling)
      /\ bufferOld' = FALSE /\ value' = value /\ content' = content /\ unmarked' = unmarked
  BY <1>1, <1>4 DEF ToBinary
<1>6. /\ b \in Seq(Nat) /\ Len(b) = Len(s.buffer) /\ b[1] = s.size
      /\ \A n \in 2 .. Len(b) : b[n] = s.buffer[n]
  <2>1. PICK from, cells : from = 1 /\ cells = <<s.size>>
    OBVIOUS
  <2>2. from \in Nat \ {0} /\ cells \in Seq(Nat) /\ Len(cells) = 1 /\ cells[1] = s.size
    BY <1>3, <2>1
  <2>3. b = Written(s.buffer, from, cells)
    BY <1>4, <2>1
  <2>4. /\ b \in Seq(Nat) /\ Len(b) = Len(s.buffer)
        /\ \A n \in 1 .. Len(s.buffer) : b[n] =
              IF n \in from .. from + Len(cells) - 1 THEN cells[n - from + 1] ELSE s.buffer[n]
    <3>1. PICK old : old = s.buffer
      OBVIOUS
    <3>2. old \in Seq(Nat) /\ from \in Nat \ {0} /\ cells \in Seq(Nat) /\ b = Written(old, from, cells)
      BY <1>3, <2>2, <2>3, <3>1
    <3>3. /\ b \in Seq(Nat) /\ Len(b) = Len(old)
          /\ \A n \in 1 .. Len(old) : b[n] = IF n \in from .. from + Len(cells) - 1 THEN cells[n - from + 1] ELSE old[n]
      BY <3>2, WrittenCells
    <3> QED BY <3>1, <3>3
  <2>5. \A n \in 1 .. Len(s.buffer) : (n \in from .. from + Len(cells) - 1 <=> n = 1) /\ (n = 1 => n - from + 1 = 1)
    BY <2>1, <2>2
  <2>6. 1 \in 1 .. Len(s.buffer) /\ \A n \in 2 .. Len(s.buffer) : n \in 1 .. Len(s.buffer) /\ n # 1
    BY <1>3
  <2> QED BY <2>2, <2>4, <2>5, <2>6
<1>7. TypesInv'
  <2>1. Pointers(s.data, b)
    BY <1>3, <1>6 DEF Pointers
  <2>2. bufferOld' \in BOOLEAN /\ unmarked' \in BOOLEAN /\ moved' \in BOOLEAN
    BY <1>5 DEF IInv, TypesInv
  <2>3. value' \in Contents /\ content' \in Contents
    BY <1>5 DEF IInv, TypesInv
  <2>4. Len(b) >= 1
    BY <1>3, <1>6
  <2> QED BY <1>3, <1>5, <1>6, <2>1, <2>2, <2>3, <2>4 DEF TypesInv, Pointers
<1>8. ASSUME ~ moved'
      PROVE  /\ \A a \in Atts : \/ s.data[a] = NoPointer /\ value[a] = content[a]
                                \/ Lies(b, a, s.data[a], content[a])
             /\ SubSeq(b, 1, s.size) = Binary(content)
  <2>1. ~ s.moved /\ \A a \in Atts : s.data[a] # Dangling
    BY <1>5, <1>8
  <2>2. s.size = Len(Body(content, Len(Types))) + 1 /\ Laid(s.buffer, content, Len(Types)) /\ SoFar(s, Len(Types))
    BY <1>2, <2>1 DEF WrittenSoFar
  <2>3. content \in Contents
    BY DEF IInv, TypesInv
  <2>4. Laid(b, content, Len(Types))
    <3>1. \A n \in 2 .. Len(s.buffer) : b[n] = s.buffer[n]
      BY <1>6
    <3> QED BY <1>3, <1>6, <2>2, <2>3, <3>1, FirstCellKept
  <2>5. SubSeq(b, 1, s.size) = Binary(content)
    BY <1>6, <2>2, <2>3, <2>4, LaidIsBinary
  <2>6. ASSUME NEW a \in Atts
        PROVE  \/ s.data[a] = NoPointer /\ value[a] = content[a]
               \/ Lies(b, a, s.data[a], content[a])
    <3>1. ~ ToWrite(s, Len(Types), a)
      BY <2>3, ContentValues DEF ToWrite
    <3>2. Lies(b, a, PlaceOf(content, a), content[a])
      BY <1>6, <2>3, <2>4, LaidLies
    <3> QED BY <2>1, <2>2, <3>1, <3>2 DEF SoFar
  <2> QED BY <2>5, <2>6
<1>9. AttsInv'
  BY <1>5, <1>8 DEF AttsInv, Atts, Lies, Payload, NoPointer, End
<1>10. WritesContent'
  BY <1>5, <1>8 DEF WritesContent, Binary, Cells, Payload, Atts, End
<1> QED
  BY <1>7, <1>9, <1>10 DEF IInv

(* fromBinary: every attribute is at its place.                            *)
LEMMA FromBinaryInvariant ==
    ASSUME IInv, NEW c \in Contents, FromBinary(c)
    PROVE  IInv'
<1>1. PICK body, n : body = Body(c, Len(Types)) /\ n = Len(Binary(c))
  OBVIOUS
<1>2. /\ body \in Seq(Nat) /\ Binary(c) \in Seq(Nat) /\ Len(body) \in Nat
      /\ Len(Binary(c)) = Len(body) + 1 /\ Binary(c)[1] = Len(body) + 1
      /\ \A i \in 1 .. Len(body) : Binary(c)[i + 1] = body[i]
  BY <1>1, BinaryCells, LenProperties
<1>3. PICK room : room = IF n > Len(buffer) THEN [m \in 1 .. 2 * n |-> Junk] ELSE buffer
  OBVIOUS
<1>4. room \in Seq(Nat) /\ n <= Len(room) /\ n \in Nat \ {0} /\ Len(room) \in Nat
  <2>1. buffer \in Seq(Nat) /\ Len(buffer) \in Nat /\ n \in Nat \ {0} /\ n <= 2 * n /\ 2 * n \in Nat
    BY <1>1, <1>2, LenProperties DEF IInv, TypesInv
  <2>2. CASE n > Len(buffer)
    <3>1. PICK m \in Nat : m = 2 * n
      BY <2>1
    <3>2. room = [i \in 1 .. m |-> Junk]
      BY <1>3, <2>2, <3>1
    <3>3. room \in Seq(Nat) /\ Len(room) = m
      BY <3>1, <3>2, JunkCells
    <3> QED BY <2>1, <3>1, <3>3
  <2>3. CASE ~ (n > Len(buffer))
    BY <1>3, <2>1, <2>3
  <2> QED BY <2>2, <2>3
<1>5. PICK b : b = Written(room, 1, Binary(c))
  OBVIOUS
<1>6. /\ buffer' = b /\ recSize' = n /\ myData' = [a \in Atts |-> PlaceOf(c, a)]
      /\ bufferOld' = FALSE /\ content' = c /\ unmarked' = FALSE /\ moved' = FALSE /\ value' = value
  BY <1>1, <1>3, <1>5 DEF FromBinary
<1>7. b \in Seq(Nat) /\ Len(b) = Len(room) /\ \A i \in 1 .. n : b[i] = Binary(c)[i]
  <2>1. PICK from, cells : from = 1 /\ cells = Binary(c)
    OBVIOUS
  <2>2. from \in Nat \ {0} /\ cells \in Seq(Nat) /\ Len(cells) = n
    BY <1>1, <1>2, <2>1
  <2>3. b = Written(room, from, cells)
    BY <1>5, <2>1
  <2>4. /\ b \in Seq(Nat) /\ Len(b) = Len(room)
        /\ \A i \in 1 .. Len(room) : b[i] =
              IF i \in from .. from + Len(cells) - 1 THEN cells[i - from + 1] ELSE room[i]
    <3>1. PICK old : old = room
      OBVIOUS
    <3>2. old \in Seq(Nat) /\ from \in Nat \ {0} /\ cells \in Seq(Nat) /\ b = Written(old, from, cells)
      BY <1>4, <2>2, <2>3, <3>1
    <3>3. /\ b \in Seq(Nat) /\ Len(b) = Len(old)
          /\ \A i \in 1 .. Len(old) : b[i] = IF i \in from .. from + Len(cells) - 1 THEN cells[i - from + 1] ELSE old[i]
      BY <3>2, WrittenCells
    <3> QED BY <3>1, <3>3
  <2>5. \A i \in 1 .. n : i \in 1 .. Len(room) /\ i \in from .. from + Len(cells) - 1 /\ i - from + 1 = i
    BY <1>4, <2>1, <2>2
  <2>6. \A i \in 1 .. n : b[i] = cells[i]
    BY <2>4, <2>5
  <2> QED BY <2>1, <2>4, <2>6
<1>8. Laid(b, c, Len(Types)) /\ b[1] = n /\ n = Len(body) + 1
  <2>1. n = Len(body) + 1 /\ 1 \in 1 .. n /\ \A i \in 1 .. Len(body) : i + 1 \in 1 .. n
    BY <1>1, <1>2
  <2>2. b[1] = n /\ \A i \in 1 .. Len(body) : b[i + 1] = body[i]
    BY <1>2, <1>7, <2>1
  <2>3. Len(body) + 1 <= Len(b)
    BY <1>4, <1>7, <2>1
  <2> QED BY <1>1, <2>1, <2>2, <2>3 DEF Laid
<1>9. \A a \in Atts : /\ Lies(b, a, PlaceOf(c, a), c[a])
                      /\ PlaceOf(c, a) \in 1 .. Len(b)
  <2> TAKE a \in Atts
  <2>1. Lies(b, a, PlaceOf(c, a), c[a])
    BY <1>7, <1>8, LaidLies
  <2>2. PICK p, l : p = PlaceOf(c, a) /\ l = Len(Payload(a, c[a]))
    OBVIOUS
  <2>3. p \in Nat \ {0} /\ p + l - 1 <= Len(b) /\ l \in Nat \ {0} /\ Len(b) \in Nat
    BY <1>4, <1>7, <2>1, <2>2, ContentValues, ValueCells DEF Lies
  <2>4. p \in 1 .. Len(b)
    BY <2>3
  <2> QED BY <2>1, <2>2, <2>4
<1>10. TypesInv'
  <2>1. Pointers(myData', b) /\ myData' \in [Atts -> Int]
    BY <1>6, <1>9 DEF Pointers
  <2>2. Len(b) >= 1
    BY <1>4, <1>7
  <2> QED BY <1>4, <1>6, <1>7, <2>1, <2>2 DEF IInv, TypesInv, Contents, Atts, Pointers, NoPointer, Dangling
<1>11. AttsInv'
  <2>1. \A a \in Atts : Lies(b, a, myData'[a], c[a])
    BY <1>6, <1>9
  <2> QED BY <1>6, <2>1 DEF AttsInv, Atts, Lies, Payload, NoPointer, End
<1>12. WritesContent'
  <2>1. SubSeq(b, 1, n) = Binary(c)
    BY <1>1, <1>7, <1>8, LaidIsBinary
  <2> QED BY <1>6, <2>1 DEF WritesContent, Binary, Cells, Payload, Atts, End
<1> QED
  BY <1>10, <1>11, <1>12 DEF IInv

(* fromString: every attribute is in itself, and the buffer is old.        *)
LEMMA FromStringInvariant ==
    ASSUME IInv, NEW c \in Contents, FromString(c)
    PROVE  IInv'
<1>1. TypesInv'
  <2>1. myData' \in [Atts -> Int] /\ Pointers(myData', buffer)
    BY DEF FromString, Pointers, NoPointer
  <2> QED BY <2>1 DEF FromString, IInv, TypesInv, Pointers
<1>2. AttsInv'
  BY DEF FromString, AttsInv
<1>3. WritesContent'
  BY DEF FromString, WritesContent
<1> QED
  BY <1>1, <1>2, <1>3 DEF IInv

(* Setting an attribute takes its pointer away and leaves the buffer.      *)
LEMMA SetAttInvariant ==
    ASSUME IInv, NEW c \in Contents, NEW a \in Atts, SetAtt(a, c[a])
    PROVE  IInv'
<1>1. /\ value \in Contents /\ content \in Contents /\ buffer \in Seq(Nat) /\ Len(buffer) >= 1
      /\ myData \in [Atts -> Int] /\ Pointers(myData, buffer)
  BY DEF IInv, TypesInv
<1>2. /\ value' = [value EXCEPT ![a] = c[a]] /\ myData' = [myData EXCEPT ![a] = NoPointer]
      /\ content' = [content EXCEPT ![a] = c[a]] /\ unmarked' = TRUE
      /\ buffer' = buffer /\ recSize' = recSize /\ bufferOld' = bufferOld /\ moved' = moved
  BY DEF SetAtt
<1>3. value' \in Contents /\ content' \in Contents
  BY <1>1, <1>2 DEF Contents
<1>4. myData' \in [Atts -> Int] /\ Pointers(myData', buffer)
  BY <1>1, <1>2 DEF Pointers, NoPointer
<1>5. TypesInv'
  BY <1>1, <1>2, <1>3, <1>4 DEF IInv, TypesInv, Pointers
<1>6. AttsInv'
  <2> SUFFICES ASSUME ~ moved, NEW d \in Atts
               PROVE  \/ myData'[d] = NoPointer /\ value'[d] = content'[d]
                      \/ Lies(buffer, d, myData'[d], content'[d])
    BY <1>2 DEF AttsInv, Lies
  <2>1. /\ DOMAIN value = Atts /\ DOMAIN content = Atts /\ DOMAIN myData = Atts
    BY <1>1 DEF Contents
  <2>2. CASE d = a
    BY <1>2, <2>1, <2>2
  <2>3. CASE d # a
    <3>1. value'[d] = value[d] /\ content'[d] = content[d] /\ myData'[d] = myData[d]
      BY <1>2, <2>1, <2>3
    <3> QED BY <3>1 DEF IInv, AttsInv
  <2> QED BY <2>2, <2>3
<1>7. WritesContent'
  BY <1>2 DEF WritesContent
<1> QED
  BY <1>5, <1>6, <1>7 DEF IInv

(* recordContentHasChanged makes the buffer old.                           *)
LEMMA ChangedInvariant ==
    ASSUME IInv, RecordContentHasChanged
    PROVE  IInv'
BY DEF IInv, TypesInv, AttsInv, WritesContent, RecordContentHasChanged, Pointers, Lies

(* One case for each action.                                               *)
LEMMA NextInvariant ==
    IInv /\ [Next]_vars => IInv'
<1> SUFFICES ASSUME IInv, [Next]_vars
             PROVE  IInv'
  OBVIOUS
<1>1. CASE ToBinary
  BY <1>1, ToBinaryInvariant
<1>2. CASE RecordContentHasChanged
  BY <1>2, ChangedInvariant
<1>3. ASSUME NEW c \in Contents, FromBinary(c) \/ FromString(c)
      PROVE  IInv'
  BY <1>3, FromBinaryInvariant, FromStringInvariant
<1>4. ASSUME NEW c \in Contents, NEW a \in Atts, SetAtt(a, c[a])
      PROVE  IInv'
  BY <1>4, SetAttInvariant
<1>5. CASE UNCHANGED vars
  BY <1>5 DEF IInv, TypesInv, AttsInv, WritesContent, vars, Pointers, Lies
<1> QED
  BY <1>1, <1>2, <1>3, <1>4, <1>5 DEF Next

(* The invariant holds in every state, for all attributes, values of them  *)
(* and sizes of the first buffer.                                          *)
THEOREM RecordInvariant ==
    Spec => []IInv
<1> QED
  BY InitInvariant, NextInvariant, PTL DEF Spec

(* An attribute reads as what was set or read last, through any mix of     *)
(* reading, setting and writing, until one is written away from its place. *)
THEOREM RecordReadsBack ==
    Spec => []ReadsBack
<1>1. IInv => ReadsBack
  <2> SUFFICES ASSUME IInv, ~ moved, NEW a \in Atts
               PROVE  Value(a, buffer, myData) = content[a]
    BY DEF ReadsBack
  <2>1. /\ buffer \in Seq(Nat) /\ myData \in [Atts -> Int] /\ Pointers(myData, buffer) /\ value \in Contents
        /\ content[a] \in Values(a)
    BY ContentValues DEF IInv, TypesInv
  <2>2. \/ myData[a] = NoPointer /\ value[a] = content[a]
        \/ Lies(buffer, a, myData[a], content[a])
    BY DEF IInv, AttsInv
  <2>3. /\ myData[a] = NoPointer => Value(a, buffer, myData) = value[a]
        /\ \A w \in Values(a) : Lies(buffer, a, myData[a], w) => Value(a, buffer, myData) = w
    BY <2>1, ValueRead
  <2> QED BY <2>1, <2>2, <2>3
<1> QED
  BY <1>1, RecordInvariant, PTL

(* What the next append copies to a page is the record.                    *)
THEOREM RecordWritesContent ==
    Spec => []WritesContent
<1>1. IInv => WritesContent
  BY DEF IInv
<1> QED
  BY <1>1, RecordInvariant, PTL

=============================================================================
