------------------------ MODULE SortMergeJoinProofs ------------------------
(***************************************************************************)
(* Proofs about SortMergeJoin, for all tables, run sizes and final         *)
(* predicates.                                                             *)
(***************************************************************************)
EXTENDS SortMergeJoin, SequenceLemmas

-----------------------------------------------------------------------------
(* The iterators.  Runs(R, table): the runs in R are sorted, no record of  *)
(* the table is twice in them.                                             *)
InOrder(run) == \A i, j \in DOMAIN run : i < j => ~ Less(run[j], run[i])

Runs(R, table) ==
    /\ \A run \in R : /\ run \in Seq(RecordsOf(table)) /\ run # << >>
                      /\ InOrder(run) /\ IsInjective(run)
    /\ \A run, other \in R : run # other => ToSet(run) \cap ToSet(other) = {}

(* The least first record is on top of the queue, as long as there is one. *)
RunsOf(it) == IF it.top = NoRun THEN {} ELSE {it.top} \cup it.others

Iterates(it, table) ==
    /\ it = [top |-> it.top, others |-> it.others, firstTime |-> it.firstTime]
    /\ it.top = NoRun => it.others = {}
    /\ it.top # NoRun => it.top \notin it.others /\ it.top \in Least(RunsOf(it))
    /\ Runs(RunsOf(it), table)

(* The keys of records are numbers, whichever of the two types they have.  *)
LEMMA KeysAreNumbers ==
    ASSUME NEW table \in LeftTables \cup RightTables, NEW r \in RecordsOf(table)
    PROVE  /\ InParts(r.key) \in Int
           /\ r.id \in DOMAIN table /\ r = [id |-> r.id, key |-> table[r.id]]
           /\ r.key \in ToSet(table)
<1>1. table \in Seq({"int", "double"} \X Int)
  BY JoinAssumption
<1>2. PICK n \in DOMAIN table : r = [id |-> n, key |-> table[n]]
  BY DEF RecordsOf
<1>3. table[n] \in {"int", "double"} \X Int
  BY <1>1, <1>2
<1>4. InParts(table[n]) \in Int
  BY <1>3 DEF InParts, Scale
<1> QED
  BY <1>2, <1>4 DEF ToSet

(* Records are compared as their keys' values are.                         *)
LEMMA Comparisons ==
    ASSUME NEW t \in LeftTables \cup RightTables, NEW r \in RecordsOf(t),
           NEW u \in LeftTables \cup RightTables, NEW s \in RecordsOf(u),
           NEW v \in LeftTables \cup RightTables, NEW q \in RecordsOf(v)
    PROVE  /\ Less(r, s) \/ Equal(r, s) \/ Less(s, r)
           /\ ~ (Less(r, s) /\ Equal(r, s)) /\ ~ (Less(r, s) /\ Less(s, r))
           /\ Equal(r, s) => Equal(s, r)
           /\ Equal(r, s) /\ Equal(s, q) => Equal(r, q)
           /\ ~ Less(s, r) /\ Less(s, q) => Less(r, q)
           /\ Less(r, s) /\ ~ Less(q, s) => Less(r, q)
           /\ Text(r) = Text(s) <=> Equal(r, s)
<1>1. InParts(r.key) \in Int /\ InParts(s.key) \in Int /\ InParts(q.key) \in Int
  BY KeysAreNumbers
<1>2. \A k \in ToSet(t), l \in ToSet(u) : As("string", k) = As("string", l) <=> InParts(k) = InParts(l)
  BY JoinAssumption
<1> QED
  BY <1>1, <1>2, KeysAreNumbers DEF Less, Equal, Text

(* The queue over a set of runs iterates over their records.               *)
LEMMA QueueIterates ==
    ASSUME NEW table, NEW R, Runs(R, table), NEW first, NEW it \in Queues(R, first)
    PROVE  /\ Iterates(it, table)
           /\ Pending(it) = UNION {ToSet(run) : run \in R}
           /\ it.firstTime = first
           /\ HasCurrent(it) <=> R # {}
<1>1. CASE R = {}
  <2>1. it = [top |-> NoRun, others |-> {}, firstTime |-> first]
    BY <1>1 DEF Queues
  <2>2. ToSet(NoRun) = {}
    BY DEF ToSet, NoRun
  <2> QED BY <1>1, <2>1, <2>2 DEF Iterates, RunsOf, Runs, Pending, HasCurrent
<1>2. CASE R # {}
  <2>1. PICK run \in Least(R) : it = [top |-> run, others |-> R \ {run}, firstTime |-> first]
    BY <1>2 DEF Queues
  <2>2. run \in R /\ run # NoRun
    BY <2>1 DEF Least, Runs, NoRun
  <2>3. {it.top} \cup it.others = R
    BY <2>1, <2>2
  <2>4. RunsOf(it) = R
    BY <2>1, <2>2, <2>3 DEF RunsOf
  <2> QED BY <1>2, <2>1, <2>2, <2>3, <2>4 DEF Iterates, Pending, HasCurrent
<1> QED
  BY <1>1, <1>2

(* What is pending are the records of the runs; the current one is least.  *)
LEMMA CurrentIsLeast ==
    ASSUME NEW table \in LeftTables \cup RightTables, NEW it, Iterates(it, table)
    PROVE  /\ Pending(it) \subseteq RecordsOf(table)
           /\ HasCurrent(it) <=> Pending(it) # {}
           /\ HasCurrent(it) => /\ Current(it) \in Pending(it)
                                /\ \A r \in Pending(it) : ~ Less(r, Current(it))
<1>1. Pending(it) = UNION {ToSet(run) : run \in RunsOf(it)}
  <2>1. ToSet(NoRun) = {}
    BY DEF ToSet, NoRun
  <2> QED BY <2>1 DEF Pending, RunsOf, Iterates
<1>2. \A run \in RunsOf(it) : /\ run \in Seq(RecordsOf(table)) /\ run # << >> /\ InOrder(run)
                              /\ ToSet(run) \subseteq RecordsOf(table)
  BY HeadAndTail DEF Iterates, Runs
<1>3. Pending(it) \subseteq RecordsOf(table)
  BY <1>1, <1>2
<1>4. ASSUME ~ HasCurrent(it)
      PROVE  Pending(it) = {}
  BY <1>1, <1>4 DEF HasCurrent, RunsOf
<1>5. ASSUME HasCurrent(it)
      PROVE  /\ Current(it) \in Pending(it)
             /\ \A r \in Pending(it) : ~ Less(r, Current(it))
  <2>1. it.top \in RunsOf(it) /\ it.top \in Least(RunsOf(it))
    BY <1>5 DEF HasCurrent, RunsOf, Iterates
  <2>2. Current(it) = Head(it.top) /\ Current(it) \in ToSet(it.top)
    BY <1>2, <2>1, HeadAndTail DEF Current
  <2>3. ASSUME NEW run \in RunsOf(it), NEW r \in ToSet(run)
        PROVE  ~ Less(r, Current(it))
    <3>1. /\ Head(run) = run[1] /\ Head(run) \in RecordsOf(table) /\ r \in RecordsOf(table)
          /\ DOMAIN run = 1 .. Len(run) /\ Len(run) \in Nat \ {0}
      BY <1>2, <2>3, HeadAndTail
    <3>2. ~ Less(r, Head(run))
      <4>1. PICK i \in DOMAIN run : r = run[i]
        BY <2>3 DEF ToSet
      <4>2. CASE i = 1
        BY <3>1, <4>1, <4>2, Comparisons
      <4>3. CASE i # 1
        BY <1>2, <3>1, <4>1, <4>3 DEF InOrder
      <4> QED BY <4>2, <4>3
    <3>3. ~ Less(Head(run), Current(it))
      BY <2>1, <2>2 DEF Least
    <3>4. Current(it) \in RecordsOf(table)
      BY <1>2, <2>1, <2>2
    <3> QED BY <3>1, <3>2, <3>3, <3>4, Comparisons
  <2> QED BY <1>1, <2>1, <2>2, <2>3
<1> QED
  BY <1>3, <1>4, <1>5

(* The first call of advance stays at the first record.                    *)
LEMMA FirstAdvance ==
    ASSUME NEW table, NEW it, Iterates(it, table), it.firstTime, NEW next \in Advanced(it)
    PROVE  /\ Iterates(next, table) /\ ~ next.firstTime
           /\ Pending(next) = Pending(it) /\ next.top = it.top
<1>1. next = [top |-> it.top, others |-> it.others, firstTime |-> FALSE]
  <2>1. next = [it EXCEPT !.firstTime = FALSE]
    BY DEF Advanced
  <2>2. it = [top |-> it.top, others |-> it.others, firstTime |-> it.firstTime]
    BY DEF Iterates
  <2> QED BY <2>1, <2>2
<1>2. /\ next.top = it.top /\ next.others = it.others /\ next.firstTime = FALSE
      /\ next = [top |-> next.top, others |-> next.others, firstTime |-> next.firstTime]
  BY <1>1
<1>3. Pending(next) = Pending(it) /\ RunsOf(next) = RunsOf(it)
  BY <1>2 DEF Pending, RunsOf
<1> QED
  BY <1>2, <1>3 DEF Iterates

(* advance leaves the current record behind, and no other.                 *)
LEMMA AdvancedIterates ==
    ASSUME NEW table \in LeftTables \cup RightTables, NEW it, Iterates(it, table),
           HasCurrent(it), ~ it.firstTime, NEW next \in Advanced(it)
    PROVE  /\ Iterates(next, table) /\ ~ next.firstTime
           /\ Pending(next) = Pending(it) \ {Current(it)}
<1> DEFINE rest == IF Len(it.top) > 1 THEN {Tail(it.top)} ELSE {}
           R == it.others \cup rest
<1>1. next \in Queues(R, FALSE)
  BY DEF Advanced
<1>2. /\ it.top # << >> /\ it.top \notin it.others
      /\ RunsOf(it) = {it.top} \cup it.others /\ Runs(RunsOf(it), table)
  BY DEF HasCurrent, NoRun, RunsOf, Iterates
<1>3. /\ it.top \in Seq(RecordsOf(table)) /\ InOrder(it.top) /\ IsInjective(it.top)
      /\ \A run \in it.others :
            /\ run \in Seq(RecordsOf(table)) /\ run # << >> /\ InOrder(run) /\ IsInjective(run)
            /\ ToSet(run) \cap ToSet(it.top) = {}
      /\ \A run, other \in it.others : run # other => ToSet(run) \cap ToSet(other) = {}
  BY <1>2 DEF Runs
<1>4. /\ Len(it.top) \in Nat \ {0} /\ DOMAIN it.top = 1 .. Len(it.top)
      /\ Head(it.top) = it.top[1]
      /\ Tail(it.top) \in Seq(RecordsOf(table))
      /\ DOMAIN Tail(it.top) = 1 .. Len(it.top) - 1
      /\ \A i \in 1 .. Len(it.top) - 1 : Tail(it.top)[i] = it.top[i + 1]
      /\ ToSet(it.top) = {Head(it.top)} \cup ToSet(Tail(it.top))
      /\ Tail(it.top) # << >> <=> Len(it.top) > 1
  BY <1>2, <1>3, HeadAndTail, LenProperties
<1>5. InOrder(Tail(it.top)) /\ IsInjective(Tail(it.top)) /\ Head(it.top) \notin ToSet(Tail(it.top))
  <2>1. \A i \in 1 .. Len(it.top) - 1 : i + 1 \in DOMAIN it.top /\ i + 1 # 1
    BY <1>4
  <2>2. InOrder(Tail(it.top))
    <3> SUFFICES ASSUME NEW i \in 1 .. Len(it.top) - 1, NEW j \in 1 .. Len(it.top) - 1, i < j
                 PROVE  ~ Less(it.top[j + 1], it.top[i + 1])
      BY <1>4 DEF InOrder
    <3> i + 1 \in DOMAIN it.top /\ j + 1 \in DOMAIN it.top /\ i + 1 < j + 1
      BY <2>1
    <3> QED BY <1>3 DEF InOrder
  <2>3. IsInjective(Tail(it.top))
    <3> SUFFICES ASSUME NEW i \in 1 .. Len(it.top) - 1, NEW j \in 1 .. Len(it.top) - 1,
                        Tail(it.top)[i] = Tail(it.top)[j]
                 PROVE  i = j
      BY <1>4 DEF IsInjective
    <3>1. /\ i + 1 \in DOMAIN it.top /\ j + 1 \in DOMAIN it.top
          /\ it.top[i + 1] = it.top[j + 1]
      BY <1>4, <2>1
    <3>2. i + 1 = j + 1
      BY <1>3, <3>1 DEF IsInjective
    <3> QED BY <3>2
  <2>4. \A i \in 1 .. Len(it.top) - 1 : it.top[i + 1] # it.top[1]
    BY <1>3, <1>4, <2>1 DEF IsInjective
  <2> QED BY <1>4, <2>2, <2>3, <2>4 DEF ToSet
<1>6. Runs(R, table)
  BY <1>3, <1>4, <1>5 DEF Runs
<1>7. UNION {ToSet(run) : run \in R} = (UNION {ToSet(run) : run \in it.others}) \cup ToSet(Tail(it.top))
  <2>1. CASE Len(it.top) > 1
    BY <2>1
  <2>2. CASE ~ Len(it.top) > 1
    <3>1. ToSet(Tail(it.top)) = {}
      BY <1>4, <2>2 DEF ToSet
    <3> QED BY <2>2, <3>1
  <2> QED BY <2>1, <2>2
<1>8. Pending(it) = (UNION {ToSet(run) : run \in it.others}) \cup ToSet(it.top)
  BY DEF Pending
<1>9. UNION {ToSet(run) : run \in R} = Pending(it) \ {Head(it.top)}
  BY <1>3, <1>4, <1>5, <1>7, <1>8
<1> HIDE DEF R
<1> QED
  BY <1>1, <1>6, <1>9, QueueIterates DEF Current

(* Dividing by the size of a run: the first number of every run.           *)
LEMMA Division ==
    ASSUME NEW size \in Nat \ {0}, NEW a \in Nat
    PROVE  /\ size * (a \div size) \in 0 .. a
           /\ a < size * (a \div size) + size
           /\ (size * (a \div size)) % size = 0
           /\ a % size = 0 => a = size * (a \div size)
<1> DEFINE q == a \div size
<1>1. a % size \in 0 .. size - 1 /\ q \in Nat /\ a = size * q + (a % size)
  OBVIOUS
<1> HIDE DEF q
<1>2. size * q \in Nat
  BY <1>1
<1>3. (size * q + 0) % size = 0
  BY <1>1
<1>4. (size * q) % size = 0
  BY <1>2, <1>3
<1> QED
  BY <1>1, <1>2, <1>4 DEF q

(* Two first numbers of runs are at least a run apart.                     *)
LEMMA Apart ==
    ASSUME NEW size \in Nat \ {0}, NEW a \in Nat, NEW b \in Nat, a < b,
           a % size = 0, b % size = 0
    PROVE  a + size <= b
<1> DEFINE q == a \div size
           r == b \div size
<1>1. q \in Nat /\ a = size * q
  BY Division
<1>2. r \in Nat /\ b = size * r
  BY Division
<1> HIDE DEF q, r
<1> QED
  BY <1>1, <1>2

(* A run holds the records of RunSize places, in the order of their keys.  *)
Places(table, first) == {k \in DOMAIN table : first <= k /\ k < first + RunSize}

RecordAt(table, k) == [id |-> k, key |-> table[k]]

(* buildItertorOverSortedRuns: a run is the records of its places, each    *)
(* once, in order.                                                         *)
LEMMA RunIsSorted ==
    ASSUME NEW table \in LeftTables \cup RightTables, NEW first \in DOMAIN table
    PROVE  LET run == Sorted(Run(table, first))
           IN  /\ run \in Seq(RecordsOf(table)) /\ run # << >>
               /\ InOrder(run) /\ IsInjective(run)
               /\ ToSet(run) = {RecordAt(table, k) : k \in Places(table, first)}
<1> DEFINE unsorted == Run(table, first)
           run == Sorted(unsorted)
           keys == [n \in DOMAIN unsorted |-> InParts(unsorted[n].key)]
           size == Min({RunSize, Len(table) - first + 1})
<1>1. /\ RunSize \in Nat \ {0} /\ Len(table) \in Nat
      /\ DOMAIN table = 1 .. Len(table) /\ first \in 1 .. Len(table)
  BY JoinAssumption, LenProperties
<1>2. size \in Nat \ {0} /\ size <= RunSize /\ size <= Len(table) - first + 1
      /\ (size = RunSize \/ size = Len(table) - first + 1)
  <2>1. \E m \in {RunSize, Len(table) - first + 1} :
            \A y \in {RunSize, Len(table) - first + 1} : m <= y
    <3>1. CASE RunSize <= Len(table) - first + 1
      BY <1>1, <3>1
    <3>2. CASE ~ (RunSize <= Len(table) - first + 1)
      BY <1>1, <3>2
    <3> QED BY <3>1, <3>2
  <2>2. /\ size \in {RunSize, Len(table) - first + 1}
        /\ \A y \in {RunSize, Len(table) - first + 1} : size <= y
    BY <2>1 DEF Min
  <2> QED BY <1>1, <2>2
<1> HIDE DEF size
<1>3. /\ DOMAIN unsorted = 1 .. size
      /\ \A n \in 1 .. size : /\ first + n - 1 \in DOMAIN table
                              /\ unsorted[n] = RecordAt(table, first + n - 1)
                              /\ unsorted[n] \in RecordsOf(table)
  <2>1. /\ DOMAIN unsorted = 1 .. size
        /\ \A n \in 1 .. size : unsorted[n] = RecordAt(table, first + n - 1)
    BY DEF Run, RecordAt, size
  <2>2. \A n \in 1 .. size : first + n - 1 \in DOMAIN table
    BY <1>1, <1>2
  <2> QED BY <2>1, <2>2 DEF RecordsOf, RecordAt
<1> HIDE DEF unsorted
<1>4. keys \in [1 .. size -> Int]
  BY <1>3, KeysAreNumbers
<1>5. PICK p : /\ Arranges(p, size, keys)
               /\ run = [m \in 1 .. size |-> unsorted[p[m]]]
  <2>1. run = Arranged(unsorted, keys)
    BY DEF Sorted
  <2>2. size \in Nat /\ DOMAIN unsorted = 1 .. size
    BY <1>2, <1>3
  <2> HIDE DEF keys, run
  <2> QED BY <1>4, <2>1, <2>2, ArrangedIsPermuted
<1>6. /\ \A m \in 1 .. size : p[m] \in 1 .. size /\ run[m] = unsorted[p[m]]
      /\ DOMAIN run = 1 .. size
  BY <1>5 DEF Arranges
<1>7. run \in Seq(RecordsOf(table)) /\ Len(run) = size
  BY <1>2, <1>3, <1>5, <1>6
<1>8. run # << >>
  BY <1>2, <1>7
<1>9. InOrder(run)
  <2> SUFFICES ASSUME NEW i \in 1 .. size, NEW j \in 1 .. size, i < j
               PROVE  ~ Less(run[j], run[i])
    BY <1>6 DEF InOrder
  <2>1. Earlier(keys, p[i], p[j])
    BY <1>5 DEF Arranges
  <2>2. keys[p[i]] <= keys[p[j]]
    BY <1>4, <1>6, <2>1 DEF Earlier
  <2>3. keys[p[i]] = InParts(run[i].key) /\ keys[p[j]] = InParts(run[j].key)
    BY <1>3, <1>6
  <2>4. keys[p[i]] \in Int /\ keys[p[j]] \in Int
    BY <1>4, <1>6
  <2> HIDE DEF keys, run
  <2> QED BY <2>2, <2>3, <2>4 DEF Less
<1>10. \A i, j \in 1 .. size : unsorted[i] = unsorted[j] => i = j
  <2> SUFFICES ASSUME NEW i \in 1 .. size, NEW j \in 1 .. size, unsorted[i] = unsorted[j]
               PROVE  i = j
    OBVIOUS
  <2>1. unsorted[i].id = first + i - 1 /\ unsorted[j].id = first + j - 1
    BY <1>3 DEF RecordAt
  <2> QED BY <1>1, <2>1
<1>11. IsInjective(run)
  <2> SUFFICES ASSUME NEW i \in 1 .. size, NEW j \in 1 .. size, run[i] = run[j]
               PROVE  i = j
    BY <1>6 DEF IsInjective
  <2>1. p[i] = p[j]
    BY <1>6, <1>10
  <2> QED BY <1>5, <2>1 DEF Arranges
<1>12. ToSet(run) = {RecordAt(table, k) : k \in Places(table, first)}
  <2>1. ToSet(run) = {unsorted[n] : n \in 1 .. size}
    <3>1. \A n \in 1 .. size : \E m \in 1 .. size : p[m] = n
      BY <1>5 DEF Arranges
    <3> QED BY <1>6, <3>1, SMTT(30) DEF ToSet
  <2>2. ASSUME NEW n \in 1 .. size
        PROVE  first + n - 1 \in Places(table, first)
    <3>1. first <= first + n - 1 /\ first + n - 1 < first + RunSize
      BY <1>1, <1>2
    <3> QED BY <1>3, <3>1 DEF Places
  <2>3. ASSUME NEW k \in Places(table, first)
        PROVE  k - first + 1 \in 1 .. size /\ RecordAt(table, k) = unsorted[k - first + 1]
    <3>1. k \in 1 .. Len(table) /\ first <= k /\ k < first + RunSize
      BY <1>1 DEF Places
    <3>2. k - first + 1 \in 1 .. size
      BY <1>1, <1>2, <3>1
    <3>3. first + (k - first + 1) - 1 = k
      BY <1>1, <3>1
    <3> QED BY <1>3, <3>2, <3>3
  <2> QED BY <1>3, <2>1, <2>2, <2>3
<1> QED
  BY <1>7, <1>8, <1>9, <1>11, <1>12 DEF unsorted

(* The runs of a table hold its records, each once.                        *)
LEMMA RunsOfTable ==
    ASSUME NEW table \in LeftTables \cup RightTables
    PROVE  /\ Runs(SortedRuns(table), table)
           /\ UNION {ToSet(run) : run \in SortedRuns(table)} = RecordsOf(table)
<1> DEFINE firsts == {n \in DOMAIN table : (n - 1) % RunSize = 0}
<1>1. /\ RunSize \in Nat \ {0}
      /\ Len(table) \in Nat /\ DOMAIN table = 1 .. Len(table)
  BY JoinAssumption, LenProperties
<1>2. SortedRuns(table) = {Sorted(Run(table, first)) : first \in firsts}
  BY DEF SortedRuns
<1>3. \A first, other \in firsts : first # other => Places(table, first) \cap Places(table, other) = {}
  <2>1. ASSUME NEW first \in firsts, NEW other \in firsts, first < other
        PROVE  Places(table, first) \cap Places(table, other) = {}
    <3>1. first - 1 \in Nat /\ other - 1 \in Nat /\ first - 1 < other - 1
      BY <1>1, <2>1
    <3>2. first - 1 + RunSize <= other - 1
      BY <1>1, <3>1, Apart
    <3>3. first + RunSize <= other
      BY <1>1, <3>2
    <3> QED BY <1>1, <3>3 DEF Places
  <2> QED BY <1>1, <2>1
<1>4. \A k \in DOMAIN table : \E first \in firsts : k \in Places(table, first)
  <2> TAKE k \in DOMAIN table
  <2> DEFINE q == RunSize * ((k - 1) \div RunSize)
             first == q + 1
  <2>1. k \in 1 .. Len(table) /\ k - 1 \in Nat
    BY <1>1
  <2>2. q \in 0 .. k - 1 /\ k - 1 < q + RunSize /\ q % RunSize = 0
    BY <1>1, <2>1, Division
  <2> HIDE DEF q
  <2>3. first \in DOMAIN table /\ first <= k /\ k < first + RunSize
    BY <1>1, <2>1, <2>2
  <2>4. first - 1 = q
    BY <2>2
  <2> HIDE DEF first
  <2> QED BY <2>2, <2>3, <2>4 DEF Places
<1> HIDE DEF firsts
<1>5. \A first \in firsts : first \in DOMAIN table
  BY DEF firsts
<1>6. Runs(SortedRuns(table), table)
  <2>1. ASSUME NEW first \in firsts, NEW other \in firsts,
               Sorted(Run(table, first)) # Sorted(Run(table, other))
        PROVE  ToSet(Sorted(Run(table, first))) \cap ToSet(Sorted(Run(table, other))) = {}
    <3>1. Places(table, first) \cap Places(table, other) = {}
      BY <1>3, <2>1
    <3>2. \A k, l \in DOMAIN table : RecordAt(table, k) = RecordAt(table, l) => k = l
      BY DEF RecordAt
    <3>3. /\ ToSet(Sorted(Run(table, first))) = {RecordAt(table, k) : k \in Places(table, first)}
          /\ ToSet(Sorted(Run(table, other))) = {RecordAt(table, k) : k \in Places(table, other)}
      BY <1>5, RunIsSorted
    <3>4. Places(table, first) \subseteq DOMAIN table /\ Places(table, other) \subseteq DOMAIN table
      BY DEF Places
    <3> QED BY <3>1, <3>2, <3>3, <3>4
  <2> QED BY <1>2, <1>5, <2>1, RunIsSorted DEF Runs
<1>7. RecordsOf(table) = {RecordAt(table, k) : k \in DOMAIN table}
  BY DEF RecordsOf, RecordAt
<1>8. UNION {ToSet(run) : run \in SortedRuns(table)}
        = UNION {{RecordAt(table, k) : k \in Places(table, first)} : first \in firsts}
  <2>1. \A first \in firsts : ToSet(Sorted(Run(table, first))) = {RecordAt(table, k) : k \in Places(table, first)}
    BY <1>5, RunIsSorted
  <2> QED BY <1>2, <2>1
<1>9. UNION {{RecordAt(table, k) : k \in Places(table, first)} : first \in firsts}
        = {RecordAt(table, k) : k \in DOMAIN table}
  BY <1>4 DEF Places
<1> QED
  BY <1>6, <1>7, <1>8, <1>9

-----------------------------------------------------------------------------
(* The inductive invariant.  LeftOf and RightOf are the records of a pair. *)
LeftOf(p) == [id |-> p[1], key |-> left[p[1]]]
RightOf(p) == [id |-> p[2], key |-> right[p[2]]]

Reading ==
    /\ left \in LeftTables /\ right \in RightTables
    /\ Iterates(ptrLeft, left) /\ Iterates(ptrRight, right)
    /\ phase \notin {"begin", "undefined"} => ~ ptrLeft.firstTime /\ ~ ptrRight.firstTime
    /\ output \in Seq(Nat \X Nat)

Beginning ==
    phase = "begin" =>
        /\ Pending(ptrLeft) = RecordsOf(left) /\ Pending(ptrRight) = RecordsOf(right)
        /\ ptrLeft.firstTime /\ ptrRight.firstTime
        /\ output = << >>

(* What was skipped on one side is smaller than what is to come on the     *)
(* other; the pairs of records that both are still to come are not out.    *)
Comparing ==
    phase = "compare" =>
        /\ HasCurrent(ptrLeft) /\ recordLeft = Current(ptrLeft)
        /\ HasCurrent(ptrRight) /\ recordRight = Current(ptrRight)
        /\ \A r \in RecordsOf(left) \ Pending(ptrLeft) : Less(r, recordRight)
        /\ \A r \in RecordsOf(right) \ Pending(ptrRight) : Less(r, recordLeft)
        /\ ToSet(output) = {p \in Matching : LeftOf(p) \notin Pending(ptrLeft)
                                          \/ RightOf(p) \notin Pending(ptrRight)}

(* The group of a side that is being read: the record it ends with is      *)
(* still the iterator's current one.                                       *)
Growing(buffers, table, it) ==
    /\ HasCurrent(it)
    /\ IsInjective(buffers) /\ ToSet(buffers) \subseteq RecordsOf(table)
    /\ ToSet(buffers) \cap Pending(it) = {Current(it)}
    /\ \A r \in ToSet(buffers) : Equal(r, Head(buffers))
    /\ \A r \in RecordsOf(table) : \/ r \in ToSet(buffers) \/ r \in Pending(it)
                                   \/ Less(r, Head(buffers))

(* The pairs of the group that come before the one that is looked at.      *)
Crossed(p) ==
    \E i \in DOMAIN leftBuffers, j \in DOMAIN rightBuffers :
        /\ p = <<leftBuffers[i].id, rightBuffers[j].id>>
        /\ i < pair[1] \/ (i = pair[1] /\ j < pair[2])

Grouping ==
    /\ phase \in {"left", "right", "cross"} =>
          /\ leftBuffers \in Seq(RecordsOf(left)) /\ leftBuffers # << >>
          /\ rightBuffers \in Seq(RecordsOf(right)) /\ rightBuffers # << >>
          /\ Equal(Head(leftBuffers), Head(rightBuffers))
          /\ keyValue = Text(Head(leftBuffers))
    /\ phase = "left" => Growing(leftBuffers, left, ptrLeft)
    /\ phase \in {"left", "right"} =>
          /\ Growing(rightBuffers, right, ptrRight)
          /\ ToSet(output) = {p \in Matching : Less(LeftOf(p), Head(leftBuffers))}
    /\ phase \in {"right", "cross"} =>
          /\ WholeGroup(leftBuffers, left, ptrLeft)
          /\ bottomLeft <=> ~ HasCurrent(ptrLeft)
    /\ phase = "cross" =>
          /\ WholeGroup(rightBuffers, right, ptrRight)
          /\ bottomRight <=> ~ HasCurrent(ptrRight)
          /\ ToSet(output) = {p \in Matching : Less(LeftOf(p), Head(leftBuffers)) \/ Crossed(p)}

(* When the join returns no pair is missing.                               *)
Complete == phase = "done" => Matching \subseteq ToSet(output)

JoinInv ==
    /\ TypeOK
    /\ Reading
    /\ Beginning
    /\ Comparing
    /\ Grouping
    /\ Complete

-----------------------------------------------------------------------------
(* Keys are numbers, and the texts of two of them are equal if they are.   *)
LEMMA Keys ==
    ASSUME left \in LeftTables, right \in RightTables
    PROVE  /\ \A r \in RecordsOf(left) \cup RecordsOf(right) : InParts(r.key) \in Int
           /\ \A r, s \in RecordsOf(left) \cup RecordsOf(right) : Text(r) = Text(s) <=> Equal(r, s)
BY KeysAreNumbers, Comparisons

(* A pair that is to come out is one of two records with equal keys.       *)
LEMMA MatchingPairs ==
    /\ \A p \in Matching :
          /\ LeftOf(p) \in RecordsOf(left) /\ RightOf(p) \in RecordsOf(right)
          /\ Equal(LeftOf(p), RightOf(p))
          /\ p = <<LeftOf(p).id, RightOf(p).id>>
    /\ \A l \in RecordsOf(left), r \in RecordsOf(right) :
          /\ LeftOf(<<l.id, r.id>>) = l /\ RightOf(<<l.id, r.id>>) = r
          /\ <<l.id, r.id>> \in Matching <=> Accepted(l, r)
<1>1. \A l \in RecordsOf(left), r \in RecordsOf(right) :
          LeftOf(<<l.id, r.id>>) = l /\ RightOf(<<l.id, r.id>>) = r
  BY DEF RecordsOf, LeftOf, RightOf
<1>2. ASSUME NEW p \in Matching
      PROVE  /\ LeftOf(p) \in RecordsOf(left) /\ RightOf(p) \in RecordsOf(right)
             /\ Equal(LeftOf(p), RightOf(p))
             /\ p = <<LeftOf(p).id, RightOf(p).id>>
  <2>1. PICK l \in RecordsOf(left), r \in RecordsOf(right) : p = <<l.id, r.id>>
    BY DEF Matching, Answer
  <2> QED BY <1>1, <2>1 DEF Matching, Equal, LeftOf, RightOf
<1>3. ASSUME NEW l \in RecordsOf(left), NEW r \in RecordsOf(right)
      PROVE  <<l.id, r.id>> \in Matching <=> Accepted(l, r)
  <2>1. l.key = left[l.id] /\ r.key = right[r.id]
    BY DEF RecordsOf
  <2> QED BY <2>1 DEF Matching, Answer, Accepted, Equal
<1> QED
  BY <1>1, <1>2, <1>3

(* A record of the same key joins the group, with what is left to read.    *)
LEMMA GroupGrows ==
    ASSUME NEW table \in LeftTables \cup RightTables, NEW it, Iterates(it, table), ~ it.firstTime,
           NEW buffers \in Seq(RecordsOf(table)), buffers # << >>, Growing(buffers, table, it),
           NEW next \in Advanced(it), HasCurrent(next), Equal(Current(next), Head(buffers))
    PROVE  /\ Append(buffers, Current(next)) \in Seq(RecordsOf(table))
           /\ Head(Append(buffers, Current(next))) = Head(buffers)
           /\ Growing(Append(buffers, Current(next)), table, next)
<1> DEFINE c == Current(next)
           longer == Append(buffers, c)
<1>1. /\ Iterates(next, table) /\ Pending(next) = Pending(it) \ {Current(it)}
      /\ Pending(it) \subseteq RecordsOf(table)
  BY AdvancedIterates, CurrentIsLeast DEF Growing
<1>2. c \in Pending(next) /\ c \in RecordsOf(table)
  BY <1>1, CurrentIsLeast
<1> HIDE DEF c
<1>3. c \notin ToSet(buffers)
  BY <1>1, <1>2 DEF Growing
<1>4. /\ Len(buffers) \in Nat \ {0} /\ DOMAIN buffers = 1 .. Len(buffers)
      /\ longer \in Seq(RecordsOf(table)) /\ Len(longer) = Len(buffers) + 1
      /\ DOMAIN longer = 1 .. Len(buffers) + 1
      /\ \A i \in 1 .. Len(buffers) : longer[i] = buffers[i]
      /\ longer[Len(buffers) + 1] = c
      /\ Head(longer) = Head(buffers)
  <2>1. /\ Len(buffers) \in Nat \ {0} /\ DOMAIN buffers = 1 .. Len(buffers)
        /\ Head(buffers) = buffers[1]
    BY HeadAndTail
  <2>2. /\ longer \in Seq(RecordsOf(table)) /\ Len(longer) = Len(buffers) + 1
        /\ \A i \in 1 .. Len(buffers) : longer[i] = buffers[i]
        /\ longer[Len(buffers) + 1] = c
    BY <1>2, AppendProperties
  <2>3. longer # << >> /\ DOMAIN longer = 1 .. Len(buffers) + 1
    BY <2>1, <2>2, LenProperties
  <2>4. Head(longer) = longer[1]
    BY <2>2, <2>3, HeadAndTail
  <2> QED BY <2>1, <2>2, <2>3, <2>4
<1> HIDE DEF longer
<1>5. ToSet(longer) = ToSet(buffers) \cup {c}
  <2>1. \A i \in DOMAIN longer : i \in DOMAIN buffers \/ i = Len(buffers) + 1
    BY <1>4
  <2>2. Len(buffers) + 1 \in DOMAIN longer
    BY <1>4
  <2> QED BY <1>4, <2>1, <2>2 DEF ToSet
<1>6. IsInjective(longer)
  <2> SUFFICES ASSUME NEW i \in DOMAIN longer, NEW j \in DOMAIN longer, longer[i] = longer[j]
               PROVE  i = j
    BY DEF IsInjective
  <2>1. i \in DOMAIN buffers \/ i = Len(buffers) + 1
    BY <1>4
  <2>2. j \in DOMAIN buffers \/ j = Len(buffers) + 1
    BY <1>4
  <2>3. \A m \in DOMAIN buffers : buffers[m] # c /\ longer[m] = buffers[m]
    BY <1>3, <1>4 DEF ToSet
  <2> QED BY <1>4, <2>1, <2>2, <2>3 DEF Growing, IsInjective
<1>7. Growing(longer, table, next)
  BY <1>1, <1>2, <1>4, <1>5, <1>6 DEF Growing, c
<1> QED
  BY <1>4, <1>7 DEF c, longer

(* When a record has another key, or there is none, the group is whole.    *)
LEMMA GroupEnds ==
    ASSUME NEW table \in LeftTables \cup RightTables, NEW it, Iterates(it, table), ~ it.firstTime,
           NEW buffers \in Seq(RecordsOf(table)), buffers # << >>, Growing(buffers, table, it),
           NEW next \in Advanced(it), ~ (HasCurrent(next) /\ Equal(Current(next), Head(buffers)))
    PROVE  WholeGroup(buffers, table, next)
<1>1. /\ Iterates(next, table) /\ Pending(next) = Pending(it) \ {Current(it)}
      /\ Pending(it) \subseteq RecordsOf(table)
      /\ Current(it) \in Pending(it) /\ \A r \in Pending(it) : ~ Less(r, Current(it))
  BY AdvancedIterates, CurrentIsLeast DEF Growing
<1>2. /\ HasCurrent(next) <=> Pending(next) # {}
      /\ HasCurrent(next) => /\ Current(next) \in Pending(next)
                             /\ \A r \in Pending(next) : ~ Less(r, Current(next))
  BY <1>1, CurrentIsLeast
<1>3. \A r \in RecordsOf(table) : InParts(r.key) \in Int
  BY KeysAreNumbers
<1>4. Head(buffers) \in ToSet(buffers) /\ ToSet(buffers) \subseteq RecordsOf(table)
  BY HeadAndTail
<1>5. Current(it) \in ToSet(buffers) /\ Equal(Current(it), Head(buffers))
  BY <1>1 DEF Growing
<1>6. \A r \in Pending(next) : Less(Head(buffers), r)
  <2> SUFFICES ASSUME NEW r \in Pending(next)
               PROVE  Less(Head(buffers), r)
    OBVIOUS
  <2>1. HasCurrent(next) /\ ~ Less(r, Current(next)) /\ ~ Equal(Current(next), Head(buffers))
    BY <1>2
  <2>2. /\ r \in RecordsOf(table) /\ Current(next) \in RecordsOf(table)
        /\ ~ Less(Current(next), Current(it))
    BY <1>1, <1>2, <2>1
  <2> QED BY <1>1, <1>3, <1>4, <1>5, <2>1, <2>2 DEF Less, Equal
<1>7. ASSUME NEW r \in RecordsOf(table)
      PROVE  (Less(Head(buffers), r) => r \in Pending(next)) /\ (Equal(r, Head(buffers)) => r \in ToSet(buffers))
  <2>1. r \in ToSet(buffers) \/ r \in Pending(next) \/ Less(r, Head(buffers))
    BY <1>1, <1>5 DEF Growing
  <2>2. r \in ToSet(buffers) => Equal(r, Head(buffers))
    BY DEF Growing
  <2>3. InParts(r.key) \in Int /\ InParts(Head(buffers).key) \in Int
    BY <1>3, <1>4
  <2> QED BY <1>6, <2>1, <2>2, <2>3 DEF Less, Equal
<1> QED
  BY <1>1, <1>4, <1>6, <1>7 DEF WholeGroup, Growing

-----------------------------------------------------------------------------
(* The invariant holds at first: the iterators are over all records.       *)
LEMMA InitEstablishes == Init => JoinInv
<1> SUFFICES ASSUME Init
             PROVE  JoinInv
  OBVIOUS
<1>1. left \in LeftTables /\ right \in RightTables /\ phase = "begin"
  BY DEF Init
<1>2. /\ Iterates(ptrLeft, left) /\ Pending(ptrLeft) = RecordsOf(left) /\ ptrLeft.firstTime
      /\ Iterates(ptrRight, right) /\ Pending(ptrRight) = RecordsOf(right) /\ ptrRight.firstTime
  BY <1>1, RunsOfTable, QueueIterates DEF Init
<1>3. TypeOK
  BY DEF Init, TypeOK, ToSet
<1>4. Reading /\ Beginning /\ Comparing /\ Grouping /\ Complete
  BY <1>1, <1>2 DEF Init, Reading, Beginning, Comparing, Grouping, Complete
<1> QED
  BY <1>3, <1>4 DEF JoinInv

(* Both first records are current, and nothing is passed.                  *)
LEMMA BeginKeeps ==
    ASSUME JoinInv, Begin
    PROVE  JoinInv'
<1>1. /\ UNCHANGED <<left, right, rejected, output, leftBuffers, rightBuffers>>
      /\ Matching' = Matching
  BY DEF Begin, inputs, groups, Matching, Answer
<1>2. left \in LeftTables /\ right \in RightTables
  BY DEF JoinInv, Reading
<1>3. CASE HasCurrent(ptrLeft) /\ HasCurrent(ptrRight)
  <2>1. /\ phase' = "compare"
        /\ ptrLeft' \in Advanced(ptrLeft) /\ ptrRight' \in Advanced(ptrRight)
        /\ recordLeft' = Current(ptrLeft') /\ recordRight' = Current(ptrRight')
    BY <1>3 DEF Begin
  <2>2. /\ Iterates(ptrLeft', left) /\ ~ ptrLeft'.firstTime /\ HasCurrent(ptrLeft')
        /\ Pending(ptrLeft') = RecordsOf(left)
        /\ Iterates(ptrRight', right) /\ ~ ptrRight'.firstTime /\ HasCurrent(ptrRight')
        /\ Pending(ptrRight') = RecordsOf(right)
    BY <1>3, <2>1, FirstAdvance DEF JoinInv, Reading, Beginning, Begin, HasCurrent
  <2>3. recordLeft' \in RecordsOf(left) /\ recordRight' \in RecordsOf(right)
    BY <1>2, <2>1, <2>2, CurrentIsLeast
  <2>4. TypeOK'
    BY <1>1, <2>1, <2>2, <2>3 DEF JoinInv, TypeOK, RecordsOf, HasCurrent
  <2>5. ToSet(output) = {}
    BY DEF JoinInv, Beginning, Begin, ToSet
  <2>6. {p \in Matching : LeftOf(p) \notin RecordsOf(left) \/ RightOf(p) \notin RecordsOf(right)} = {}
    BY MatchingPairs
  <2>7. Comparing'
    BY <1>1, <2>1, <2>2, <2>5, <2>6 DEF Comparing, RecordsOf, LeftOf, RightOf, HasCurrent, Current, Pending
  <2> QED
    BY <1>1, <1>2, <2>1, <2>2, <2>4, <2>7 DEF JoinInv, Reading, Beginning, Grouping, Complete, Iterates
<1>4. CASE ~ (HasCurrent(ptrLeft) /\ HasCurrent(ptrRight))
  <2>1. phase' = "undefined" /\ UNCHANGED <<ptrLeft, ptrRight, recordLeft, recordRight>>
    BY <1>4 DEF Begin
  <2> QED
    BY <1>1, <2>1 DEF JoinInv, TypeOK, Reading, Beginning, Comparing, Grouping, Complete
<1> QED
  BY <1>3, <1>4

(* What is known while the current records are compared.                   *)
LEMMA WhileComparing ==
    ASSUME JoinInv, phase = "compare"
    PROVE  /\ left \in LeftTables /\ right \in RightTables
           /\ Iterates(ptrLeft, left) /\ ~ ptrLeft.firstTime /\ HasCurrent(ptrLeft)
           /\ Iterates(ptrRight, right) /\ ~ ptrRight.firstTime /\ HasCurrent(ptrRight)
           /\ Pending(ptrLeft) \subseteq RecordsOf(left)
           /\ Pending(ptrRight) \subseteq RecordsOf(right)
           /\ recordLeft = Current(ptrLeft) /\ recordLeft \in Pending(ptrLeft)
           /\ recordRight = Current(ptrRight) /\ recordRight \in Pending(ptrRight)
           /\ \A r \in Pending(ptrLeft) : InParts(recordLeft.key) <= InParts(r.key)
           /\ \A r \in Pending(ptrRight) : InParts(recordRight.key) <= InParts(r.key)
           /\ \A r \in RecordsOf(left) \cup RecordsOf(right) : InParts(r.key) \in Int
<1>1. /\ left \in LeftTables /\ right \in RightTables
      /\ Iterates(ptrLeft, left) /\ ~ ptrLeft.firstTime /\ HasCurrent(ptrLeft)
      /\ Iterates(ptrRight, right) /\ ~ ptrRight.firstTime /\ HasCurrent(ptrRight)
      /\ recordLeft = Current(ptrLeft) /\ recordRight = Current(ptrRight)
  BY DEF JoinInv, Reading, Comparing
<1>2. /\ Pending(ptrLeft) \subseteq RecordsOf(left)
      /\ Pending(ptrRight) \subseteq RecordsOf(right)
      /\ recordLeft \in Pending(ptrLeft) /\ recordRight \in Pending(ptrRight)
      /\ \A r \in Pending(ptrLeft) : ~ Less(r, recordLeft)
      /\ \A r \in Pending(ptrRight) : ~ Less(r, recordRight)
  BY <1>1, CurrentIsLeast
<1>3. \A r \in RecordsOf(left) \cup RecordsOf(right) : InParts(r.key) \in Int
  BY <1>1, Keys
<1>4. /\ \A r \in Pending(ptrLeft) : InParts(recordLeft.key) <= InParts(r.key)
      /\ \A r \in Pending(ptrRight) : InParts(recordRight.key) <= InParts(r.key)
  BY <1>2, <1>3 DEF Less
<1> QED
  BY <1>1, <1>2, <1>3, <1>4

(* Groups begin: what is out are the pairs of smaller keys.                *)
LEMMA BeginGroupsKeeps ==
    ASSUME JoinInv, BeginGroups
    PROVE  JoinInv'
<1>1. /\ UNCHANGED <<left, right, rejected, output, ptrLeft, ptrRight, recordLeft, recordRight, pair>>
      /\ Matching' = Matching
      /\ phase = "compare" /\ phase' = "left" /\ Equal(recordLeft, recordRight)
      /\ keyValue' = Text(recordLeft)
      /\ leftBuffers' = <<recordLeft>> /\ rightBuffers' = <<recordRight>>
  BY DEF BeginGroups, inputs, Matching, Answer
<1>2. /\ recordLeft \in RecordsOf(left) /\ recordRight \in RecordsOf(right)
      /\ InParts(recordLeft.key) = InParts(recordRight.key)
  BY <1>1, WhileComparing DEF Equal
<1>3. ASSUME NEW S, NEW x \in S
      PROVE  /\ <<x>> \in Seq(S) /\ <<x>> # << >> /\ Head(<<x>>) = x
             /\ ToSet(<<x>>) = {x} /\ IsInjective(<<x>>)
  BY DEF ToSet, IsInjective
<1>4. /\ leftBuffers' \in Seq(RecordsOf(left)) /\ leftBuffers' # << >> /\ Head(leftBuffers') = recordLeft
      /\ rightBuffers' \in Seq(RecordsOf(right)) /\ rightBuffers' # << >> /\ Head(rightBuffers') = recordRight
      /\ ToSet(leftBuffers') = {recordLeft} /\ ToSet(rightBuffers') = {recordRight}
      /\ IsInjective(leftBuffers') /\ IsInjective(rightBuffers')
  BY <1>1, <1>2, <1>3
<1>5. /\ \A r \in RecordsOf(left) \ Pending(ptrLeft) : Less(r, recordLeft)
      /\ \A r \in RecordsOf(right) \ Pending(ptrRight) : Less(r, recordRight)
  BY <1>1, <1>2 DEF JoinInv, Comparing, Less
<1>6. Growing(leftBuffers', left, ptrLeft) /\ Growing(rightBuffers', right, ptrRight)
  BY <1>1, <1>2, <1>4, <1>5, WhileComparing DEF Growing, Equal
<1>7. ToSet(output) = {p \in Matching : Less(LeftOf(p), recordLeft)}
  <2>1. ToSet(output) = {p \in Matching : LeftOf(p) \notin Pending(ptrLeft)
                                       \/ RightOf(p) \notin Pending(ptrRight)}
    BY <1>1 DEF JoinInv, Comparing
  <2>2. \A p \in Matching : Less(LeftOf(p), recordLeft) <=> /\ LeftOf(p) \notin Pending(ptrLeft)
    <3> TAKE p \in Matching
    <3>1. LeftOf(p) \in RecordsOf(left)
      BY MatchingPairs
    <3> QED BY <1>1, <1>2, <1>5, <3>1, WhileComparing DEF Less
  <2>3. \A p \in Matching : RightOf(p) \notin Pending(ptrRight) => Less(LeftOf(p), recordLeft)
    <3> TAKE p \in Matching
    <3>1. RightOf(p) \in RecordsOf(right) /\ Equal(LeftOf(p), RightOf(p))
      BY MatchingPairs
    <3> QED BY <1>2, <1>5, <3>1 DEF Less, Equal
  <2> QED BY <2>1, <2>2, <2>3
<1>8. TypeOK'
  BY <1>1, <1>2, <1>4 DEF JoinInv, TypeOK, RecordsOf
<1>9. Grouping'
  BY <1>1, <1>2, <1>4, <1>6, <1>7 DEF Grouping, RecordsOf, LeftOf, Equal, Growing, HasCurrent, Current, Pending
<1> QED
  BY <1>1, <1>8, <1>9 DEF JoinInv, Reading, Beginning, Comparing, Complete

(* The right record that is skipped is too small for any left one to come. *)
LEMMA SkipRightKeeps ==
    ASSUME JoinInv, SkipRight
    PROVE  JoinInv'
<1>1. /\ UNCHANGED <<left, right, rejected, output, ptrLeft, recordLeft, leftBuffers, rightBuffers>>
      /\ Matching' = Matching
      /\ phase = "compare" /\ Less(recordRight, recordLeft)
      /\ ptrRight' \in Advanced(ptrRight)
  BY DEF SkipRight, inputs, groups, Matching, Answer
<1>2. /\ recordLeft \in RecordsOf(left) /\ recordRight \in RecordsOf(right)
      /\ InParts(recordRight.key) < InParts(recordLeft.key)
  BY <1>1, WhileComparing DEF Less
<1>3. /\ Iterates(ptrRight', right) /\ ~ ptrRight'.firstTime
      /\ Pending(ptrRight') = Pending(ptrRight) \ {recordRight}
  BY <1>1, AdvancedIterates, WhileComparing
<1>4. /\ HasCurrent(ptrRight') <=> Pending(ptrRight') # {}
      /\ HasCurrent(ptrRight') => Current(ptrRight') \in Pending(ptrRight')
  BY <1>1, <1>3, CurrentIsLeast, WhileComparing
<1>5. ToSet(output) = {p \in Matching : LeftOf(p) \notin Pending(ptrLeft)
                                     \/ RightOf(p) \notin Pending(ptrRight')}
  <2>1. ToSet(output) = {p \in Matching : LeftOf(p) \notin Pending(ptrLeft)
                                       \/ RightOf(p) \notin Pending(ptrRight)}
    BY <1>1 DEF JoinInv, Comparing
  <2>2. ASSUME NEW p \in Matching, RightOf(p) = recordRight
        PROVE  LeftOf(p) \notin Pending(ptrLeft)
    BY <1>1, <1>2, <2>2, MatchingPairs, WhileComparing DEF Equal
  <2> QED BY <1>3, <2>1, <2>2
<1>6. CASE HasCurrent(ptrRight')
  <2>1. phase' = "compare" /\ recordRight' = Current(ptrRight')
    BY <1>1, <1>6 DEF SkipRight
  <2>2. recordRight' \in Pending(ptrRight') /\ recordRight' \in RecordsOf(right)
    BY <1>1, <1>3, <1>4, <1>6, <2>1, WhileComparing
  <2>3. InParts(recordRight.key) <= InParts(recordRight'.key) /\ InParts(recordRight'.key) \in Int
    BY <1>1, <1>3, <2>2, WhileComparing
  <2>4. \A r \in RecordsOf(left) \ Pending(ptrLeft) : Less(r, recordRight')
    <3> TAKE r \in RecordsOf(left) \ Pending(ptrLeft)
    <3>1. Less(r, recordRight)
      BY <1>1 DEF JoinInv, Comparing
    <3>2. InParts(r.key) \in Int /\ InParts(recordRight.key) \in Int
      BY <1>1, <1>2, WhileComparing
    <3> QED BY <2>3, <3>1, <3>2 DEF Less
  <2>5. \A r \in RecordsOf(right) \ Pending(ptrRight') : Less(r, recordLeft)
    BY <1>1, <1>3 DEF JoinInv, Comparing
  <2>6. TypeOK'
    BY <1>1, <1>6, <2>1, <2>2, WhileComparing DEF JoinInv, TypeOK, RecordsOf, HasCurrent
  <2>7. Comparing'
    BY <1>1, <1>5, <1>6, <2>1, <2>4, <2>5, WhileComparing
       DEF Comparing, RecordsOf, LeftOf, RightOf, HasCurrent, Current, Pending, Less
  <2> QED
    BY <1>1, <1>3, <2>1, <2>6, <2>7, WhileComparing DEF JoinInv, Reading, Beginning, Grouping, Complete, Iterates
<1>7. CASE ~ HasCurrent(ptrRight')
  <2>1. phase' = "done" /\ UNCHANGED recordRight
    BY <1>1, <1>7 DEF SkipRight
  <2>2. Matching \subseteq ToSet(output)
    BY <1>4, <1>5, <1>7
  <2>3. TypeOK'
    BY <1>1, <2>1 DEF JoinInv, TypeOK, RecordsOf
  <2> QED
    BY <1>1, <1>3, <2>1, <2>2, <2>3, WhileComparing
       DEF JoinInv, Reading, Beginning, Comparing, Grouping, Complete, Iterates, ToSet
<1> QED
  BY <1>6, <1>7

(* The left record that is skipped is too small for any right one to come. *)
LEMMA SkipLeftKeeps ==
    ASSUME JoinInv, SkipLeft
    PROVE  JoinInv'
<1>1. /\ UNCHANGED <<left, right, rejected, output, ptrRight, recordRight, leftBuffers, rightBuffers>>
      /\ Matching' = Matching
      /\ phase = "compare" /\ Less(recordLeft, recordRight)
      /\ ptrLeft' \in Advanced(ptrLeft)
  BY DEF SkipLeft, inputs, groups, Matching, Answer
<1>2. /\ recordLeft \in RecordsOf(left) /\ recordRight \in RecordsOf(right)
      /\ InParts(recordLeft.key) < InParts(recordRight.key)
  BY <1>1, WhileComparing DEF Less
<1>3. /\ Iterates(ptrLeft', left) /\ ~ ptrLeft'.firstTime
      /\ Pending(ptrLeft') = Pending(ptrLeft) \ {recordLeft}
  BY <1>1, AdvancedIterates, WhileComparing
<1>4. /\ HasCurrent(ptrLeft') <=> Pending(ptrLeft') # {}
      /\ HasCurrent(ptrLeft') => Current(ptrLeft') \in Pending(ptrLeft')
  BY <1>1, <1>3, CurrentIsLeast, WhileComparing
<1>5. ToSet(output) = {p \in Matching : LeftOf(p) \notin Pending(ptrLeft')
                                     \/ RightOf(p) \notin Pending(ptrRight)}
  <2>1. ToSet(output) = {p \in Matching : LeftOf(p) \notin Pending(ptrLeft)
                                       \/ RightOf(p) \notin Pending(ptrRight)}
    BY <1>1 DEF JoinInv, Comparing
  <2>2. ASSUME NEW p \in Matching, LeftOf(p) = recordLeft
        PROVE  RightOf(p) \notin Pending(ptrRight)
    BY <1>1, <1>2, <2>2, MatchingPairs, WhileComparing DEF Equal
  <2> QED BY <1>3, <2>1, <2>2
<1>6. CASE HasCurrent(ptrLeft')
  <2>1. phase' = "compare" /\ recordLeft' = Current(ptrLeft')
    BY <1>1, <1>6 DEF SkipLeft
  <2>2. recordLeft' \in Pending(ptrLeft') /\ recordLeft' \in RecordsOf(left)
    BY <1>1, <1>3, <1>4, <1>6, <2>1, WhileComparing
  <2>3. InParts(recordLeft.key) <= InParts(recordLeft'.key) /\ InParts(recordLeft'.key) \in Int
    BY <1>1, <1>3, <2>2, WhileComparing
  <2>4. \A r \in RecordsOf(right) \ Pending(ptrRight) : Less(r, recordLeft')
    <3> TAKE r \in RecordsOf(right) \ Pending(ptrRight)
    <3>1. Less(r, recordLeft)
      BY <1>1 DEF JoinInv, Comparing
    <3>2. InParts(r.key) \in Int /\ InParts(recordLeft.key) \in Int
      BY <1>1, <1>2, WhileComparing
    <3> QED BY <2>3, <3>1, <3>2 DEF Less
  <2>5. \A r \in RecordsOf(left) \ Pending(ptrLeft') : Less(r, recordRight)
    BY <1>1, <1>3 DEF JoinInv, Comparing
  <2>6. TypeOK'
    BY <1>1, <1>6, <2>1, <2>2, WhileComparing DEF JoinInv, TypeOK, RecordsOf, HasCurrent
  <2>7. Comparing'
    BY <1>1, <1>5, <1>6, <2>1, <2>4, <2>5, WhileComparing
       DEF Comparing, RecordsOf, LeftOf, RightOf, HasCurrent, Current, Pending, Less
  <2> QED
    BY <1>1, <1>3, <2>1, <2>6, <2>7, WhileComparing DEF JoinInv, Reading, Beginning, Grouping, Complete, Iterates
<1>7. CASE ~ HasCurrent(ptrLeft')
  <2>1. phase' = "done" /\ UNCHANGED recordLeft
    BY <1>1, <1>7 DEF SkipLeft
  <2>2. Matching \subseteq ToSet(output)
    BY <1>4, <1>5, <1>7
  <2>3. TypeOK'
    BY <1>1, <2>1 DEF JoinInv, TypeOK, RecordsOf
  <2> QED
    BY <1>1, <1>3, <2>1, <2>2, <2>3, WhileComparing
       DEF JoinInv, Reading, Beginning, Comparing, Grouping, Complete, Iterates, ToSet
<1> QED
  BY <1>6, <1>7

(* What is known of the two groups.                                        *)
LEMMA WhileGrouping ==
    ASSUME JoinInv, phase \in {"left", "right", "cross"}
    PROVE  /\ left \in LeftTables /\ right \in RightTables
           /\ Iterates(ptrLeft, left) /\ ~ ptrLeft.firstTime
           /\ Iterates(ptrRight, right) /\ ~ ptrRight.firstTime
           /\ leftBuffers \in Seq(RecordsOf(left)) /\ leftBuffers # << >>
           /\ rightBuffers \in Seq(RecordsOf(right)) /\ rightBuffers # << >>
           /\ Head(leftBuffers) \in RecordsOf(left) /\ Head(rightBuffers) \in RecordsOf(right)
           /\ Equal(Head(leftBuffers), Head(rightBuffers))
           /\ \A r \in RecordsOf(left) \cup RecordsOf(right) :
                 InParts(r.key) \in Int /\ (InGroup(r) <=> Equal(r, Head(leftBuffers)))
<1>1. /\ left \in LeftTables /\ right \in RightTables
      /\ Iterates(ptrLeft, left) /\ ~ ptrLeft.firstTime
      /\ Iterates(ptrRight, right) /\ ~ ptrRight.firstTime
      /\ leftBuffers \in Seq(RecordsOf(left)) /\ leftBuffers # << >>
      /\ rightBuffers \in Seq(RecordsOf(right)) /\ rightBuffers # << >>
      /\ Equal(Head(leftBuffers), Head(rightBuffers))
      /\ keyValue = Text(Head(leftBuffers))
  BY DEF JoinInv, Reading, Grouping
<1>2. Head(leftBuffers) \in RecordsOf(left) /\ Head(rightBuffers) \in RecordsOf(right)
  BY <1>1, HeadAndTail
<1> QED
  BY <1>1, <1>2, Keys DEF InGroup

(* The left group grows by a record of its key, or is whole.               *)
LEMMA ExtendLeftKeeps ==
    ASSUME JoinInv, ExtendLeft
    PROVE  JoinInv'
<1>1. /\ UNCHANGED <<left, right, rejected, output, ptrRight, recordRight, keyValue, rightBuffers, bottomRight, pair>>
      /\ Matching' = Matching
      /\ phase = "left" /\ ptrLeft' \in Advanced(ptrLeft)
      /\ recordLeft' = IF HasCurrent(ptrLeft') THEN Current(ptrLeft') ELSE recordLeft
  BY DEF ExtendLeft, inputs, Matching, Answer
<1>2. /\ Growing(leftBuffers, left, ptrLeft) /\ Growing(rightBuffers, right, ptrRight)
      /\ ToSet(output) = {p \in Matching : Less(LeftOf(p), Head(leftBuffers))}
  BY <1>1 DEF JoinInv, Grouping
<1>3. /\ Iterates(ptrLeft', left) /\ ~ ptrLeft'.firstTime
      /\ HasCurrent(ptrLeft') => Current(ptrLeft') \in RecordsOf(left)
  <2>1. Iterates(ptrLeft', left) /\ ~ ptrLeft'.firstTime
    BY <1>1, <1>2, AdvancedIterates, WhileGrouping DEF Growing
  <2> QED BY <1>1, <2>1, CurrentIsLeast, WhileGrouping
<1>4. CASE HasCurrent(ptrLeft') /\ InGroup(recordLeft')
  <2>1. /\ recordLeft' = Current(ptrLeft') /\ recordLeft' \in RecordsOf(left)
        /\ Equal(recordLeft', Head(leftBuffers))
    BY <1>1, <1>3, <1>4, WhileGrouping
  <2>2. /\ leftBuffers' = Append(leftBuffers, recordLeft')
        /\ phase' = "left"
    BY <1>1, <1>4 DEF ExtendLeft
  <2>3. /\ leftBuffers' \in Seq(RecordsOf(left)) /\ leftBuffers' # << >>
        /\ Head(leftBuffers') = Head(leftBuffers)
        /\ Growing(leftBuffers', left, ptrLeft')
    BY <1>1, <1>2, <1>4, <2>1, <2>2, GroupGrows, WhileGrouping
  <2>4. TypeOK'
    BY <1>1, <1>2, <1>4, <2>1, <2>2, <2>3 DEF JoinInv, TypeOK, RecordsOf, Growing, HasCurrent
  <2>5. Grouping'
    <3>1. /\ (leftBuffers \in Seq(RecordsOf(left)) /\ leftBuffers # << >>)'
          /\ (rightBuffers \in Seq(RecordsOf(right)) /\ rightBuffers # << >>)'
          /\ (Equal(Head(leftBuffers), Head(rightBuffers)) /\ keyValue = Text(Head(leftBuffers)))'
      BY <1>1, <2>3, WhileGrouping DEF JoinInv, Grouping, Equal, Text, RecordsOf
    <3>2. Growing(leftBuffers, left, ptrLeft)'
      BY <1>1, <2>3 DEF Growing, HasCurrent, Current, Pending, Equal, Less, RecordsOf
    <3>3. Growing(rightBuffers, right, ptrRight)'
      BY <1>1, <1>2 DEF Growing, HasCurrent, Current, Pending, Equal, Less, RecordsOf
    <3>4. (ToSet(output) = {p \in Matching : Less(LeftOf(p), Head(leftBuffers))})'
      BY <1>1, <1>2, <2>3 DEF LeftOf, Less
    <3> QED BY <2>2, <3>1, <3>2, <3>3, <3>4 DEF Grouping
  <2> QED
    BY <1>1, <1>3, <2>2, <2>4, <2>5, WhileGrouping DEF JoinInv, Reading, Beginning, Comparing, Complete, Iterates
<1>5. CASE ~ (HasCurrent(ptrLeft') /\ InGroup(recordLeft'))
  <2>1. /\ phase' = "right" /\ UNCHANGED leftBuffers
        /\ bottomLeft' = ~ HasCurrent(ptrLeft')
    BY <1>1, <1>5 DEF ExtendLeft
  <2>2. ~ (HasCurrent(ptrLeft') /\ Equal(Current(ptrLeft'), Head(leftBuffers)))
    BY <1>1, <1>3, <1>5, WhileGrouping
  <2>3. WholeGroup(leftBuffers, left, ptrLeft')
    BY <1>1, <1>2, <2>2, GroupEnds, WhileGrouping
  <2>4. TypeOK'
    BY <1>1, <1>2, <1>3, <2>1 DEF JoinInv, TypeOK, RecordsOf, Growing, HasCurrent
  <2>5. Grouping'
    <3>1. /\ (leftBuffers \in Seq(RecordsOf(left)) /\ leftBuffers # << >>)'
          /\ (rightBuffers \in Seq(RecordsOf(right)) /\ rightBuffers # << >>)'
          /\ (Equal(Head(leftBuffers), Head(rightBuffers)) /\ keyValue = Text(Head(leftBuffers)))'
      BY <1>1, <2>1, WhileGrouping DEF JoinInv, Grouping, Equal, Text, RecordsOf
    <3>2. WholeGroup(leftBuffers, left, ptrLeft)' /\ (bottomLeft <=> ~ HasCurrent(ptrLeft))'
      BY <1>1, <2>1, <2>3, ZenonT(60) DEF WholeGroup, HasCurrent, Current, Pending, Equal, Less, RecordsOf
    <3>3. Growing(rightBuffers, right, ptrRight)'
      BY <1>1, <1>2 DEF Growing, HasCurrent, Current, Pending, Equal, Less, RecordsOf
    <3>4. (ToSet(output) = {p \in Matching : Less(LeftOf(p), Head(leftBuffers))})'
      BY <1>1, <1>2, <2>1 DEF LeftOf, Less
    <3> QED BY <2>1, <3>1, <3>2, <3>3, <3>4 DEF Grouping
  <2> QED
    BY <1>1, <1>3, <2>1, <2>4, <2>5, WhileGrouping DEF JoinInv, Reading, Beginning, Comparing, Complete, Iterates
<1> QED
  BY <1>4, <1>5

(* The right group grows, or the first pair of the two is looked at.       *)
LEMMA ExtendRightKeeps ==
    ASSUME JoinInv, ExtendRight
    PROVE  JoinInv'
<1>1. /\ UNCHANGED <<left, right, rejected, output, ptrLeft, recordLeft, keyValue, leftBuffers, bottomLeft>>
      /\ Matching' = Matching
      /\ phase = "right" /\ ptrRight' \in Advanced(ptrRight)
      /\ recordRight' = IF HasCurrent(ptrRight') THEN Current(ptrRight') ELSE recordRight
  BY DEF ExtendRight, inputs, Matching, Answer
<1>2. /\ WholeGroup(leftBuffers, left, ptrLeft) /\ (bottomLeft <=> ~ HasCurrent(ptrLeft))
      /\ Growing(rightBuffers, right, ptrRight)
      /\ ToSet(output) = {p \in Matching : Less(LeftOf(p), Head(leftBuffers))}
  BY <1>1 DEF JoinInv, Grouping
<1>3. /\ Iterates(ptrRight', right) /\ ~ ptrRight'.firstTime
      /\ HasCurrent(ptrRight') => Current(ptrRight') \in RecordsOf(right)
  <2>1. Iterates(ptrRight', right) /\ ~ ptrRight'.firstTime
    BY <1>1, <1>2, AdvancedIterates, WhileGrouping DEF Growing
  <2> QED BY <1>1, <2>1, CurrentIsLeast, WhileGrouping
<1>4. CASE HasCurrent(ptrRight') /\ InGroup(recordRight')
  <2>1. /\ recordRight' = Current(ptrRight') /\ recordRight' \in RecordsOf(right)
        /\ Equal(recordRight', Head(rightBuffers))
    BY <1>1, <1>3, <1>4, WhileGrouping DEF Equal
  <2>2. /\ rightBuffers' = Append(rightBuffers, recordRight')
        /\ phase' = "right" /\ UNCHANGED pair
    BY <1>1, <1>4 DEF ExtendRight
  <2>3. /\ rightBuffers' \in Seq(RecordsOf(right)) /\ rightBuffers' # << >>
        /\ Head(rightBuffers') = Head(rightBuffers)
        /\ Growing(rightBuffers', right, ptrRight')
    BY <1>1, <1>2, <1>4, <2>1, <2>2, GroupGrows, WhileGrouping
  <2>4. TypeOK'
    BY <1>1, <1>2, <1>4, <2>1, <2>2, <2>3 DEF JoinInv, TypeOK, RecordsOf, Growing, HasCurrent
  <2>5. Grouping'
    <3>1. /\ (leftBuffers \in Seq(RecordsOf(left)) /\ leftBuffers # << >>)'
          /\ (rightBuffers \in Seq(RecordsOf(right)) /\ rightBuffers # << >>)'
          /\ (Equal(Head(leftBuffers), Head(rightBuffers)) /\ keyValue = Text(Head(leftBuffers)))'
      BY <1>1, <2>3, WhileGrouping DEF JoinInv, Grouping, Equal, Text, RecordsOf
    <3>2. WholeGroup(leftBuffers, left, ptrLeft)' /\ (bottomLeft <=> ~ HasCurrent(ptrLeft))'
      BY <1>1, <1>2 DEF WholeGroup, HasCurrent, Current, Pending, Equal, Less, RecordsOf
    <3>3. Growing(rightBuffers, right, ptrRight)'
      BY <1>1, <2>3 DEF Growing, HasCurrent, Current, Pending, Equal, Less, RecordsOf
    <3>4. (ToSet(output) = {p \in Matching : Less(LeftOf(p), Head(leftBuffers))})'
      BY <1>1, <1>2, <2>3 DEF LeftOf, Less
    <3> QED BY <2>2, <3>1, <3>2, <3>3, <3>4 DEF Grouping
  <2> QED
    BY <1>1, <1>3, <2>2, <2>4, <2>5, WhileGrouping DEF JoinInv, Reading, Beginning, Comparing, Complete, Iterates
<1>5. CASE ~ (HasCurrent(ptrRight') /\ InGroup(recordRight'))
  <2>1. /\ phase' = "cross" /\ UNCHANGED rightBuffers
        /\ bottomRight' = ~ HasCurrent(ptrRight') /\ pair' = <<1, 1>>
    BY <1>1, <1>5 DEF ExtendRight
  <2>2. ~ (HasCurrent(ptrRight') /\ Equal(Current(ptrRight'), Head(rightBuffers)))
    BY <1>1, <1>3, <1>5, WhileGrouping DEF Equal
  <2>3. WholeGroup(rightBuffers, right, ptrRight')
    BY <1>1, <1>2, <2>2, GroupEnds, WhileGrouping
  <2>4. /\ DOMAIN leftBuffers = 1 .. Len(leftBuffers) /\ Len(leftBuffers) \in Nat \ {0}
        /\ DOMAIN rightBuffers = 1 .. Len(rightBuffers) /\ Len(rightBuffers) \in Nat \ {0}
    BY <1>1, HeadAndTail, WhileGrouping
  <2>5. TypeOK'
    <3>1. pair' \in (DOMAIN leftBuffers) \X (DOMAIN rightBuffers)
      BY <2>1, <2>4
    <3> QED BY <1>1, <1>3, <2>1, <3>1 DEF JoinInv, TypeOK, RecordsOf
  <2>6. \A p : ~ Crossed(p)'
    BY <1>1, <2>1, <2>4 DEF Crossed
  <2>7. \A p : LeftOf(p)' = LeftOf(p)
    BY <1>1 DEF LeftOf
  <2>8. ToSet(output)' = {p \in Matching' : Less(LeftOf(p), Head(leftBuffers))' \/ Crossed(p)'}
    BY <1>1, <1>2, <2>6, <2>7 DEF Less
  <2>9. Grouping'
    <3>1. /\ (leftBuffers \in Seq(RecordsOf(left)) /\ leftBuffers # << >>)'
          /\ (rightBuffers \in Seq(RecordsOf(right)) /\ rightBuffers # << >>)'
          /\ (Equal(Head(leftBuffers), Head(rightBuffers)) /\ keyValue = Text(Head(leftBuffers)))'
      BY <1>1, <2>1, WhileGrouping DEF JoinInv, Grouping, Equal, Text, RecordsOf
    <3>2. WholeGroup(leftBuffers, left, ptrLeft)' /\ (bottomLeft <=> ~ HasCurrent(ptrLeft))'
      BY <1>1, <1>2 DEF WholeGroup, HasCurrent, Current, Pending, Equal, Less, RecordsOf
    <3>3. WholeGroup(rightBuffers, right, ptrRight)' /\ (bottomRight <=> ~ HasCurrent(ptrRight))'
      BY <1>1, <2>1, <2>3, ZenonT(60) DEF WholeGroup, HasCurrent, Current, Pending, Equal, Less, RecordsOf
    <3> QED BY <2>1, <2>8, <3>1, <3>2, <3>3 DEF Grouping
  <2> QED
    BY <1>1, <1>3, <2>1, <2>5, <2>9, WhileGrouping DEF JoinInv, Reading, Beginning, Comparing, Complete, Iterates
<1> QED
  BY <1>4, <1>5

(* Records are numbered from 1.                                            *)
LEMMA IdsAreNumbers ==
    ASSUME NEW table \in LeftTables \cup RightTables, NEW r \in RecordsOf(table)
    PROVE  r.id \in Nat
<1>1. r.id \in DOMAIN table
  BY KeysAreNumbers
<1>2. DOMAIN table = 1 .. Len(table) /\ Len(table) \in Nat
  BY JoinAssumption, LenProperties
<1> QED
  BY <1>1, <1>2

(* The pair that is looked at: its records, that it is a new one, and what *)
(* follows it.                                                             *)
LEMMA LookingAtPair ==
    ASSUME JoinInv, phase = "cross"
    PROVE  /\ pair \in (DOMAIN leftBuffers) \X (DOMAIN rightBuffers)
           /\ leftBuffers[pair[1]] \in RecordsOf(left) /\ rightBuffers[pair[2]] \in RecordsOf(right)
           /\ Equal(leftBuffers[pair[1]], rightBuffers[pair[2]])
           /\ Equal(leftBuffers[pair[1]], Head(leftBuffers))
           /\ ~ Crossed(<<leftBuffers[pair[1]].id, rightBuffers[pair[2]].id>>)
           /\ DOMAIN leftBuffers = 1 .. Len(leftBuffers) /\ Len(leftBuffers) \in Nat \ {0}
           /\ DOMAIN rightBuffers = 1 .. Len(rightBuffers) /\ Len(rightBuffers) \in Nat \ {0}
<1> DEFINE l == leftBuffers[pair[1]]
           r == rightBuffers[pair[2]]
<1>1. /\ pair \in (DOMAIN leftBuffers) \X (DOMAIN rightBuffers)
      /\ WholeGroup(leftBuffers, left, ptrLeft) /\ WholeGroup(rightBuffers, right, ptrRight)
  BY DEF JoinInv, TypeOK, Grouping
<1>2. /\ DOMAIN leftBuffers = 1 .. Len(leftBuffers) /\ Len(leftBuffers) \in Nat \ {0}
      /\ DOMAIN rightBuffers = 1 .. Len(rightBuffers) /\ Len(rightBuffers) \in Nat \ {0}
  BY HeadAndTail, WhileGrouping
<1>3. /\ l \in ToSet(leftBuffers) /\ r \in ToSet(rightBuffers)
      /\ \A i \in DOMAIN leftBuffers : leftBuffers[i] \in RecordsOf(left)
      /\ \A i \in DOMAIN rightBuffers : rightBuffers[i] \in RecordsOf(right)
  BY <1>1, <1>2, WhileGrouping DEF ToSet
<1>4. Equal(l, Head(leftBuffers)) /\ Equal(r, Head(rightBuffers))
  BY <1>1, <1>3 DEF WholeGroup
<1>5. l \in RecordsOf(left) /\ r \in RecordsOf(right) /\ Equal(l, r)
  BY <1>1, <1>3, <1>4, WhileGrouping DEF Equal
<1>6. ~ Crossed(<<l.id, r.id>>)
  <2> SUFFICES ASSUME NEW i \in DOMAIN leftBuffers, NEW j \in DOMAIN rightBuffers,
                      l.id = leftBuffers[i].id, r.id = rightBuffers[j].id,
                      i < pair[1] \/ (i = pair[1] /\ j < pair[2])
               PROVE  FALSE
    BY DEF Crossed
  <2>1. /\ \A s, t \in RecordsOf(left) : s.id = t.id => s = t
        /\ \A s, t \in RecordsOf(right) : s.id = t.id => s = t
    BY DEF RecordsOf
  <2>2. leftBuffers[i] = leftBuffers[pair[1]] /\ rightBuffers[j] = rightBuffers[pair[2]]
    BY <1>3, <1>5, <2>1
  <2>3. i = pair[1] /\ j = pair[2]
    BY <1>1, <2>2 DEF WholeGroup, IsInjective
  <2> QED BY <1>2, <2>3
<1> QED
  BY <1>1, <1>2, <1>4, <1>5, <1>6

(* Two records are put together; after the last pair of the groups all     *)
(* that is out are the pairs that do not follow the groups.                *)
LEMMA CrossKeeps ==
    ASSUME JoinInv, Cross
    PROVE  JoinInv'
<1> DEFINE l == leftBuffers[pair[1]]
           r == rightBuffers[pair[2]]
           these == <<l.id, r.id>>
           head == Head(leftBuffers)
<1>1. /\ UNCHANGED <<left, right, rejected, ptrLeft, ptrRight, keyValue, leftBuffers, rightBuffers, bottomLeft, bottomRight>>
      /\ Matching' = Matching /\ phase = "cross"
      /\ output' = IF Accepted(l, r) THEN Append(output, these) ELSE output
  BY DEF Cross, inputs, Matching, Answer
<1>2. /\ l \in RecordsOf(left) /\ r \in RecordsOf(right) /\ Equal(l, r) /\ Equal(l, head)
      /\ pair \in (DOMAIN leftBuffers) \X (DOMAIN rightBuffers)
      /\ DOMAIN leftBuffers = 1 .. Len(leftBuffers) /\ Len(leftBuffers) \in Nat \ {0}
      /\ DOMAIN rightBuffers = 1 .. Len(rightBuffers) /\ Len(rightBuffers) \in Nat \ {0}
  BY <1>1, LookingAtPair
<1>3. /\ WholeGroup(leftBuffers, left, ptrLeft) /\ (bottomLeft <=> ~ HasCurrent(ptrLeft))
      /\ WholeGroup(rightBuffers, right, ptrRight) /\ (bottomRight <=> ~ HasCurrent(ptrRight))
      /\ ToSet(output) = {p \in Matching : Less(LeftOf(p), head) \/ Crossed(p)}
  BY <1>1 DEF JoinInv, Grouping
<1>4. /\ output' \in Seq(Nat \X Nat)
      /\ ToSet(output') = {p \in Matching : Less(LeftOf(p), head) \/ Crossed(p) \/ p = these}
  <2>1. these \in Matching <=> Accepted(l, r)
    BY <1>2, MatchingPairs
  <2>2. output \in Seq(Nat \X Nat) /\ these \in Nat \X Nat
    BY <1>2, IdsAreNumbers, WhileGrouping, <1>1 DEF JoinInv, Reading
  <2>3. CASE Accepted(l, r)
    <3>1. output' \in Seq(Nat \X Nat) /\ ToSet(output') = ToSet(output) \cup {these}
      <4>1. output' = Append(output, these)
        BY <1>1, <2>3
      <4> HIDE DEF these
      <4> QED BY <2>2, <4>1, AppendedSet
    <3> QED BY <1>3, <2>1, <2>3, <3>1
  <2>4. CASE ~ Accepted(l, r)
    BY <1>1, <1>3, <2>1, <2>2, <2>4
  <2> QED BY <2>3, <2>4
<1>5. \A p : LeftOf(p)' = LeftOf(p) /\ RightOf(p)' = RightOf(p)
  BY <1>1 DEF LeftOf, RightOf
<1>6. CASE MorePairs
  <2>1. phase' = "cross" /\ pair' = NextPair /\ recordLeft' = l /\ recordRight' = r
    BY <1>6 DEF Cross
  <2>2. pair \in Nat \X Nat /\ pair = <<pair[1], pair[2]>>
    BY <1>2
  <2>3. /\ pair' \in (DOMAIN leftBuffers) \X (DOMAIN rightBuffers)
        /\ \A i \in DOMAIN leftBuffers, j \in DOMAIN rightBuffers :
              i < pair'[1] \/ (i = pair'[1] /\ j < pair'[2])
                 <=> \/ i < pair[1] \/ (i = pair[1] /\ j < pair[2])
                     \/ i = pair[1] /\ j = pair[2]
    <3>1. CASE pair[2] < Len(rightBuffers)
      <4>1. pair' = <<pair[1], pair[2] + 1>>
        BY <2>1, <3>1 DEF NextPair
      <4> QED BY <1>2, <3>1, <4>1
    <3>2. CASE ~ (pair[2] < Len(rightBuffers))
      <4>1. pair' = <<pair[1] + 1, 1>>
        BY <2>1, <3>2 DEF NextPair
      <4>2. pair[2] = Len(rightBuffers) /\ pair[1] < Len(leftBuffers)
        BY <1>2, <1>6, <2>2, <3>2 DEF MorePairs
      <4> QED BY <1>2, <4>1, <4>2
    <3> QED BY <3>1, <3>2
  <2>4. \A p : Crossed(p)' <=> Crossed(p) \/ p = these
    BY <1>1, <1>2, <2>3 DEF Crossed
  <2>5. (ToSet(output) = {p \in Matching : Less(LeftOf(p), Head(leftBuffers)) \/ Crossed(p)})'
    BY <1>1, <1>4, <1>5, <2>4 DEF Less
  <2>6. Grouping'
    <3>1. /\ (leftBuffers \in Seq(RecordsOf(left)) /\ leftBuffers # << >>)'
          /\ (rightBuffers \in Seq(RecordsOf(right)) /\ rightBuffers # << >>)'
          /\ (Equal(Head(leftBuffers), Head(rightBuffers)) /\ keyValue = Text(Head(leftBuffers)))'
      BY <1>1, WhileGrouping DEF JoinInv, Grouping, Equal, Text, RecordsOf
    <3>2. /\ WholeGroup(leftBuffers, left, ptrLeft)' /\ (bottomLeft <=> ~ HasCurrent(ptrLeft))'
          /\ WholeGroup(rightBuffers, right, ptrRight)' /\ (bottomRight <=> ~ HasCurrent(ptrRight))'
      BY <1>1, <1>3 DEF WholeGroup, HasCurrent, Current, Pending, Equal, Less, RecordsOf
    <3> QED BY <2>1, <2>5, <3>1, <3>2 DEF Grouping
  <2>7. TypeOK'
    BY <1>1, <1>2, <2>1, <2>3 DEF JoinInv, TypeOK, RecordsOf
  <2> QED
    BY <1>1, <1>4, <2>1, <2>6, <2>7 DEF JoinInv, Reading, Beginning, Comparing, Complete, Iterates
<1>7. CASE ~ MorePairs
  <2>1. \A i \in DOMAIN leftBuffers, j \in DOMAIN rightBuffers :
            i < pair[1] \/ (i = pair[1] /\ j < pair[2]) \/ (i = pair[1] /\ j = pair[2])
    BY <1>2, <1>7 DEF MorePairs
  <2>2. \A s \in RecordsOf(left) \cup RecordsOf(right) : InParts(s.key) \in Int
    BY <1>1, WhileGrouping
  <2>3. head \in RecordsOf(left) /\ Equal(head, Head(rightBuffers))
    BY <1>1, WhileGrouping
  <2>4. \A p \in Matching : /\ (Less(LeftOf(p), head) \/ Crossed(p) \/ p = these) <=> ~ Less(head, LeftOf(p))
                            /\ LeftOf(p) \in Pending(ptrLeft) <=> Less(head, LeftOf(p))
                            /\ RightOf(p) \in Pending(ptrRight) <=> Less(head, LeftOf(p))
    <3> TAKE p \in Matching
    <3>1. /\ LeftOf(p) \in RecordsOf(left) /\ RightOf(p) \in RecordsOf(right)
          /\ Equal(LeftOf(p), RightOf(p)) /\ p = <<LeftOf(p).id, RightOf(p).id>>
      BY MatchingPairs
    <3>2. /\ LeftOf(p) \in Pending(ptrLeft) <=> Less(head, LeftOf(p))
          /\ RightOf(p) \in Pending(ptrRight) <=> Less(head, LeftOf(p))
      BY <1>3, <2>3, <3>1 DEF WholeGroup, Less, Equal
    <3>3. ASSUME Equal(LeftOf(p), head)
          PROVE  Crossed(p) \/ p = these
      <4>1. Equal(RightOf(p), Head(rightBuffers))
        BY <2>3, <3>1, <3>3 DEF Equal
      <4>2. LeftOf(p) \in ToSet(leftBuffers) /\ RightOf(p) \in ToSet(rightBuffers)
        BY <1>3, <3>1, <3>3, <4>1 DEF WholeGroup
      <4>3. PICK i \in DOMAIN leftBuffers, j \in DOMAIN rightBuffers :
                    LeftOf(p) = leftBuffers[i] /\ RightOf(p) = rightBuffers[j]
        BY <4>2 DEF ToSet
      <4> QED BY <2>1, <3>1, <4>3 DEF Crossed
    <3>4. ASSUME Crossed(p) \/ p = these
          PROVE  Equal(LeftOf(p), head)
      <4>1. PICK i \in DOMAIN leftBuffers : LeftOf(p).id = leftBuffers[i].id
        BY <1>2, <3>1, <3>4 DEF Crossed
      <4>2. leftBuffers[i] \in ToSet(leftBuffers)
        BY DEF ToSet
      <4>3. leftBuffers[i] \in RecordsOf(left) /\ Equal(leftBuffers[i], head)
        BY <1>3, <4>2 DEF WholeGroup
      <4>4. LeftOf(p) = leftBuffers[i]
        BY <3>1, <4>1, <4>3 DEF RecordsOf
      <4> QED BY <4>3, <4>4
    <3> QED BY <2>2, <2>3, <3>1, <3>2, <3>3, <3>4 DEF Less, Equal
  <2>5. /\ ToSet(output') = {p \in Matching : LeftOf(p) \notin Pending(ptrLeft)
                                           \/ RightOf(p) \notin Pending(ptrRight)}
        /\ UNCHANGED <<pair>>
    BY <1>4, <1>7, <2>4 DEF Cross
  <2>6. Iterates(ptrLeft, left) /\ Iterates(ptrRight, right)
    BY <1>1, WhileGrouping
  <2>7. CASE Ends
    <3>1. phase' = "done" /\ recordLeft' = l /\ recordRight' = r
      BY <1>7, <2>7 DEF Cross
    <3>2. Pending(ptrLeft) = {} \/ Pending(ptrRight) = {}
      BY <1>1, <1>3, <2>6, <2>7, CurrentIsLeast, WhileGrouping DEF Ends
    <3>3. Complete'
      BY <1>1, <2>5, <3>2 DEF Complete, ToSet
    <3>4. TypeOK'
      BY <1>1, <1>2, <3>1 DEF JoinInv, TypeOK, RecordsOf
    <3> QED
      BY <1>1, <1>4, <3>1, <3>3, <3>4 DEF JoinInv, Reading, Beginning, Comparing, Grouping, Iterates
  <2>8. CASE ~ Ends
    <3>1. phase' = "compare" /\ recordLeft' = Current(ptrLeft) /\ recordRight' = Current(ptrRight)
      BY <1>7, <2>8 DEF Cross
    <3>2. HasCurrent(ptrLeft) /\ HasCurrent(ptrRight)
      BY <1>3, <2>8 DEF Ends
    <3>3. /\ recordLeft' \in Pending(ptrLeft) /\ recordLeft' \in RecordsOf(left)
          /\ recordRight' \in Pending(ptrRight) /\ recordRight' \in RecordsOf(right)
      BY <1>1, <2>6, <3>1, <3>2, CurrentIsLeast, WhileGrouping
    <3>4. Less(head, recordLeft') /\ Less(head, recordRight')
      BY <1>3, <2>3, <3>3 DEF WholeGroup, Less, Equal
    <3>5. /\ \A s \in RecordsOf(left) \ Pending(ptrLeft) : Less(s, recordRight')
          /\ \A s \in RecordsOf(right) \ Pending(ptrRight) : Less(s, recordLeft')
      <4>1. /\ \A s \in RecordsOf(left) \ Pending(ptrLeft) : ~ Less(head, s)
            /\ \A s \in RecordsOf(right) \ Pending(ptrRight) : ~ Less(head, s)
        BY <1>3, <2>3 DEF WholeGroup, Less, Equal
      <4> QED BY <2>2, <2>3, <3>3, <3>4, <4>1 DEF Less
    <3>6. TypeOK'
      BY <1>1, <3>1, <3>2, <3>3 DEF JoinInv, TypeOK, RecordsOf, HasCurrent
    <3>7. Comparing'
      BY <1>1, <1>5, <2>5, <3>1, <3>2, <3>5, SMTT(60), ZenonT(60) DEF Comparing, RecordsOf, HasCurrent, Current, Pending, Less
    <3> QED
      BY <1>1, <1>4, <3>1, <3>6, <3>7 DEF JoinInv, Reading, Beginning, Grouping, Complete, Iterates
  <2> QED BY <2>7, <2>8
<1> QED
  BY <1>6, <1>7

(* Every step keeps the invariant.                                         *)
LEMMA StepKeeps ==
    ASSUME JoinInv, [Next]_vars
    PROVE  JoinInv'
<1>1. CASE UNCHANGED vars
  BY <1>1 DEF vars, JoinInv, TypeOK, Reading, Beginning, Comparing, Grouping, Complete, Matching, Answer,
              RecordsOf, LeftOf, RightOf, Crossed, Growing, WholeGroup
<1> QED
  BY <1>1, BeginKeeps, BeginGroupsKeeps, SkipLeftKeeps, SkipRightKeeps, ExtendLeftKeeps,
     ExtendRightKeeps, CrossKeeps DEF Next

(* The inductive invariant holds in every state of the join.               *)
LEMMA JoinInvHolds == Spec => []JoinInv
<1>1. Init => JoinInv
  BY InitEstablishes
<1>2. JoinInv /\ [Next]_vars => JoinInv'
  BY StepKeeps
<1> QED
  BY <1>1, <1>2, PTL DEF Spec

-----------------------------------------------------------------------------
(* The loop never reads a record where there is none, and never past the   *)
(* end of a buffer.                                                        *)
THEOREM TypeCorrect == Spec => []TypeOK
BY JoinInvHolds, PTL DEF JoinInv

(* SortMergeJoin.cc:85-119: the groups that are combined are whole.        *)
THEOREM GroupsAreWhole == Spec => []GroupsWhole
<1>1. JoinInv => GroupsWhole
  BY DEF JoinInv, Grouping, GroupsWhole
<1> QED
  BY <1>1, JoinInvHolds, PTL

(* When the join returns every accepted pair has come out.                 *)
THEOREM NoPairIsLost == Spec => [](phase = "done" => Matching \subseteq ToSet(output))
BY JoinInvHolds, PTL DEF JoinInv, Complete

(* At first all matching pairs are to come.                                *)
LEMMA InitJoins == Init => Join!Init
<1> SUFFICES ASSUME Init
             PROVE  Join!Init
  OBVIOUS
<1>1. left \in LeftTables /\ right \in RightTables /\ output = << >>
  BY DEF Init
<1>2. \A p \in Matching : p \in Nat \X Nat
  BY <1>1, MatchingPairs, IdsAreNumbers
<1> QED
  BY <1>1, <1>2 DEF Join!Init

(* Only a pair that is accepted comes out, and only if it did not before.  *)
LEMMA StepJoins ==
    ASSUME JoinInv, [Next]_vars
    PROVE  [Join!Emit]_<<Matching \ ToSet(output), output>>
<1> DEFINE these == <<leftBuffers[pair[1]].id, rightBuffers[pair[2]].id>>
<1>1. Matching' = Matching
  BY DEF Next, Begin, BeginGroups, SkipLeft, SkipRight, ExtendLeft, ExtendRight, Cross, vars, inputs, Matching, Answer
<1>2. CASE UNCHANGED output
  BY <1>1, <1>2 DEF ToSet
<1>3. CASE Cross /\ Accepted(leftBuffers[pair[1]], rightBuffers[pair[2]])
  <2>1. phase = "cross" /\ output' = Append(output, these)
    BY <1>3 DEF Cross
  <2>2. /\ leftBuffers[pair[1]] \in RecordsOf(left) /\ rightBuffers[pair[2]] \in RecordsOf(right)
        /\ Equal(leftBuffers[pair[1]], Head(leftBuffers)) /\ ~ Crossed(these)
    BY <2>1, LookingAtPair
  <2>3. these \in Matching /\ LeftOf(these) = leftBuffers[pair[1]]
    BY <1>3, <2>2, MatchingPairs
  <2>4. ToSet(output) = {p \in Matching : Less(LeftOf(p), Head(leftBuffers)) \/ Crossed(p)}
    BY <2>1 DEF JoinInv, Grouping
  <2>5. ~ Less(LeftOf(these), Head(leftBuffers))
    BY <2>1, <2>2, <2>3, WhileGrouping DEF Less, Equal
  <2>6. output \in Seq(Nat \X Nat) /\ these \in Nat \X Nat
    BY <2>1, <2>2, IdsAreNumbers, WhileGrouping DEF JoinInv, Reading
  <2>7. these \in Matching \ ToSet(output) /\ ToSet(output') = ToSet(output) \cup {these}
    BY <2>1, <2>2, <2>3, <2>4, <2>5, <2>6, AppendedSet
  <2>8. Matching' \ ToSet(output') = (Matching \ ToSet(output)) \ {these}
    BY <1>1, <2>7
  <2>9. Join!Emit
    <3> HIDE DEF these
    <3> QED BY <1>1, <2>1, <2>7, <2>8 DEF Join!Emit, ToSet
  <2> QED BY <2>9
<1> QED
  BY <1>2, <1>3 DEF Next, Begin, BeginGroups, SkipLeft, SkipRight, ExtendLeft, ExtendRight, Cross, vars

(* SortMergeJoin.h:16-34: only accepted pairs come out, and none twice.    *)
THEOREM NoPairTwice == Spec => Join!Steps
<1>1. JoinInv /\ [Next]_vars => [Join!Emit]_<<Matching \ ToSet(output), output>>
  BY StepJoins
<1> QED
  BY InitJoins, JoinInvHolds, <1>1, PTL DEF Spec, Join!Steps

=============================================================================
