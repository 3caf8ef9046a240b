---------------------------- MODULE Computations ----------------------------
(***************************************************************************)
(* Computations over records (MyDB_Record::compileComputation and          *)
(* buildRecordComparator): an expression's text is compiled, by way of the *)
(* types of its parts, to a lambda that reads the record's current         *)
(* attributes and leaves its results in values of its own.  Records of two *)
(* tables are read; a third one combines them, as a join does; results go  *)
(* to an output record, as a projection's do.                              *)
(***************************************************************************)
EXTENDS Expressions

CONSTANTS
    LeftAtts, RightAtts,          \* schemas: sequences of << <<alias, name>>, type >>
    LeftRecords, RightRecords,    \* the tables: sequences of what a record may hold
    Jobs                          \* sequences of computations [record, tree, out]

ASSUME ComputationAssumption ==
    /\ LeftRecords # << >> /\ \A c \in ToSet(LeftRecords) : DOMAIN c = DOMAIN LeftAtts
    /\ RightRecords # << >> /\ \A c \in ToSet(RightRecords) : DOMAIN c = DOMAIN RightAtts

VARIABLES
    phase,     \* "running", or how the process ended
    jobs,      \* what the client computes
    content,   \* history: what each record was read with last
    memory,    \* every MyDB_AttVal there is: attributes and scratch
    values,    \* values of each record, as places in memory
    compiled,  \* the lambdas of the jobs compiled so far
    result,    \* the place each of them returned last, or Nowhere
    expected,  \* history: what its expression meant then
    projected  \* history: what each attribute of the output record was set to

vars == <<phase, jobs, content, memory, values, compiled, result, expected, projected>>

Nowhere == 0

(* "left" and "other" are two records of the left table, the ones that a   *)
(* comparator compares; "out" has an attribute for each job.               *)
Schema == [left |-> LeftAtts, other |-> LeftAtts, right |-> RightAtts, both |-> LeftAtts \o RightAtts]

-----------------------------------------------------------------------------
(* A lambda: its operands, what they are converted to before they meet,    *)
(* the type of its result, and the place of that in memory.                *)
Lambda(op, operands, as, type) ==
    [op |-> op, operands |-> operands, as |-> as, type |-> type, place |-> Nowhere]

(* "This is bad...": the process exits.                                    *)
Bad == Lambda("bad", << >>, "", "")

(* An attribute that is not there has the null pointer for its type, and   *)
(* place -1: the next look at either is undefined behaviour.               *)
Missing == Lambda("missing", << >>, "", "")

Undefined == Lambda("undefined", << >>, "", "")

IsLambda(fn) == fn.op \notin {"bad", "undefined"}

(* The promotions, of those tried in turn, that are possible for all.      *)
Possible(promotions, operands) ==
    SelectSeq(promotions, LAMBDA p : \A n \in DOMAIN operands : p \in AttType(operands[n].type).promotable)

(* The type of the second operand is only looked at where that of the      *)
(* first can be promoted.                                                  *)
LooksAtNull(promotions, operands) ==
    \E n \in DOMAIN operands :
        /\ operands[n] = Missing
        /\ \E p \in ToSet(promotions) : \A k \in 1 .. n - 1 : p \in AttType(operands[k].type).promotable

(* typeFor: the type of the result by what the operands are promoted to.   *)
Promoted(op, promotions, operands, typeFor) ==
    LET ps == Possible(promotions, operands)
    IN IF LooksAtNull(promotions, operands) THEN Undefined
       ELSE IF ps = << >> THEN Bad ELSE Lambda(op, operands, ps[1], typeFor[ps[1]])

Arithmetic(op, promotions, operands) ==
    Promoted(op, promotions, operands, [p \in ToSet(promotions) |-> p])

Condition(op, promotions, operands) ==
    Promoted(op, promotions, operands, [p \in ToSet(promotions) |-> "bool"])

plus(lhs, rhs) == Arithmetic("+", <<"int", "double", "string">>, <<lhs, rhs>>)
minus(lhs, rhs) == Arithmetic("-", <<"int", "double">>, <<lhs, rhs>>)
times(lhs, rhs) == Arithmetic("*", <<"int", "double">>, <<lhs, rhs>>)
divide(lhs, rhs) == Arithmetic("/", <<"int", "double">>, <<lhs, rhs>>)

gt(lhs, rhs) == Condition(">", <<"int", "double", "string">>, <<lhs, rhs>>)

(* Mutant of lt: what both can be as a string is compared as one.          *)
ltAsText(lhs, rhs) == Condition("<", <<"string">>, <<lhs, rhs>>)

lt(lhs, rhs) == Condition("<", <<"int", "double", "string">>, <<lhs, rhs>>)

eq(lhs, rhs) == Condition("==", <<"int", "double", "bool", "string">>, <<lhs, rhs>>)
neq(lhs, rhs) == Condition("!=", <<"int", "bool", "double", "string">>, <<lhs, rhs>>)
orr(lhs, rhs) == Condition("||", <<"bool">>, <<lhs, rhs>>)
andd(lhs, rhs) == Condition("&&", <<"bool">>, <<lhs, rhs>>)
nott(child) == Condition("!", <<"bool">>, <<child>>)
unaryMinus(child) == Arithmetic("um", <<"int", "double">>, <<child>>)

(* getAttByName gives the first of that name.  The lambda reads values     *)
(* when it is called.                                                      *)
fromData(record, name) ==
    LET n == SelectInSeq(Schema[record], LAMBDA att : att[1] = name)
    IN IF n = 0 THEN Missing
       ELSE Lambda("attribute", <<record, n>>, "", Schema[record][n][2])

-----------------------------------------------------------------------------
(* What compileHelper returns, and leaves of the text.                     *)
Compiled(fn, rest, scratch) == [fn |-> fn, rest |-> rest, memory |-> scratch]

(* scratch.push_back of a value for the result.                            *)
WithScratch(fn, rest, scratch) ==
    IF IsLambda(fn)
    THEN Compiled([fn EXCEPT !.place = Len(scratch) + 1], rest, Append(scratch, CreateAtt(fn.type)))
    ELSE Compiled(fn, rest, scratch)

(* findsymbol: what comes behind the first such symbol.                    *)
After(symbol, text) == SubSeq(text, SelectInSeq(text, LAMBDA t : t[1] = symbol) + 1, Len(text))

Infix(symbol, lhs, rhs) ==
    CASE symbol = "!=" -> neq(lhs, rhs)
      [] symbol = "||" -> orr(lhs, rhs)
      [] symbol = "+"  -> plus(lhs, rhs)
      [] symbol = "&&" -> andd(lhs, rhs)
      [] symbol = "==" -> eq(lhs, rhs)
      [] symbol = ">"  -> gt(lhs, rhs)
      [] symbol = "<"  -> lt(lhs, rhs)
      [] symbol = "*"  -> times(lhs, rhs)
      [] symbol = "/"  -> divide(lhs, rhs)
      [] symbol = "-"  -> minus(lhs, rhs)

InfixSymbols == {"!=", "||", "+", "&&", "==", ">", "<", "*", "/", "-"}

RECURSIVE CompileHelper(_, _, _)

CompileInfix(record, text, scratch) ==
    LET l == CompileHelper(record, After("(", text), scratch)
        r == CompileHelper(record, After(",", l.rest), l.memory)
    IN IF ~ IsLambda(l.fn) THEN l ELSE IF ~ IsLambda(r.fn) THEN r
       ELSE WithScratch(Infix(Head(text)[1], l.fn, r.fn), After(")", r.rest), r.memory)

Prefix(symbol, child) == IF symbol = "!" THEN nott(child) ELSE unaryMinus(child)

PrefixSymbols == {"!", "um"}

CompilePrefix(record, text, scratch) ==
    LET c == CompileHelper(record, After("(", text), scratch)
    IN IF ~ IsLambda(c.fn) THEN c
       ELSE WithScratch(Prefix(Head(text)[1], c.fn), After(")", c.rest), c.memory)

CompileAttribute(record, text, scratch) ==
    Compiled(fromData(record, Head(text)[2]), Tail(text), scratch)

(* A value of its own that no call changes.                                *)
CompileLiteral(text, scratch) ==
    Compiled([Lambda("literal", << >>, "", Head(text)[1]) EXCEPT !.place = Len(scratch) + 1],
             Tail(text), Append(scratch, Head(text)))

(* compileHelper; what begins nothing is skipped.                          *)
CompileHelper(record, text, scratch) ==
    IF text = << >> THEN Compiled(Bad, text, scratch)
    ELSE LET symbol == Head(text)[1]
         IN CASE symbol \in InfixSymbols -> CompileInfix(record, text, scratch)
              [] symbol \in PrefixSymbols -> CompilePrefix(record, text, scratch)
              [] symbol = "["            -> CompileAttribute(record, text, scratch)
              [] symbol \in {t.name : t \in ToSet(AttTypes)} -> CompileLiteral(text, scratch)
              [] OTHER                   -> CompileHelper(record, Tail(text), scratch)

(* The same computation over both records, and the lambda that compares.   *)
BuildRecordComparator(text, scratch) ==
    LET l == CompileHelper("left", text, scratch)
        r == CompileHelper("other", text, l.memory)
    IN IF ~ IsLambda(l.fn) THEN l ELSE IF ~ IsLambda(r.fn) THEN r
       ELSE WithScratch(lt(l.fn, r.fn), << >>, r.memory)

-----------------------------------------------------------------------------
(* How a call of a lambda may end the process: a division of ints by zero, *)
(* or a conversion that exits.  A double that is no multiple of 1/Scale    *)
(* ends the behaviour: a bound.                                            *)
Trap == <<"trap", "int">>
Inexact == <<"inexact", "double">>
Ends(v) == v[1] \in {"trap", "inexact", "oops"}

Exactly(n, d) == IF d # 0 /\ n % Magnitude(d) = 0 THEN <<"double", Cut(n, d)>> ELSE Inexact

Sum(x, y) == <<x[1], IF x[1] = "string" THEN x[2] \o y[2] ELSE x[2] + y[2]>>
Product(x, y) == IF x[1] = "int" THEN <<"int", x[2] * y[2]>> ELSE Exactly(x[2] * y[2], Scale)

(* Mutant of Quotient: ints are divided as doubles are.                    *)
QuotientExact(x, y) == Exactly(x[2] * Scale, y[2])

Quotient(x, y) == IF x[1] = "double" THEN Exactly(x[2] * Scale, y[2])
                  ELSE IF y[2] = 0 THEN Trap ELSE <<"int", Cut(x[2], y[2])>>

Less(x, y) == IF x[1] = "string" THEN Precedes(x[2], y[2]) ELSE x[2] < y[2]

(* What a lambda does with its converted operands, y twice when unary.     *)
Applied(op, x, y) ==
    IF Ends(x) THEN x ELSE IF Ends(y) THEN y
    ELSE CASE op = "+"  -> Sum(x, y)
           [] op = "-"  -> <<x[1], x[2] - y[2]>>
           [] op = "*"  -> Product(x, y)
           [] op = "/"  -> Quotient(x, y)
           [] op = ">"  -> <<"bool", Less(y, x)>>
           [] op = "<"  -> <<"bool", Less(x, y)>>
           [] op = "==" -> <<"bool", x = y>>
           [] op = "!=" -> <<"bool", x # y>>
           [] op \in {"||", "&&"} -> y
           [] op = "!"  -> <<"bool", ~ y[2]>>
           [] op = "um" -> <<y[1], -y[2]>>

(* C++ does not say which operand of + is evaluated first, nor whether one *)
(* is converted before the other is evaluated; || and && do.               *)
Orders == [first : {1, 2}, late : BOOLEAN]

Decides(op, x) == x = <<"bool", op = "||">> \/ Ends(x)

RECURSIVE Run(_, _, _)

Operands(fn, mem, order) ==
    LET f == IF fn.op \in {"||", "&&"} THEN 1 ELSE order.first
        a == Run(fn.operands[f], mem, order)
        early == As(fn.as, a.memory[a.place])
        b == Run(fn.operands[3 - f], a.memory, order)
        x == IF order.late THEN As(fn.as, b.memory[a.place]) ELSE early
        y == As(fn.as, b.memory[b.place])
    IN IF fn.op \in {"||", "&&"} /\ Decides(fn.op, early)
       THEN [memory |-> a.memory, first |-> early, second |-> early]
       ELSE [memory |-> b.memory, first |-> IF f = 1 THEN x ELSE y, second |-> IF f = 1 THEN y ELSE x]

(* A lambda called: the place of its result, and memory afterwards.        *)
Run(fn, mem, order) ==
    CASE fn.op = "attribute" -> [memory |-> mem, place |-> values[fn.operands[1]][fn.operands[2]]]
      [] fn.op = "literal"   -> [memory |-> mem, place |-> fn.place]
      [] fn.op \in PrefixSymbols ->
             LET c == Run(fn.operands[1], mem, order)
                 y == As(fn.as, c.memory[c.place])
             IN [memory |-> [c.memory EXCEPT ![fn.place] = Applied(fn.op, y, y)], place |-> fn.place]
      [] OTHER               ->
             LET o == Operands(fn, mem, order)
             IN [memory |-> [o.memory EXCEPT ![fn.place] = Applied(fn.op, o.first, o.second)],
                 place  |-> fn.place]

-----------------------------------------------------------------------------
Places(from, n) == [k \in 1 .. n |-> from + k]

NewValues(types) == [n \in DOMAIN types |-> CreateAtt(types[n])]

Types(schema) == [n \in DOMAIN schema |-> schema[n][2]]

(* Three records that were read first from their tables, and two as they   *)
(* are constructed.                                                        *)
Init ==
    /\ phase = "running"
    /\ jobs \in Jobs
    /\ content = [left |-> Head(LeftRecords), other |-> Head(LeftRecords), right |-> Head(RightRecords)]
    /\ LET l == Len(LeftAtts)
           r == Len(RightAtts)
       IN values = [left  |-> Places(0, l), other |-> Places(l, l), right |-> Places(2 * l, r),
                    both  |-> Places(2 * l + r, l + r), out |-> Places(3 * l + 2 * r, Len(jobs))]
    /\ memory = content.left \o content.other \o content.right
                    \o NewValues(Types(Schema.both)) \o NewValues([n \in DOMAIN jobs |-> jobs[n].out])
    /\ compiled = << >>
    /\ result = [n \in DOMAIN jobs |-> Nowhere]
    /\ expected = [n \in DOMAIN jobs |-> Oops]
    /\ projected = [n \in DOMAIN jobs |-> CreateAtt(jobs[n].out)]

Composite == values.left \o values.right

(* Only records that a computation is over are followed.                   *)
Needs(record) ==
    \E n \in DOMAIN jobs : \/ jobs[n].record = record
                           \/ jobs[n].record = "compare" /\ record \in {"left", "other"}
                           \/ jobs[n].record = "both" /\ record # "other"

(* buildFrom: the combined record has the values of the other two as its   *)
(* own, and so their later contents.                                       *)
BuildFrom ==
    /\ phase = "running" /\ Needs("both") /\ values.both # Composite
    /\ values' = [values EXCEPT !.both = Composite]
    /\ UNCHANGED <<phase, jobs, content, memory, compiled, result, expected, projected>>

(* fromBinary, for what a computation sees of it: every value has the new  *)
(* content.                                                                *)
ReadRecord(record, c) ==
    /\ phase = "running" /\ Needs(record) /\ content[record] # c
    /\ content' = [content EXCEPT ![record] = c]
    /\ memory' = FoldLeftDomain(LAMBDA m, n : [m EXCEPT ![values[record][n]] = c[n]], memory, c)
    /\ UNCHANGED <<phase, jobs, values, compiled, result, expected, projected>>

(* compileComputation, or buildRecordComparator, for the next job.  Of an  *)
(* attribute that is not there, the first call is undefined.               *)
Compile ==
    /\ phase = "running" /\ Len(compiled) < Len(jobs)
    /\ LET job == jobs[Len(compiled) + 1]
           made == IF job.record = "compare" THEN BuildRecordComparator(job.tree.text, memory)
                   ELSE CompileHelper(job.record, job.tree.text, memory)
           fn == IF made.fn = Missing THEN Undefined ELSE made.fn
       IN /\ memory' = made.memory
          /\ compiled' = Append(compiled, fn)
          /\ phase' = IF IsLambda(fn) THEN phase ELSE fn.op
    /\ UNCHANGED <<jobs, content, values, result, expected, projected>>

-----------------------------------------------------------------------------
(* What an expression means (MyDB_Record.h:70-96), by the values of the    *)
(* current record and without types, text or memory of its own: numbers    *)
(* are compared and computed as numbers, bools as bools, and everything    *)
(* else as text.  Nothing is what an expression without meaning gives.     *)
Nothing == <<"nothing", "nothing">>

Text(v) == As("string", v)[2]

Smaller(x, y) == IF Numeric(x) /\ Numeric(y) THEN InParts(x) < InParts(y) ELSE Precedes(Text(x), Text(y))

Same(x, y) ==
    IF Numeric(x) /\ Numeric(y) THEN InParts(x) = InParts(y)
    ELSE IF x[1] = "bool" /\ y[1] = "bool" THEN x = y ELSE Text(x) = Text(y)

Calculated(kind, x, y) ==
    IF x[1] = "int" /\ y[1] = "int"
    THEN CASE kind = "+" -> <<"int", x[2] + y[2]>> [] kind = "-" -> <<"int", x[2] - y[2]>>
           [] kind = "*" -> <<"int", x[2] * y[2]>>
           [] kind = "/" -> IF y[2] = 0 THEN Trap ELSE <<"int", Cut(x[2], y[2])>>
    ELSE CASE kind = "+" -> <<"double", InParts(x) + InParts(y)>>
           [] kind = "-" -> <<"double", InParts(x) - InParts(y)>>
           [] kind = "*" -> Exactly(InParts(x) * InParts(y), Scale)
           [] kind = "/" -> Exactly(InParts(x) * Scale, InParts(y))

TypeOf(v) == IF Ends(v) THEN v[2] ELSE v[1]

CombinedType(kind, s, t) ==
    CASE kind \in {"||", "&&"}           -> IF s = "bool" /\ t = "bool" THEN "bool" ELSE "nothing"
      [] kind \in {"==", "!=", "<", ">"} -> IF "nothing" \in {s, t} THEN "nothing" ELSE "bool"
      [] OTHER -> IF {s, t} \subseteq {"int"} THEN "int"
                  ELSE IF {s, t} \subseteq {"int", "double"} THEN "double"
                  ELSE IF kind = "+" /\ "nothing" \notin {s, t} THEN "string" ELSE "nothing"

Combined(kind, x, y) ==
    LET type == CombinedType(kind, TypeOf(x), TypeOf(y))
    IN IF type = "nothing" THEN Nothing
       ELSE IF kind \in {"||", "&&"} /\ x = <<"bool", kind = "||">> THEN x
       ELSE IF Ends(x) THEN <<x[1], type>>
       ELSE IF Ends(y) THEN <<y[1], type>>
       ELSE CASE kind \in {"||", "&&"} -> y
              [] kind = "=="           -> <<"bool", Same(x, y)>>
              [] kind = "!="           -> <<"bool", ~ Same(x, y)>>
              [] kind = "<"            -> <<"bool", Smaller(x, y)>>
              [] kind = ">"            -> <<"bool", Smaller(y, x)>>
              [] OTHER -> IF type = "string" THEN <<"string", Text(x) \o Text(y)>> ELSE Calculated(kind, x, y)

RECURSIVE Meaning(_, _)
Meaning(tree, row) ==
    CASE tree.kind = "literal"    -> tree.text[1]
      [] tree.kind = "identifier" -> IF tree.id \in DOMAIN row THEN row[tree.id] ELSE Nothing
      [] tree.kind = "!"          -> LET v == Meaning(tree.args[1], row)
                                     IN IF TypeOf(v) # "bool" THEN Nothing
                                        ELSE IF Ends(v) THEN v ELSE <<"bool", ~ v[2]>>
      [] tree.kind = "um"         -> LET v == Meaning(tree.args[1], row)
                                     IN IF TypeOf(v) \notin {"int", "double"} THEN Nothing
                                        ELSE IF Ends(v) THEN v ELSE <<v[1], 0 - v[2]>>
      [] OTHER -> Combined(tree.kind, Meaning(tree.args[1], row), Meaning(tree.args[2], row))

Row(schema, c) == [name \in {schema[n][1] : n \in DOMAIN schema} |->
                      c[CHOOSE n \in DOMAIN schema : schema[n][1] = name]]

RowOf(record) == IF record = "both" THEN Row(LeftAtts, content.left) @@ Row(RightAtts, content.right)
                 ELSE Row(Schema[record], content[record])

MeaningNow(job) ==
    IF job.record = "compare"
    THEN Combined("<", Meaning(job.tree, RowOf("left")), Meaning(job.tree, RowOf("other")))
    ELSE Meaning(job.tree, RowOf(job.record))

-----------------------------------------------------------------------------
(* Mutant of SetFrom: an attribute takes over the other value itself.      *)
SetFromAlias(n, called) ==
    /\ values' = [values EXCEPT !.out[n] = called.place]
    /\ memory' = called.memory

(* getAtt (n)->set (f ()) copies the value, converted.                     *)
SetFrom(n, called) ==
    /\ memory' = [called.memory EXCEPT ![values.out[n]] = As(jobs[n].out, called.memory[called.place])]
    /\ UNCHANGED values

(* A job's lambda is called and the output record's attribute set to what  *)
(* it returns.  A combined record is only used after buildFrom.            *)
CallAndSet(n) ==
    /\ phase = "running" /\ n \in DOMAIN compiled
    /\ jobs[n].record = "both" => values.both = Composite
    /\ \E order \in Orders :
          LET called == Run(compiled[n], memory, order)
              v == called.memory[called.place]
          IN IF Ends(v)
             THEN /\ phase' = v[1] /\ memory' = called.memory
                  /\ UNCHANGED <<values, projected>>
             ELSE /\ SetFrom(n, called)
                  /\ phase' = IF Ends(As(jobs[n].out, v)) THEN "oops" ELSE phase
                  /\ projected' = [projected EXCEPT ![n] = As(jobs[n].out, MeaningNow(jobs[n]))]
    /\ result' = [result EXCEPT ![n] = IF compiled[n].op = "attribute"
                                        THEN values[compiled[n].operands[1]][compiled[n].operands[2]]
                                        ELSE compiled[n].place]
    /\ expected' = [expected EXCEPT ![n] = MeaningNow(jobs[n])]
    /\ UNCHANGED <<jobs, content, compiled>>

Next ==
    \/ BuildFrom \/ Compile
    \/ \E c \in ToSet(LeftRecords) : ReadRecord("left", c) \/ ReadRecord("other", c)
    \/ \E c \in ToSet(RightRecords) : ReadRecord("right", c)
    \/ \E n \in DOMAIN jobs : CallAndSet(n)

Spec == Init /\ [][Next]_vars

-----------------------------------------------------------------------------
IsValue(v) == v[1] \in {t.name : t \in ToSet(AttTypes)} \/ Ends(v)

(* Types; and while the process runs, every value in memory has kept the   *)
(* type it was made with.                                                  *)
TypeOK ==
    /\ phase \in {"running", "bad", "undefined", "trap", "inexact", "oops"}
    /\ jobs \in Jobs
    /\ \A n \in DOMAIN memory : IsValue(memory[n])
    /\ \A record \in DOMAIN values : \A n \in DOMAIN values[record] : values[record][n] \in DOMAIN memory
    /\ phase = "running" => \A n \in DOMAIN compiled :
          result[n] # Nowhere => memory[result[n]][1] = compiled[n].type

(* MyDB_Record.h:70-104: a call gives what the expression means over the   *)
(* current contents of its record, or records; the result is left alone    *)
(* until the next call, an attribute follows its record.                   *)
ResultsMean ==
    phase = "running" => \A n \in DOMAIN compiled : result[n] # Nowhere =>
        memory[result[n]] = IF compiled[n].op = "attribute" THEN MeaningNow(jobs[n]) ELSE expected[n]

(* An output record keeps what it was set to, whatever is read or computed *)
(* before it is appended.                                                  *)
OutputKept ==
    phase = "running" => \A n \in DOMAIN jobs : memory[values.out[n]] = projected[n]

(* A computation is refused when it is compiled if and only if it has no   *)
(* meaning for the records; one that was compiled ends the process only    *)
(* where its meaning does, by a division; and a conversion that exits is   *)
(* met only when a result is set where its type does not fit.              *)
EndsAsMeant ==
    /\ \A n \in DOMAIN compiled :
          compiled[n].op # "undefined" => (compiled[n].op = "bad" <=> MeaningNow(jobs[n]) = Nothing)
    /\ phase \in {"trap", "inexact"} => \E n \in DOMAIN jobs : Ends(expected[n]) /\ expected[n] # Oops
    /\ phase = "oops" => \E n \in DOMAIN jobs : projected[n] = Oops

(* A computation over the tables it references finds its attributes, but   *)
(* for one with a <>, which does not tell what it references.              *)
AttributesFound ==
    phase = "undefined" => Symbol("!=") \in ToSet(jobs[Len(compiled)].tree.text)

(* ScanJoin.cc:90-94, Aggregate.cc:43-46: results that are equal as        *)
(* numbers, or of one type, have one hash value.                           *)
HashesAgree ==
    phase = "running" => \A m, n \in DOMAIN compiled : result[m] # Nowhere /\ result[n] # Nowhere =>
        LET x == memory[result[m]]
            y == memory[result[n]]
        IN Same(x, y) /\ (x[1] = y[1] \/ (Numeric(x) /\ Numeric(y))) => Hash(x) = Hash(y)

=============================================================================
