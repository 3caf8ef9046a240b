----------------------------- MODULE AttValues -----------------------------
(***************************************************************************)
(* The types and values of attributes (MyDB_AttType.h, MyDB_AttVal.cc).    *)
(* A value is a pair of a type's name and                                  *)
(*   - int, bool: the number or truth value;                               *)
(*   - double: its number of 1/Scale parts; only such doubles occur, and   *)
(*     the six decimals of to_string give them exactly;                    *)
(*   - string: the sequence of its characters' codes.                      *)
(***************************************************************************)
EXTENDS Integers, SequencesExt

Scale == 64

(* A conversion that says "Oops!" and exits.                               *)
Oops == <<"oops", "">>

-----------------------------------------------------------------------------
(* A type and what its values may be promoted to; isBool counts as the     *)
(* promotion to bool.                                                      *)
IntAttType == [name |-> "int", promotable |-> {"int", "double", "string"}]

DoubleAttType == [name |-> "double", promotable |-> {"double", "string"}]

StringAttType == [name |-> "string", promotable |-> {"string"}]

(* Mutant of BoolAttType: a bool counts as a number.                       *)
BoolAttTypeAsNumber == [name |-> "bool", promotable |-> {"double", "string", "bool"}]

BoolAttType == [name |-> "bool", promotable |-> {"string", "bool"}]

AttTypes == <<IntAttType, DoubleAttType, StringAttType, BoolAttType>>

AttType(name) == CHOOSE t \in ToSet(AttTypes) : t.name = name

(* createAtt: a new value of a type.                                       *)
CreateAtt(name) ==
    CASE name \in {"int", "double"} -> <<name, 0>>
      [] name = "string"            -> <<name, << >> >>
      [] name = "bool"              -> <<name, FALSE>>

(* A number in parts of 1/Scale, whichever of the two types it has.        *)
Numeric(v) == v[1] \in {"int", "double"}

InParts(v) == IF v[1] = "int" THEN v[2] * Scale ELSE v[2]

-----------------------------------------------------------------------------
Magnitude(n) == IF n < 0 THEN -n ELSE n

(* (int) of a double and / of two ints cut towards zero.                   *)
Cut(n, d) == LET q == Magnitude(n) \div Magnitude(d) IN IF (n < 0) # (d < 0) THEN -q ELSE q

(* to_string of a natural number, and its n-th decimal.                    *)
Digits[n \in Nat] == (IF n < 10 THEN << >> ELSE Digits[n \div 10]) \o <<48 + (n % 10)>>

Decimals(n) == [d \in 1 .. 6 |-> 48 + ((((n % Scale) * (10 ^ d)) \div Scale) % 10)]

Sign(n) == IF n < 0 THEN <<45>> ELSE << >>

(* What a value of each class is as an int, a double, a string and a bool. *)
IntAttVal(n) ==
    [int |-> <<"int", n>>, double |-> <<"double", n * Scale>>,
     string |-> <<"string", Sign(n) \o Digits[Magnitude(n)]>>, bool |-> Oops]

DoubleAttVal(n) ==
    [int |-> <<"int", Cut(n, Scale)>>, double |-> <<"double", n>>,
     string |-> <<"string", Sign(n) \o Digits[Magnitude(n) \div Scale] \o <<46>> \o Decimals(Magnitude(n))>>,
     bool |-> Oops]

StringAttVal(s) ==
    [int |-> Oops, double |-> Oops, string |-> <<"string", s>>, bool |-> Oops]

BoolAttVal(b) ==
    [int |-> Oops, double |-> Oops, bool |-> <<"bool", b>>,
     string |-> <<"string", IF b THEN <<116, 114, 117, 101>> ELSE <<102, 97, 108, 115, 101>> >>]

(* toInt, toDouble, toString and toBool; they are also what set gives an   *)
(* attribute of each type from another one.                                *)
As(name, v) ==
    CASE v[1] = "int"    -> IntAttVal(v[2])[name]
      [] v[1] = "double" -> DoubleAttVal(v[2])[name]
      [] v[1] = "string" -> StringAttVal(v[2])[name]
      [] v[1] = "bool"   -> BoolAttVal(v[2])[name]
      [] OTHER           -> v

(* Mutant of Hash: a double is hashed as it is stored.                     *)
HashUncut(v) == IF v[1] = "bool" THEN <<"int", IF v[2] THEN 1 ELSE 0>>
                ELSE IF v[1] = "string" THEN v ELSE <<"int", v[2]>>

(* A number and a bool are hashed as an int; the hash of a string is taken *)
(* to be another one for every string.                                     *)
Hash(v) == IF v[1] = "bool" THEN <<"int", IF v[2] THEN 1 ELSE 0>>
           ELSE IF v[1] = "string" THEN v ELSE As("int", v)

(* < of strings: by the first character in which they differ.              *)
Precedes(s, t) ==
    \/ IsStrictPrefix(s, t)
    \/ \E n \in 1 .. Len(s) : n <= Len(t) /\ s[n] < t[n] /\ SubSeq(s, 1, n - 1) = SubSeq(t, 1, n - 1)

=============================================================================
