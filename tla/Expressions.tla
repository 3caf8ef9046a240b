---------------------------- MODULE Expressions ----------------------------
(***************************************************************************)
(* Parsed expressions: one operator for each class of                      *)
(* src/Main/SQL/headers/ExprTree.h.  An expression has                     *)
(*   text   toString, as a sequence of tokens <<symbol, value>>; literals  *)
(*          are tokens of their type's name;                               *)
(*   id     getId, or << >>: an attribute is <<alias, name>>;              *)
(*   atts   the attributes referencesAtt says yes to; referencesTable says *)
(*          yes to their aliases.                                          *)
(***************************************************************************)
EXTENDS AttValues

Symbol(s) == <<s, 0>>

Tree(kind, args, text, id, atts) ==
    [kind |-> kind, args |-> args, text |-> text, id |-> id, atts |-> atts]

(* Literals: <<"int", 5>> says so of itself.                               *)
Literal(v) == Tree("literal", << >>, <<v>>, << >>, {})

BoolLiteral(b) == Literal(<<"bool", b>>)
DoubleLiteral(n) == Literal(<<"double", n>>)
IntLiteral(n) == Literal(<<"int", n>>)
StringLiteral(s) == Literal(<<"string", s>>)

Identifier(alias, name) ==
    Tree("identifier", << >>, << <<"[", <<alias, name>> >> >>, <<alias, name>>, {<<alias, name>>})

(* What the classes with two operands have in common.                      *)
Binary(symbol, lhs, rhs) ==
    Tree(symbol, <<lhs, rhs>>,
         <<Symbol(symbol), Symbol("(")>> \o lhs.text \o <<Symbol(",")>> \o rhs.text \o <<Symbol(")")>>,
         IF lhs.id # << >> THEN lhs.id ELSE rhs.id,
         lhs.atts \cup rhs.atts)

MinusOp(lhs, rhs) == Binary("-", lhs, rhs)
PlusOp(lhs, rhs) == Binary("+", lhs, rhs)
TimesOp(lhs, rhs) == Binary("*", lhs, rhs)
DivideOp(lhs, rhs) == Binary("/", lhs, rhs)
GtOp(lhs, rhs) == Binary(">", lhs, rhs)
LtOp(lhs, rhs) == Binary("<", lhs, rhs)

(* NeqOp overrides neither referencesTable nor referencesAtt.              *)
NeqOp(lhs, rhs) == [Binary("!=", lhs, rhs) EXCEPT !.atts = {}]

(* Mutant of OrOp: what its right hand side references is forgotten.       *)
OrOpOfLeft(lhs, rhs) == [Binary("||", lhs, rhs) EXCEPT !.atts = lhs.atts]

OrOp(lhs, rhs) == Binary("||", lhs, rhs)

EqOp(lhs, rhs) == Binary("==", lhs, rhs)

NotOp(child) ==
    Tree("!", <<child>>, <<Symbol("!"), Symbol("(")>> \o child.text \o <<Symbol(")")>>,
         child.id, child.atts)

(* exploreSelections: the selection predicates of a plan node under &&, or *)
(* bool [true] when there are none.                                        *)
ExploreSelections(preds) ==
    IF preds = << >> THEN BoolLiteral(TRUE)
    ELSE FoldRight(LAMBDA pred, rest : Binary("&&", pred, rest), Front(preds), Last(preds))

=============================================================================
