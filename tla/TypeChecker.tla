---------------------------- MODULE TypeChecker ----------------------------
(***************************************************************************)
(* What stands between a specification and an event and the assertions of   *)
(* the evaluator: TypeChecker (typechecker.cpp) loads the declarations and  *)
(* checks the formulas, State (state.cpp) accepts or refuses the labels of  *)
(* an event, EvaluatePredicate (evaluator.cpp) then converts them.          *)
(*                                                                         *)
(* A formula is the set of its comparisons: TypeCheck accepts the other     *)
(* nodes when it accepts their children, and EvaluateFormula visits every   *)
(* node at every event.  A label is a text: a name, "true", "false" or a    *)
(* number.  An assertion that fails and an exception both end the process.  *)
(***************************************************************************)
EXTENDS Integers, FiniteSets

CONSTANTS
  Name,            \* the identifiers of the grammar
  Number,          \* the texts isNumberFormat accepts
  Convertible,     \* those that stoi converts to an int
  MaxComparisons   \* bound: comparisons in the specification

Truth == {"true", "false"}

\* The lexer keeps names, numbers and truth values apart.
ASSUME TypeCheckerAssumption ==
  /\ Name \cap Truth = {} /\ Number \cap (Name \cup Truth) = {}
  /\ Convertible \subseteq Number
  /\ MaxComparisons \in Nat

VARIABLES
  pc,            \* "load", "check", "ready", "evaluate" or "aborted"
  TypeContext,
  constant_list,
  formulas,      \* the comparisons TypeCheck has accepted
  labels         \* LabelingFunction: the labels of the event

vars == <<pc, TypeContext, constant_list, formulas, labels>>

None  == [kind |-> "none", enum |-> ""]
Unset == "unset"

IntType     == [kind |-> "INT", enum |-> ""]
BoolType    == [kind |-> "BOOL", enum |-> ""]
EnumType(n) == [kind |-> "ENUM", enum |-> n]

Declared(n) == TypeContext[n] # None

\* A comparison has an identifier on the left; a literal is a number or a
\* truth value, an AST_INT keeps its value and not its text.
Ordering   == {"AST_GT", "AST_GTE", "AST_LT", "AST_LTE"}
Equality   == {"AST_EQ", "AST_NEQ"}
Term       == [kind : {"AST_ID"}, id : Name] \cup [kind : {"AST_INT", "AST_BOOL"}]
Comparison == [kind : Ordering \cup Equality, left : Name, right : Term]

Init ==
  /\ pc = "load"
  /\ TypeContext = [n \in Name |-> None]
  /\ constant_list = {}
  /\ formulas = {}
  /\ labels = [n \in Name |-> Unset]

-----------------------------------------------------------------------------
(* LoadTypeContext: a name that has a type keeps it, but for the constants of *)
(* an enum, which take theirs whatever they were.                             *)

LoadEnum(n, values) ==
  /\ pc = "load"
  /\ ~Declared(n)
  /\ constant_list' = constant_list \cup values
  /\ TypeContext' = [m \in Name |->
                       IF m \in values \cup {n} THEN EnumType(n) ELSE TypeContext[m]]
  /\ UNCHANGED <<pc, formulas, labels>>

\* Changed form of LoadScalar: a second declaration counts.
LoadScalarAgain(n, type) ==
  /\ pc = "load"
  /\ TypeContext' = [TypeContext EXCEPT ![n] = type]
  /\ UNCHANGED <<pc, constant_list, formulas, labels>>

\* A duplicate is reported and otherwise ignored.
LoadScalar(n, type) ==
  /\ pc = "load"
  /\ ~Declared(n)
  /\ TypeContext' = [TypeContext EXCEPT ![n] = type]
  /\ UNCHANGED <<pc, constant_list, formulas, labels>>

Loaded ==
  /\ pc = "load"
  /\ pc' = "check"
  /\ UNCHANGED <<TypeContext, constant_list, formulas, labels>>

-----------------------------------------------------------------------------
(* TypeCheck *)

TypeOfTerm(t) ==
  CASE t.kind = "AST_ID"   -> TypeContext[t.id]
    [] t.kind = "AST_INT"  -> IntType
    [] t.kind = "AST_BOOL" -> BoolType

\* Changed form of TypeCheck: the order is not restricted to integers.
TypeCheckAnyOrder(c) ==
  Declared(c.left) /\ TypeOfTerm(c.right) = TypeContext[c.left]

TypeCheck(c) ==
  /\ Declared(c.left)
  /\ TypeOfTerm(c.right) = TypeContext[c.left]
  /\ c.kind \in Ordering => TypeContext[c.left] = IntType

CheckFormula(c) ==
  /\ pc = "check"
  /\ Cardinality(formulas) < MaxComparisons
  /\ IF TypeCheck(c) THEN formulas' = formulas \cup {c} /\ UNCHANGED pc
                     ELSE pc' = "aborted" /\ UNCHANGED formulas
  /\ UNCHANGED <<TypeContext, constant_list, labels>>

TypeCheckPassed ==
  /\ pc = "check"
  /\ pc' = "ready"
  /\ UNCHANGED <<TypeContext, constant_list, formulas, labels>>

-----------------------------------------------------------------------------
(* An event *)

\* getType asserts that the text is in the context.
TypeOfText(v) ==
  CASE v \in Truth -> BoolType
    [] v \in Name  -> TypeContext[v]
    [] OTHER       -> None

isNumberFormat(v) == v \in Number

\* A label an enum or truth value cannot have, or no number, is refused, and so
\* is a label of a name that has no type.
IsSane(l) ==
  \A n \in {m \in Name : l[m] # Unset} :
    CASE TypeContext[n] = None -> FALSE
      [] TypeContext[n] = IntType  -> isNumberFormat(l[n])
      [] OTHER                 -> TypeOfText(l[n]) = TypeContext[n]

\* The constants label themselves and cannot be labelled again (addLabel).
Labelling(event) == [n \in Name |-> IF n \in constant_list THEN n ELSE event[n]]
Addable(event)   == \A n \in constant_list : event[n] = Unset

ReceiveEvent(event) ==
  /\ pc = "ready"
  /\ labels' = Labelling(event)
  /\ pc' = IF Addable(event) /\ IsSane(Labelling(event)) THEN "evaluate" ELSE "aborted"
  /\ UNCHANGED <<TypeContext, constant_list, formulas>>

-----------------------------------------------------------------------------
(* EvaluatePredicate *)

Ids(c) == {c.left} \cup IF c.right.kind = "AST_ID" THEN {c.right.id} ELSE {}

\* It has a value: every identifier has a label, and for an order both operands
\* are numbers, from a literal or by stoi.
Evaluates(c) ==
  /\ \A n \in Ids(c) : labels[n] # Unset
  /\ c.kind \in Ordering =>
       c.right.kind # "AST_BOOL" /\ \A n \in Ids(c) : labels[n] \in Convertible

EvaluateOneStep ==
  /\ pc = "evaluate"
  /\ IF \A c \in formulas : Evaluates(c)
     THEN pc' = "ready" /\ labels' = [n \in Name |-> Unset]
     ELSE pc' = "aborted" /\ UNCHANGED labels
  /\ UNCHANGED <<TypeContext, constant_list, formulas>>

-----------------------------------------------------------------------------
Next ==
  \/ \E n \in Name, values \in (SUBSET Name) \ {{}} : LoadEnum(n, values)
  \/ \E n \in Name, type \in {IntType, BoolType} : LoadScalar(n, type)
  \/ Loaded
  \/ \E c \in Comparison : CheckFormula(c)
  \/ TypeCheckPassed
  \/ \E event \in [Name -> Name \cup Truth \cup Number \cup {Unset}] : ReceiveEvent(event)
  \/ EvaluateOneStep

Spec == Init /\ [][Next]_vars

-----------------------------------------------------------------------------
(* Properties *)

\* Whatever clashes between the names of the declarations the loader lets pass,
\* the labels State's constructor makes of constant_list are sane by themselves:
\* no accepted specification makes the evaluator abort at every event.
ConstantsAreSane ==
  pc \in {"check", "ready"} => IsSane(Labelling([n \in Name |-> Unset]))

\* A specification TypeCheck accepted and an event IsSane accepted never meet an
\* assertion of EvaluatePredicate: it fails only for an identifier without a
\* label, or on a number that stoi cannot convert.
AcceptedFormulaEvaluates ==
  pc = "evaluate" =>
    \A c \in formulas :
      \/ Evaluates(c)
      \/ \E n \in Ids(c) : labels[n] = Unset \/ labels[n] \in Number \ Convertible
=============================================================================
