------------------------- MODULE TypeCheckerProofs -------------------------
(***************************************************************************)
(* Theorems about TypeChecker, for any names, numbers and number of         *)
(* comparisons: the constants of an accepted specification are sane, and    *)
(* what TypeCheck and IsSane accept, EvaluatePredicate evaluates.           *)
(***************************************************************************)
EXTENDS TypeChecker, TLAPS

\* The types of the variables these proofs need.
Types ==
  /\ pc \in {"load", "check", "ready", "evaluate", "aborted"}
  /\ TypeContext \in [Name -> {None, IntType, BoolType} \cup {EnumType(n) : n \in Name}]
  /\ constant_list \subseteq Name
  /\ formulas \subseteq Comparison

\* A constant has the type of some enum: a later declaration may move it from
\* one enum to another, never to a scalar.
ConstantsAreEnums == \A n \in constant_list : TypeContext[n].kind = "ENUM"

\* The formulas were accepted under the types the labels are judged by, and the
\* labels of the event being evaluated are sane.
Accepted ==
  /\ pc = "load" => formulas = {}
  /\ \A c \in formulas : TypeCheck(c)
  /\ pc = "evaluate" => IsSane(labels)

IInv == Types /\ ConstantsAreEnums /\ Accepted

\* The kind of a type tells the types apart.
LEMMA Kinds ==
  /\ None.kind = "none" /\ IntType.kind = "INT" /\ BoolType.kind = "BOOL"
  /\ \A n : EnumType(n).kind = "ENUM"
BY DEF None, IntType, BoolType, EnumType

\* Types and formulas change only before and while formulas are checked.
LEMMA TypesKept ==
  ASSUME IInv, [Next]_vars PROVE Types'
<1> USE DEF IInv, Types
<1>1. ASSUME NEW n \in Name, NEW values \in (SUBSET Name) \ {{}}, LoadEnum(n, values)
      PROVE  Types'
  <2>1. constant_list' \subseteq Name
    BY <1>1 DEF LoadEnum
  <2>2. TypeContext' \in [Name -> {None, IntType, BoolType} \cup {EnumType(m) : m \in Name}]
    BY <1>1 DEF LoadEnum
  <2>3. QED
    BY <1>1, <2>1, <2>2 DEF LoadEnum
<1>2. ASSUME NEW n \in Name, NEW type \in {IntType, BoolType}, LoadScalar(n, type)
      PROVE  Types'
  BY <1>2 DEF LoadScalar
<1>3. CASE Loaded
  BY <1>3 DEF Loaded
<1>4. ASSUME NEW c \in Comparison, CheckFormula(c) PROVE Types'
  BY <1>4 DEF CheckFormula
<1>5. CASE TypeCheckPassed
  BY <1>5 DEF TypeCheckPassed
<1>6. ASSUME NEW event, ReceiveEvent(event) PROVE Types'
  BY <1>6 DEF ReceiveEvent
<1>7. CASE EvaluateOneStep
  BY <1>7 DEF EvaluateOneStep
<1>8. CASE UNCHANGED vars
  BY <1>8 DEF vars
<1>9. QED
  BY <1>1, <1>2, <1>3, <1>4, <1>5, <1>6, <1>7, <1>8 DEF Next

\* The loader never takes the enum type from a constant.
LEMMA ConstantsKept ==
  ASSUME IInv, [Next]_vars PROVE ConstantsAreEnums'
<1> USE DEF IInv, Types, ConstantsAreEnums
<1>1. ASSUME NEW n \in Name, NEW values \in (SUBSET Name) \ {{}}, LoadEnum(n, values)
      PROVE  ConstantsAreEnums'
  <2> SUFFICES ASSUME NEW m \in constant_list' PROVE TypeContext'[m].kind = "ENUM"
    OBVIOUS
  <2>1. m \in Name /\ (m \in values \/ m \in constant_list)
    BY <1>1 DEF LoadEnum
  <2>2. TypeContext'[m] = IF m \in values \cup {n} THEN EnumType(n) ELSE TypeContext[m]
    BY <1>1, <2>1 DEF LoadEnum
  <2>3. QED
    BY <2>1, <2>2, Kinds
<1>2. ASSUME NEW n \in Name, NEW type \in {IntType, BoolType}, LoadScalar(n, type)
      PROVE  ConstantsAreEnums'
  <2>1. n \notin constant_list
    BY <1>2, Kinds DEF LoadScalar, Declared
  <2>2. QED
    BY <1>2, <2>1 DEF LoadScalar
<1>3. CASE Loaded
  BY <1>3 DEF Loaded
<1>4. ASSUME NEW c \in Comparison, CheckFormula(c) PROVE ConstantsAreEnums'
  BY <1>4 DEF CheckFormula
<1>5. CASE TypeCheckPassed
  BY <1>5 DEF TypeCheckPassed
<1>6. ASSUME NEW event, ReceiveEvent(event) PROVE ConstantsAreEnums'
  BY <1>6 DEF ReceiveEvent
<1>7. CASE EvaluateOneStep
  BY <1>7 DEF EvaluateOneStep
<1>8. CASE UNCHANGED vars
  BY <1>8 DEF vars
<1>9. QED
  BY <1>1, <1>2, <1>3, <1>4, <1>5, <1>6, <1>7, <1>8 DEF Next

\* What was accepted stays acceptable.
LEMMA AcceptedKept ==
  ASSUME IInv, [Next]_vars PROVE Accepted'
<1> USE DEF IInv, Types, Accepted
<1>1. ASSUME TypeContext' = TypeContext, NEW c, TypeCheck(c) PROVE TypeCheck(c)'
  BY <1>1 DEF TypeCheck, Declared, TypeOfTerm
<1>2. ASSUME NEW n \in Name, NEW values \in (SUBSET Name) \ {{}}, LoadEnum(n, values)
      PROVE  Accepted'
  BY <1>2 DEF LoadEnum
<1>3. ASSUME NEW n \in Name, NEW type \in {IntType, BoolType}, LoadScalar(n, type)
      PROVE  Accepted'
  BY <1>3 DEF LoadScalar
<1>4. CASE Loaded
  BY <1>4 DEF Loaded
<1>5. ASSUME NEW c \in Comparison, CheckFormula(c) PROVE Accepted'
  BY <1>1, <1>5 DEF CheckFormula
<1>6. CASE TypeCheckPassed
  BY <1>1, <1>6 DEF TypeCheckPassed
<1>7. ASSUME NEW event, ReceiveEvent(event) PROVE Accepted'
  <2>1. pc' = "evaluate" => IsSane(labels)'
    BY <1>7 DEF ReceiveEvent, IsSane, TypeOfText
  <2>2. QED
    BY <1>1, <1>7, <2>1 DEF ReceiveEvent
<1>8. CASE EvaluateOneStep
  BY <1>1, <1>8 DEF EvaluateOneStep
<1>9. CASE UNCHANGED vars
  BY <1>9 DEF vars, TypeCheck, Declared, TypeOfTerm, IsSane, TypeOfText
<1>10. QED
  BY <1>2, <1>3, <1>4, <1>5, <1>6, <1>7, <1>8, <1>9 DEF Next

\* The parts of IInv hold together, by induction.
LEMMA Invariance == Spec => []IInv
<1>1. Init => IInv
  BY DEF Init, IInv, Types, ConstantsAreEnums, Accepted
<1>2. IInv /\ [Next]_vars => IInv'
  BY TypesKept, ConstantsKept, AcceptedKept DEF IInv
<1>3. QED
  BY <1>1, <1>2, PTL DEF Spec

\* Whatever clashes between declarations the loader lets pass, the labels State's
\* constructor makes of constant_list are sane: no accepted specification makes
\* the evaluator abort at every event.
THEOREM ConstantsSane == Spec => []ConstantsAreSane
<1>1. IInv => ConstantsAreSane
  <2> SUFFICES ASSUME IInv PROVE IsSane(Labelling([n \in Name |-> Unset]))
    BY DEF ConstantsAreSane
  <2> DEFINE l == Labelling([n \in Name |-> Unset])
  <2> SUFFICES ASSUME NEW n \in Name, l[n] # Unset
               PROVE  CASE TypeContext[n] = None -> FALSE
                        [] TypeContext[n] = IntType  -> isNumberFormat(l[n])
                        [] OTHER -> TypeOfText(l[n]) = TypeContext[n]
    BY DEF IsSane
  <2>1. n \in constant_list /\ l[n] = n
    BY DEF Labelling
  <2>2. TypeContext[n].kind = "ENUM"
    BY <2>1 DEF IInv, ConstantsAreEnums
  <2>3. TypeContext[n] # None /\ TypeContext[n] # IntType
    BY <2>2, Kinds
  <2>4. n \notin Truth
    BY TypeCheckerAssumption
  <2>5. TypeOfText(n) = TypeContext[n]
    BY <2>4 DEF TypeOfText
  <2>6. QED
    BY <2>1, <2>3, <2>5
<1>2. QED
  BY <1>1, Invariance, PTL

\* A specification TypeCheck accepted and an event IsSane accepted never meet an
\* assertion of EvaluatePredicate: it fails only for an identifier without a label
\* or on a number that stoi cannot convert.
THEOREM AcceptedEvaluates == Spec => []AcceptedFormulaEvaluates
<1>1. IInv => AcceptedFormulaEvaluates
  <2> SUFFICES ASSUME IInv, pc = "evaluate", NEW c \in formulas,
                      \A n \in Ids(c) : labels[n] # Unset /\ labels[n] \notin Number \ Convertible
               PROVE  Evaluates(c)
    BY DEF AcceptedFormulaEvaluates
  <2>1. c \in Comparison /\ TypeCheck(c) /\ IsSane(labels)
    BY DEF IInv, Types, Accepted
  <2> SUFFICES ASSUME c.kind \in Ordering
               PROVE  c.right.kind # "AST_BOOL" /\ \A n \in Ids(c) : labels[n] \in Convertible
    BY DEF Evaluates
  <2>2. TypeContext[c.left] = IntType /\ TypeOfTerm(c.right) = IntType
    BY <2>1 DEF TypeCheck
  <2>3. c.left \in Name /\ c.right \in Term
    BY <2>1 DEF Comparison
  <2>4. c.right.kind # "AST_BOOL"
    BY <2>2, Kinds DEF TypeOfTerm
  <2>5. ASSUME NEW n \in Ids(c) PROVE n \in Name /\ TypeContext[n] = IntType
    <3>1. CASE n = c.left
      BY <2>2, <2>3, <3>1
    <3>2. CASE c.right.kind = "AST_ID" /\ n = c.right.id
      BY <2>2, <2>3, <3>2 DEF TypeOfTerm, Term
    <3>3. QED
      BY <3>1, <3>2 DEF Ids
  <2>6. ASSUME NEW n \in Ids(c) PROVE labels[n] \in Convertible
    <3>1. n \in Name /\ TypeContext[n] = IntType /\ labels[n] # Unset
      BY <2>5
    <3>2. isNumberFormat(labels[n])
      BY <2>1, <3>1 DEF IsSane
    <3>3. QED
      BY <3>2 DEF isNumberFormat
  <2>7. QED
    BY <2>4, <2>6
<1>2. QED
  BY <1>1, Invariance, PTL
=============================================================================
