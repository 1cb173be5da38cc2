------------------------------- MODULE PastLTL -------------------------------
(***************************************************************************)
(* The formulas the CFS evaluator runs, as the evaluator sees them after    *)
(* Preprocessor::DoPreProcess: a formula is a table of AST nodes indexed by *)
(* serial number.  PreProcess numbers a formula in preorder from 0, so the  *)
(* root is node 0 and a child's serial is larger than its parent's.         *)
(*                                                                         *)
(* The module holds what one visit of a node computes (EvaluateFormula and  *)
(* EvaluatePredicate, one case per AST kind) and, beside it, the textbook   *)
(* meaning of the past-time operators over a whole sequence of valuations.  *)
(***************************************************************************)
EXTENDS Integers, Sequences

CONSTANTS
  NumFormulas,  \* formulas.size()
  Size,         \* Size[f]: serial_numbers[f], the number of nodes of formula f
  Node,         \* Node[f][n]: the AST node of formula f with serial number n
  Name,         \* identifiers: variables and enum constants of the spec
  Label,        \* the texts an identifier may be labelled with
  Stoi,         \* Stoi[l]: the integer stoi reads from the text l
  Unset         \* what the labelling says of an identifier with no label

Formula == 1..NumFormulas

Comparison == {"EQ", "NEQ", "GT", "GTE", "LT", "LTE"}
Unary      == {"NOT", "O", "H", "Y"}
Binary     == {"AND", "OR", "ARROW", "S"}
Operand    == {"ID", "INT", "BOOL"}
Kinds      == Comparison \cup Unary \cup Binary \cup Operand

\* An AST node.  A unary node's child is "left".  "name" is the identifier of
\* an ID and the printed literal of an INT or a BOOL; leaves have no children.
ASTNode == [kind : Kinds, left : Nat, right : Nat, name : Name \cup Label]

Serials(f) == 0..(Size[f] - 1)
Kind(f, n) == Node[f][n].kind
L(f, n)    == Node[f][n].left
R(f, n)    == Node[f][n].right

\* The nodes EvaluateFormula visits: all of them but the two sides of a
\* comparison, which EvaluatePredicate reads itself.
VisitedSerials ==
  [f \in Formula |->
     Serials(f) \ UNION {{L(f, n), R(f, n)} :
                           n \in {m \in Serials(f) : Kind(f, m) \in Comparison}}]
Visited(f) == VisitedSerials[f]

\* What PreProcess and the grammar give: consecutive serials from 0, children
\* after their parent, and an operator's arguments visited like itself.
ASSUME PreProcess ==
  /\ NumFormulas \in Nat
  /\ Stoi \in [Label -> Int]
  /\ Unset \notin Label
  /\ \A f \in Formula :
       /\ Size[f] \in Nat \ {0}
       /\ Node[f] \in [Serials(f) -> ASTNode]
       /\ 0 \in Visited(f)
       /\ \A n \in Serials(f) :
            /\ Kind(f, n) \in Unary \cup Binary \cup Comparison =>
                 L(f, n) \in Serials(f) /\ L(f, n) > n
            /\ Kind(f, n) \in Binary \cup Comparison =>
                 R(f, n) \in Serials(f) /\ R(f, n) > n
            /\ Kind(f, n) \in Comparison =>
                 Kind(f, L(f, n)) \in Operand /\ Kind(f, R(f, n)) \in Operand
       /\ \A n \in Visited(f) :
            /\ Kind(f, n) \in Unary \cup Binary => L(f, n) \in Visited(f)
            /\ Kind(f, n) \in Binary => R(f, n) \in Visited(f)

-----------------------------------------------------------------------------
(* One event: a labelling of the identifiers, State::LabelingFunction. *)

Labelling == [Name -> Label \cup {Unset}]

\* The text of one side of a comparison.
OperandText(f, n, state) ==
  IF Kind(f, n) = "ID" THEN state[Node[f][n].name] ELSE Node[f][n].name

\* EQ and NEQ compare texts, the orderings compare what stoi makes of them.
EvaluatePredicate(f, n, state) ==
  LET l == OperandText(f, L(f, n), state)
      r == OperandText(f, R(f, n), state)
  IN  CASE Kind(f, n) = "EQ"  -> l = r
        [] Kind(f, n) = "NEQ" -> l # r
        [] Kind(f, n) = "GT"  -> Stoi[l] > Stoi[r]
        [] Kind(f, n) = "GTE" -> Stoi[l] >= Stoi[r]
        [] Kind(f, n) = "LT"  -> Stoi[l] < Stoi[r]
        [] Kind(f, n) = "LTE" -> Stoi[l] <= Stoi[r]
        [] OTHER -> FALSE

\* Every visit succeeds: getLabel finds each identifier, an identifier used as
\* a formula is labelled true or false, and no literal stands as a formula.
\* Otherwise an assertion ends the process: nothing is short-circuited, so
\* every node of every formula is visited at every event.
Evaluable(f, state) ==
  /\ \A n \in Serials(f) :
       Kind(f, n) = "ID" => state[Node[f][n].name] # Unset
  /\ \A n \in Visited(f) :
       /\ Kind(f, n) \notin {"INT", "BOOL"}
       /\ Kind(f, n) = "ID" => state[Node[f][n].name] \in {"true", "false"}

\* Changed forms of the H case: without the test for the first event, and
\* without the bit of the event before.
EvaluateHFirst(f, n, v, old, index)  == L(f, n) \in v /\ n \in old
EvaluateHForget(f, n, v, old, index) == L(f, n) \in v

\* The H case: the bit of H itself says whether it held at the event before.
EvaluateH(f, n, v, old, index) == L(f, n) \in v /\ (index = 0 \/ n \in old)

\* The value EvaluateFormula returns at node n of f, when v holds the
\* nodes that came out true, given the formula's old_bv and the event index.
EvaluateFormula(f, n, v, old, index, state) ==
  LET k == Kind(f, n)
      l == L(f, n)
      r == R(f, n)
  IN  CASE k = "NOT"   -> l \notin v
        [] k = "AND"   -> l \in v /\ r \in v
        [] k = "OR"    -> l \in v \/ r \in v
        [] k = "ARROW" -> l \notin v \/ r \in v
        [] k = "ID"    -> state[Node[f][n].name] = "true"
        [] k = "S"     -> r \in v \/ (l \in v /\ n \in old)
        [] k = "O"     -> (l \in v) \/ (n \in old)
        [] k = "H"     -> EvaluateH(f, n, v, old, index)
        [] k = "Y"     -> index # 0 /\ l \in old
        [] OTHER       -> EvaluatePredicate(f, n, state)

\* v is the set of visits of one evaluation of f that returned true.  Children
\* have larger serials, so exactly one v is: the recursion's call tree.
IsEvaluation(f, v, old, index, state) ==
  \A n \in Visited(f) : n \in v <=> EvaluateFormula(f, n, v, old, index, state)

\* The bits an evaluation sets: every case of the switch sets the bit of a
\* node that came out true, except the default, which returns the comparison.
BitsSet(f, v) == {n \in v : Kind(f, n) \notin Comparison}

-----------------------------------------------------------------------------
(* The reference: past-time LTL over a sequence h of events.  P[n] is the   *)
(* set of positions of h at which subformula n holds.                       *)

PastMeaning(f, n, P, i, h) ==
  LET k == Kind(f, n)
      l == L(f, n)
      r == R(f, n)
  IN  CASE k = "NOT"   -> i \notin P[l]
        [] k = "AND"   -> i \in P[l] /\ i \in P[r]
        [] k = "OR"    -> i \in P[l] \/ i \in P[r]
        [] k = "ARROW" -> i \in P[l] => i \in P[r]
        [] k = "ID"    -> h[i][Node[f][n].name] = "true"
        [] k = "S"     -> \E j \in 1..i :
                              j \in P[r] /\ \A m \in (j + 1)..i : m \in P[l]
        [] k = "O"     -> \E j \in 1..i : j \in P[l]
        [] k = "H"     -> \A j \in 1..i : j \in P[l]
        [] k = "Y"     -> i > 1 /\ i - 1 \in P[l]
        [] OTHER       -> EvaluatePredicate(f, n, h[i])

\* The positions at which each node of f is among the true ones, t[i].
TruePositions(f, t) ==
  [n \in Visited(f) |-> {i \in 1..Len(t) : n \in t[i]}]

\* No Y stands directly over a comparison in f.
YesterdayOfStoredBit(f) ==
  \A n \in Visited(f) :
    Kind(f, n) = "Y" => Kind(f, L(f, n)) \notin Comparison
=============================================================================
