----------------------------- MODULE MCEvaluator -----------------------------
(* Evaluator on four formulas that between them use every operator:         *)
(*   1:  H( x = 1 -> O(y) )                                                 *)
(*   2:  y S (x >= 1)                                                       *)
(*   3:  Y(!y) | H(y)                                                       *)
(*   4:  (x != 1) & (x < 1)                                                 *)
(* with x an INT and y a BOOL of the specification.                         *)
EXTENDS Evaluator, FiniteSets

un(k, c)      == [kind |-> k, left |-> c, right |-> 0, name |-> "x"]
bin(k, l, r)  == [kind |-> k, left |-> l, right |-> r, name |-> "x"]
leaf(k, nm)   == [kind |-> k, left |-> 0, right |-> 0, name |-> nm]
table(s)      == [n \in 0..(Len(s) - 1) |-> s[n + 1]]

MCNode ==
  << table(<<un("H", 1), bin("ARROW", 2, 5), bin("EQ", 3, 4), leaf("ID", "x"),
             leaf("INT", "1"), un("O", 6), leaf("ID", "y")>>),
     table(<<bin("S", 1, 2), leaf("ID", "y"), bin("GTE", 3, 4),
             leaf("ID", "x"), leaf("INT", "1")>>),
     table(<<bin("OR", 1, 4), un("Y", 2), un("NOT", 3), leaf("ID", "y"),
             un("H", 5), leaf("ID", "y")>>),
     table(<<bin("AND", 1, 4), bin("NEQ", 2, 3), leaf("ID", "x"),
             leaf("INT", "1"), bin("LT", 5, 6), leaf("ID", "x"),
             leaf("INT", "1")>>) >>

\* Formula 1':  !Y(x = 1), Y directly over a comparison.
MCYesterdayNode ==
  << table(<<un("NOT", 1), un("Y", 2), bin("EQ", 3, 4), leaf("ID", "x"),
             leaf("INT", "1")>>) >>

MCSize == [f \in DOMAIN MCNode |-> Cardinality(DOMAIN MCNode[f])]

MCYesterdaySize == [f \in DOMAIN MCYesterdayNode |-> Cardinality(DOMAIN MCYesterdayNode[f])]

MCName  == {"x", "y"}
MCLabel == {"0", "1", "true", "false"}
MCStoi  == [l \in MCLabel |-> IF l = "1" THEN 1 ELSE 0]
MCEvent == {e \in [MCName -> MCLabel] :
              e["x"] \in {"0", "1"} /\ e["y"] \in {"true", "false"}}
=============================================================================
