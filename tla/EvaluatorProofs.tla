--------------------------- MODULE EvaluatorProofs ---------------------------
(***************************************************************************)
(* Theorems about Evaluator, for every specification (any number of         *)
(* formulas of any size), every set of events and snapshot ids and every    *)
(* bound: types, that the verdicts are the past-time meaning of the         *)
(* formulas, and that the evaluator implements HistoryMonitor.              *)
(***************************************************************************)
EXTENDS Evaluator, SequenceTheorems, WellFoundedInduction, TLAPS

\* The bits that an evaluator which has seen the valuations t must hold.
BitsAfter(f, t) == IF t = << >> THEN {} ELSE BitsSet(f, t[Len(t)])

\* The part of PastTimeSemantics about one formula.
Faithful(f, t, h) ==
  YesterdayOfStoredBit(f) =>
    \A i \in 1..Len(t) : \A n \in Visited(f) :
      n \in t[i] <=> PastMeaning(f, n, TruePositions(f, t), i, h)

\* A saved state is a state the evaluator was in when it was idle.
SavedInv ==
  \A id \in SnapId :
    saved_states[id].saved =>
         /\ Len(savedHist[id].hist) = saved_states[id].index
         /\ saved_states[id].new_bv = Cleared
         /\ \A f \in Formula :
              /\ Len(savedHist[id].tv[f]) = saved_states[id].index
              /\ saved_states[id].old_bv[f] = BitsAfter(f, savedHist[id].tv[f])
              /\ Faithful(f, savedHist[id].tv[f], savedHist[id].hist)

\* The inductive invariant: the formulas before iter have one valuation more
\* than the others, and each formula's bits are those of its last valuation.
IInv ==
  /\ TypeOK
  /\ Len(hist) = index + (IF Idle THEN 0 ELSE 1)
  /\ ~Idle => state = hist[Len(hist)]
  /\ new_bv = Cleared
  /\ \A f \in Formula :
       /\ Len(tv[f]) = index + (IF f < iter THEN 1 ELSE 0)
       /\ old_bv[f] = BitsAfter(f, tv[f])
       /\ Faithful(f, tv[f], hist)
  /\ SavedInv
-----------------------------------------------------------------------------
(* Types *)

\* Serial numbers are naturals and the visited nodes are among them (PreProcess).
LEMMA FormulaType ==
  /\ NumFormulas \in Nat
  /\ \A f \in Formula : Serials(f) \subseteq Nat /\ Visited(f) \subseteq Serials(f)
  BY PreProcess DEF Formula, Visited, VisitedSerials, Serials

\* Every variable keeps its type, whatever the specification and the events.
THEOREM TypeCorrect == Spec => []TypeOK
<1>1. Init => TypeOK
  BY PreProcess DEF Init, TypeOK, Cleared, NotSaved, Formula
<1>2. TypeOK /\ [Next]_vars => TypeOK'
  <2> SUFFICES ASSUME TypeOK, [Next]_vars PROVE TypeOK'
    OBVIOUS
  <2> USE DEF TypeOK
  <2>1. ASSUME NEW e \in Event, BeginStep(e) PROVE TypeOK'
    BY <2>1, FormulaType DEF BeginStep, Idle
  <2>2. CASE StepFormula
    <3>1. PICK v \in SUBSET Visited(iter) :
            /\ result' = Append(result, 0 \in v)
            /\ old_bv' = [old_bv EXCEPT ![iter] = new_bv[iter] \cup BitsSet(iter, v)]
            /\ new_bv' = [new_bv EXCEPT ![iter] = {}]
            /\ tv' = [tv EXCEPT ![iter] = Append(@, v)]
      BY <2>2 DEF StepFormula, ClearBv
    <3>2. iter \in Formula /\ iter' = iter + 1 /\ iter' \in 0..(NumFormulas + 1)
      BY <2>2, FormulaType DEF StepFormula, ClearBv, Formula
    <3>3. v \in SUBSET Nat /\ BitsSet(iter, v) \in SUBSET Nat
      BY <3>2, FormulaType DEF BitsSet
    <3>4. old_bv' \in [Formula -> SUBSET Nat] /\ new_bv' \in [Formula -> SUBSET Nat]
      BY <3>1, <3>2, <3>3
    <3>5. tv' \in [Formula -> Seq(SUBSET Nat)]
      BY <3>1, <3>2, <3>3
    <3>6. result' \in Seq(BOOLEAN)
      <4>1. (0 \in v) \in BOOLEAN
        OBVIOUS
      <4>2. QED
        BY <3>1, <4>1, AppendProperties
    <3>7. QED
      BY <2>2, <3>2, <3>4, <3>5, <3>6 DEF StepFormula, ClearBv
  <2>3. CASE EndStep
    BY <2>3, FormulaType DEF EndStep, histVars
  <2>4. CASE ResetEvaluator
    BY <2>4 DEF ResetEvaluator, Cleared
  <2>5. ASSUME NEW id \in SnapId, SaveState(id) PROVE TypeOK'
    <3>1. saved_states' \in [SnapId -> SavedState \cup {NotSaved}]
      BY <2>5 DEF SaveState, SavedState
    <3>2. savedHist' \in [SnapId -> SavedHistory \cup {NotSaved}]
      BY <2>5 DEF SaveState, SavedHistory
    <3>3. \A i \in SnapId : saved_states'[i].saved <=> savedHist'[i].saved
      BY <2>5 DEF SaveState
    <3>4. QED
      BY <2>5, <3>1, <3>2, <3>3 DEF SaveState
  <2>6. ASSUME NEW id \in SnapId, RestoreState(id) PROVE TypeOK'
    <3>1. saved_states[id] \in SavedState
      BY <2>6 DEF RestoreState, NotSaved
    <3>2. savedHist[id] \in SavedHistory
      BY <2>6 DEF RestoreState, NotSaved
    <3>3. /\ saved_states[id].index \in Nat
          /\ saved_states[id].old_bv \in [Formula -> SUBSET Nat]
          /\ saved_states[id].new_bv \in [Formula -> SUBSET Nat]
      BY <3>1 DEF SavedState
    <3>4. /\ savedHist[id].hist \in Seq(Event)
          /\ savedHist[id].tv \in [Formula -> Seq(SUBSET Nat)]
      BY <3>2 DEF SavedHistory
    <3>5. QED
      BY <2>6, <3>3, <3>4 DEF RestoreState
  <2>7. CASE UNCHANGED vars
    BY <2>7 DEF vars, evalVars, histVars
  <2>8. QED
    BY <2>1, <2>2, <2>3, <2>4, <2>5, <2>6, <2>7 DEF Next
<1>3. QED
  BY <1>1, <1>2, PTL DEF Spec

-----------------------------------------------------------------------------
(* The meaning of a subformula at position i depends on the positions up to  *)
(* i only.                                                                   *)

\* The arguments of a visited operator are visited too, and its kind is known.
LEMMA ArgumentsVisited ==
  ASSUME NEW f \in Formula, NEW n \in Visited(f)
  PROVE  /\ Kind(f, n) \in Kinds
         /\ Kind(f, n) \in Unary \cup Binary => L(f, n) \in Visited(f)
         /\ Kind(f, n) \in Binary => R(f, n) \in Visited(f)
<1>1. n \in Serials(f) /\ Node[f] \in [Serials(f) -> ASTNode]
  BY PreProcess, FormulaType
<1>2. Kind(f, n) \in Kinds
  BY <1>1 DEF Kind, ASTNode
<1>3. QED
  BY <1>2, PreProcess

\* Two histories, and two tables of positions, that agree up to position i
\* give a subformula the same meaning at i.
LEMMA MeaningLocal ==
  ASSUME NEW f \in Formula, NEW n \in Visited(f), NEW P, NEW Q, NEW h, NEW g,
         NEW i \in Nat \ {0}, h[i] = g[i],
         \A m \in Visited(f) : \A j \in 1..i : j \in P[m] <=> j \in Q[m]
  PROVE  PastMeaning(f, n, P, i, h) <=> PastMeaning(f, n, Q, i, g)
<1>1. CASE Kind(f, n) \in Unary
  <2>1. L(f, n) \in Visited(f)
    BY <1>1, ArgumentsVisited
  <2>2. QED
    BY <1>1, <2>1 DEF PastMeaning, Unary
<1>2. CASE Kind(f, n) \in Binary
  <2>1. L(f, n) \in Visited(f) /\ R(f, n) \in Visited(f)
    BY <1>2, ArgumentsVisited
  <2>2. QED
    BY <1>2, <2>1 DEF PastMeaning, Binary
<1>3. CASE Kind(f, n) \notin Unary \cup Binary
  BY <1>3 DEF PastMeaning, Unary, Binary
<1>4. QED
  BY <1>1, <1>2, <1>3

-----------------------------------------------------------------------------
(* One more event. *)

\* One more valuation adds its own position to the nodes true in it.
LEMMA PositionsOfAppend ==
  ASSUME NEW f \in Formula, NEW t \in Seq(SUBSET Nat), NEW v \in SUBSET Nat,
         NEW n \in Visited(f)
  PROVE  /\ \A j \in 1..Len(t) : j \in TruePositions(f, t)[n] <=> n \in t[j]
         /\ \A j \in 1..Len(t) :
              j \in TruePositions(f, Append(t, v))[n] <=> n \in t[j]
         /\ Len(t) + 1 \in TruePositions(f, Append(t, v))[n] <=> n \in v
<1>1. /\ Len(Append(t, v)) = Len(t) + 1 /\ Len(t) \in Nat
      /\ \A j \in 1..Len(t) : Append(t, v)[j] = t[j]
      /\ Append(t, v)[Len(t) + 1] = v
  BY AppendProperties, LenProperties
<1>2. QED
  BY <1>1 DEF TruePositions

\* After one more valuation the stored bits are the bits of that valuation.
LEMMA BitsOfAppend ==
  ASSUME NEW f \in Formula, NEW t \in Seq(SUBSET Nat), NEW v \in SUBSET Nat
  PROVE  BitsAfter(f, Append(t, v)) = BitsSet(f, v)
BY AppendProperties DEF BitsAfter

\* The stored bits are the valuation of the previous event, comparisons aside.
LEMMA BitsArePrevious ==
  ASSUME NEW f \in Formula, NEW t \in Seq(SUBSET Nat), NEW n \in Visited(f),
         Kind(f, n) \notin Comparison
  PROVE  n \in BitsAfter(f, t) <=> Len(t) # 0 /\ n \in t[Len(t)]
BY EmptySeq, LenProperties DEF BitsAfter, BitsSet

\* What EvaluateFormula returns for a new event, from the bits of the event
\* before, is the meaning of the subformula at the new position.
LEMMA NewEventFaithful ==
  ASSUME NEW f \in Formula, NEW t \in Seq(SUBSET Nat), NEW h,
         NEW v \in SUBSET Visited(f), NEW n \in Visited(f),
         Faithful(f, t, h), YesterdayOfStoredBit(f),
         IsEvaluation(f, v, BitsAfter(f, t), Len(t), h[Len(t) + 1])
  PROVE  n \in v <=>
           PastMeaning(f, n, TruePositions(f, Append(t, v)), Len(t) + 1, h)
<1> DEFINE k  == Len(t) + 1
           P  == TruePositions(f, t)
           P2 == TruePositions(f, Append(t, v))
<1>1. Len(t) \in Nat /\ v \in SUBSET Nat
  BY FormulaType, LenProperties
<1>2. n \in v <=> EvaluateFormula(f, n, v, BitsAfter(f, t), Len(t), h[k])
  BY DEF IsEvaluation
<1>3. \A m \in Visited(f) :
        /\ \A j \in 1..Len(t) : j \in P[m] <=> j \in P2[m]
        /\ \A j \in 1..Len(t) : j \in P2[m] <=> m \in t[j]
        /\ k \in P2[m] <=> m \in v
  BY <1>1, PositionsOfAppend
<1>4. Len(t) # 0 => (n \in t[Len(t)] <=> PastMeaning(f, n, P, Len(t), h))
  <2>1. Len(t) # 0 => Len(t) \in 1..Len(t)
    BY <1>1
  <2>2. \A i \in 1..Len(t) : n \in t[i] <=> PastMeaning(f, n, P, i, h)
    BY DEF Faithful
  <2>3. QED
    BY <2>1, <2>2
<1>5. Kind(f, n) \notin Comparison =>
        (n \in BitsAfter(f, t) <=> Len(t) # 0 /\ PastMeaning(f, n, P, Len(t), h))
  BY <1>4, BitsArePrevious
<1> HIDE DEF P, P2, k
<1>6. CASE Kind(f, n) \in {"NOT", "AND", "OR", "ARROW"}
  <2>1. L(f, n) \in Visited(f)
        /\ (Kind(f, n) # "NOT" => R(f, n) \in Visited(f))
    BY <1>6, ArgumentsVisited DEF Unary, Binary
  <2>2. QED
    BY <1>2, <1>3, <1>6, <2>1 DEF EvaluateFormula, EvaluateH, PastMeaning, P2, k
<1>7. CASE Kind(f, n) = "S"
  <2>1. L(f, n) \in Visited(f) /\ R(f, n) \in Visited(f)
    BY <1>7, ArgumentsVisited DEF Binary
  <2> DEFINE since(Q, i) == \E j \in 1..i : j \in Q[R(f, n)] /\
                              \A m \in (j + 1)..i : m \in Q[L(f, n)]
  <2>2. PastMeaning(f, n, P2, k, h) <=> since(P2, k)
    BY <1>7 DEF PastMeaning
  <2>3. n \in BitsAfter(f, t) <=> Len(t) # 0 /\ since(P, Len(t))
    BY <1>5, <1>7 DEF PastMeaning, Comparison
  <2>4. n \in v <=> R(f, n) \in v \/ (L(f, n) \in v /\ n \in BitsAfter(f, t))
    BY <1>2, <1>7 DEF EvaluateFormula, EvaluateH
  <2>5. since(P2, k) <=> k \in P2[R(f, n)] \/
                         (k \in P2[L(f, n)] /\ since(P2, Len(t)))
    BY <1>1 DEF k
  <2>6. since(P2, Len(t)) <=> since(P, Len(t))
    <3>1. \A j \in 1..Len(t) : /\ j \in P[L(f, n)] <=> j \in P2[L(f, n)]
                               /\ j \in P[R(f, n)] <=> j \in P2[R(f, n)]
      BY <1>3, <2>1
    <3>2. \A j \in 1..Len(t) : \A m \in (j + 1)..Len(t) : m \in 1..Len(t)
      BY <1>1
    <3>3. QED
      BY <3>1, <3>2
  <2>7. since(P, Len(t)) => Len(t) # 0
    OBVIOUS
  <2>8. QED
    BY <1>3, <2>1, <2>2, <2>3, <2>4, <2>5, <2>6, <2>7 DEF P2, k
<1>8. CASE Kind(f, n) \in {"O", "H"}
  <2>1. L(f, n) \in Visited(f)
    BY <1>8, ArgumentsVisited DEF Unary
  <2>2. CASE Kind(f, n) = "O"
    <3>1. n \in BitsAfter(f, t) <=>
            Len(t) # 0 /\ \E j \in 1..Len(t) : j \in P[L(f, n)]
      BY <1>5, <2>2 DEF PastMeaning, Comparison
    <3>2. n \in v <=> L(f, n) \in v \/ n \in BitsAfter(f, t)
      BY <1>2, <2>2 DEF EvaluateFormula, EvaluateH
    <3>3. PastMeaning(f, n, P2, k, h) <=> \E j \in 1..k : j \in P2[L(f, n)]
      BY <2>2 DEF PastMeaning
    <3>4. (\E j \in 1..k : j \in P2[L(f, n)]) <=>
            k \in P2[L(f, n)] \/ \E j \in 1..Len(t) : j \in P2[L(f, n)]
      BY <1>1 DEF k
    <3>5. (\E j \in 1..Len(t) : j \in P2[L(f, n)]) <=>
            Len(t) # 0 /\ \E j \in 1..Len(t) : j \in P[L(f, n)]
      BY <1>3, <2>1
    <3>6. QED
      BY <1>3, <2>1, <3>1, <3>2, <3>3, <3>4, <3>5 DEF P2, k
  <2>3. CASE Kind(f, n) = "H"
    <3>1. n \in BitsAfter(f, t) <=>
            Len(t) # 0 /\ \A j \in 1..Len(t) : j \in P[L(f, n)]
      BY <1>5, <2>3 DEF PastMeaning, Comparison
    <3>2. n \in v <=> L(f, n) \in v /\ (Len(t) = 0 \/ n \in BitsAfter(f, t))
      BY <1>2, <2>3 DEF EvaluateFormula, EvaluateH
    <3>3. PastMeaning(f, n, P2, k, h) <=> \A j \in 1..k : j \in P2[L(f, n)]
      BY <2>3 DEF PastMeaning
    <3>4. (\A j \in 1..k : j \in P2[L(f, n)]) <=>
            k \in P2[L(f, n)] /\ \A j \in 1..Len(t) : j \in P2[L(f, n)]
      BY <1>1 DEF k
    <3>5. (\A j \in 1..Len(t) : j \in P2[L(f, n)]) <=>
            Len(t) = 0 \/ \A j \in 1..Len(t) : j \in P[L(f, n)]
      <4>1. Len(t) = 0 => 1..Len(t) = {}
        OBVIOUS
      <4>2. \A j \in 1..Len(t) : j \in P[L(f, n)] <=> j \in P2[L(f, n)]
        BY <1>3, <2>1
      <4>3. QED
        BY <4>1, <4>2
    <3>6. QED
      BY <1>3, <2>1, <3>1, <3>2, <3>3, <3>4, <3>5 DEF P2, k
  <2>4. QED
    BY <1>8, <2>2, <2>3
<1>9. CASE Kind(f, n) = "Y"
  <2>1. L(f, n) \in Visited(f) /\ Kind(f, L(f, n)) \notin Comparison
    BY <1>9, ArgumentsVisited DEF Unary, YesterdayOfStoredBit
  <2>2. L(f, n) \in BitsAfter(f, t) <=> Len(t) # 0 /\ L(f, n) \in t[Len(t)]
    BY <2>1, BitsArePrevious
  <2>3. n \in v <=> Len(t) # 0 /\ L(f, n) \in BitsAfter(f, t)
    BY <1>2, <1>9 DEF EvaluateFormula, EvaluateH
  <2>4. PastMeaning(f, n, P2, k, h) <=> k > 1 /\ k - 1 \in P2[L(f, n)]
    BY <1>9 DEF PastMeaning
  <2>5. k > 1 /\ k - 1 \in P2[L(f, n)] <=> Len(t) # 0 /\ L(f, n) \in t[Len(t)]
    <3>1. k - 1 = Len(t) /\ (k > 1 <=> Len(t) # 0)
          /\ (Len(t) # 0 => Len(t) \in 1..Len(t))
      BY <1>1 DEF k
    <3>2. QED
      BY <1>3, <2>1, <3>1
  <2>6. QED
    BY <2>2, <2>3, <2>4, <2>5 DEF P2, k
<1>10. CASE Kind(f, n) \in Comparison \cup Operand
  BY <1>2, <1>10 DEF EvaluateFormula, EvaluateH, PastMeaning, Comparison, Operand, k
<1>11. QED
  BY <1>6, <1>7, <1>8, <1>9, <1>10, ArgumentsVisited
     DEF Kinds, Unary, Binary

\* One iteration of EvaluateOneStep keeps the valuations of its formula
\* faithful, the earlier ones included.
LEMMA StepKeepsFaithful ==
  ASSUME NEW f \in Formula, NEW t \in Seq(SUBSET Nat), NEW h,
         NEW v \in SUBSET Visited(f), Faithful(f, t, h),
         IsEvaluation(f, v, BitsAfter(f, t), Len(t), h[Len(t) + 1])
  PROVE  Faithful(f, Append(t, v), h)
<1> SUFFICES ASSUME YesterdayOfStoredBit(f),
                    NEW i \in 1..Len(Append(t, v)), NEW n \in Visited(f)
             PROVE  n \in Append(t, v)[i] <=>
                      PastMeaning(f, n, TruePositions(f, Append(t, v)), i, h)
  BY DEF Faithful
<1>1. /\ Len(t) \in Nat /\ v \in SUBSET Nat
      /\ Len(Append(t, v)) = Len(t) + 1
      /\ Append(t, v)[Len(t) + 1] = v
      /\ \A j \in 1..Len(t) : Append(t, v)[j] = t[j]
  BY FormulaType, LenProperties, AppendProperties
<1>2. CASE i = Len(t) + 1
  BY <1>1, <1>2, NewEventFaithful
<1>3. CASE i \in 1..Len(t)
  <2>1. n \in t[i] <=> PastMeaning(f, n, TruePositions(f, t), i, h)
    BY <1>3 DEF Faithful
  <2>2. \A m \in Visited(f) : \A j \in 1..i :
          j \in TruePositions(f, t)[m] <=> j \in TruePositions(f, Append(t, v))[m]
    <3>1. \A j \in 1..i : j \in 1..Len(t)
      BY <1>1, <1>3
    <3>2. QED
      BY <1>1, <3>1, PositionsOfAppend
  <2>3. i \in Nat \ {0}
    BY <1>1, <1>3
  <2>4. PastMeaning(f, n, TruePositions(f, t), i, h) <=>
          PastMeaning(f, n, TruePositions(f, Append(t, v)), i, h)
    BY <2>2, <2>3, MeaningLocal
  <2>5. QED
    BY <1>1, <1>3, <2>1, <2>4
<1>4. QED
  BY <1>1, <1>2, <1>3

\* An event appended to the history does not change what was faithful before.
LEMMA LongerHistoryFaithful ==
  ASSUME NEW f \in Formula, NEW t \in Seq(SUBSET Nat), NEW h, NEW g,
         \A i \in 1..Len(t) : h[i] = g[i], Faithful(f, t, h)
  PROVE  Faithful(f, t, g)
<1> SUFFICES ASSUME YesterdayOfStoredBit(f),
                    NEW i \in 1..Len(t), NEW n \in Visited(f)
             PROVE  n \in t[i] <=> PastMeaning(f, n, TruePositions(f, t), i, g)
  BY DEF Faithful
<1>1. n \in t[i] <=> PastMeaning(f, n, TruePositions(f, t), i, h)
  BY DEF Faithful
<1>2. i \in Nat \ {0} /\ h[i] = g[i]
  BY LenProperties
<1>3. QED
  BY <1>1, <1>2, MeaningLocal

-----------------------------------------------------------------------------
(* The inductive invariant. *)

\* Nothing is asked of a formula that has seen no event, and it has no bits.
LEMMA EmptyFaithful ==
  ASSUME NEW f \in Formula, NEW h
  PROVE  Faithful(f, << >>, h) /\ BitsAfter(f, << >>) = {}
BY DEF Faithful, BitsAfter

\* The inductive invariant: at every point of EvaluateOneStep, save, restore
\* and reset, the bits of a formula are those of its last valuation, and its
\* valuations are its past-time meaning.
THEOREM IndInv == Spec => []IInv
<1>1. Init => IInv
  <2> SUFFICES ASSUME Init PROVE IInv
    OBVIOUS
  <2>1. TypeOK
    BY PreProcess DEF Init, TypeOK, Cleared, NotSaved, Formula
  <2>2. SavedInv
    BY DEF Init, SavedInv, NotSaved
  <2>3. QED
    BY <2>1, <2>2, EmptyFaithful, FormulaType DEF Init, IInv, Idle, Cleared, Formula
<1>2. IInv /\ TypeOK' /\ [Next]_vars => IInv'
  <2> SUFFICES ASSUME IInv, TypeOK', [Next]_vars PROVE IInv'
    OBVIOUS
  <2>0. /\ TypeOK /\ NumFormulas \in Nat /\ Len(hist) \in Nat
        /\ hist \in Seq(Event) /\ index \in Nat
        /\ \A f \in Formula : tv[f] \in Seq(SUBSET Nat) /\ Len(tv[f]) \in Nat
    BY FormulaType, LenProperties DEF IInv, TypeOK
  <2>1. ASSUME NEW e \in Event, BeginStep(e) PROVE IInv'
    <3>1. /\ iter = 0 /\ iter' = 1 /\ index' = index /\ tv' = tv
          /\ old_bv' = old_bv /\ new_bv' = new_bv /\ state' = e
          /\ hist' = Append(hist, e)
          /\ saved_states' = saved_states /\ savedHist' = savedHist
      BY <2>1 DEF BeginStep, Idle
    <3>2. /\ Len(hist') = Len(hist) + 1 /\ hist'[Len(hist) + 1] = e
          /\ \A i \in 1..Len(hist) : hist'[i] = hist[i]
      BY <2>0, <3>1, AppendProperties
    <3>3. ASSUME NEW f \in Formula
          PROVE  /\ Len(tv'[f]) = index' + (IF f < iter' THEN 1 ELSE 0)
                 /\ old_bv'[f] = BitsAfter(f, tv'[f])
                 /\ Faithful(f, tv'[f], hist')
      <4>1. Len(tv[f]) = index /\ Len(hist) = index
            /\ old_bv[f] = BitsAfter(f, tv[f]) /\ Faithful(f, tv[f], hist)
        BY <2>0, <3>1 DEF IInv, Idle, Formula
      <4>2. Faithful(f, tv[f], hist')
        BY <2>0, <3>2, <4>1, LongerHistoryFaithful
      <4>3. QED
        BY <2>0, <3>1, <4>1, <4>2 DEF Formula
    <3>4. SavedInv'
      BY <3>1 DEF IInv, SavedInv
    <3>5. QED
      BY <2>0, <3>1, <3>2, <3>3, <3>4 DEF IInv, Idle
  <2>2. CASE StepFormula
    <3>0. PICK v \in SUBSET Visited(iter) :
            /\ IsEvaluation(iter, v, old_bv[iter], index, state)
            /\ LET written == [new_bv EXCEPT ![iter] = @ \cup BitsSet(iter, v)]
               IN  /\ old_bv' = [old_bv EXCEPT ![iter] = written[iter]]
                   /\ new_bv' = ClearBv(written, iter)
            /\ tv' = [tv EXCEPT ![iter] = Append(@, v)]
      BY <2>2 DEF StepFormula
    <3>1. /\ IsEvaluation(iter, v, old_bv[iter], index, state)
          /\ old_bv' = [old_bv EXCEPT ![iter] = new_bv[iter] \cup BitsSet(iter, v)]
          /\ new_bv' = [new_bv EXCEPT ![iter] = {}]
          /\ tv' = [tv EXCEPT ![iter] = Append(@, v)]
      <4>1. iter \in Formula /\ new_bv \in [Formula -> SUBSET Nat]
        BY <2>0, <2>2 DEF StepFormula, TypeOK
      <4>2. QED
        BY <3>0, <4>1 DEF ClearBv
    <3>2. /\ iter \in Formula /\ iter' = iter + 1 /\ index' = index
          /\ hist' = hist /\ state' = state
          /\ saved_states' = saved_states /\ savedHist' = savedHist
      BY <2>2 DEF StepFormula, ClearBv
    <3>3. /\ iter \in Nat /\ iter # 0 /\ iter' # 0
          /\ Len(hist) = index + 1 /\ state = hist[index + 1]
      BY <2>0, <3>2 DEF IInv, Idle, Formula
    <3>4. v \in SUBSET Nat
      BY <3>2, FormulaType
    <3>5. new_bv' = Cleared
      BY <3>1, <3>2 DEF IInv, Cleared
    <3>6. /\ Len(tv[iter]) = index /\ old_bv[iter] = BitsAfter(iter, tv[iter])
          /\ Faithful(iter, tv[iter], hist)
      BY <2>0, <3>2, <3>3 DEF IInv
    <3>7. /\ Len(Append(tv[iter], v)) = index + 1
          /\ BitsAfter(iter, Append(tv[iter], v)) = BitsSet(iter, v)
          /\ Faithful(iter, Append(tv[iter], v), hist)
      <4>1. Len(Append(tv[iter], v)) = index + 1
        BY <2>0, <3>2, <3>4, <3>6, AppendProperties
      <4>2. BitsAfter(iter, Append(tv[iter], v)) = BitsSet(iter, v)
        BY <2>0, <3>2, <3>4, BitsOfAppend
      <4>3. QED
        BY <2>0, <3>1, <3>2, <3>3, <3>6, <4>1, <4>2, StepKeepsFaithful
    <3>8. ASSUME NEW f \in Formula
          PROVE  /\ Len(tv'[f]) = index' + (IF f < iter' THEN 1 ELSE 0)
                 /\ old_bv'[f] = BitsAfter(f, tv'[f])
                 /\ Faithful(f, tv'[f], hist')
      <4>1. CASE f = iter
        <5>1. tv'[f] = Append(tv[iter], v) /\ old_bv'[f] = BitsSet(iter, v)
          BY <3>1, <3>2, <4>1 DEF IInv, TypeOK, Cleared
        <5>2. QED
          BY <3>2, <3>3, <3>7, <4>1, <5>1
      <4>2. CASE f # iter
        <5>1. tv'[f] = tv[f] /\ old_bv'[f] = old_bv[f]
          BY <3>1, <4>2 DEF IInv, TypeOK
        <5>2. f < iter' <=> f < iter
          BY <3>2, <3>3, <4>2 DEF Formula
        <5>3. QED
          BY <3>2, <5>1, <5>2 DEF IInv
      <4>3. QED
        BY <4>1, <4>2
    <3>9. SavedInv'
      BY <3>2 DEF IInv, SavedInv
    <3>10. QED
      BY <3>2, <3>3, <3>5, <3>8, <3>9 DEF IInv, Idle
  <2>3. CASE EndStep
    <3>1. /\ iter = NumFormulas + 1 /\ iter' = 0 /\ index' = index + 1
          /\ old_bv' = old_bv /\ new_bv' = new_bv /\ hist' = hist /\ tv' = tv
          /\ saved_states' = saved_states /\ savedHist' = savedHist
      BY <2>3 DEF EndStep, histVars
    <3>2. Len(hist) = index + 1
      BY <2>0, <3>1 DEF IInv, Idle
    <3>3. ASSUME NEW f \in Formula
          PROVE  /\ Len(tv[f]) = index + 1
                 /\ ~(f < 0)
      BY <2>0, <3>1 DEF IInv, Formula
    <3>4. SavedInv'
      BY <3>1 DEF IInv, SavedInv
    <3>5. QED
      BY <2>0, <3>1, <3>2, <3>3, <3>4 DEF IInv, Idle
  <2>4. CASE ResetEvaluator
    <3>1. /\ iter = 0 /\ iter' = 0 /\ index' = 0
          /\ old_bv' = Cleared /\ new_bv' = Cleared
          /\ hist' = << >> /\ tv' = [f \in Formula |-> << >>]
          /\ saved_states' = saved_states /\ savedHist' = savedHist
      BY <2>4 DEF ResetEvaluator, Idle
    <3>2. SavedInv'
      BY <3>1 DEF IInv, SavedInv
    <3>3. QED
      BY <3>1, <3>2, EmptyFaithful DEF IInv, Idle, Cleared, Formula
  <2>5. ASSUME NEW id \in SnapId, SaveState(id) PROVE IInv'
    <3>1. /\ iter = 0 /\ iter' = iter /\ index' = index /\ tv' = tv
          /\ old_bv' = old_bv /\ new_bv' = new_bv /\ state' = state
          /\ hist' = hist
      BY <2>5 DEF SaveState, Idle
    <3>2. ASSUME NEW i \in SnapId, saved_states'[i].saved
          PROVE  /\ Len(savedHist'[i].hist) = saved_states'[i].index
                 /\ saved_states'[i].new_bv = Cleared
                 /\ \A f \in Formula :
                      /\ Len(savedHist'[i].tv[f]) = saved_states'[i].index
                      /\ saved_states'[i].old_bv[f] =
                           BitsAfter(f, savedHist'[i].tv[f])
                      /\ Faithful(f, savedHist'[i].tv[f], savedHist'[i].hist)
      <4>1. CASE i = id
        <5>1. saved_states'[id] = [saved |-> TRUE, index |-> index,
                                   old_bv |-> old_bv, new_bv |-> new_bv]
          BY <2>0, <2>5 DEF SaveState, TypeOK
        <5>2. savedHist'[id] = [saved |-> TRUE, hist |-> hist, tv |-> tv]
          BY <2>0, <2>5 DEF SaveState, TypeOK
        <5>3. /\ Len(hist) = index /\ new_bv = Cleared
              /\ \A f \in Formula : Len(tv[f]) = index
          BY <2>0, <3>1 DEF IInv, Idle, Formula
        <5>4. QED
          BY <4>1, <5>1, <5>2, <5>3 DEF IInv
      <4>2. CASE i # id
        <5>1. saved_states'[i] = saved_states[i] /\ savedHist'[i] = savedHist[i]
          BY <2>0, <2>5, <4>2 DEF SaveState, TypeOK
        <5>2. QED
          BY <3>2, <5>1 DEF IInv, SavedInv
      <4>3. QED
        BY <4>1, <4>2
    <3>3. SavedInv'
      BY <3>2 DEF SavedInv
    <3>4. QED
      BY <3>1, <3>3 DEF IInv, Idle
  <2>6. ASSUME NEW id \in SnapId, RestoreState(id) PROVE IInv'
    <3>1. /\ iter = 0 /\ iter' = 0 /\ saved_states[id].saved
          /\ index' = saved_states[id].index
          /\ old_bv' = saved_states[id].old_bv
          /\ new_bv' = saved_states[id].new_bv
          /\ hist' = savedHist[id].hist /\ tv' = savedHist[id].tv
          /\ saved_states' = saved_states /\ savedHist' = savedHist
      BY <2>6 DEF RestoreState, Idle
    <3>2. SavedInv'
      BY <3>1 DEF IInv, SavedInv
    <3>3. index' \in Nat /\ \A f \in Formula : ~(f < 0)
      BY <2>0 DEF TypeOK, Formula
    <3>4. /\ Len(hist') = index' /\ new_bv' = Cleared
          /\ \A f \in Formula :
               /\ Len(tv'[f]) = index'
               /\ old_bv'[f] = BitsAfter(f, tv'[f])
               /\ Faithful(f, tv'[f], hist')
      BY <3>1 DEF IInv, SavedInv
    <3>5. QED
      BY <3>1, <3>2, <3>3, <3>4 DEF IInv, Idle
  <2>7. CASE UNCHANGED vars
    BY <2>7 DEF vars, evalVars, histVars, IInv, SavedInv, Idle
  <2>8. QED
    BY <2>1, <2>2, <2>3, <2>4, <2>5, <2>6, <2>7 DEF Next
<1>3. QED
  BY <1>1, <1>2, TypeCorrect, PTL DEF Spec

\* What EvaluateFormula returns for a formula is its past-time meaning, for
\* every formula in which Y is not put directly over a comparison, however
\* saves, restores and ends of session are interleaved with the events.
THEOREM SemanticsCorrect == Spec => []PastTimeSemantics
<1>1. IInv => PastTimeSemantics
  BY DEF IInv, PastTimeSemantics, Faithful
<1>2. QED
  BY <1>1, IndInv, PTL

-----------------------------------------------------------------------------
(* From the values of the roots to the vector the main loop receives. *)

\* The vector under construction holds the roots of the formulas done.
ResultInv ==
  ~Idle => /\ Len(result) = iter - 1
           /\ \A f \in Formula :
                f < iter => (result[f] <=> 0 \in tv[f][index + 1])

VInv == ResultInv /\ VerdictsOfLastEvent

\* The vector under construction and the finished one are right, by induction.
LEMMA ResultsKept == Spec => []VInv
<1>1. Init => VInv
  BY DEF Init, VInv, ResultInv, VerdictsOfLastEvent, Idle
<1>2. VInv /\ IInv /\ [Next]_vars => VInv'
  <2> SUFFICES ASSUME ResultInv, VerdictsOfLastEvent, IInv, [Next]_vars
               PROVE  VInv'
    BY DEF VInv
  <2> USE DEF VInv
  <2>0. /\ NumFormulas \in Nat /\ index \in Nat /\ iter \in Nat
        /\ result \in Seq(BOOLEAN) /\ Len(result) \in Nat
        /\ \A f \in Formula : tv[f] \in Seq(SUBSET Nat) /\ Len(tv[f]) \in Nat
    BY FormulaType, LenProperties DEF IInv, TypeOK
  <2>1. ASSUME NEW e \in Event, BeginStep(e) PROVE VInv'
    BY <2>0, <2>1 DEF BeginStep, ResultInv, VerdictsOfLastEvent, Idle, Formula
  <2>2. CASE StepFormula
    <3>1. PICK v \in SUBSET Visited(iter) :
            /\ result' = Append(result, 0 \in v)
            /\ tv' = [tv EXCEPT ![iter] = Append(@, v)]
      BY <2>2 DEF StepFormula, ClearBv
    <3>2. /\ iter \in Formula /\ iter' = iter + 1 /\ index' = index
          /\ verdicts' = verdicts /\ v \in SUBSET Nat
          /\ iter # 0 /\ iter' # 0
      BY <2>2, <2>0, FormulaType DEF StepFormula, ClearBv, Formula
    <3>3. /\ tv'[iter] = Append(tv[iter], v)
          /\ Len(tv[iter]) = index
          /\ \A f \in Formula \ {iter} : tv'[f] = tv[f]
      BY <2>0, <3>1, <3>2 DEF IInv, TypeOK
    <3>4. /\ tv'[iter][index + 1] = v
          /\ \A i \in 1..index : tv'[iter][i] = tv[iter][i]
      BY <2>0, <3>2, <3>3, AppendProperties
    <3>5. /\ Len(result') = iter
          /\ result'[iter] = (0 \in v)
          /\ \A f \in 1..(iter - 1) : result'[f] = result[f]
      <4>1. Len(result) = iter - 1
        BY <3>2 DEF ResultInv, Idle
      <4>2. (0 \in v) \in BOOLEAN
        OBVIOUS
      <4>3. QED
        BY <2>0, <3>1, <4>1, <4>2, AppendProperties
    <3>6. ASSUME NEW f \in Formula, f < iter'
          PROVE  result'[f] <=> 0 \in tv'[f][index + 1]
      <4>1. CASE f = iter
        BY <3>4, <3>5, <4>1
      <4>2. CASE f # iter
        <5>1. f < iter /\ f \in 1..(iter - 1)
          BY <2>0, <3>2, <3>6, <4>2 DEF Formula
        <5>2. result[f] <=> 0 \in tv[f][index + 1]
          BY <3>2, <5>1 DEF ResultInv, Idle
        <5>3. result'[f] = result[f] /\ tv'[f] = tv[f]
          BY <3>3, <3>5, <4>2, <5>1
        <5>4. QED
          BY <5>2, <5>3
      <4>3. QED
        BY <4>1, <4>2
    <3>7. ResultInv'
      BY <2>0, <3>2, <3>5, <3>6 DEF ResultInv
    <3>8. \A f \in Formula : index > 0 => tv'[f][index] = tv[f][index]
      BY <2>0, <3>3, <3>4
    <3>9. VerdictsOfLastEvent'
      BY <3>2, <3>8 DEF VerdictsOfLastEvent
    <3>10. QED
      BY <3>7, <3>9
  <2>3. CASE EndStep
    <3>1. /\ iter = NumFormulas + 1 /\ iter' = 0 /\ index' = index + 1
          /\ verdicts' = result /\ tv' = tv
      BY <2>3 DEF EndStep, histVars
    <3>2. \A f \in Formula : f < iter
      BY <2>0, <3>1 DEF Formula
    <3>3. QED
      BY <2>0, <3>1, <3>2 DEF ResultInv, VerdictsOfLastEvent, Idle
  <2>4. CASE ResetEvaluator
    BY <2>4 DEF ResetEvaluator, ResultInv, VerdictsOfLastEvent, Idle
  <2>5. ASSUME NEW id \in SnapId, SaveState(id) PROVE VInv'
    BY <2>5 DEF SaveState, ResultInv, VerdictsOfLastEvent, Idle
  <2>6. ASSUME NEW id \in SnapId, RestoreState(id) PROVE VInv'
    BY <2>6 DEF RestoreState, ResultInv, VerdictsOfLastEvent, Idle
  <2>7. CASE UNCHANGED vars
    BY <2>7 DEF vars, evalVars, histVars, ResultInv, VerdictsOfLastEvent, Idle
  <2>8. QED
    BY <2>1, <2>2, <2>3, <2>4, <2>5, <2>6, <2>7 DEF Next
<1>3. QED
  BY <1>1, <1>2, IndInv, PTL DEF Spec

\* The verdict vector of an event has one entry per formula, in order, and
\* entry f is the value of the root of f at that event.
THEOREM VerdictsCorrect == Spec => []VerdictsOfLastEvent
BY ResultsKept, PTL DEF VInv

-----------------------------------------------------------------------------
(* The meaning of a formula over a history, which HistoryMonitor defines by  *)
(* recursion over the nodes, and the values the evaluator computed.          *)

\* Every nonempty set of numbers has a smallest element.
LEMMA SmallestOf ==
  ASSUME NEW T \in SUBSET Nat, T # {}
  PROVE  \E x \in T : \A y \in T : x <= y
<1> DEFINE Less == OpToRel(<, Nat)
<1>1. IsWellFoundedOn(Less, Nat)
  BY NatLessThanWellFounded
<1>2. \A x, y \in Nat : x < y => <<x, y>> \in Less
  BY DEF OpToRel
<1> HIDE DEF Less
<1>3. PICK x \in T : \A y \in T : ~(<<y, x>> \in Less)
  BY <1>1, WFMin
<1>4. ASSUME NEW y \in T PROVE x <= y
  <2>1. x \in Nat /\ y \in Nat /\ ~(y < x)
    BY <1>2, <1>3
  <2>2. QED
    BY <2>1
<1>5. QED
  BY <1>4

\* P is what the past-time operators make of h, node by node.
IsMeaning(f, P, h) ==
  P = [n \in Visited(f) |-> {i \in 1..Len(h) : PastMeaning(f, n, P, i, h)}]

\* What an operator means depends on its arguments only.
LEMMA MeaningOfArguments ==
  ASSUME NEW f \in Formula, NEW n \in Visited(f), NEW P, NEW Q, NEW h, NEW i,
         Kind(f, n) \in Unary \cup Binary => P[L(f, n)] = Q[L(f, n)],
         Kind(f, n) \in Binary => P[R(f, n)] = Q[R(f, n)]
  PROVE  PastMeaning(f, n, P, i, h) <=> PastMeaning(f, n, Q, i, h)
<1>1. CASE Kind(f, n) \in Unary
  BY <1>1 DEF PastMeaning, Unary
<1>2. CASE Kind(f, n) \in Binary
  BY <1>2 DEF PastMeaning, Binary
<1>3. CASE Kind(f, n) \notin Unary \cup Binary
  BY <1>3 DEF PastMeaning, Unary, Binary
<1>4. QED
  BY <1>1, <1>2, <1>3

\* There is one meaning: at the last node where two differ, the arguments come
\* later (PreProcess) and agree.
LEMMA OneMeaning ==
  ASSUME NEW f \in Formula, NEW h, NEW P, NEW Q, IsMeaning(f, P, h), IsMeaning(f, Q, h)
  PROVE  P = Q
<1> DEFINE D == {n \in Visited(f) : P[n] # Q[n]}
           T == {Size[f] - n : n \in D}
<1>1. /\ Size[f] \in Nat \ {0} /\ Visited(f) \subseteq Serials(f)
      /\ \A n \in Visited(f) : n \in Nat /\ Size[f] - n \in Nat
  BY PreProcess, FormulaType DEF Serials
<1>2. CASE D # {}
  <2>1. T \in SUBSET Nat /\ T # {}
    BY <1>1, <1>2
  <2>2. PICK x \in T : \A y \in T : x <= y
    BY <2>1, SmallestOf
  <2>3. PICK n \in D : x = Size[f] - n
    OBVIOUS
  <2>4. ASSUME NEW m \in Visited(f), m > n PROVE P[m] = Q[m]
    <3>1. CASE m \in D
      <4>1. Size[f] - n <= Size[f] - m
        BY <2>2, <2>3, <3>1
      <4>2. QED
        BY <1>1, <2>4, <4>1
    <3>2. QED
      BY <3>1
  <2>5. /\ Kind(f, n) \in Unary \cup Binary => L(f, n) \in Visited(f) /\ L(f, n) > n
        /\ Kind(f, n) \in Binary => R(f, n) \in Visited(f) /\ R(f, n) > n
    BY <1>1, PreProcess
  <2>6. \A i : PastMeaning(f, n, P, i, h) <=> PastMeaning(f, n, Q, i, h)
    BY <2>4, <2>5, MeaningOfArguments
  <2>7. P[n] = Q[n]
    BY <2>6 DEF IsMeaning
  <2>8. QED
    BY <2>7
<1>3. CASE D = {}
  <2>1. \A n \in Visited(f) : P[n] = Q[n]
    BY <1>3
  <2> HIDE DEF D, T
  <2>2. /\ P = [n \in Visited(f) |-> P[n]]
        /\ Q = [n \in Visited(f) |-> Q[n]]
    BY DEF IsMeaning
  <2>3. QED
    BY <2>1, <2>2
<1>4. QED
  BY <1>2, <1>3

\* HistoryMonitor speaks of the formulas the evaluator has.
LEMMA SameFormulas ==
  /\ History!Formula = Formula
  /\ \A f : History!Visited(f) = Visited(f)
  /\ \A f, n, P, i, h : History!PastMeaning(f, n, P, i, h) <=> PastMeaning(f, n, P, i, h)
<1>1. History!Formula = Formula
  BY DEF History!Formula, Formula
<1>2. \A f : History!Visited(f) = Visited(f)
  BY DEF History!Visited, Visited, History!VisitedSerials, VisitedSerials, History!Formula,
         Formula, History!Kind, Kind, History!L, L, History!R, R, History!Serials, Serials,
         History!Comparison, Comparison
<1>3. \A f, n, e : History!EvaluatePredicate(f, n, e) <=> EvaluatePredicate(f, n, e)
  BY DEF History!EvaluatePredicate, EvaluatePredicate, History!OperandText, OperandText,
         History!Kind, Kind, History!L, L, History!R, R
<1>4. \A f, n, P, i, h : History!PastMeaning(f, n, P, i, h) <=> PastMeaning(f, n, P, i, h)
  BY <1>3 DEF History!PastMeaning, PastMeaning, History!Kind, Kind, History!L, L, History!R, R
<1>5. QED
  BY <1>1, <1>2, <1>4

\* The values the evaluator computed are the meaning, which therefore exists.
LEMMA ValuesAreMeaning ==
  ASSUME NEW f \in Formula, NEW t \in Seq(SUBSET Nat), NEW h,
         Len(t) = Len(h), YesterdayOfStoredBit(f), Faithful(f, t, h)
  PROVE  History!Meaning(f, h) = TruePositions(f, t)
<1> DEFINE P == TruePositions(f, t)
<1>1. \A i \in 1..Len(h) : \A n \in Visited(f) : n \in t[i] <=> PastMeaning(f, n, P, i, h)
  BY DEF Faithful
<1>2. P = [n \in Visited(f) |-> {i \in 1..Len(h) : n \in t[i]}]
  BY DEF TruePositions
<1> HIDE DEF P
<1>3. IsMeaning(f, P, h)
  BY <1>1, <1>2 DEF IsMeaning
<1>4. History!Meaning(f, h) = CHOOSE Q : IsMeaning(f, Q, h)
  BY SameFormulas DEF History!Meaning, IsMeaning
<1>5. IsMeaning(f, CHOOSE Q : IsMeaning(f, Q, h), h)
  BY <1>3
<1>6. (CHOOSE Q : IsMeaning(f, Q, h)) = P
  BY <1>3, <1>5, OneMeaning
<1>7. QED
  BY <1>4, <1>6 DEF P

-----------------------------------------------------------------------------
(* The evaluator implements HistoryMonitor. *)

\* The events evaluated so far, what History calls events.
Evaluated == IF Idle THEN hist ELSE SubSeq(hist, 1, Len(hist) - 1)
Kept      == [id \in SnapId |-> IF savedHist[id].saved THEN {savedHist[id].hist} ELSE {}]

\* All but the last of an appended sequence is the sequence.
LEMMA AllButLast ==
  ASSUME NEW S, NEW s \in Seq(S), NEW e \in S
  PROVE  SubSeq(Append(s, e), 1, Len(Append(s, e)) - 1) = s
<1> DEFINE t == Append(s, e)
           u == SubSeq(t, 1, Len(t) - 1)
<1>1. /\ Len(s) \in Nat /\ t \in Seq(S) /\ Len(t) = Len(s) + 1
      /\ \A i \in 1..Len(s) : t[i] = s[i]
  BY AppendProperties, LenProperties
<1> HIDE DEF t
<1>2. Len(t) - 1 = Len(s) /\ \A i \in 1..Len(s) : t[i] \in S
  BY <1>1, ElementOfSeq
<1>3. /\ u \in Seq(S) /\ Len(u) = IF 1 <= Len(s) THEN Len(s) - 1 + 1 ELSE 0
      /\ \A i \in 1 .. Len(s) - 1 + 1 : u[i] = t[1 + i - 1]
  BY <1>1, <1>2, SubSeqProperties
<1> HIDE DEF u
<1>4. Len(u) = Len(s) /\ \A i \in 1..Len(s) : u[i] = s[i]
  BY <1>1, <1>3
<1>5. u = s
  BY <1>3, <1>4, SeqEqual
<1>6. QED
  BY <1>5 DEF t, u

\* A nonempty sequence is all but its last, with the last appended.
LEMMA LastAppended ==
  ASSUME NEW S, NEW s \in Seq(S), s # << >>
  PROVE  s = Append(SubSeq(s, 1, Len(s) - 1), s[Len(s)]) /\ s[Len(s)] \in S
<1> DEFINE k == Len(s) - 1
           u == SubSeq(s, 1, k)
           t == Append(u, s[Len(s)])
<1>1. Len(s) \in Nat /\ Len(s) # 0 /\ \A i \in 1..Len(s) : s[i] \in S
  BY LenProperties, EmptySeq, ElementOfSeq
<1>2. k \in Nat /\ k + 1 = Len(s) /\ \A i \in 1..k : s[i] \in S
  BY <1>1
<1> HIDE DEF k
<1>3. u \in Seq(S) /\ Len(u) = k /\ \A i \in 1..k : u[i] = s[i]
  <2>1. /\ u \in Seq(S) /\ Len(u) = IF 1 <= k THEN k - 1 + 1 ELSE 0
        /\ \A i \in 1 .. k - 1 + 1 : u[i] = s[1 + i - 1]
    BY <1>2, SubSeqProperties
  <2> HIDE DEF u
  <2>2. QED
    BY <1>2, <2>1
<1> HIDE DEF u
<1>4. Len(s) \in 1..Len(s) /\ s[Len(s)] \in S
  BY <1>1
<1>5. /\ t \in Seq(S) /\ Len(t) = Len(s)
      /\ \A i \in 1..k : t[i] = s[i]
      /\ t[Len(s)] = s[Len(s)]
  BY <1>2, <1>3, <1>4, AppendProperties
<1> HIDE DEF t
<1>6. \A i \in 1..Len(s) : t[i] = s[i]
  BY <1>1, <1>2, <1>5
<1>7. t = s
  BY <1>5, <1>6, SeqEqual
<1>8. QED
  BY <1>4, <1>7 DEF t, u, k

\* The vector EvaluateOneStep returns is the verdict on the events.
LEMMA ResultIsVerdict ==
  ASSUME \A f \in Formula : YesterdayOfStoredBit(f),
         IInv, ResultInv, iter = NumFormulas + 1
  PROVE  result = History!Verdict(hist)
<1>1. /\ NumFormulas \in Nat /\ index \in Nat /\ ~Idle /\ result \in Seq(BOOLEAN)
      /\ \A f \in Formula : f < iter
  BY FormulaType DEF IInv, TypeOK, Idle, Formula
<1>2. /\ Len(hist) = index + 1 /\ Len(result) = NumFormulas
      /\ \A f \in Formula : result[f] <=> 0 \in tv[f][index + 1]
  BY <1>1 DEF IInv, ResultInv
<1>3. ASSUME NEW f \in Formula
      PROVE  result[f] = (Len(hist) \in History!Meaning(f, hist)[0])
  <2>1. /\ tv[f] \in Seq(SUBSET Nat) /\ Len(tv[f]) = index + 1 /\ Faithful(f, tv[f], hist)
    BY <1>1, <1>3 DEF IInv, TypeOK
  <2>2. History!Meaning(f, hist) = TruePositions(f, tv[f])
    BY <1>2, <2>1, ValuesAreMeaning
  <2>3. 0 \in Visited(f)
    BY PreProcess
  <2>4. Len(hist) \in TruePositions(f, tv[f])[0] <=> 0 \in tv[f][index + 1]
    BY <1>1, <1>2, <2>1, <2>3 DEF TruePositions
  <2>5. result[f] \in BOOLEAN
    BY <1>1, <1>2, ElementOfSeq DEF Formula
  <2>6. QED
    BY <1>2, <2>2, <2>4, <2>5
<1>4. result = [f \in Formula |-> result[f]]
  BY <1>1, <1>2 DEF Formula
<1>5. History!Verdict(hist) = [f \in Formula |-> Len(hist) \in History!Meaning(f, hist)[0]]
  BY SameFormulas DEF History!Verdict
<1>6. QED
  BY <1>3, <1>4, <1>5

\* EndStep, reset, save and restore are steps of HistoryMonitor, the others
\* stutter.
LEMMA StepImplements ==
  ASSUME \A f \in Formula : YesterdayOfStoredBit(f), IInv, IInv', ResultInv, [Next]_vars
  PROVE  [History!Next]_History!vars
<1> DEFINE same == Evaluated' = Evaluated /\ verdicts' = verdicts /\ Kept' = Kept
<1>0. hist \in Seq(Event) /\ savedHist \in [SnapId -> SavedHistory \cup {NotSaved}]
  BY DEF IInv, TypeOK
<1>s. same => UNCHANGED History!vars
  BY DEF History!vars, Evaluated, Kept
<1>1. ASSUME NEW e \in Event, BeginStep(e) PROVE same
  <2>1. /\ iter = 0 /\ iter' = 1 /\ hist' = Append(hist, e)
        /\ UNCHANGED <<verdicts, savedHist>>
    BY <1>1 DEF BeginStep, Idle
  <2>2. SubSeq(hist', 1, Len(hist') - 1) = hist
    BY <1>0, <2>1, AllButLast
  <2>3. QED
    BY <2>1, <2>2 DEF Evaluated, Kept, Idle
<1>2. StepFormula => same
  <2> SUFFICES ASSUME StepFormula PROVE same
    OBVIOUS
  <2>1. UNCHANGED <<hist, verdicts, savedHist>> /\ iter # 0 /\ iter' # 0
    BY FormulaType DEF StepFormula, Formula
  <2>2. QED
    BY <2>1 DEF Evaluated, Kept, Idle
<1>3. EndStep => History!Next
  <2> SUFFICES ASSUME EndStep PROVE History!Next
    OBVIOUS
  <2>1. /\ iter = NumFormulas + 1 /\ iter' = 0 /\ verdicts' = result
        /\ UNCHANGED <<hist, savedHist>>
    BY DEF EndStep, histVars
  <2>2. /\ ~Idle /\ Idle' /\ Len(hist) = index + 1 /\ index \in Nat
    BY <2>1, FormulaType DEF Idle, IInv, TypeOK
  <2>3. hist # << >>
    BY <1>0, <2>2, EmptySeq
  <2>4. hist = Append(SubSeq(hist, 1, Len(hist) - 1), hist[Len(hist)]) /\ hist[Len(hist)] \in Event
    BY <1>0, <2>3, LastAppended
  <2>5. verdicts' = History!Verdict(hist')
    BY <2>1, ResultIsVerdict
  <2>6. /\ Evaluated' = Append(Evaluated, hist[Len(hist)])
        /\ Evaluated' = hist' /\ Kept' = Kept
    BY <2>1, <2>2, <2>4 DEF Evaluated, Kept
  <2>7. History!Observe(hist[Len(hist)])
    BY <2>5, <2>6 DEF History!Observe, Evaluated, Kept
  <2>8. QED
    BY <2>4, <2>7 DEF History!Next
<1>4. ResetEvaluator => History!Next
  <2> SUFFICES ASSUME ResetEvaluator PROVE History!Next
    OBVIOUS
  <2>1. Idle' /\ hist' = << >> /\ verdicts' = << >> /\ UNCHANGED savedHist
    BY DEF ResetEvaluator, Idle
  <2>2. History!Reset
    BY <2>1 DEF History!Reset
  <2>3. QED
    BY <2>2 DEF History!Next
<1>5. ASSUME NEW id \in SnapId, SaveState(id) PROVE History!Next
  <2>1. /\ Idle /\ Idle' /\ verdicts' = << >> /\ UNCHANGED hist
        /\ savedHist' = [savedHist EXCEPT ![id] = [saved |-> TRUE, hist |-> hist, tv |-> tv]]
    BY <1>5 DEF SaveState, Idle
  <2>2. savedHist'[id].saved /\ savedHist'[id].hist = hist
    BY <1>0, <2>1
  <2>3. \A j \in SnapId \ {id} : savedHist'[j] = savedHist[j]
    BY <1>0, <2>1
  <2>4. Kept' = [Kept EXCEPT ![id] = {hist}]
    BY <2>2, <2>3 DEF Kept
  <2>5. History!Save(id)
    BY <2>1, <2>4 DEF History!Save, Kept
  <2>6. QED
    BY <2>5 DEF History!Next
<1>6. ASSUME NEW id \in SnapId, RestoreState(id) PROVE History!Next
  <2>1. /\ Idle /\ Idle' /\ verdicts' = << >> /\ UNCHANGED savedHist
        /\ hist' = savedHist[id].hist /\ saved_states[id].saved
    BY <1>6 DEF RestoreState, Idle
  <2>2. savedHist[id].saved
    BY <2>1 DEF IInv, TypeOK
  <2>3. History!Restore(id)
    BY <2>1, <2>2 DEF History!Restore
  <2>4. QED
    BY <2>3 DEF History!Next
<1>7. UNCHANGED vars => same
  BY DEF vars, evalVars, histVars, Evaluated, Kept, Idle
<1>8. QED
  BY <1>s, <1>1, <1>2, <1>3, <1>4, <1>5, <1>6, <1>7 DEF Next

\* One bit per node and a counter do what remembering the whole session would:
\* the evaluator implements HistoryMonitor when no formula puts Y directly over
\* a comparison.  EvaluateOneStep is a step of it when it returns.
THEOREM ImplementsHistoryMonitor ==
  ASSUME \A f \in Formula : YesterdayOfStoredBit(f)
  PROVE  Spec => ImplementsHistory
<1>1. Init => History!Init
  <2> SUFFICES ASSUME Init PROVE History!Init
    OBVIOUS
  <2>1. /\ iter = 0 /\ hist = << >> /\ verdicts = << >>
        /\ savedHist = [id \in SnapId |-> NotSaved]
    BY DEF Init
  <2>2. ~NotSaved.saved
    BY DEF NotSaved
  <2>3. QED
    BY <2>1, <2>2 DEF History!Init, Idle
<1>2. IInv /\ IInv' /\ ResultInv /\ [Next]_vars => [History!Next]_History!vars
  BY StepImplements
<1>3. Spec => [](IInv /\ ResultInv)
  BY IndInv, ResultsKept, PTL DEF VInv
<1>4. QED
  BY <1>1, <1>2, <1>3, PTL DEF Spec, ImplementsHistory, History!Spec

-----------------------------------------------------------------------------
(* A formula H(...) that has been false stays false. *)

Persists(f, t) ==
  Kind(f, 0) = "H" => \A i, j \in 1..Len(t) : i < j /\ 0 \in t[j] => 0 \in t[i]

PersistInv ==
  /\ \A f \in Formula : Persists(f, tv[f])
  /\ \A id \in SnapId : savedHist[id].saved =>
       \A f \in Formula : Persists(f, savedHist[id].tv[f])

\* One more evaluation of H(...) is true only if the one before it was.
LEMMA PersistsOnceMore ==
  ASSUME NEW f \in Formula, NEW t \in Seq(SUBSET Nat), NEW v \in SUBSET Visited(f), NEW e,
         Persists(f, t), IsEvaluation(f, v, BitsAfter(f, t), Len(t), e)
  PROVE  Persists(f, Append(t, v))
<1> SUFFICES ASSUME Kind(f, 0) = "H",
                    NEW i \in 1..Len(Append(t, v)), NEW j \in 1..Len(Append(t, v)),
                    i < j, 0 \in Append(t, v)[j]
             PROVE  0 \in Append(t, v)[i]
  BY DEF Persists
<1> DEFINE u == Append(t, v)
<1>1. v \in SUBSET Nat /\ 0 \in Visited(f)
  BY FormulaType, PreProcess
<1>2. /\ Len(t) \in Nat /\ Len(u) = Len(t) + 1 /\ u[Len(t) + 1] = v
      /\ \A k \in 1..Len(t) : u[k] = t[k]
  BY <1>1, AppendProperties, LenProperties
<1>3. 0 \in v => Len(t) = 0 \/ 0 \in BitsAfter(f, t)
  BY <1>1 DEF IsEvaluation, EvaluateFormula, EvaluateH
<1>4. 0 \in BitsAfter(f, t) => 0 \in t[Len(t)]
  BY DEF BitsAfter, BitsSet
<1> HIDE DEF u
<1>5. i \in 1..Len(t) /\ u[i] = t[i]
  BY <1>2 DEF u
<1>6. CASE j = Len(t) + 1
  <2>1. 0 \in t[Len(t)] /\ Len(t) \in 1..Len(t)
    BY <1>2, <1>3, <1>4, <1>5, <1>6 DEF u
  <2>2. 0 \in t[i]
    <3>1. CASE i = Len(t)
      BY <2>1, <3>1
    <3>2. CASE i < Len(t)
      BY <1>5, <2>1, <3>2 DEF Persists
    <3>3. QED
      BY <1>2, <1>5, <3>1, <3>2
  <2>3. QED
    BY <1>5, <2>2 DEF u
<1>7. CASE j # Len(t) + 1
  <2>1. j \in 1..Len(t) /\ 0 \in t[j]
    BY <1>2, <1>7 DEF u
  <2>2. QED
    BY <1>5, <2>1 DEF Persists, u
<1>8. QED
  BY <1>6, <1>7

\* A step keeps PersistInv: an event that makes H(...) true had a true
\* predecessor.
LEMMA PersistKept ==
  ASSUME IInv, PersistInv, [Next]_vars PROVE PersistInv'
<1>0. /\ tv \in [Formula -> Seq(SUBSET Nat)]
      /\ savedHist \in [SnapId -> SavedHistory \cup {NotSaved}]
  BY DEF IInv, TypeOK
<1>k. UNCHANGED <<tv, savedHist>> => PersistInv'
  BY DEF PersistInv
<1>1. ASSUME NEW e \in Event, BeginStep(e) PROVE PersistInv'
  BY <1>1, <1>k DEF BeginStep
<1>2. CASE StepFormula
  <2>1. PICK v \in SUBSET Visited(iter) :
          /\ IsEvaluation(iter, v, old_bv[iter], index, state)
          /\ tv' = [tv EXCEPT ![iter] = Append(@, v)]
    BY <1>2 DEF StepFormula
  <2>2. iter \in Formula /\ UNCHANGED savedHist
    BY <1>2 DEF StepFormula
  <2>3. Len(tv[iter]) = index /\ old_bv[iter] = BitsAfter(iter, tv[iter])
    <3>1. /\ Len(tv[iter]) = index + (IF iter < iter THEN 1 ELSE 0)
          /\ old_bv[iter] = BitsAfter(iter, tv[iter])
      BY <2>2 DEF IInv
    <3>2. iter \in Nat /\ index \in Nat
      BY <2>2 DEF IInv, TypeOK, Formula
    <3>3. QED
      BY <3>1, <3>2
  <2>4. Persists(iter, Append(tv[iter], v))
    BY <1>0, <2>1, <2>2, <2>3, PersistsOnceMore DEF PersistInv
  <2>5. tv'[iter] = Append(tv[iter], v) /\ \A f \in Formula \ {iter} : tv'[f] = tv[f]
    BY <1>0, <2>1, <2>2
  <2>6. \A f \in Formula : Persists(f, tv'[f])
    BY <2>4, <2>5 DEF PersistInv
  <2>7. QED
    BY <2>2, <2>6 DEF PersistInv
<1>3. CASE EndStep
  BY <1>3, <1>k DEF EndStep, histVars
<1>4. CASE ResetEvaluator
  <2>1. tv' = [f \in Formula |-> << >>] /\ UNCHANGED savedHist
    BY <1>4 DEF ResetEvaluator
  <2>2. \A f \in Formula : Persists(f, << >>)
    BY EmptySeq DEF Persists
  <2>3. QED
    BY <2>1, <2>2 DEF PersistInv
<1>5. ASSUME NEW id \in SnapId, SaveState(id) PROVE PersistInv'
  <2>1. /\ UNCHANGED tv
        /\ savedHist' = [savedHist EXCEPT ![id] = [saved |-> TRUE, hist |-> hist, tv |-> tv]]
    BY <1>5 DEF SaveState
  <2>2. savedHist'[id].tv = tv /\ \A j \in SnapId \ {id} : savedHist'[j] = savedHist[j]
    BY <1>0, <2>1
  <2>3. QED
    BY <2>1, <2>2 DEF PersistInv
<1>6. ASSUME NEW id \in SnapId, RestoreState(id) PROVE PersistInv'
  <2>1. tv' = savedHist[id].tv /\ saved_states[id].saved /\ UNCHANGED savedHist
    BY <1>6 DEF RestoreState
  <2>2. savedHist[id].saved
    BY <2>1 DEF IInv, TypeOK
  <2>3. QED
    BY <2>1, <2>2 DEF PersistInv
<1>7. CASE UNCHANGED vars
  BY <1>7, <1>k DEF vars, histVars
<1>8. QED
  BY <1>1, <1>2, <1>3, <1>4, <1>5, <1>6, <1>7 DEF Next

\* Once false, H(...) is false for the rest of the session, also in a saved
\* state.
LEMMA HistoricallyPersists == Spec => []PersistInv
<1>1. Init => PersistInv
  <2>1. \A f \in Formula : Persists(f, << >>)
    BY EmptySeq DEF Persists
  <2>2. QED
    BY <2>1 DEF Init, PersistInv, NotSaved
<1>2. IInv /\ PersistInv /\ [Next]_vars => PersistInv'
  BY PersistKept
<1>3. QED
  BY <1>1, <1>2, IndInv, PTL DEF Spec
=============================================================================
