------------------------------ MODULE Evaluator ------------------------------
(***************************************************************************)
(* class Evaluator (evaluator.cpp): the bit vectors it keeps between events *)
(* and the loop of EvaluateOneStep, one action per formula, together with   *)
(* the save and the restore of its state that main.cpp performs through     *)
(* get_/set_index, get_/set_old_bv and get_/set_new_bv.                     *)
(*                                                                         *)
(* hist, tv and savedHist are history variables: nothing reads them but the *)
(* properties.                                                              *)
(***************************************************************************)
EXTENDS PastLTL

CONSTANTS
  Event,      \* the labellings events may carry, a subset of Labelling
  SnapId,     \* snapshot ids
  MaxEvents   \* bound: events per session explored

ASSUME EvaluatorAssumption ==
  /\ Event \subseteq Labelling
  /\ MaxEvents \in Nat

VARIABLES
  index,         \* number of events since the last reset
  old_bv,        \* old_bv[f]: serials whose bit is set, as of the last event
  new_bv,        \* new_bv[f]: bits being written by the current event
  iter,          \* formula EvaluateOneStep is at; 0 when it is not running
  state,         \* its argument; NoEvent when it is not running
  result,        \* the vector it builds
  verdicts,      \* the vector its last call returned to the main loop
  saved_states,  \* saved_states[id]: NotSaved or the saved evaluator state
  hist,          \* (history) events seen since the reset, restores undone
  tv,            \* (history) tv[f][i]: nodes of f true at the i-th of them
  savedHist      \* (history) hist and tv at the time of each save

evalVars == <<index, old_bv, new_bv, iter, state, result, verdicts>>
histVars == <<hist, tv, savedHist>>
vars     == <<evalVars, saved_states, histVars>>

NoEvent  == [event |-> "none"]
NotSaved == [saved |-> FALSE]
Cleared  == [f \in Formula |-> {}]
Idle     == iter = 0

SavedState ==
  [saved : {TRUE}, index : Nat,
   old_bv : [Formula -> SUBSET Nat], new_bv : [Formula -> SUBSET Nat]]
SavedHistory ==
  [saved : {TRUE}, hist : Seq(Event), tv : [Formula -> Seq(SUBSET Nat)]]

-----------------------------------------------------------------------------
Init ==
  /\ index = 0
  /\ old_bv = Cleared
  /\ new_bv = Cleared
  /\ iter = 0
  /\ state = NoEvent
  /\ result = << >>
  /\ verdicts = << >>
  /\ saved_states = [id \in SnapId |-> NotSaved]
  /\ hist = << >>
  /\ tv = [f \in Formula |-> << >>]
  /\ savedHist = [id \in SnapId |-> NotSaved]

\* EvaluateOneStep is called with an event on which every visit succeeds.
BeginStep(e) ==
  /\ Idle
  /\ index < MaxEvents
  /\ \A f \in Formula : Evaluable(f, e)
  /\ iter' = 1
  /\ state' = e
  /\ result' = << >>
  /\ hist' = Append(hist, e)
  /\ UNCHANGED <<index, old_bv, new_bv, verdicts, saved_states, tv, savedHist>>

\* Changed form of ClearBv: the call is dropped.
ClearBvDropped(bv, f) == bv

\* new_bv[f]->clear_bv()
ClearBv(bv, f) == [bv EXCEPT ![f] = {}]

\* One iteration of the loop: evaluate the formula into new_bv, remember the
\* verdict of its root, move new_bv to old_bv and clear new_bv.
StepFormula ==
  /\ iter \in Formula
  /\ \E v \in SUBSET Visited(iter) :
       /\ IsEvaluation(iter, v, old_bv[iter], index, state)
       /\ result' = Append(result, 0 \in v)
       /\ LET written == [new_bv EXCEPT ![iter] = @ \cup BitsSet(iter, v)]
          IN  /\ old_bv' = [old_bv EXCEPT ![iter] = written[iter]]
              /\ new_bv' = ClearBv(written, iter)
       /\ tv' = [tv EXCEPT ![iter] = Append(@, v)]
  /\ iter' = iter + 1
  /\ UNCHANGED <<index, state, verdicts, saved_states, hist, savedHist>>

\* Changed form of EndStep: index is not incremented.
EndStepSameIndex ==
  /\ iter = NumFormulas + 1
  /\ iter' = 0
  /\ state' = NoEvent
  /\ verdicts' = result
  /\ result' = << >>
  /\ UNCHANGED <<index, old_bv, new_bv, saved_states, histVars>>

\* The loop is over: ++index, return result.
EndStep ==
  /\ iter = NumFormulas + 1
  /\ iter' = 0
  /\ state' = NoEvent
  /\ index' = index + 1
  /\ verdicts' = result
  /\ result' = << >>
  /\ UNCHANGED <<old_bv, new_bv, saved_states, histVars>>

\* Changed form of ResetEvaluator: index starts below the first event.
ResetEvaluatorBelow ==
  /\ Idle
  /\ index' = -1
  /\ old_bv' = Cleared
  /\ new_bv' = Cleared
  /\ verdicts' = << >>
  /\ hist' = << >>
  /\ tv' = [f \in Formula |-> << >>]
  /\ UNCHANGED <<iter, state, result, saved_states, savedHist>>

\* reset_evaluator, at the end of a session.
ResetEvaluator ==
  /\ Idle
  /\ index' = 0
  /\ old_bv' = Cleared
  /\ new_bv' = Cleared
  /\ verdicts' = << >>
  /\ hist' = << >>
  /\ tv' = [f \in Formula |-> << >>]
  /\ UNCHANGED <<iter, state, result, saved_states, savedHist>>

\* __SAVE_STATE__: the evaluator's part of it.
SaveState(id) ==
  /\ Idle
  /\ saved_states' = [saved_states EXCEPT ![id] =
       [saved |-> TRUE, index |-> index, old_bv |-> old_bv, new_bv |-> new_bv]]
  /\ savedHist' = [savedHist EXCEPT ![id] =
       [saved |-> TRUE, hist |-> hist, tv |-> tv]]
  /\ verdicts' = << >>
  /\ UNCHANGED <<index, old_bv, new_bv, iter, state, result, hist, tv>>

\* __RESTORE_STATE__ of an id that has been saved: the evaluator's part of it.
RestoreState(id) ==
  /\ Idle
  /\ saved_states[id].saved
  /\ index' = saved_states[id].index
  /\ old_bv' = saved_states[id].old_bv
  /\ new_bv' = saved_states[id].new_bv
  /\ verdicts' = << >>
  /\ hist' = savedHist[id].hist
  /\ tv' = savedHist[id].tv
  /\ UNCHANGED <<iter, state, result, saved_states, savedHist>>

Next ==
  \/ \E e \in Event : BeginStep(e)
  \/ StepFormula
  \/ EndStep
  \/ ResetEvaluator
  \/ \E id \in SnapId : SaveState(id)
  \/ \E id \in SnapId : RestoreState(id)

Spec == Init /\ [][Next]_vars

-----------------------------------------------------------------------------
(* Properties *)

\* Every variable has its type; a saved state is a whole evaluator state.
TypeOK ==
  /\ index \in Nat
  /\ old_bv \in [Formula -> SUBSET Nat]
  /\ new_bv \in [Formula -> SUBSET Nat]
  /\ iter \in 0..(NumFormulas + 1)
  /\ state \in Event \cup {NoEvent}
  /\ result \in Seq(BOOLEAN)
  /\ verdicts \in Seq(BOOLEAN)
  /\ saved_states \in [SnapId -> SavedState \cup {NotSaved}]
  /\ hist \in Seq(Event)
  /\ tv \in [Formula -> Seq(SUBSET Nat)]
  /\ savedHist \in [SnapId -> SavedHistory \cup {NotSaved}]
  /\ \A id \in SnapId : saved_states[id].saved <=> savedHist[id].saved

\* The values EvaluateFormula returned (evaluator.cpp, the switch of
\* EvaluateFormula), event after event, are the past-time meaning of the
\* formula over the events since the session began: one bit per subformula,
\* carried from event to event and through save, restore and reset, is enough
\* for O, H, S and Y.  It holds of the formulas in which Y does not stand
\* directly over a comparison.
PastTimeSemantics ==
  \A f \in Formula : YesterdayOfStoredBit(f) =>
    \A i \in 1..Len(tv[f]) : \A n \in Visited(f) :
      n \in tv[f][i] <=> PastMeaning(f, n, TruePositions(f, tv[f]), i, hist)

\* The same for every formula, as the specification files assume when they
\* write Y over a comparison.
PastTimeSemanticsOfAll ==
  \A f \in Formula :
    \A i \in 1..Len(tv[f]) : \A n \in Visited(f) :
      n \in tv[f][i] <=> PastMeaning(f, n, TruePositions(f, tv[f]), i, hist)

\* The verdicts EvaluateOneStep hands to the main loop are the values of the
\* roots at the last event, in the order of the formulas, with none missing.
VerdictsOfLastEvent ==
  verdicts # << >> =>
    /\ index > 0
    /\ Len(verdicts) = NumFormulas
    /\ \A f \in Formula : verdicts[f] <=> 0 \in tv[f][index]

\* The evaluator implements HistoryMonitor (evaluator.cpp EvaluateOneStep and
\* reset_evaluator, main.cpp's save and restore): bit vectors and an index do
\* for verdicts what remembering the whole session would.
History == INSTANCE HistoryMonitor WITH
  events  <- IF Idle THEN hist ELSE SubSeq(hist, 1, Len(hist) - 1),
  verdict <- verdicts,
  kept    <- [id \in SnapId |->
                IF savedHist[id].saved THEN {savedHist[id].hist} ELSE {}]
ImplementsHistory == History!Spec

=============================================================================
