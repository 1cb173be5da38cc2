---------------------------- MODULE MonitorProofs ----------------------------
(***************************************************************************)
(* Theorems about Monitor, for any lines, protocols, snapshot ids, window   *)
(* and bounds: the main loop drives the evaluator as Evaluator allows, so   *)
(* that what EvaluatorProofs shows holds of the process, its counters and   *)
(* its trace keep in step, and a dropped violation is reported later.       *)
(***************************************************************************)
EXTENDS Monitor, EvaluatorProofs

-----------------------------------------------------------------------------
(* The main loop and the evaluator *)

\* The disjuncts of MonNext, one by one.
LEMMA MonNextCases ==
  ASSUME [MonNext]_allVars
  PROVE  \/ \E l \in Line : BeginEvent(l)
         \/ \E l \in Line : AbortOnEvent(l)
         \/ EvaluateNextFormula \/ FinishEvent
         \/ \E id \in SnapId : SaveCommand(id)
         \/ \E id \in SnapId : RestoreCommand(id)
         \/ \E id \in SnapId : RestoreUnknown(id)
         \/ EndSession \/ EndOfInput
         \/ UNCHANGED allVars
BY DEF MonNext

\* Every step of the main loop is a step of the evaluator or leaves it alone.
LEMMA MonStepIsEvaluatorStep == [MonNext]_allVars => [Next]_vars
<1> SUFFICES ASSUME [MonNext]_allVars PROVE [Next]_vars
  OBVIOUS
<1>1. ASSUME NEW l \in Line, BeginEvent(l) PROVE Next
  BY <1>1, MonitorAssumption DEF BeginEvent, Next
<1>2. ASSUME NEW l \in Line, AbortOnEvent(l) PROVE UNCHANGED vars
  BY <1>2 DEF AbortOnEvent
<1>3. EvaluateNextFormula => Next
  BY DEF EvaluateNextFormula, Next
<1>4. FinishEvent => Next
  BY DEF FinishEvent, Next
<1>5. ASSUME NEW id \in SnapId, SaveCommand(id) PROVE Next
  BY <1>5 DEF SaveCommand, Next
<1>6. ASSUME NEW id \in SnapId, RestoreCommand(id) PROVE Next
  BY <1>6 DEF RestoreCommand, Next
<1>7. ASSUME NEW id \in SnapId, RestoreUnknown(id) PROVE UNCHANGED vars
  BY <1>7 DEF RestoreUnknown
<1>8. EndSession => Next
  BY DEF EndSession, Next
<1>9. EndOfInput => UNCHANGED vars
  BY DEF EndOfInput
<1>10. UNCHANGED allVars => UNCHANGED vars
  BY DEF allVars
<1>11. QED
  BY <1>1, <1>2, <1>3, <1>4, <1>5, <1>6, <1>7, <1>8, <1>9, <1>10, MonNextCases

\* The process of main.cpp implements Evaluator: its commands and events are
\* calls of the evaluator in an order the evaluator allows.
THEOREM MonitorRunsEvaluator == MonSpec => Spec
<1>1. MonInit => Init
  BY DEF MonInit
<1>2. QED
  BY <1>1, MonStepIsEvaluatorStep, PTL DEF MonSpec, Spec

\* So the values it computes are the past-time meaning of the formulas over the
\* events of the session, with every save, restore and end of session the main
\* loop makes.
THEOREM MonitorSemantics == MonSpec => []PastTimeSemantics
BY MonitorRunsEvaluator, SemanticsCorrect, PTL

\* And, seen through its verdicts, the process is one that remembers every event
\* of the session, when no formula puts Y directly over a comparison.
THEOREM MonitorImplementsHistory ==
  ASSUME \A f \in Formula : YesterdayOfStoredBit(f)
  PROVE  MonSpec => ImplementsHistory
BY MonitorRunsEvaluator, ImplementsHistoryMonitor, PTL

-----------------------------------------------------------------------------
(* Types *)

\* The window of packet references keeps its type and its size.
LEMMA RecentTracesType ==
  ASSUME MonTypeOK, NEW l \in Line
  PROVE  /\ RecentTraces(l) \in Seq({m.ref : m \in Line})
         /\ Len(RecentTraces(l)) <= TRACE_WINDOW
<1> DEFINE all == Append(g_recent_traces, l.ref)
           S == {m.ref : m \in Line}
<1>1. g_recent_traces \in Seq(S) /\ Len(g_recent_traces) <= TRACE_WINDOW
  BY DEF MonTypeOK
<1>2. l.ref \in S
  OBVIOUS
<1> HIDE DEF S
<1>3. /\ all \in Seq(S) /\ all # << >> /\ Len(all) = Len(g_recent_traces) + 1
      /\ Len(g_recent_traces) \in Nat
  BY <1>1, <1>2, AppendProperties, LenProperties
<1> HIDE DEF all
<1>4. Tail(all) \in Seq(S) /\ Len(Tail(all)) = Len(g_recent_traces)
  BY <1>3, HeadTailProperties
<1>5. /\ RecentTraces(l) \in Seq(S)
      /\ Len(RecentTraces(l)) <= TRACE_WINDOW
  <2>1. CASE l.ref = NoRef
    BY <1>1, <2>1 DEF RecentTraces
  <2>2. CASE l.ref # NoRef /\ Len(all) > TRACE_WINDOW
    BY <1>1, <1>4, <2>2 DEF RecentTraces, all
  <2>3. CASE l.ref # NoRef /\ ~(Len(all) > TRACE_WINDOW)
    BY <1>3, <2>3, MonitorAssumption DEF RecentTraces, all
  <2>4. QED
    BY <2>1, <2>2, <2>3
<1>6. QED
  BY <1>5 DEF S

\* Truncation keeps the type and cuts to size.
LEMMA TruncateType ==
  ASSUME NEW S, NEW t \in Seq(S), NEW n \in Nat
  PROVE  Truncate(t, n) \in Seq(S) /\ Len(Truncate(t, n)) <= n
<1>1. Len(t) \in Nat
  BY LenProperties
<1>2. CASE Len(t) > n
  <2>1. \A i \in 1..n : t[i] \in S
    BY <1>1, <1>2, ElementOfSeq
  <2>2. SubSeq(t, 1, n) \in Seq(S) /\ Len(SubSeq(t, 1, n)) = n
    BY <2>1, SubSeqProperties
  <2>3. QED
    BY <1>2, <2>2 DEF Truncate
<1>3. CASE ~(Len(t) > n)
  BY <1>1, <1>3 DEF Truncate
<1>4. QED
  BY <1>2, <1>3

\* A line adds its labels to the session trace.
LEMMA TraceOfLine ==
  ASSUME MonTypeOK, NEW l \in Line
  PROVE  /\ Append(session_trace, l.kv) \in Seq({m.kv : m \in Line})
         /\ Len(Append(session_trace, l.kv)) = Len(session_trace) + 1
<1> DEFINE S == {m.kv : m \in Line}
<1>1. session_trace \in Seq(S) /\ l.kv \in S
  BY DEF MonTypeOK
<1> HIDE DEF S
<1>2. /\ Append(session_trace, l.kv) \in Seq(S)
      /\ Len(Append(session_trace, l.kv)) = Len(session_trace) + 1
  BY <1>1, AppendProperties
<1>3. QED
  BY <1>2 DEF S

\* The variables of the main loop keep their types and the window of packet
\* references its size, whatever lines arrive.
THEOREM MonTypeCorrect == MonSpec => []MonTypeOK
<1>0. MonSpec => []TypeOK
  BY MonitorRunsEvaluator, TypeCorrect, PTL
<1>1. MonInit /\ TypeOK => MonTypeOK
  <2> SUFFICES ASSUME MonInit, TypeOK PROVE MonTypeOK
    OBVIOUS
  <2>1. /\ status = "running" /\ proto_tag \in Protocols
        /\ event_count = 0 /\ session_count = 0 /\ total_violations = 0
        /\ session_trace = << >> /\ g_recent_traces = << >>
        /\ cur = NoLine /\ fresh = {}
    BY DEF MonInit
  <2>2. saved_counts \in [SnapId -> SavedCounts \cup {NotSaved}]
    BY DEF MonInit
  <2>3. lost \in BOOLEAN
    BY Zenon DEF MonInit
  <2>4. /\ session_trace \in Seq({m.kv : m \in Line})
        /\ g_recent_traces \in Seq({m.ref : m \in Line})
        /\ Len(g_recent_traces) <= TRACE_WINDOW
    BY <2>1, EmptySeq, MonitorAssumption
  <2>5. QED
    BY <2>1, <2>2, <2>3, <2>4 DEF MonTypeOK
<1>2. MonTypeOK /\ TypeOK' /\ [MonNext]_allVars => MonTypeOK'
  <2> SUFFICES ASSUME MonTypeOK, TypeOK', [MonNext]_allVars PROVE MonTypeOK'
    OBVIOUS
  <2>a. ASSUME NEW l \in Line, ReceiveEvent(l), status' \in {"running", "aborted"}
        PROVE  MonTypeOK'
    <3>1. /\ g_recent_traces' \in Seq({m.ref : m \in Line})
          /\ Len(g_recent_traces') <= TRACE_WINDOW
          /\ session_trace' \in Seq({m.kv : m \in Line})
      BY <2>a, RecentTracesType, TraceOfLine DEF ReceiveEvent
    <3>2. QED
      BY <2>a, <3>1 DEF ReceiveEvent, MonTypeOK
  <2>1. ASSUME NEW l \in Line, BeginEvent(l) PROVE MonTypeOK'
    BY <2>1, <2>a DEF BeginEvent, ReceiveEvent
  <2>2. ASSUME NEW l \in Line, AbortOnEvent(l) PROVE MonTypeOK'
    BY <2>2, <2>a DEF AbortOnEvent
  <2>3. CASE EvaluateNextFormula
    BY <2>3 DEF EvaluateNextFormula, monVars, MonTypeOK
  <2>4. CASE FinishEvent
    <3>1. total_violations' \in Nat
      BY <2>4 DEF FinishEvent, MonTypeOK
    <3>2. QED
      BY <2>4, <3>1 DEF FinishEvent, MonTypeOK
  <2>5. ASSUME NEW id \in SnapId, SaveCommand(id) PROVE MonTypeOK'
    <3>1. saved_counts' \in [SnapId -> SavedCounts \cup {NotSaved}]
      BY <2>5 DEF SaveCommand, MonTypeOK, SavedCounts
    <3>2. QED
      BY <2>5, <3>1 DEF SaveCommand, MonTypeOK
  <2>6. ASSUME NEW id \in SnapId, RestoreCommand(id) PROVE MonTypeOK'
    <3>1. saved_counts[id] \in SavedCounts
      BY <2>6 DEF RestoreCommand, MonTypeOK, NotSaved
    <3>2. event_count' \in Nat /\ session_count' \in Nat
      BY <2>6, <3>1 DEF RestoreCommand, SavedCounts
    <3>3. session_trace' \in Seq({m.kv : m \in Line})
      BY <2>6, <3>2, TruncateType DEF RestoreCommand, MonTypeOK
    <3>4. lost' \in BOOLEAN
      BY <2>6, Zenon DEF RestoreCommand
    <3>5. fresh' \subseteq SnapId
      BY <2>6 DEF RestoreCommand, UpTo, MonTypeOK
    <3>6. QED
      BY <2>6, <3>2, <3>3, <3>4, <3>5 DEF RestoreCommand, MonTypeOK
  <2>7. ASSUME NEW id \in SnapId, RestoreUnknown(id) PROVE MonTypeOK'
    BY <2>7 DEF RestoreUnknown, MonTypeOK
  <2>8. CASE EndSession
    <3>1. lost' \in BOOLEAN
      BY <2>8, Zenon DEF EndSession
    <3>2. QED
      BY <2>8, <3>1, EmptySeq DEF EndSession, MonTypeOK
  <2>9. CASE EndOfInput
    BY <2>9 DEF EndOfInput, MonTypeOK
  <2>10. CASE UNCHANGED allVars
    BY <2>10 DEF allVars, monVars, MonTypeOK
  <2>11. QED
    BY <2>1, <2>2, <2>3, <2>4, <2>5, <2>6, <2>7, <2>8, <2>9, <2>10, MonNextCases
<1>3. QED
  BY <1>0, <1>1, <1>2, PTL DEF MonSpec
-----------------------------------------------------------------------------
(* Counters and trace *)

\* The two counters of events agree in every state, and in every saved state,
\* so that a restore leaves them in agreement.
THEOREM CountsCorrect == MonSpec => []IndexIsEventCount
<1>1. MonInit => IndexIsEventCount
  <2> SUFFICES ASSUME MonInit PROVE IndexIsEventCount
    OBVIOUS
  <2>1. event_count = 0 /\ index = 0 /\ iter = 0
    BY DEF MonInit, Init
  <2>2. /\ saved_counts = [id \in SnapId |-> NotSaved]
        /\ saved_states = [id \in SnapId |-> NotSaved]
    BY DEF MonInit, Init
  <2>3. ~NotSaved.saved
    BY DEF NotSaved
  <2>4. QED
    BY <2>1, <2>2, <2>3 DEF IndexIsEventCount, Idle
<1>2. IndexIsEventCount /\ MonTypeOK /\ [MonNext]_allVars => IndexIsEventCount'
  <2> SUFFICES ASSUME IndexIsEventCount, MonTypeOK, [MonNext]_allVars
               PROVE  IndexIsEventCount'
    OBVIOUS
  <2> DEFINE Running == status = "running" =>
                          event_count = index + (IF Idle THEN 0 ELSE 1)
             Saved   == \A id \in SnapId :
                          /\ saved_counts[id].saved <=> saved_states[id].saved
                          /\ saved_counts[id].saved =>
                               saved_counts[id].event_count = saved_states[id].index
  <2>t. /\ event_count \in Nat /\ index \in Nat /\ iter \in Nat
        /\ saved_counts \in [SnapId -> SavedCounts \cup {NotSaved}]
        /\ saved_states \in [SnapId -> SavedState \cup {NotSaved}]
    BY PreProcess DEF MonTypeOK, TypeOK
  <2>k. UNCHANGED <<saved_counts, saved_states>> => Saved'
    BY DEF IndexIsEventCount
  <2>1. ASSUME NEW l \in Line, BeginEvent(l) PROVE IndexIsEventCount'
    <3>1. UNCHANGED <<saved_counts, saved_states>>
      BY <2>1 DEF BeginEvent, ReceiveEvent, BeginStep
    <3>2. Running'
      BY <2>1, <2>t DEF BeginEvent, ReceiveEvent, BeginStep, Idle, IndexIsEventCount
    <3>3. QED
      BY <3>1, <3>2, <2>k DEF IndexIsEventCount
  <2>2. ASSUME NEW l \in Line, AbortOnEvent(l) PROVE IndexIsEventCount'
    <3>1. UNCHANGED <<saved_counts, saved_states>> /\ status' = "aborted"
      BY <2>2 DEF AbortOnEvent, ReceiveEvent, vars
    <3>2. QED
      BY <3>1, <2>k DEF IndexIsEventCount
  <2>3. CASE EvaluateNextFormula
    <3>1. UNCHANGED <<saved_counts, saved_states, status, event_count, index>>
      BY <2>3 DEF EvaluateNextFormula, StepFormula, monVars
    <3>2. iter # 0 /\ iter' # 0
      BY <2>3, <2>t DEF EvaluateNextFormula, StepFormula, Formula
    <3>3. QED
      BY <3>1, <3>2, <2>k DEF IndexIsEventCount, Idle
  <2>4. CASE FinishEvent
    <3>1. UNCHANGED <<saved_counts, saved_states, status, event_count>>
      BY <2>4 DEF FinishEvent, EndStep
    <3>2. iter # 0 /\ iter' = 0 /\ index' = index + 1
      BY <2>4, PreProcess DEF FinishEvent, EndStep
    <3>3. QED
      BY <3>1, <3>2, <2>k, <2>t DEF IndexIsEventCount, Idle
  <2>5. ASSUME NEW id \in SnapId, SaveCommand(id) PROVE IndexIsEventCount'
    <3>1. /\ UNCHANGED <<status, event_count, index, iter>> /\ Idle
          /\ status = "running"
          /\ saved_counts' = [saved_counts EXCEPT ![id] =
               [saved |-> TRUE, event_count |-> event_count,
                session_count |-> session_count]]
          /\ saved_states' = [saved_states EXCEPT ![id] =
               [saved |-> TRUE, index |-> index, old_bv |-> old_bv,
                new_bv |-> new_bv]]
      BY <2>5 DEF SaveCommand, SaveState
    <3>2. Running' /\ event_count = index
      BY <3>1, <2>t DEF IndexIsEventCount, Idle
    <3>3. Saved'
      <4> SUFFICES ASSUME NEW j \in SnapId
                   PROVE  /\ saved_counts'[j].saved <=> saved_states'[j].saved
                          /\ saved_counts'[j].saved =>
                               saved_counts'[j].event_count = saved_states'[j].index
        OBVIOUS
      <4>1. CASE j = id
        BY <4>1, <3>1, <3>2, <2>t
      <4>2. CASE j # id
        <5>1. saved_counts'[j] = saved_counts[j] /\ saved_states'[j] = saved_states[j]
          BY <4>2, <3>1, <2>t
        <5>2. QED
          BY <5>1 DEF IndexIsEventCount
      <4>3. QED
        BY <4>1, <4>2
    <3>4. QED
      BY <3>2, <3>3 DEF IndexIsEventCount
  <2>6. ASSUME NEW id \in SnapId, RestoreCommand(id) PROVE IndexIsEventCount'
    <3>1. UNCHANGED <<saved_counts, saved_states>>
      BY <2>6 DEF RestoreCommand, RestoreState
    <3>2. /\ iter = 0 /\ iter' = 0 /\ saved_counts[id].saved
          /\ index' = saved_states[id].index
          /\ event_count' = saved_counts[id].event_count
      BY <2>6 DEF RestoreCommand, RestoreState, Idle
    <3>3. index' = event_count' /\ event_count' \in Nat
      <4>1. saved_counts[id] \in SavedCounts
        BY <2>6 DEF RestoreCommand, MonTypeOK, NotSaved
      <4>2. event_count' \in Nat
        BY <4>1, <3>2 DEF SavedCounts
      <4>3. index' = event_count'
        BY <3>2 DEF IndexIsEventCount
      <4>4. QED
        BY <4>2, <4>3
    <3>4. Running'
      BY <3>2, <3>3 DEF Idle
    <3>5. QED
      BY <3>1, <3>4, <2>k DEF IndexIsEventCount
  <2>7. ASSUME NEW id \in SnapId, RestoreUnknown(id) PROVE IndexIsEventCount'
    BY <2>7 DEF RestoreUnknown, vars, evalVars, IndexIsEventCount, Idle
  <2>8. CASE EndSession
    <3>1. UNCHANGED <<saved_counts, saved_states>>
      BY <2>8 DEF EndSession, ResetEvaluator
    <3>2. iter' = 0 /\ index' = 0 /\ event_count' = 0
      BY <2>8 DEF EndSession, ResetEvaluator, Idle
    <3>3. QED
      BY <3>1, <3>2, <2>k DEF IndexIsEventCount, Idle
  <2>9. CASE EndOfInput
    <3>1. UNCHANGED <<saved_counts, saved_states>> /\ status' = "exited"
      BY <2>9 DEF EndOfInput, vars
    <3>2. QED
      BY <3>1, <2>k DEF IndexIsEventCount
  <2>10. CASE UNCHANGED allVars
    BY <2>10 DEF allVars, vars, evalVars, monVars, IndexIsEventCount, Idle
  <2>11. QED
    BY <2>1, <2>2, <2>3, <2>4, <2>5, <2>6, <2>7, <2>8, <2>9, <2>10, MonNextCases
<1>3. QED
  BY <1>1, <1>2, MonTypeCorrect, PTL DEF MonSpec

\* The session trace never holds more events than event_count, whatever saves,
\* restores and ends of session come between the events.
THEOREM TraceCorrect == MonSpec => []TraceFitsSession
<1>1. MonInit => TraceFitsSession
  <2>1. MonInit => session_trace = << >> /\ event_count = 0
    BY DEF MonInit
  <2>2. QED
    BY <2>1, EmptySeq DEF TraceFitsSession
<1>2. TraceFitsSession /\ MonTypeOK /\ [MonNext]_allVars => TraceFitsSession'
  <2> SUFFICES ASSUME TraceFitsSession, MonTypeOK, [MonNext]_allVars
               PROVE  TraceFitsSession'
    OBVIOUS
  <2>k. UNCHANGED <<session_trace, event_count>> => TraceFitsSession'
    BY DEF TraceFitsSession
  <2>t. event_count \in Nat /\ Len(session_trace) \in Nat
    BY LenProperties DEF MonTypeOK
  <2>a. ASSUME NEW l \in Line, ReceiveEvent(l) PROVE TraceFitsSession'
    <3>1. /\ session_trace' = Append(session_trace, l.kv)
          /\ event_count' = event_count + 1
      BY <2>a DEF ReceiveEvent
    <3>2. Len(session_trace') = Len(session_trace) + 1
      BY <3>1, TraceOfLine
    <3>3. QED
      BY <3>1, <3>2, <2>t DEF TraceFitsSession
  <2>6. ASSUME NEW id \in SnapId, RestoreCommand(id) PROVE TraceFitsSession'
    <3>1. /\ saved_counts[id] \in SavedCounts
          /\ event_count' = saved_counts[id].event_count
          /\ session_trace' = Truncate(session_trace, event_count')
      BY <2>6 DEF RestoreCommand, MonTypeOK, NotSaved
    <3>2. event_count' \in Nat
      BY <3>1 DEF SavedCounts
    <3>3. QED
      BY <3>1, <3>2, TruncateType DEF TraceFitsSession, MonTypeOK
  <2>8. CASE EndSession
    BY <2>8, EmptySeq DEF EndSession, TraceFitsSession
  <2>9. \/ EvaluateNextFormula \/ FinishEvent \/ EndOfInput \/ UNCHANGED allVars
        \/ \E id \in SnapId : SaveCommand(id) \/ RestoreUnknown(id)
        => UNCHANGED <<session_trace, event_count>>
    BY DEF EvaluateNextFormula, FinishEvent, EndOfInput, SaveCommand,
           RestoreUnknown, allVars, monVars
  <2>10. QED
    BY <2>a, <2>6, <2>8, <2>9, <2>k, MonNextCases DEF BeginEvent, AbortOnEvent
<1>3. QED
  BY <1>1, <1>2, MonTypeCorrect, PTL DEF MonSpec

-----------------------------------------------------------------------------
(* The trace of a session and its events *)

\* t holds, one by one, the lines that were turned into the events of h.
TraceOf(t, h) == Len(t) = Len(h) /\ \A i \in 1..Len(h) : Labels(t[i]) = h[i]

\* A snapshot that is fresh holds a beginning of the session's events.
SnapshotIsBeginning ==
  \A id \in fresh :
    /\ savedHist[id].saved
    /\ Len(savedHist[id].hist) <= Len(hist)
    /\ \A i \in 1..Len(savedHist[id].hist) : savedHist[id].hist[i] = hist[i]

TraceInv ==
  (~lost /\ status = "running") => TraceOf(session_trace, hist) /\ SnapshotIsBeginning

\* A line and its event, appended to both.
LEMMA TraceGrows ==
  ASSUME NEW S, NEW E, NEW t \in Seq(S), NEW h \in Seq(E), NEW k \in S, NEW e \in E,
         TraceOf(t, h), Labels(k) = e
  PROVE  TraceOf(Append(t, k), Append(h, e))
<1> DEFINE u == Append(t, k)
           g == Append(h, e)
<1>1. /\ Len(t) \in Nat /\ Len(h) \in Nat
      /\ Len(u) = Len(t) + 1 /\ Len(g) = Len(h) + 1
      /\ \A i \in 1..Len(t) : u[i] = t[i]
      /\ \A i \in 1..Len(h) : g[i] = h[i]
      /\ u[Len(t) + 1] = k /\ g[Len(h) + 1] = e
  BY AppendProperties, LenProperties
<1>2. Len(t) = Len(h) /\ \A i \in 1..Len(h) : Labels(t[i]) = h[i]
  BY DEF TraceOf
<1> HIDE DEF u, g
<1>3. ASSUME NEW i \in 1..Len(g) PROVE Labels(u[i]) = g[i]
  <2>1. CASE i = Len(h) + 1
    BY <1>1, <1>2, <2>1
  <2>2. CASE i # Len(h) + 1
    <3>1. i \in 1..Len(h)
      BY <1>1, <2>2
    <3>2. QED
      BY <1>1, <1>2, <3>1
  <2>3. QED
    BY <2>1, <2>2
<1>4. TraceOf(u, g)
  BY <1>1, <1>2, <1>3 DEF TraceOf
<1>5. QED
  BY <1>4 DEF u, g

\* Truncation to the length of a beginning leaves its lines.
LEMMA TraceTruncated ==
  ASSUME NEW S, NEW E, NEW t \in Seq(S), NEW h \in Seq(E), NEW g \in Seq(E),
         TraceOf(t, h), Len(g) <= Len(h), \A i \in 1..Len(g) : g[i] = h[i]
  PROVE  TraceOf(Truncate(t, Len(g)), g)
<1>1. Len(t) = Len(h) /\ \A i \in 1..Len(h) : Labels(t[i]) = h[i]
  BY DEF TraceOf
<1>2. Len(g) \in Nat /\ Len(h) \in Nat /\ Len(t) \in Nat
  BY LenProperties
<1>3. \A i \in 1..Len(g) : Labels(t[i]) = g[i]
  BY <1>1, <1>2
<1>4. CASE Len(t) > Len(g)
  <2> DEFINE u == SubSeq(t, 1, Len(g))
  <2>1. \A i \in 1..Len(g) : t[i] \in S
    BY <1>2, <1>4, ElementOfSeq
  <2>2. /\ Len(u) = IF 1 <= Len(g) THEN Len(g) - 1 + 1 ELSE 0
        /\ \A i \in 1 .. Len(g) - 1 + 1 : u[i] = t[1 + i - 1]
    BY <1>2, <2>1, SubSeqProperties
  <2> HIDE DEF u
  <2>3. Len(u) = Len(g) /\ \A i \in 1..Len(g) : u[i] = t[i]
    BY <1>2, <2>2
  <2>4. TraceOf(u, g)
    BY <1>3, <2>3 DEF TraceOf
  <2>5. QED
    BY <1>4, <2>4 DEF Truncate, u
<1>5. CASE ~(Len(t) > Len(g))
  BY <1>1, <1>2, <1>3, <1>5 DEF Truncate, TraceOf
<1>6. QED
  BY <1>4, <1>5

\* A step keeps TraceInv.
LEMMA TraceKept ==
  ASSUME MonTypeOK, MonTypeOK', IndexIsEventCount, IInv, TraceInv, [MonNext]_allVars
  PROVE  TraceInv'
<1>0. /\ hist \in Seq(Event) /\ session_trace \in Seq({m.kv : m \in Line})
      /\ savedHist \in [SnapId -> SavedHistory \cup {NotSaved}] /\ fresh \subseteq SnapId
  BY DEF MonTypeOK, TypeOK
<1>k. UNCHANGED <<session_trace, hist, fresh, savedHist, lost, status>> => TraceInv'
  BY DEF TraceInv, SnapshotIsBeginning
<1>1. ASSUME NEW l \in Line, BeginEvent(l) PROVE TraceInv'
  <2> SUFFICES ASSUME ~lost', status' = "running"
               PROVE  TraceOf(session_trace, hist)' /\ SnapshotIsBeginning'
    BY DEF TraceInv
  <2>1. /\ UNCHANGED <<fresh, savedHist, lost, status>>
        /\ session_trace' = Append(session_trace, l.kv)
        /\ hist' = Append(hist, Labels(l.kv))
    BY <1>1 DEF BeginEvent, ReceiveEvent, BeginStep
  <2>2. TraceOf(session_trace, hist) /\ SnapshotIsBeginning
    BY <2>1 DEF TraceInv
  <2>3. l.kv \in {m.kv : m \in Line} /\ Labels(l.kv) \in Event
    BY MonitorAssumption
  <2>4. TraceOf(session_trace, hist)'
    BY <1>0, <2>1, <2>2, <2>3, TraceGrows
  <2>5. /\ Len(hist) \in Nat /\ Len(hist') = Len(hist) + 1
        /\ \A i \in 1..Len(hist) : hist'[i] = hist[i]
    BY <1>0, <2>1, <2>3, AppendProperties, LenProperties
  <2>6. ASSUME NEW id \in fresh
        PROVE  /\ savedHist[id].saved
               /\ Len(savedHist[id].hist) <= Len(hist')
               /\ \A i \in 1..Len(savedHist[id].hist) : savedHist[id].hist[i] = hist'[i]
    <3>1. /\ savedHist[id].saved /\ Len(savedHist[id].hist) <= Len(hist)
          /\ \A i \in 1..Len(savedHist[id].hist) : savedHist[id].hist[i] = hist[i]
      BY <2>2 DEF SnapshotIsBeginning
    <3>2. savedHist[id] \in SavedHistory
      BY <1>0, <3>1 DEF NotSaved
    <3>3. Len(savedHist[id].hist) \in Nat
      BY <3>2, LenProperties DEF SavedHistory
    <3>4. QED
      BY <2>5, <3>1, <3>3
  <2>7. SnapshotIsBeginning'
    BY <2>1, <2>6 DEF SnapshotIsBeginning
  <2>8. QED
    BY <2>4, <2>7
<1>2. ASSUME NEW l \in Line, AbortOnEvent(l) PROVE TraceInv'
  BY <1>2 DEF AbortOnEvent, TraceInv
<1>3. CASE EvaluateNextFormula
  BY <1>3, <1>k DEF EvaluateNextFormula, StepFormula, monVars
<1>4. CASE FinishEvent
  BY <1>4, <1>k DEF FinishEvent, EndStep, histVars
<1>5. ASSUME NEW id \in SnapId, SaveCommand(id) PROVE TraceInv'
  <2> SUFFICES ASSUME ~lost', status' = "running"
               PROVE  TraceOf(session_trace, hist)' /\ SnapshotIsBeginning'
    BY DEF TraceInv
  <2>1. /\ UNCHANGED <<lost, status, session_trace, hist>>
        /\ savedHist' = [savedHist EXCEPT ![id] = [saved |-> TRUE, hist |-> hist, tv |-> tv]]
    BY <1>5 DEF SaveCommand, SaveState
  <2>2. TraceOf(session_trace, hist)'
    BY <2>1 DEF TraceInv
  <2>3. fresh' = fresh \cup {id} /\ \A j \in fresh : j # id => savedHist'[j] = savedHist[j]
    BY <1>0, <1>5, <2>1 DEF SaveCommand
  <2>4. savedHist'[id].saved /\ savedHist'[id].hist = hist
    BY <1>0, <2>1
  <2>5. Len(hist) <= Len(hist)
    BY <1>0, LenProperties
  <2>6. SnapshotIsBeginning
    BY <2>1 DEF TraceInv
  <2>7. SnapshotIsBeginning'
    BY <2>1, <2>3, <2>4, <2>5, <2>6 DEF SnapshotIsBeginning
  <2>8. QED
    BY <2>2, <2>7
<1>6. ASSUME NEW id \in SnapId, RestoreCommand(id) PROVE TraceInv'
  <2> SUFFICES ASSUME ~lost', status' = "running"
               PROVE  TraceOf(session_trace, hist)' /\ SnapshotIsBeginning'
    BY DEF TraceInv
  <2> DEFINE g == savedHist[id].hist
  <2>1. /\ UNCHANGED <<status, savedHist>> /\ hist' = g /\ fresh' = UpTo(id)
        /\ saved_counts[id].saved /\ saved_states[id].saved
        /\ session_trace' = Truncate(session_trace, saved_counts[id].event_count)
    BY <1>6 DEF RestoreCommand, RestoreState
  <2>2. ~lost /\ id \in fresh
    BY <1>6, Zenon DEF RestoreCommand
  <2>3. /\ TraceOf(session_trace, hist)
        /\ Len(g) <= Len(hist) /\ \A i \in 1..Len(g) : g[i] = hist[i]
    BY <2>1, <2>2 DEF TraceInv, SnapshotIsBeginning
  <2>4. ASSUME NEW j \in SnapId, savedHist[j].saved
        PROVE  /\ saved_counts[j].event_count = Len(savedHist[j].hist)
               /\ savedHist[j].hist \in Seq(Event)
    <3>1. saved_states[j].saved
      BY <2>4 DEF MonTypeOK, TypeOK
    <3>2. saved_counts[j].event_count = saved_states[j].index
      BY <3>1 DEF IndexIsEventCount
    <3>3. Len(savedHist[j].hist) = saved_states[j].index
      BY <3>1 DEF IInv, SavedInv
    <3>4. savedHist[j] \in SavedHistory
      BY <1>0, <2>4 DEF NotSaved
    <3>5. QED
      BY <3>2, <3>3, <3>4 DEF SavedHistory
  <2>5. savedHist[id].saved
    BY <2>1 DEF MonTypeOK, TypeOK
  <2>6. g \in Seq(Event) /\ saved_counts[id].event_count = Len(g)
    BY <2>4, <2>5
  <2> HIDE DEF g
  <2>7. TraceOf(Truncate(session_trace, Len(g)), g)
    BY <1>0, <2>3, <2>6, TraceTruncated
  <2>8. ASSUME NEW j \in fresh'
        PROVE  /\ savedHist[j].saved
               /\ Len(savedHist[j].hist) <= Len(g)
               /\ \A i \in 1..Len(savedHist[j].hist) : savedHist[j].hist[i] = g[i]
    <3>1. j \in fresh /\ j \in SnapId /\ saved_counts[j].event_count <= saved_counts[id].event_count
      BY <1>0, <2>1 DEF UpTo
    <3>2. /\ savedHist[j].saved
          /\ \A i \in 1..Len(savedHist[j].hist) : savedHist[j].hist[i] = hist[i]
      BY <2>1, <2>2, <3>1 DEF TraceInv, SnapshotIsBeginning
    <3>3. Len(savedHist[j].hist) <= Len(g)
      BY <2>4, <2>6, <3>1, <3>2
    <3>4. Len(savedHist[j].hist) \in Nat /\ Len(g) \in Nat
      BY <2>4, <2>6, <3>1, <3>2, LenProperties
    <3>5. QED
      BY <2>3, <3>2, <3>3, <3>4
  <2>9. SnapshotIsBeginning'
    BY <2>1, <2>8 DEF SnapshotIsBeginning
  <2>10. QED
    BY <2>1, <2>6, <2>7, <2>9
<1>7. ASSUME NEW id \in SnapId, RestoreUnknown(id) PROVE TraceInv'
  BY <1>7, <1>k DEF RestoreUnknown, vars, histVars
<1>8. CASE EndSession
  <2>1. session_trace' = << >> /\ hist' = << >> /\ fresh' = {}
    BY <1>8 DEF EndSession, ResetEvaluator
  <2>2. QED
    BY <2>1, EmptySeq DEF TraceInv, TraceOf, SnapshotIsBeginning
<1>9. CASE EndOfInput
  BY <1>9 DEF EndOfInput, TraceInv
<1>10. CASE UNCHANGED allVars
  BY <1>10, <1>k DEF allVars, monVars, vars, histVars
<1>11. QED
  BY <1>1, <1>2, <1>3, <1>4, <1>5, <1>6, <1>7, <1>8, <1>9, <1>10, MonNextCases

\* Whichever snapshots are in use, what dump_violation_trace would write is the
\* events the verdicts are about, until a restore brings back events that an
\* __END_SESSION__ or an earlier restore has removed: the truncation by
\* event_count cuts where the evaluator goes back to.
THEOREM TraceExplains == MonSpec => []TraceExplainsVerdict
<1>1. MonInit => TraceInv
  <2>1. MonInit => session_trace = << >> /\ hist = << >> /\ fresh = {}
    BY DEF MonInit, Init
  <2>2. QED
    BY <2>1, EmptySeq DEF TraceInv, TraceOf, SnapshotIsBeginning
<1>2. /\ MonTypeOK /\ MonTypeOK' /\ IndexIsEventCount /\ IInv /\ TraceInv /\ [MonNext]_allVars
      => TraceInv'
  BY TraceKept
<1>3. MonSpec => []IInv
  BY MonitorRunsEvaluator, IndInv, PTL
<1>4. TraceInv => TraceExplainsVerdict
  BY DEF TraceInv, TraceOf, TraceExplainsVerdict
<1>5. QED
  BY <1>1, <1>2, <1>3, <1>4, MonTypeCorrect, CountsCorrect, PTL DEF MonSpec

-----------------------------------------------------------------------------
(* Violations that are not reported at once *)

\* A violation of H(...) that was dropped, because its event was no valid
\* response (is_valid_response), is reported with the next valid response.
THEOREM DroppedResurfaces == MonSpec => DroppedViolationResurfaces
<1> DEFINE Dropped == /\ FinishEvent
                      /\ ValidResponse(Derive(cur.kv))
                      /\ \E f \in Formula :
                           /\ Kind(f, 0) = "H"
                           /\ \E i \in 1..index : 0 \notin tv[f][i]
<1>1. IInv /\ ResultInv /\ PersistInv /\ Dropped => total_violations' = total_violations + 1
  <2> SUFFICES ASSUME IInv, ResultInv, PersistInv, Dropped
               PROVE  total_violations' = total_violations + 1
    OBVIOUS
  <2>1. PICK f \in Formula : Kind(f, 0) = "H" /\ \E i \in 1..index : 0 \notin tv[f][i]
    OBVIOUS
  <2>2. PICK i \in 1..index : 0 \notin tv[f][i]
    BY <2>1
  <2>3. iter = NumFormulas + 1 /\ NumFormulas \in Nat /\ index \in Nat
    BY FormulaType DEF FinishEvent, EndStep, IInv, TypeOK
  <2>4. ~Idle /\ f < iter
    BY <2>3 DEF Idle, Formula
  <2>5. Len(tv[f]) = index + 1 /\ (result[f] <=> 0 \in tv[f][index + 1])
    BY <2>4 DEF IInv, ResultInv
  <2>6. i \in 1..Len(tv[f]) /\ index + 1 \in 1..Len(tv[f]) /\ i < index + 1
    BY <2>3, <2>5
  <2>7. ~result[f]
    BY <2>1, <2>2, <2>5, <2>6 DEF PersistInv, Persists
  <2>8. BadIdx # {}
    BY <2>7 DEF BadIdx
  <2>9. QED
    BY <2>8 DEF FinishEvent
<1>2. IInv /\ ResultInv /\ PersistInv /\ [MonNext]_allVars
      => [Dropped => total_violations' = total_violations + 1]_allVars
  BY <1>1
<1>3. MonSpec => [](IInv /\ ResultInv /\ PersistInv)
  BY MonitorRunsEvaluator, IndInv, ResultsKept, HistoricallyPersists, PTL DEF VInv
<1> HIDE DEF Dropped
<1>4. MonSpec => [][Dropped => total_violations' = total_violations + 1]_allVars
  BY <1>2, <1>3, PTL DEF MonSpec
<1>5. QED
  BY <1>4 DEF DroppedViolationResurfaces, Dropped
=============================================================================
