------------------------------- MODULE Monitor -------------------------------
(***************************************************************************)
(* The main loop of the evaluator process (main.cpp): one line of standard  *)
(* input at a time, either an event or one of the commands __SAVE_STATE__,  *)
(* __RESTORE_STATE__ and __END_SESSION__.  Handling a line changes the      *)
(* counters, the session trace, the saved states and, through Evaluator,    *)
(* the bit vectors; it prints at most one line on standard output.          *)
(*                                                                         *)
(* A line is a record: kv, the labels it carries, and ref, the packet its   *)
(* msg_id/dir/trace keys point to (NoRef without them).                     *)
(*                                                                         *)
(* cur, fresh and lost are history variables.                               *)
(***************************************************************************)
EXTENDS Evaluator, FiniteSets

CONSTANTS
  Line,           \* the event lines that may arrive
  NoRef,          \* ref of a line without packet reference
  Protocols,      \* values of the protocol_tag argument
  EnumConstant,   \* enum constants: State labels each with itself
  TypeOf,         \* TypeOf[n]: the labels of the type of identifier n
  TRACE_WINDOW,   \* packet references retained
  MaxSessions,    \* bound: value of session_count explored
  MaxViolations   \* bound: value of total_violations explored

VARIABLES
  status,            \* "running", "aborted" (failed assertion) or "exited"
  proto_tag,
  event_count,
  session_count,
  total_violations,
  session_trace,     \* the kv of the events, for dumps
  saved_counts,      \* event_count and session_count of each saved state
  g_recent_traces,
  out,               \* what handling the last line printed
  dump,              \* the last dump_violation_trace
  cur,               \* (history) the line being evaluated
  fresh,             \* (history) ids whose snapshot is a beginning of the session
  lost               \* (history) a restore brought back events that an
                     \* __END_SESSION__ or a restore had cut from session_trace

monVars == <<status, proto_tag, event_count, session_count, total_violations,
             session_trace, saved_counts, g_recent_traces, out, dump, cur,
             fresh, lost>>
allVars == <<vars, monVars>>

NoLine == [msg |-> "none"]
NoDump == [num |-> 0]

-----------------------------------------------------------------------------
(* From a line to the labelling the formulas are evaluated on. *)

\* id_mismatch is derived when the line gives both ids and not the verdict.
Derive(kv) ==
  IF /\ {"q_id", "resp_id", "id_mismatch"} \subseteq Name
     /\ kv["id_mismatch"] = Unset /\ kv["q_id"] # Unset /\ kv["resp_id"] # Unset
  THEN [kv EXCEPT !["id_mismatch"] =
          IF Stoi[kv["q_id"]] # Stoi[kv["resp_id"]] THEN "true" ELSE "false"]
  ELSE kv

\* State's constructor, then addLabel for every key of the line.
Labels(kv) == [n \in Name |-> IF n \in EnumConstant THEN n ELSE Derive(kv)[n]]

\* No addLabel of an identifier that has a label, and IsSane.
IsSane(kv) ==
  /\ \A n \in EnumConstant : kv[n] = Unset
  /\ \A n \in Name : Labels(kv)[n] # Unset => Labels(kv)[n] \in TypeOf[n]

\* The assertion on IsSane and those in the evaluation all pass.
Accepted(kv) ==
  IsSane(kv) /\ \A f \in Formula : Evaluable(f, Labels(kv))

Has(kv, k)    == k \in Name /\ kv[k] # Unset
Is(kv, k, v)  == Has(kv, k) /\ kv[k] = v
Not(kv, k, v) == Has(kv, k) /\ kv[k] # v
NoTimeout(kv) == Has(kv, "timeout") => kv["timeout"] = "false"

\* is_valid_response: which events a violation is reported on.
ValidResponse(kv) ==
  CASE proto_tag \in {"dnsmasq", "dns"} -> Is(kv, "response_valid", "true")
    [] proto_tag = "ssh"  -> Is(kv, "encrypted", "true") /\ Is(kv, "mac_ok", "true")
    [] proto_tag = "rtsp" -> NoTimeout(kv) /\ Not(kv, "status_class", "scNotSet")
    [] proto_tag = "dtls" -> Not(kv, "response", "responseNotSet")
    [] proto_tag = "sip"  -> Is(kv, "sip_msg_type", "response") /\ NoTimeout(kv)
    [] proto_tag = "ftp"  -> NoTimeout(kv) /\ Not(kv, "ftp_status_class", "scNotSet")
    [] OTHER -> TRUE

\* Changed form of RecentTraces: nothing is dropped from the window.
RecentTracesUnbounded(line) ==
  IF line.ref = NoRef THEN g_recent_traces ELSE Append(g_recent_traces, line.ref)

\* The window of packet references after one more line.
RecentTraces(line) ==
  LET all == Append(g_recent_traces, line.ref)
  IN  IF line.ref = NoRef THEN g_recent_traces
      ELSE IF Len(all) > TRACE_WINDOW THEN Tail(all) ELSE all

\* The events of the evaluator are what the lines are turned into.
ASSUME MonitorAssumption ==
  /\ \A line \in Line : Labels(line.kv) \in Event
  /\ TRACE_WINDOW \in Nat

-----------------------------------------------------------------------------
MonInit ==
  /\ Init
  /\ status = "running"
  /\ proto_tag \in Protocols
  /\ event_count = 0
  /\ session_count = 0
  /\ total_violations = 0
  /\ session_trace = << >>
  /\ saved_counts = [id \in SnapId |-> NotSaved]
  /\ g_recent_traces = << >>
  /\ out = [msg |-> "Type check passed."]
  /\ dump = NoDump
  /\ cur = NoLine
  /\ fresh = {}
  /\ lost = FALSE

\* Everything the loop does with an event line up to IsSane.
ReceiveEvent(line) ==
  /\ status = "running"
  /\ Idle
  /\ index < MaxEvents
  /\ total_violations < MaxViolations
  /\ g_recent_traces' = RecentTraces(line)
  /\ event_count' = event_count + 1
  /\ session_trace' = Append(session_trace, line.kv)
  /\ out' = NoLine
  /\ cur' = line
  /\ UNCHANGED <<proto_tag, session_count, total_violations, saved_counts,
                 dump, fresh, lost>>

\* An event the evaluator accepts: EvaluateOneStep starts.
BeginEvent(line) ==
  /\ Accepted(line.kv)
  /\ ReceiveEvent(line)
  /\ BeginStep(Labels(line.kv))
  /\ UNCHANGED status

\* One it does not: a failed assertion ends the process.
AbortOnEvent(line) ==
  /\ ~Accepted(line.kv)
  /\ ReceiveEvent(line)
  /\ status' = "aborted"
  /\ UNCHANGED vars

EvaluateNextFormula ==
  /\ status = "running"
  /\ StepFormula
  /\ UNCHANGED monVars

BadIdx == {f \in Formula : ~result[f]}

\* The verdicts are in.  A violation on a valid response is counted, announced
\* on standard output and dumped; one on any other event is dropped.
FinishEvent ==
  /\ status = "running"
  /\ EndStep
  /\ IF BadIdx # {} /\ ValidResponse(Derive(cur.kv))
     THEN /\ total_violations' = total_violations + 1
          /\ out' = [msg |-> "VIOLATION_DETECTED", num |-> total_violations']
          /\ dump' = [num |-> total_violations', bad |-> BadIdx,
                      trace |-> session_trace]
     ELSE UNCHANGED <<total_violations, out, dump>>
  /\ cur' = NoLine
  /\ UNCHANGED <<status, proto_tag, event_count, session_count, session_trace,
                 saved_counts, g_recent_traces, fresh, lost>>

SaveCommand(id) ==
  /\ status = "running"
  /\ SaveState(id)
  /\ saved_counts' = [saved_counts EXCEPT ![id] =
       [saved |-> TRUE, event_count |-> event_count,
        session_count |-> session_count]]
  /\ out' = [msg |-> "STATE_SAVED", id |-> id]
  /\ fresh' = fresh \cup {id}
  /\ UNCHANGED <<status, proto_tag, event_count, session_count,
                 total_violations, session_trace, g_recent_traces, dump, cur, lost>>

\* Changed form of Truncate: the trace is left as it is.
TruncateNothing(trace, n) == trace

\* Truncation of the session trace to n events, when it is longer.
Truncate(trace, n) == IF Len(trace) > n THEN SubSeq(trace, 1, n) ELSE trace

\* (history) The snapshots that still are a beginning of the session after a
\* restore of id: longer ones are of a branch that was given up.
UpTo(id) == {x \in fresh : saved_counts[x].event_count <= saved_counts[id].event_count}

\* Changed form of RestoreCommand: event_count is not restored.
RestoreCommandOldCount(id) ==
  /\ status = "running"
  /\ saved_counts[id].saved
  /\ RestoreState(id)
  /\ session_count' = saved_counts[id].session_count
  /\ session_trace' = Truncate(session_trace, event_count)
  /\ out' = [msg |-> "STATE_RESTORED", id |-> id]
  /\ lost' = (lost \/ id \notin fresh)
  /\ fresh' = UpTo(id)
  /\ UNCHANGED <<status, proto_tag, event_count, total_violations, saved_counts,
                 g_recent_traces, dump, cur>>

RestoreCommand(id) ==
  /\ status = "running"
  /\ saved_counts[id].saved
  /\ RestoreState(id)
  /\ event_count' = saved_counts[id].event_count
  /\ session_count' = saved_counts[id].session_count
  /\ session_trace' = Truncate(session_trace, event_count')
  /\ out' = [msg |-> "STATE_RESTORED", id |-> id]
  /\ lost' = (lost \/ id \notin fresh)
  /\ fresh' = UpTo(id)
  /\ UNCHANGED <<status, proto_tag, total_violations, saved_counts,
                 g_recent_traces, dump, cur>>

RestoreUnknown(id) ==
  /\ status = "running"
  /\ Idle
  /\ ~saved_counts[id].saved
  /\ out' = [msg |-> "STATE_RESTORE_FAILED", id |-> id]
  /\ UNCHANGED <<vars, status, proto_tag, event_count, session_count,
                 total_violations, session_trace, saved_counts,
                 g_recent_traces, dump, cur, fresh, lost>>

\* Changed form of EndSession: the trace of the session is kept.
EndSessionKeepsTrace ==
  /\ status = "running"
  /\ session_count < MaxSessions
  /\ session_count' = session_count + 1
  /\ ResetEvaluator
  /\ event_count' = 0
  /\ out' = NoLine
  /\ fresh' = {}
  /\ lost' = FALSE
  /\ UNCHANGED <<status, proto_tag, total_violations, session_trace,
                 saved_counts, g_recent_traces, dump, cur>>

EndSession ==
  /\ status = "running"
  /\ session_count < MaxSessions
  /\ session_count' = session_count + 1
  /\ ResetEvaluator
  /\ event_count' = 0
  /\ session_trace' = << >>
  /\ out' = NoLine
  /\ fresh' = {}
  /\ lost' = FALSE
  /\ UNCHANGED <<status, proto_tag, total_violations, saved_counts,
                 g_recent_traces, dump, cur>>

\* End of input: the loop is left and the process returns.
EndOfInput ==
  /\ status = "running"
  /\ Idle
  /\ status' = "exited"
  /\ out' = NoLine
  /\ UNCHANGED <<vars, proto_tag, event_count, session_count, total_violations,
                 session_trace, saved_counts, g_recent_traces, dump, cur,
                 fresh, lost>>

MonNext ==
  \/ \E line \in Line : BeginEvent(line) \/ AbortOnEvent(line)
  \/ EvaluateNextFormula
  \/ FinishEvent
  \/ \E id \in SnapId : SaveCommand(id) \/ RestoreCommand(id) \/ RestoreUnknown(id)
  \/ EndSession
  \/ EndOfInput

MonSpec == MonInit /\ [][MonNext]_allVars

-----------------------------------------------------------------------------
(* Properties *)

SavedCounts == [saved : {TRUE}, event_count : Nat, session_count : Nat]

\* Every variable of the main loop has its type, and the window of packet
\* references keeps to its size.
MonTypeOK ==
  /\ TypeOK
  /\ status \in {"running", "aborted", "exited"}
  /\ proto_tag \in Protocols
  /\ event_count \in Nat
  /\ session_count \in Nat
  /\ total_violations \in Nat
  /\ session_trace \in Seq({line.kv : line \in Line})
  /\ saved_counts \in [SnapId -> SavedCounts \cup {NotSaved}]
  /\ g_recent_traces \in Seq({line.ref : line \in Line})
  /\ Len(g_recent_traces) <= TRACE_WINDOW
  /\ cur \in Line \cup {NoLine}
  /\ fresh \subseteq SnapId
  /\ lost \in BOOLEAN

\* The main loop's event_count and the evaluator's index, saved and restored
\* by different statements, count the same events: the number reported with a
\* violation is the position the formulas were evaluated at.
IndexIsEventCount ==
  /\ status = "running" =>
       event_count = index + (IF Idle THEN 0 ELSE 1)
  /\ \A id \in SnapId :
       /\ saved_counts[id].saved <=> saved_states[id].saved
       /\ saved_counts[id].saved =>
            saved_counts[id].event_count = saved_states[id].index

\* The session trace never holds more events than the session has had: the
\* truncation of __RESTORE_STATE__ keeps pace with event_count.
TraceFitsSession == Len(session_trace) <= event_count

\* However many snapshots are saved and restored, the session trace that a
\* violation would dump is exactly the sequence of events the verdicts are about.
\* Exception: a __RESTORE_STATE__ in this session of a snapshot whose events were
\* cut from the trace, by an __END_SESSION__ or by a restore to an earlier one.
TraceExplainsVerdict ==
  (~lost /\ status = "running") =>
    /\ Len(session_trace) = Len(hist)
    /\ \A i \in 1..Len(hist) : Labels(session_trace[i]) = hist[i]

\* "Writes violated rule indices + the full session trace": what a violation
\* dumps (dump_violation_trace) is the sequence of events it is about.
DumpIsFullSession ==
  out.msg = "VIOLATION_DETECTED" =>
    /\ Len(dump.trace) = Len(hist)
    /\ \A i \in 1..Len(hist) : Labels(dump.trace[i]) = hist[i]

\* Dropping a violation because its event is not a valid response only delays
\* it when the formula is of the form H(...): the next valid response of the
\* session is reported, whatever it is.
DroppedViolationResurfaces ==
  [][ (/\ FinishEvent
       /\ ValidResponse(Derive(cur.kv))
       /\ \E f \in Formula :
            /\ Kind(f, 0) = "H"
            /\ \E i \in 1..index : 0 \notin tv[f][i])
      => total_violations' = total_violations + 1 ]_allVars
=============================================================================
