------------------------------- MODULE Bridge -------------------------------
(***************************************************************************)
(* The bridge between the fuzzer and the evaluator process                  *)
(* (monitor_bridge.c): two pipes, the stdio buffer in front of the second,  *)
(* and the calls the fuzzer makes, running beside the evaluator's loop over *)
(* its standard input.                                                      *)
(*                                                                         *)
(* The evaluator is reduced to what it prints: nothing for an event that    *)
(* violates no formula ("ok") and for __END_SESSION__, one line for a       *)
(* violating event ("bad") and for __SAVE_STATE__/__RESTORE_STATE__         *)
(* ("snapshot"), and it dies on an event that fails an assertion            *)
(* ("insane").  A printed line is the number of the violation it announces, *)
(* or Ack, or the Banner it starts with.                                    *)
(***************************************************************************)
EXTENDS Integers, Sequences

CONSTANTS
  InCap,         \* lines that fit in the pipe to the evaluator
  OutCap,        \* lines that fit in the pipe from the evaluator
  FileBuf,       \* lines one read() of the stdio buffer takes
  Snapshots,     \* does the fuzzer use snapshots?
  MaxLines,      \* bound: lines sent per session explored
  MaxSessions    \* bound: sessions explored

ASSUME BridgeAssumption ==
  /\ InCap \in Nat \ {0}
  /\ OutCap \in Nat \ {0}
  /\ FileBuf \in Nat \ {0}
  /\ Snapshots \in BOOLEAN
  /\ MaxLines \in Nat
  /\ MaxSessions \in Nat

VARIABLES
  pc,                  \* where the fuzzer is in the bridge
  line,                \* the line it is writing
  violation_detected,  \* the flag of the handle
  file_buf,            \* what stdio has read and fgets has not returned
  to_monitor,          \* the pipe eval_stdin writes to
  from_monitor,        \* the pipe eval_stdout reads from
  mon,                 \* the evaluator: "running", "dead" or "exited"
  printing,            \* the line the evaluator is writing; Nothing if none
  session,             \* (history) sessions the fuzzer has begun
  lines,               \* (history) lines sent in this session
  unanswered,          \* (history) lines sent since all was quiet
  found,               \* (history) found[n]: session of violation n
  cause,               \* (history) the last violation number read
  hits,                \* (history) the sessions reported, with that number
  sawOther,            \* (history) the current drain has read another line
  late                 \* (history) the last drain gave up before the evaluator was done

handleVars == <<violation_detected, file_buf>>
pipeVars   == <<to_monitor, from_monitor>>
monVars    == <<mon, printing>>
histVars   == <<session, lines, unanswered, found, cause, hits, sawOther, late>>
vars       == <<pc, line, handleVars, pipeVars, monVars, histVars>>

Ack     == 0
Banner  == -1
Nothing == -2
OutLine == Nat \cup {Banner}
Event   == {"ok", "bad", "insane"}
Command == {"snapshot", "end"}
InLine  == [kind : Event \cup Command, session : Nat]
NoLine  == [kind |-> "none"]

Calls   == {"writing", "ack", "first_select", "drain", "check", "stopping"}

-----------------------------------------------------------------------------
\* monitor_start: the child has been forked; its execl may fail, otherwise it
\* loads the specification and prints "Type check passed."
Init ==
  /\ pc = "idle"
  /\ line = NoLine
  /\ violation_detected = FALSE
  /\ file_buf = << >>
  /\ to_monitor = << >>
  /\ from_monitor = << >>
  /\ \/ mon = "running" /\ printing = Banner
     \/ mon = "dead" /\ printing = Nothing
  /\ session = 1
  /\ lines = 0
  /\ unanswered = 0
  /\ found = << >>
  /\ cause = 0
  /\ hits = << >>
  /\ sawOther = FALSE
  /\ late = FALSE

-----------------------------------------------------------------------------
(* The fuzzer's side. *)

\* fprintf and fflush of one line begin.
Send(kind) ==
  /\ pc = "idle"
  /\ session <= MaxSessions
  /\ pc' = "writing"
  /\ line' = [kind |-> kind, session |-> session]
  /\ UNCHANGED <<handleVars, pipeVars, monVars, histVars>>

\* monitor_emit_line.
EmitLine(e) == lines < MaxLines /\ e \in Event /\ Send(e)

\* monitor_save_bitvectors and monitor_restore_bitvectors.
SaveOrRestore == Snapshots /\ lines < MaxLines /\ Send("snapshot")

\* monitor_end_session.
EndSession == Send("end")

\* Changed form of Write: it does not wait for room.
WriteAnyway ==
  /\ pc = "writing"
  /\ to_monitor' = IF mon = "running" THEN Append(to_monitor, line) ELSE to_monitor
  /\ pc' = IF line.kind \in Event THEN "idle" ELSE "first_select"
  /\ line' = NoLine
  /\ UNCHANGED <<handleVars, from_monitor, monVars, histVars>>

\* The write blocks while the pipe is full.  SIGPIPE is ignored: once the
\* evaluator is gone the line is lost and the call goes on.
Write ==
  /\ pc = "writing"
  /\ mon = "running" => Len(to_monitor) < InCap
  /\ to_monitor' = IF mon = "running" THEN Append(to_monitor, line) ELSE to_monitor
  /\ pc' = CASE line.kind \in Event      -> "idle"
             [] line.kind = "snapshot"   -> "ack"
             [] line.kind = "end"        -> "first_select"
  /\ line' = NoLine
  /\ lines' = lines + 1
  /\ unanswered' = unanswered + 1
  /\ sawOther' = FALSE
  /\ late' = FALSE
  /\ UNCHANGED <<handleVars, from_monitor, monVars, session, found, cause, hits>>

\* select() looks at the descriptor, not at the stdio buffer: it is ready when
\* the pipe holds something and at end of file.
Readable == from_monitor # << >> \/ mon # "running"

\* select() may time out on an empty pipe, whether or not the evaluator has
\* something left to do.
Quiet == to_monitor = << >> /\ printing = Nothing
TimesOut == ~Readable
\* What fgets takes its line from: the stdio buffer, filled by one read() of
\* the pipe when it is empty.
Taken    == IF Len(from_monitor) < FileBuf THEN Len(from_monitor) ELSE FileBuf
Buffered == IF file_buf # << >> THEN file_buf ELSE SubSeq(from_monitor, 1, Taken)
Unread   == IF file_buf # << >> THEN from_monitor
            ELSE SubSeq(from_monitor, Taken + 1, Len(from_monitor))

\* Changed form of Fgets: it keeps the first line of what was read and drops the
\* rest.
FgetsFirstLineOnly ==
  /\ Readable
  /\ Buffered # << >>
  /\ file_buf' = << >>
  /\ from_monitor' = Unread
  /\ cause' = IF Head(Buffered) > 0 THEN Head(Buffered) ELSE cause

\* fgets returns a line.
Fgets ==
  /\ Readable
  /\ Buffered # << >>
  /\ file_buf' = Tail(Buffered)
  /\ from_monitor' = Unread
  /\ cause' = IF Head(Buffered) > 0 THEN Head(Buffered) ELSE cause

\* fgets returns NULL.
Eof == Readable /\ Buffered = << >>

\* The acknowledgement: one line, whatever it says, or none after 50 ms.
Acknowledge ==
  /\ pc = "ack"
  /\ \/ Fgets
     \/ (Eof \/ TimesOut) /\ UNCHANGED <<file_buf, from_monitor, cause>>
  /\ pc' = "idle"
  /\ UNCHANGED <<line, violation_detected, to_monitor, monVars, session, lines,
                 unanswered, found, hits, sawOther, late>>

\* One turn of the loop of monitor_end_session that reads a line.
DrainRead ==
  /\ pc \in {"first_select", "drain"}
  /\ Fgets
  /\ violation_detected' = (violation_detected \/ Head(Buffered) > 0)
  /\ sawOther' = (sawOther \/ Head(Buffered) <= 0)
  /\ pc' = "drain"
  /\ UNCHANGED <<line, to_monitor, monVars, session, lines, unanswered, found, hits, late>>

\* Changed form of DrainEnd: the end of file does not end the loop.
DrainEndNotAtEof ==
  /\ pc \in {"first_select", "drain"}
  /\ ~Readable
  /\ pc' = "check"
  /\ unanswered' = IF Quiet THEN 0 ELSE unanswered
  /\ late' = (pc = "first_select" /\ ~Quiet)
  /\ UNCHANGED <<line, handleVars, pipeVars, monVars, session, lines, found,
                 cause, hits, sawOther>>

\* The turn that leaves it.  The first select() waits for 10 ms, the later ones
\* do not wait.
DrainEnd ==
  /\ \/ pc \in {"first_select", "drain"} /\ Eof
     \/ pc = "first_select" /\ TimesOut
     \/ pc = "drain" /\ ~Readable
  /\ pc' = "check"
  /\ unanswered' = IF Quiet THEN 0 ELSE unanswered
  /\ late' = (pc = "first_select" /\ TimesOut /\ ~Quiet)
  /\ UNCHANGED <<line, handleVars, pipeVars, monVars, session, lines, found,
                 cause, hits, sawOther>>

\* Changed form of Check: the flag is not cleared.
CheckOnly ==
  /\ pc = "check"
  /\ hits' = IF violation_detected
             THEN Append(hits, [session |-> session, violation |-> cause])
             ELSE hits
  /\ session' = session + 1
  /\ lines' = 0
  /\ pc' = "idle"
  /\ UNCHANGED <<line, handleVars, pipeVars, monVars, unanswered, found, cause, sawOther, late>>

\* monitor_check_violation and, when it says so, monitor_clear_violation.
Check ==
  /\ pc = "check"
  /\ violation_detected' = FALSE
  /\ hits' = IF violation_detected
             THEN Append(hits, [session |-> session, violation |-> cause])
             ELSE hits
  /\ session' = session + 1
  /\ lines' = 0
  /\ pc' = "idle"
  /\ UNCHANGED <<line, file_buf, pipeVars, monVars, unanswered, found, cause, sawOther, late>>

\* monitor_stop closes both pipes and waits for the evaluator.
Stop ==
  /\ pc = "idle"
  /\ pc' = "stopping"
  /\ UNCHANGED <<line, handleVars, pipeVars, monVars, histVars>>

Waitpid ==
  /\ pc = "stopping"
  /\ mon # "running"
  /\ pc' = "stopped"
  /\ UNCHANGED <<line, handleVars, pipeVars, monVars, histVars>>

Stopped == pc = "stopped" /\ UNCHANGED vars

Fuzzer ==
  \/ Write \/ Acknowledge \/ DrainRead \/ DrainEnd \/ Check \/ Waitpid

-----------------------------------------------------------------------------
(* The evaluator's side: Monitor, reduced to what it reads and prints. *)

HandleLine ==
  /\ mon = "running"
  /\ printing = Nothing
  /\ to_monitor # << >>
  /\ LET in == Head(to_monitor)
     IN  /\ mon' = IF in.kind = "insane" THEN "dead" ELSE "running"
         /\ to_monitor' = IF in.kind = "insane" THEN << >> ELSE Tail(to_monitor)
         /\ found' = IF in.kind = "bad" THEN Append(found, in.session) ELSE found
         /\ printing' = CASE in.kind = "bad"      -> Len(found')
                          [] in.kind = "snapshot" -> Ack
                          [] OTHER                -> Nothing
  /\ UNCHANGED <<pc, line, handleVars, from_monitor, session, lines, unanswered,
                 cause, hits, sawOther, late>>

\* Changed form of PrintLine: the line is printed once per violated formula.
PrintLinePerFormula ==
  /\ mon = "running"
  /\ printing # Nothing
  /\ pc # "stopping"
  /\ Len(from_monitor) < OutCap
  /\ from_monitor' = Append(from_monitor, printing)
  /\ printing' \in {printing, Nothing}
  /\ UNCHANGED <<pc, line, handleVars, to_monitor, mon, histVars>>

\* std::endl flushes: the write blocks while the pipe is full.
PrintLine ==
  /\ mon = "running"
  /\ printing # Nothing
  /\ pc # "stopping"
  /\ Len(from_monitor) < OutCap
  /\ from_monitor' = Append(from_monitor, printing)
  /\ printing' = Nothing
  /\ UNCHANGED <<pc, line, handleVars, to_monitor, mon, histVars>>

\* After monitor_stop: printing raises SIGPIPE, the end of input ends the loop.
Finish ==
  /\ mon = "running"
  /\ pc = "stopping"
  /\ \/ printing # Nothing /\ mon' = "dead" /\ printing' = Nothing
     \/ Quiet /\ mon' = "exited" /\ UNCHANGED printing
  /\ UNCHANGED <<pc, line, handleVars, pipeVars, histVars>>

Evaluator == HandleLine \/ PrintLine \/ Finish

-----------------------------------------------------------------------------
Next ==
  \/ \E e \in Event : EmitLine(e)
  \/ SaveOrRestore
  \/ EndSession
  \/ Stop
  \/ Fuzzer
  \/ Evaluator
  \/ Stopped

Spec == Init /\ [][Next]_vars

\* A call in progress goes on (select() has a timeout), and so does the
\* evaluator; the fuzzer need not call anything.
FairSpec == Spec /\ WF_vars(Fuzzer) /\ WF_vars(Evaluator)

-----------------------------------------------------------------------------
(* Properties *)

\* Types, and the capacities of the pipes and of the stdio buffer.
TypeOK ==
  /\ pc \in Calls \cup {"idle", "stopped"}
  /\ line \in InLine \cup {NoLine}
  /\ pc = "writing" => line \in InLine
  /\ violation_detected \in BOOLEAN
  /\ file_buf \in Seq(OutLine) /\ Len(file_buf) < FileBuf
  /\ to_monitor \in Seq(InLine) /\ Len(to_monitor) <= InCap
  /\ from_monitor \in Seq(OutLine) /\ Len(from_monitor) <= OutCap
  /\ mon \in {"running", "dead", "exited"}
  /\ printing \in OutLine \cup {Nothing}
  /\ session \in Nat \ {0}
  /\ lines \in Nat
  /\ unanswered \in Nat
  /\ found \in Seq(Nat)
  /\ cause \in Nat
  /\ hits \in Seq([session : Nat, violation : Nat])
  /\ sawOther \in BOOLEAN /\ late \in BOOLEAN

\* Every test case the fuzzer is told violates the specification (the check of
\* the flag in common_fuzz_stuff) accounts for a violation the evaluator found,
\* no later than in that test case, and no violation accounts for two of them:
\* whatever is lost, late or left in a buffer, nothing is counted twice.
EachHitHasItsOwnViolation ==
  /\ \A i \in 1..Len(hits) :
       /\ hits[i].violation \in 1..Len(found)
       /\ found[hits[i].violation] <= hits[i].session
  /\ \A i, j \in 1..Len(hits) : i < j => hits[i].violation < hits[j].violation

\* A violation line of this session that stdio has read and fgets has not
\* returned.
LeftInBuffer ==
  \E i \in 1..Len(file_buf) : file_buf[i] > 0 /\ found[file_buf[i]] = session

\* When monitor_end_session returns and the evaluator found a violation in the
\* session, the flag is set.  There are four exceptions: the first select() timed
\* out before the evaluator was done; the loop came upon a line that announces
\* nothing (the banner, or an acknowledgement that was not read when it was due)
\* and did not wait for the next; the read of an acknowledgement took a violation
\* line of this session; or that read moved such a line to the stdio buffer, where
\* the first select() does not see it.
ViolatingSessionIsFlagged ==
  pc = "check" /\ (\E n \in 1..Len(found) : found[n] = session) =>
    \/ violation_detected
    \/ late
    \/ sawOther
    \/ cause > 0 /\ found[cause] = session
    \/ LeftInBuffer

\* "1 if violation in current session": the flag that monitor_end_session
\* leaves is about the session that just ended.
FlagIsAboutThisSession ==
  pc = "check" /\ violation_detected =>
    \E n \in 1..Len(found) : found[n] = session

\* The two processes each wait for the other to read.
MutuallyBlocked ==
  /\ pc = "writing" /\ mon = "running"
  /\ Len(to_monitor) = InCap
  /\ printing # Nothing /\ Len(from_monitor) = OutCap

\* The fuzzer, which reads only in monitor_end_session and after a snapshot
\* command, and the evaluator, which prints whether or not anyone reads, block
\* each other only after more lines than the two pipes hold have been sent
\* since the evaluator was last seen quiet.
BlockedOnlyOverCapacity == MutuallyBlocked => unanswered >= InCap + OutCap

\* Every call returns, whatever the evaluator does meanwhile (it may have died
\* or be slow), unless the two block each other: the loop of
\* monitor_end_session and monitor_stop's wait end.
CallsReturn ==
  (pc \in Calls) ~> (pc \in {"idle", "stopped"} \/ MutuallyBlocked)
=============================================================================
