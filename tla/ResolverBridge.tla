--------------------------- MODULE ResolverBridge ---------------------------
(***************************************************************************)
(* The monitor bridge of ResolverFuzz (test_infra/monitor_bridge.py) under   *)
(* one test unit of a driver (main_cdns.py and its three siblings): one      *)
(* monitor process per resolver, one line per resolver and round, no answer  *)
(* read back, a dead monitor replaced by a new one.                          *)
(*                                                                           *)
(* The order in which a loop goes over the resolvers is left open.  A line   *)
(* is the resolver and the round it describes, or End.  An action of the     *)
(* driver ends where a monitor can die before its next system call.          *)
(***************************************************************************)
EXTENDS Integers, Sequences, SequencesExt

CONSTANTS
  Resolvers,     \* the resolvers under test
  Rounds,        \* total_payload_num
  PipeCap,       \* bound: lines a monitor's standard input holds
  MaxDeaths,     \* bound: monitors that die by themselves
  MaxFailures    \* bound: monitors that cannot be started

ASSUME ResolverAssumption ==
  /\ Rounds \in Nat \ {0}
  /\ PipeCap \in Nat \ {0}
  /\ MaxDeaths \in Nat
  /\ MaxFailures \in Nat

VARIABLES
  phase,      \* what test_payloads is doing; "raised": an exception ended the unit
  round,      \* round_num
  todo,       \* the resolvers the current loop has still to visit
  call,       \* send_line or end_session in progress: [step, line, bridge], or Idle
  bridges,    \* MonitorPool._bridges: whose bridge each resolver has
  st,         \* self.p of each bridge: "none", "up", "exited"
  pipe,       \* lines in the monitor's standard input
  past,       \* lines the monitor has evaluated since its last reset
  deaths, failures,
  offered,    \* (history) the events given to send_line, per resolver
  sent        \* (history) those of them written to some monitor

driver == <<phase, round, todo, call, bridges>>
vars   == <<phase, round, todo, call, bridges, st, pipe, past, deaths, failures, offered, sent>>

End  == << >>        \* the line __END_SESSION__, which is about no resolver
Idle == [step |-> "idle", line |-> End, bridge |-> "none"]
Event == Resolvers \X (0..Rounds - 1)

TypeOK ==
  /\ phase \in {"test", "auth", "stream", "end", "terminate", "done", "raised"}
  /\ round \in 0..Rounds
  /\ todo \subseteq Resolvers
  /\ call \in {Idle} \cup [step : {"ensure", "check", "write"}, line : Event \cup {End},
                           bridge : Resolvers]
  /\ bridges \subseteq Resolvers
  /\ st \in [Resolvers -> {"none", "up", "exited"}]
  /\ pipe \in [Resolvers -> Seq(Event \cup {End})]
  /\ past \in [Resolvers -> Seq(Event)]
  /\ deaths \in 0..MaxDeaths
  /\ failures \in 0..MaxFailures
  /\ offered \in [Resolvers -> Seq(Event)]
  /\ sent \in [Resolvers -> Seq(Event)]

-----------------------------------------------------------------------------
(* The driver *)

Init ==
  /\ phase = "test"
  /\ round = 0
  /\ todo = {}
  /\ call = Idle
  /\ bridges = {}
  /\ st = [r \in Resolvers |-> "none"]
  /\ pipe = [r \in Resolvers |-> << >>]
  /\ past = [r \in Resolvers |-> << >>]
  /\ deaths = 0
  /\ failures = 0
  /\ offered = [r \in Resolvers |-> << >>]
  /\ sent = [r \in Resolvers |-> << >>]

\* _start_proc: a new process with an empty pipe and nothing evaluated, or none.
StartProc(b) ==
  \/ /\ st' = [st EXCEPT ![b] = "up"]
     /\ pipe' = [pipe EXCEPT ![b] = << >>]
     /\ past' = [past EXCEPT ![b] = << >>]
     /\ UNCHANGED failures
  \/ /\ failures < MaxFailures
     /\ failures' = failures + 1
     /\ st' = [st EXCEPT ![b] = "none"]
     /\ UNCHANGED <<pipe, past>>

\* test_next_payload: the next packet is there, and the authoritative server is
\* to be restarted with its response.
TestNextPayload ==
  /\ phase = "test"
  /\ phase' = "auth"
  /\ UNCHANGED <<round, todo, call, bridges, st, pipe, past, deaths, failures, offered, sent>>

\* "response payload corrupted": the round is not counted, and test_payloads
\* tries again with the packet after this one, as often as it takes.
AuthSrvFails ==
  /\ phase = "auth"
  /\ phase' = "test"
  /\ UNCHANGED <<round, todo, call, bridges, st, pipe, past, deaths, failures, offered, sent>>

\* The server runs; up to the joins: the resolvers that left a result folder.
AuthSrvStarts ==
  /\ phase = "auth"
  /\ phase' = "stream"
  /\ \E present \in SUBSET Resolvers : todo' = present
  /\ UNCHANGED <<round, call, bridges, st, pipe, past, deaths, failures, offered, sent>>

\* Changed form of BridgeFor: one bridge for all.
BridgeForAll(r) == IF bridges = {} THEN r ELSE CHOOSE b \in bridges : TRUE

\* get_bridge: the bridge of the resolver itself.
BridgeFor(r) == r

\* stream_round_to_monitor, for the next resolver: its bridge, made when it has
\* none, and the call of send_line.
StreamNext ==
  /\ phase = "stream" /\ call = Idle
  /\ \E r \in todo :
       LET b == BridgeFor(r)
       IN  /\ todo' = todo \ {r}
           /\ call' = [step |-> "ensure", line |-> <<r, round>>, bridge |-> b]
           /\ bridges' = bridges \cup {b}
           /\ IF b \in bridges THEN UNCHANGED <<st, pipe, past, failures>> ELSE StartProc(b)
  /\ UNCHANGED <<phase, round, deaths, offered, sent>>

\* Building the predicates of a resolver fails: the driver gives up the round.
BuildFails ==
  /\ phase = "stream" /\ call = Idle /\ todo # {}
  /\ todo' = {}
  /\ UNCHANGED <<phase, round, call, bridges, st, pipe, past, deaths, failures, offered, sent>>

\* Changed form of RoundDone: one round too many.
RoundDoneLate ==
  /\ phase = "stream" /\ call = Idle /\ todo = {}
  /\ round' = round + 1
  /\ IF round' <= Rounds THEN phase' = "test" /\ UNCHANGED todo
                         ELSE phase' = "end" /\ todo' = bridges
  /\ UNCHANGED <<call, bridges, st, pipe, past, deaths, failures, offered, sent>>

\* The round is over.
RoundDone ==
  /\ phase = "stream" /\ call = Idle /\ todo = {}
  /\ round' = round + 1
  /\ IF round' < Rounds THEN phase' = "test" /\ UNCHANGED todo
                        ELSE phase' = "end" /\ todo' = bridges
  /\ UNCHANGED <<call, bridges, st, pipe, past, deaths, failures, offered, sent>>

\* An exception of get_next_packet, of the result folder and the files in it, or of
\* record_stats leaves test_payloads past the end of the sessions: the process of
\* the unit is gone, and with it the writing end of every pipe.
UnitRaises ==
  /\ phase \in {"test", "auth"} \/ (phase = "stream" /\ call = Idle /\ todo = {})
  /\ phase' = "raised"
  /\ UNCHANGED <<round, todo, call, bridges, st, pipe, past, deaths, failures, offered, sent>>

\* end_all_sessions, for the next bridge.
EndNext ==
  /\ phase = "end" /\ call = Idle
  /\ \E b \in todo :
       /\ todo' = todo \ {b}
       /\ call' = [step |-> "ensure", line |-> End, bridge |-> b]
  /\ UNCHANGED <<phase, round, bridges, st, pipe, past, deaths, failures, offered, sent>>

EndDone ==
  /\ phase = "end" /\ call = Idle /\ todo = {}
  /\ phase' = "terminate"
  /\ todo' = bridges
  /\ UNCHANGED <<round, call, bridges, st, pipe, past, deaths, failures, offered, sent>>

\* terminate_all: SIGTERM, which a monitor does not catch, whatever it has not read.
Terminate ==
  /\ phase = "terminate"
  /\ \E b \in todo :
       /\ todo' = todo \ {b}
       /\ st' = [st EXCEPT ![b] = IF @ = "up" THEN "exited" ELSE @]
  /\ UNCHANGED <<phase, round, call, bridges, pipe, past, deaths, failures, offered, sent>>

TerminateDone ==
  /\ phase = "terminate" /\ todo = {}
  /\ phase' = "done"
  /\ UNCHANGED <<round, todo, call, bridges, st, pipe, past, deaths, failures, offered, sent>>

-----------------------------------------------------------------------------
(* send_line and end_session, under the bridge's lock *)

\* The call returns; written says whether its line went into a pipe.
Return(written) ==
  /\ call' = Idle
  /\ IF call.line = End THEN UNCHANGED <<offered, sent>>
     ELSE LET r == call.line[1]
          IN  /\ offered' = [offered EXCEPT ![r] = Append(@, call.line)]
              /\ sent' = IF written THEN [sent EXCEPT ![r] = Append(@, call.line)] ELSE sent

\* Changed form of EnsureProc: only a monitor that never started is replaced.
EnsureProcOnce ==
  /\ call.step = "ensure"
  /\ call' = [call EXCEPT !.step = "check"]
  /\ IF st[call.bridge] # "none" THEN UNCHANGED <<st, pipe, past, failures>>
                                 ELSE StartProc(call.bridge)
  /\ UNCHANGED <<phase, round, todo, bridges, deaths, offered, sent>>

\* _ensure_proc.
EnsureProc ==
  /\ call.step = "ensure"
  /\ call' = [call EXCEPT !.step = "check"]
  /\ IF st[call.bridge] = "up" THEN UNCHANGED <<st, pipe, past, failures>>
                               ELSE StartProc(call.bridge)
  /\ UNCHANGED <<phase, round, todo, bridges, deaths, offered, sent>>

\* _is_broken: no monitor, and the line is skipped.
IsBroken ==
  /\ call.step = "check"
  /\ IF st[call.bridge] = "up"
     THEN call' = [call EXCEPT !.step = "write"] /\ UNCHANGED <<offered, sent>>
     ELSE Return(FALSE)
  /\ UNCHANGED <<phase, round, todo, bridges, st, pipe, past, deaths, failures>>

\* The write, which waits while the pipe is full.
WriteLine ==
  /\ call.step = "write"
  /\ st[call.bridge] = "up" /\ Len(pipe[call.bridge]) < PipeCap
  /\ pipe' = [pipe EXCEPT ![call.bridge] = Append(@, call.line)]
  /\ Return(TRUE)
  /\ UNCHANGED <<phase, round, todo, bridges, st, past, deaths, failures>>

\* Changed form of WriteFails: the exception goes on to test_payloads, which
\* ignores it and everything left to do with it.
WriteFailsThrough ==
  /\ call.step = "write"
  /\ st[call.bridge] = "exited"
  /\ StartProc(call.bridge)
  /\ Return(FALSE)
  /\ IF phase = "end" THEN phase' = "done" ELSE UNCHANGED phase
  /\ UNCHANGED <<round, todo, bridges, deaths>>

\* The monitor died since the poll: a new one is started, the line is not sent again.
WriteFails ==
  /\ call.step = "write"
  /\ st[call.bridge] = "exited"
  /\ StartProc(call.bridge)
  /\ Return(FALSE)
  /\ UNCHANGED <<phase, round, todo, bridges, deaths>>

-----------------------------------------------------------------------------
(* The monitors *)

\* A line is read and evaluated; the end of the session resets the evaluator.
MonitorReads(b) ==
  /\ st[b] = "up" /\ pipe[b] # << >>
  /\ pipe' = [pipe EXCEPT ![b] = Tail(@)]
  /\ past' = [past EXCEPT ![b] = IF Head(pipe[b]) = End THEN << >>
                                 ELSE Append(@, Head(pipe[b]))]
  /\ UNCHANGED <<driver, st, deaths, failures, offered, sent>>

\* A line that is not sane aborts the monitor (assert); it may also be killed.
MonitorDies(b) ==
  /\ st[b] = "up" /\ deaths < MaxDeaths
  /\ deaths' = deaths + 1
  /\ st' = [st EXCEPT ![b] = "exited"]
  /\ UNCHANGED <<driver, pipe, past, failures, offered, sent>>

\* The end of its input, once nobody can write to it: the monitor exits.
MonitorEof(b) ==
  /\ st[b] = "up" /\ pipe[b] = << >> /\ phase = "raised"
  /\ st' = [st EXCEPT ![b] = "exited"]
  /\ UNCHANGED <<driver, pipe, past, deaths, failures, offered, sent>>

-----------------------------------------------------------------------------
Driver ==
  \/ TestNextPayload \/ AuthSrvFails \/ AuthSrvStarts \/ UnitRaises
  \/ StreamNext \/ BuildFails \/ RoundDone
  \/ EndNext \/ EndDone \/ Terminate \/ TerminateDone
  \/ EnsureProc \/ IsBroken \/ WriteLine \/ WriteFails

Next ==
  \/ Driver
  \/ \E b \in Resolvers : MonitorReads(b) \/ MonitorEof(b) \/ MonitorDies(b)

\* The driver goes on whenever it can, and a monitor reads what is in its pipe and
\* notices the end of it.
Fairness ==
  /\ WF_vars(Driver)
  /\ \A b \in Resolvers : WF_vars(MonitorReads(b) \/ MonitorEof(b))

Spec == Init /\ [][Next]_vars /\ Fairness

-----------------------------------------------------------------------------
(* Properties *)

\* What a living monitor has judged and has still to read is an unbroken suffix
\* of its own resolver's rounds, in order: a restart forgets the beginning of the
\* session, and the line that met the dead monitor, but leaves no gap after it
\* and mixes in no other resolver's line.
PastIsSuffixOfOwnRounds ==
  \A b \in Resolvers :
    (st[b] = "up" /\ End \notin Range(pipe[b])) =>
       IsSuffix(past[b] \o pipe[b], offered[b])

\* The unit comes to an end and leaves no monitor behind, whichever monitors
\* died on the way, whatever pipe was full and also when an exception cuts it
\* short, unless the authoritative server cannot be started again and again:
\* test_payloads has no limit on that.
UnitEnds ==
  \/ []<><<AuthSrvFails>>_vars
  \/ <>[](phase \in {"done", "raised"} /\ \A b \in Resolvers : st[b] # "up")

\* "send one event per resolver to the monitor": of the events of all resolvers,
\* those that send_line was given and never wrote are at most one for every
\* monitor that died and one for every monitor that could not be started.
Lost == {e \in Event : e \in Range(offered[e[1]]) /\ e \notin Range(sent[e[1]])}
LostOnlyToDeaths == Cardinality(Lost) <= deaths + failures
=============================================================================
