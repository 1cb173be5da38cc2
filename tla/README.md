# Verification of the CFS runtime monitor and its hooks

The repository connects stateful fuzzers (SNPSFuzzer, AFLNet/ProFuzzBench,
ResolverFuzz, SAECRED for Wi-Fi) to a runtime monitor: a process, the
*evaluator*, that reads protocol events as lines of `key=value` predicates and
checks them against past-time LTL formulas. A violated formula turns a test
case into a finding. If the monitor's verdicts are wrong, late, lost or charged
to the wrong test case, the fuzzer saves the wrong inputs or none. This
directory models that path, from the packets an adapter sees through a formula's
bit vector to the flag the fuzzer looks at, together with the snapshots that
rewind it and the two other harnesses (ResolverFuzz, Wi-Fi) that drive a monitor,
and checks it with TLC and TLAPS.

## 1. Inventory

| component | source | state | operations | interacts through |
|---|---|---|---|---|
| past-time evaluator | `SNPSFuzzer/evaluator-src/evaluator.*`, `bitvector.*`, `ast.h` | `index`, `old_bv`, `new_bv` | `EvaluateOneStep`, `reset_evaluator`, get/set of its state | called by the main loop |
| preprocessor | `preprocess.cpp` | serial numbers of the AST | `DoPreProcess` | once, before the first event |
| type checker | `typechecker.cpp` | `TypeContext`, `constant_list` | `LoadTypeContext`, `TypeCheck`, `getType` | prints the banner; asked by `State` |
| event state | `state.cpp` | `LabelingFunction` | `addLabel`, `getLabel`, `IsSane` | built per event by the main loop |
| monitor main loop | `main.cpp` | counters, `session_trace`, `saved_states`, `g_recent_traces` | one handler per kind of input line | stdin/stdout of the process |
| monitor bridge | `SNPSFuzzer/monitor-src/monitor_bridge.*` | handle: two pipes, stdio buffers, `violation_detected` | start, emit, end session, check, clear, save, restore, stop | pipes to the evaluator, calls from the fuzzer |
| fuzzer hooks | `SNPSFuzzer/afl-fuzz.c` | `snapshot_metadata`, the snapshot flags, target process, images | `common_fuzz_stuff`, `self_criu_dump`, `self_criu_restore`, `run_target`, calibration | bridge calls, CRIU |
| predicate adapters | `monitor-src/*_predicate_adapter.c` | per-session protocol state | request/response to predicate line, reset | called around each packet |
| ResolverFuzz bridge | `ResolverFuzz/test_infra/monitor_bridge.py` | process, lock, pool | send, end session, restart, terminate | threads, pipe to the evaluator |
| Wi-Fi driver and generator | `wifi-driver-saerm/src`, `WiFiPacketGen-saerm/lib` | trace, inferred state, files | run a trace, infer the state, exchange files | polled files, sockets |
| parser, printer, logs | `parser.y`, `lexer.l`, `ast_printer.cpp` | - | - | - |
| vendored | AFL/AFLNet, CRIU, hostap, `json.hpp` | - | - | - |

What is hard here: the evaluator keeps one bit per subformula instead of a
history, and snapshots rewind it; the main loop restores its own counters beside
the evaluator's by separate statements; the bridge runs beside the evaluator
with timeouts, two pipes and a stdio buffer `select()` does not see; the
evaluator may die at an assertion without the fuzzer noticing; a snapshot is of
three things (process, monitor, adapter) that are saved and restored separately,
by steps each of which may fail; the adapters are fed damaged packets in any
order; the Python bridge restarts monitors in mid-session; the Wi-Fi processes
synchronise by polling files.

What makes each part correct:

* evaluator: the verdict on an event is the past-time meaning of the formula
  over the events of the session, whatever saves, restores and resets came
  before;
* main loop: counters, trace and evaluator are about the same events; a reported
  violation comes with the events that explain it;
* bridge: a violation is charged to one test case, and to the right one; no call
  hangs;
* type checker and event state: what they accept, the evaluator can evaluate;
* hooks: the monitor's state after a restore is that of the process image that was
  restored, and that image belongs to the current seed; failures end in plain
  runs;
* adapters: what a predicate line says is true of the packets of the session;
* ResolverFuzz bridge: a monitor judges consecutive rounds of one resolver, and the
  unit ends;
* Wi-Fi exchange: an answer is about the trace that was sent, and no side waits for
  ever.

`PROJECT.json` lists the hazards line by line, with the properties that watch
over them.

## 2. Modules

| module | models | state and actions |
|---|---|---|
| `PastLTL` | AST tables, one visit of a node (`EvaluateFormula`, `EvaluatePredicate`), and beside it the reference meaning `PastMeaning` over a sequence of events | none |
| `Evaluator` | class `Evaluator` and the save/restore of its state | `BeginStep`, `StepFormula` (one turn of the loop), `EndStep`, `ResetEvaluator`, `SaveState`, `RestoreState` |
| `HistoryMonitor` | abstract specification: remembers the events and takes verdicts from their meaning | `Observe`, `Reset`, `Save`, `Restore` |
| `Monitor` | the loop of `main.cpp` over `Evaluator` | `BeginEvent`/`AbortOnEvent`, `EvaluateNextFormula`, `FinishEvent`, `SaveCommand`, `RestoreCommand`, `RestoreUnknown`, `EndSession`, `EndOfInput` |
| `Bridge` | `monitor_bridge.c`, its caller in `common_fuzz_stuff`, the pipes and the evaluator as a reader and printer of lines | fuzzer: `EmitLine`, `SaveOrRestore`, `EndSession`, `Write`, `Acknowledge`, `DrainRead`, `DrainEnd`, `Check`, `Stop`, `Waitpid`; evaluator: `HandleLine`, `PrintLine`, `Finish` |
| `TypeChecker` | `typechecker.cpp`, `IsSane` and the conversions of `EvaluatePredicate` | `LoadEnum`, `LoadScalar`, `Loaded`, `CheckFormula`, `TypeCheckPassed`, `ReceiveEvent`, `EvaluateOneStep` |
| `SnpsSession` | the snapshot side of `afl-fuzz.c` over an abstract monitor, adapter, target and CRIU | `run_target`: `RunTarget`, `SendM1(Fails)`, `DumpSocketFails`, `CriuDump(Fails)`, `Restore(Fails)`, `SendM23`, `SendOverNetwork`, `Report`; callers: `Calibrate...`, `FuzzOne` (with `ChooseSeed`, or `PassSeed` when the seed is passed over), `TestCase`, `AbandonEntry`, `EndSession`, `SkipEntry`, `SaveIfInteresting`, `HangReturned`, `CommonFuzzStuffEnds` |
| `FtpAdapter`, `DnsAdapter`, `DtlsAdapter` | the predicate adapters the fuzzer installs | one action per builder, `ResetSession` |
| `Adapters` | composes the three as `afl-fuzz.c` drives them: one is installed by `-P`, packets go to it, `fuzz_one` resets all, a violation the installed one | `FtpPacket`, `DnsPacket`, `DtlsPacket`, `FuzzOne`, `Violation` |
| `ResolverBridge` | `monitor_bridge.py` and the round loop of a ResolverFuzz unit | driver: `TestNextPayload`, `AuthSrvFails`, `AuthSrvStarts`, `StreamNext`, `BuildFails`, `RoundDone`, `UnitRaises`, `EndNext`, `EndDone`, `Terminate`, `TerminateDone`; a call: `EnsureProc`, `IsBroken`, `WriteLine`, `WriteFails`; monitors: `MonitorReads`, `MonitorEof`, `MonitorDies` |
| `WifiExchange` | the three files between the packet generator and the Wi-Fi driver, `state_inference` and the outcome of a trace | generator: `Clear...File`, `WriteTrace`, `ReadOracle`, `DropOracle`, `ReadResponse`, `DropResponse`, `Restart`; driver: `FileNotEmpty`, `OpenResponse`, `OpenOracle`, `ReadTrace`, `ClearTrace`, `StateInference`, `WriteOutcome`, `CloseFiles` |
| `MCEvaluator`, `MCMonitor` | instances for TLC | |
| `EvaluatorProofs`, `MonitorProofs`, `BridgeProofs`, `TypeCheckerProofs`, `SnpsProofs`, `AdaptersProofs`, `ResolverProofs`, `WifiProofs` | theorems about the module they extend (section 4) | |

How the state corresponds to the code:

* A bit vector is the set of serial numbers whose bit is set. A formula is the
  table of its nodes by serial number, as `PreProcess` leaves it: root 0,
  children after their parents. The recursion of `EvaluateFormula` over a formula
  is the unique set of nodes `v` that satisfies `IsEvaluation`; nothing in the
  code is short-circuited, so every node is visited at every event.
* `BitsSet` leaves the comparisons out, as the `default` case of the switch does.
* An event is a labelling of the identifiers; an identifier the line does not
  mention is `Unset`, and reading one is a failed assertion (`Evaluable`,
  `Accepted`). Enum constants label themselves, as in `State`'s constructor.
* In `Monitor`, `session_trace` holds the labels of the lines, since that is what
  the dump prints; `ValidResponse` has one case per protocol tag.
* In `Bridge`, an event is reduced to what the evaluator does with it: nothing
  (`ok`), a violation line (`bad`), an abort (`insane`). A line of output is the
  number of the violation it announces, as in `VIOLATION_DETECTED:<n>`, or `Ack`,
  or the `Banner` "Type check passed.".
* `select()` is `Readable`/`TimesOut`: it sees the descriptor, never the stdio
  buffer. `fgets` first empties the stdio buffer, then reads up to `FileBuf`
  lines from the pipe at once (`Buffered`, `Unread`); that part is modelled from
  how the C library behaves and is marked external.
* In `TypeChecker`, a formula is the set of its comparisons: every other node
  checks when its children do, and all are visited at every event. The loader is
  one step per declaration; a name that clashes is a possible input, so every
  order of clashing declarations is explored.
* In `SnpsSession`, an event is the number of the run that emitted it, so that "the
  conversation of this process" and "the events of this session" are sequences
  that can be compared. The monitor is the abstract one of `HistoryMonitor`
  (events of the session, saved sequences), the adapter the events since its
  reset, a process or image that may be missing a set of at most one sequence.
  `owed` is the status the fork server still has to report: a `read()` without it
  blocks (`pc = "hung"`). The indeterminate result of a failed
  `send_over_network_m1` is a choice. A state id is a number, as in the code, where it
  is a response code; `HasMetadata` is the test against `MAX_SNAPSHOTS`, without which
  neither `SaveMonitor` nor `RestoreMonitor` does anything. `state_aware_mode` (`-E`)
  selects the loop of `main` that calls `fuzz_one`: only the state-aware one chooses a
  state and clears the snapshot flags, the other keeps state 0 and the flag of the seed
  before.
* An adapter's Boolean state is the set of the flags that are true. Packets are
  what the parser makes of them, unreadable ones included; a DTLS record has a
  shape, on which it depends whether its type can be read. Predicates that copy a
  field of the packet and touch no state (the epoch, the reply text) are left out.
* In `ResolverBridge`, one bridge call is several steps, because the monitor may die
  between `poll()` and the write. `PipeCap` is the capacity of its standard input.
  A round whose authoritative server cannot be restarted is not counted
  (`AuthSrvFails`); an exception that nothing catches ends the unit's process
  (`UnitRaises`), after which the monitors meet the end of their input (`MonitorEof`).
  The threads of a unit are joined before the monitors are fed, so the lock of a
  bridge is never contended and is not a variable.
* In `WifiExchange`, each `open`, `read`, `fopen` and `fclose` is a step, since either
  process may be between any two of them. A text reaches the file in one write.
  What the access point does is a choice (`Reply`).

History variables (`hist`, `tv`, `savedHist` in `Evaluator`; `cur`, `fresh`,
`lost` in `Monitor`; `session`, `lines`, `unanswered`, `found`, `cause`, `hits`,
`sawOther`, `late` in `Bridge`; `runs`, `seedRun` in `SnpsSession`; `messages`, `asked`, `answered`, `seen`, `named` in the adapters;
`offered`, `sent` in `ResolverBridge`; `erased` in `WifiExchange`) never influence a step of the program; bounds on them
appear only in guards marked by a `Max...` constant. `fresh` is the set of snapshot ids
whose saved state is a beginning of the present session: a restore keeps those of them
that are no longer than the one it goes back to (`UpTo`), an end of session none, and
`lost` says that another one was restored. `erased` is the calls whose trace the Wi-Fi
driver cleared without having read it.

Definitions introduced by "Changed form of ..." are not part of the models: each
is a plausible mistake in the definition that follows it, used to confirm that a
property notices it.

## 3. Runs

| run | what it checks | result |
|---|---|---|
| `evaluator` (`MCEvaluator.cfg`) | types, `PastTimeSemantics`, `VerdictsOfLastEvent`, refinement of `HistoryMonitor` | holds |
| `yesterday` (`MCYesterday.cfg`) | the same semantics without the exception for `Y` over a comparison | violated: the bit of a comparison is never stored, so `!Y(x = 1)` stays true |
| `monitor` (`MCMonitor.cfg`) | `IndexIsEventCount`, `TraceFitsSession`, `TraceExplainsVerdict`, `DroppedViolationResurfaces`, types; with two snapshot ids | holds; `TraceExplainsVerdict` until a restore brings back events that were cut |
| `monitor_dump` (`MCMonitorDump.cfg`) | "the full session trace" is dumped | violated: save, end of session, restore, violation |
| `bridge` (`MCBridge.cfg`) | `ViolatingSessionIsFlagged`, `EachHitHasItsOwnViolation`, `BlockedOnlyOverCapacity`, `CallsReturn`, types; with snapshots and any delay | holds, the first with the four exceptions it names |
| `bridge_stale` (`MCBridgeStale.cfg`) | the flag is about the current session, any delay | violated: a line printed late flags the next session |
| `type_checker` (`MCTypeChecker.cfg`) | `ConstantsAreSane`, `AcceptedFormulaEvaluates` | holds |
| `snps` (`MCSnps.cfg`) | `SessionEndsWithConversation`, `SnapshotIsOfThisSeed`, `FallsBackAfterThree`, `AdapterIsOfThisSeed`, types | holds |
| `snps_untracked` (`MCSnpsUntracked.cfg`) | the monitor follows every restored process | violated: not for ids from `MAX_SNAPSHOTS` on |
| `adapters` (`MCAdapters.cfg`) | `FtpFlagsMeanHistory`, `FtpChargedCommandWasSent`, `DnsTableIsLatestQueries`, `DnsIdMatchIsRight`, `DtlsFlagsAreOfTheSender`, `DtlsNamedOnceInOrder`, types | holds |
| `resolver` (`MCResolver.cfg`) | `PastIsSuffixOfOwnRounds`, `LostOnlyToDeaths`, `UnitEnds`, types | holds |
| `wifi` (`MCWifi.cfg`) | `AnswerIsOfThisTrace`, `ErasedOnlyByRestarts`, `CallReturns`, types | holds |

Where the code keeps less than one would expect, the property of a passing run states
what is kept and names the exception. Four runs show a promise of a comment or a text
violated; of the others this list says what the exception is:

* `monitor_bridge.c:131`, `:153`: `monitor_end_session` waits 10 ms for the first line and
  not at all for the next ones. An evaluator that is slower leaves the session unflagged
  (`late`), and so does a first line that announces nothing, such as the banner that
  `monitor_start` leaves unread (`sawOther`); the violation line is then read at the end of a later session
  (run `bridge_stale` against `monitor_bridge.h:34`). Both are exceptions of
  `ViolatingSessionIsFlagged`, which claims nothing else away about time.
* `monitor_bridge.c:215`: the read of an acknowledgement takes whatever line is
  oldest. If that line announces a violation, `monitor_end_session` never sees it;
  if the lines behind it do, they may be in the stdio buffer by then, where its
  `select()` does not see them until something else is printed (the other two exceptions of
  `ViolatingSessionIsFlagged`).
* `afl-fuzz.c:5475`: calibration runs and second tries emit events and end no session,
  so they open the session of the next test case. `SessionEndsWithConversation`
  therefore speaks of the end of the session, not of all of it.
* `afl-fuzz.c:7762`: the "flag for current test" (`:231`) is set after `run_target` has
  returned, and the next run that exits normally reports it as its own. The verdict is not lost: `common_fuzz_stuff` has put it into the fault.
* `afl-fuzz.c:8176`: the adapters are reset per seed, not "on new connection"
  (`ftp_predicate_adapter.h:17`), and a restore does not bring their state back: within a
  seed the adapter mixes connections. `AdapterIsOfThisSeed` is what is left.
* `afl-fuzz.c:4798`, `:1774`: the monitor is saved and restored for ids below
  `MAX_SNAPSHOTS` (1024) only, and ids are response codes. Those of DTLS are all beyond
  it (`aflnet.c:1217`), and those of DNS (`aflnet.c:1020`) mostly: there the process goes
  back and the monitor does not (run `snps_untracked`; exception of
  `SessionEndsWithConversation` and `SnapshotIsOfThisSeed`).
* `afl-fuzz.c:11993`: the loop without `-E` does not clear `has_snapshot_flag`, so the
  image of one seed is restored for the next (`SnapshotIsOfThisSeed` ties the snapshot to
  the seed in the state-aware mode only). Image and monitor state
  are still of one moment.
* `main_cdns.py:578`: a round whose authoritative server cannot be restarted is tried
  again without a limit. `UnitEnds` says that this is the only way not to end.
* `wifi-driver-saerm/src/fuzzer.cpp:874`: reading and clearing `message.txt` are two
  steps, and a generator started again may write in between. At most one trace per
  restart is lost so (`ErasedOnlyByRestarts`), and waiting for its answer is the only
  way to wait for ever (`CallReturns`).
* `afl-fuzz.c:5103`: a failed restore gives the snapshot up at once. Nothing sets
  `backstep` to 1, the value the comment at `:7816` describes.
* `afl-fuzz.c:1800`: `send_over_network_m1` returns an uninitialised `__res` on some
  failures. If it reads as success, a process that is gone is dumped, and the
  failed dump waits for a status that is not owed (`pc = "hung"`).
* `ftp_predicate_adapter.c:303`: PWD, SYST and FEAT are inferred without the evidence
  `:253` asks for (exception of `FtpChargedCommandWasSent`).
* `ResolverFuzz/test_infra/monitor_bridge.py:105`: the line whose write fails is not sent
  to the new monitor (the bound of `LostOnlyToDeaths` is reached).
* `wifi-driver-saerm/src/fuzzer.cpp:448`: `status_code != 0 || status_code != 126` is true
  of every code, so the containers beside it are not checked (`Inferred`).
* `state.cpp:62`: `isNumberFormat` accepts a lone `-` and numbers too long for an
  `int`, on which `stoi` throws (exception of `AcceptedFormulaEvaluates`).

Bounds, and why they are enough to see the interesting cases:

* `evaluator`: four formulas that between them hold every temporal and Boolean
  operator and four of the comparisons, all four valuations of one INT and one
  BOOL, three events per session (a past operator looks at the first event, the
  one before, and now), one snapshot id that may be saved and restored at any
  point, any number of sessions.
* `monitor`: two formulas, one that stays false and one that recovers, all eight
  protocol tags, lines that are a valid response or not, a line with a wrong type
  and a line that leaves an identifier unlabelled; two events per session, two
  sessions, a window of one packet reference so that it overflows. Two snapshot ids, so
  that one can be saved on a branch that a restore of the other has left; they are
  interchangeable (`IdSymmetry`), and `BoundSecondSnapshot` explores the second for one
  protocol tag and up to the second report only, since what a snapshot holds depends on
  neither.
* `bridge`: a pipe of one line in and of two out, three lines per session, three sessions:
  pipes fill, lines are left in the buffer, and the next session meets them. The stdio
  buffer holds as much as the pipe, as in the program: with a smaller one, a line is
  always left in the pipe for `select()` to see and the last exception of
  `ViolatingSessionIsFlagged` does not occur. `bridge_stale`: two sessions without
  snapshots are enough.
* `type_checker`: three names are enough for a variable, a second one and a constant
  that clashes with either; all comparison kinds; a convertible and an
  unconvertible number; one comparison, since acceptance and evaluation of
  comparisons do not depend on each other.
* `snps`: state 0, which has no messages before it, two states, so that a seed can meet
  the images of another, and a fourth beyond `MAX_SNAPSHOTS`, here 3; both loops of
  `main`; one calibration run; five runs of the target, enough for a snapshot, a failure of a
  second dump under the same id, a second seed and the fourth failure in a row.
* `adapters`: only the installed adapter changes, so the state space is the sum of
  three. FTP: four packets of any kind between resets, so that a flag can be set, lowered
  by a packet of the other side and asked for; all commands and codes that change
  state, one that does not, and unreadable ones. DNS: a table of two and four
  queries. DTLS: no bound at all, the state space is finite.
* `resolver`: three rounds, a pipe of two lines, two deaths and one failed start.
  The rounds an authoritative server fails in are not bounded. `wifi`: four calls and two
  restarts; the lag `AnswerIsOfThisTrace` allows is
  reached, and is violated with a smaller one.

Deadlock is not checked in `monitor` and `type_checker` (the process ends, or
aborts), in `bridge` and `bridge_stale` (the fuzzer may stop calling, and the two processes may
block each other: that is what `BlockedOnlyOverCapacity` delimits), and in the
`snps`, `resolver` and `wifi` runs (the bound on runs, rounds or calls ends them; in
`snps` the fuzzer may also hang on the fork server).

Fairness is assumed in three runs. `bridge`: a call in progress goes on
(every `select()` has a timeout, and the fuzzer is one thread), and so does the
evaluator (one thread that loops over its input); the fuzzer is never assumed to
make another call. `resolver`: the driver, one thread, goes on unless it is blocked
on a full pipe, and a living monitor reads, and exits at the end of its input; monitors are
never assumed to die or not to, and the authoritative server is not assumed to start:
`UnitEnds` allows that it fails infinitely often. `wifi`: both processes poll in a loop and go on when there is something to
do; the generator is never assumed to be started again.

## 4. Proofs

`EvaluatorProofs` holds for any number and shape of formulas, any events, any
snapshot ids and any bound, from the assumptions `PreProcess` (what the
preprocessor and the grammar give) and `EvaluatorAssumption`:

* `TypeCorrect`: `Spec => []TypeOK`;
* `SemanticsCorrect`: `Spec => []PastTimeSemantics`;
* `VerdictsCorrect`: `Spec => []VerdictsOfLastEvent`;
* `ImplementsHistoryMonitor`: `Spec => ImplementsHistory`, the refinement of
  `HistoryMonitor`, for specifications in which no `Y` is directly over a
  comparison (`YesterdayOfStoredBit`; run `yesterday` shows what the others do).

`PastTimeSemantics` is not inductive: it speaks of valuations, the code of bits.
The inductive invariant `IInv` ties them: the bits in `old_bv[f]` are the
valuation of the last event the formula has seen, comparisons aside
(`BitsAfter`), `new_bv` is empty between turns of the loop, formulas before
`iter` are one valuation ahead of the others, and every saved state has the same
shape with respect to the history at its save (`SavedInv`). The core is
`NewEventFaithful`: from such bits, `EvaluateFormula` computes the meaning at the
new position, operator by operator; `MeaningLocal` says that earlier positions do
not change when an event is added. For the refinement the mapped verdicts must be
*the* ones `PastMeaning` defines: `OneMeaning` shows that a history has one meaning
(at the last node where two differ, the arguments come later in the numbering of
`PreProcess` and agree), and then `BeginStep` and `StepFormula` are stutters and
`EndStep` is `Observe`. Induction over numbers is done with `SmallestOf`, the least-number principle for sets of numbers, since the
induction rules of the library take an operator as parameter. `HistoricallyPersists`
says that a formula `H(...)` that was false stays false.

`MonitorProofs` carries these results to the process, for any lines, protocol
tags, window and bounds, from `MonitorAssumption` (the events of `Evaluator` are
what lines are turned into; the window is a number):

* `MonitorRunsEvaluator`: `MonSpec => Spec`, each step of the main loop being a
  step of the evaluator or leaving it alone; hence `MonitorSemantics`:
  `MonSpec => []PastTimeSemantics`;
* `MonTypeCorrect`: `MonSpec => []MonTypeOK`;
* `CountsCorrect`: `MonSpec => []IndexIsEventCount`, which is inductive because it
  speaks of the saved states as well as of the current one;
* `TraceCorrect`: `MonSpec => []TraceFitsSession`;
* `MonitorImplementsHistory`: `MonSpec => ImplementsHistory`, under the same
  hypothesis on `Y` as above;
* `TraceExplains`: `MonSpec => []TraceExplainsVerdict`, for any number of snapshot ids.
  The inductive invariant `TraceInv` adds that a snapshot in `fresh` holds a beginning of
  the session's events, so that the truncation by `event_count` and the evaluator go back
  to the same place; a restore keeps this for the snapshots that are no longer than the
  one restored;
* `DroppedResurfaces`: `MonSpec => DroppedViolationResurfaces`, an action property,
  from `HistoricallyPersists` and the types of the verdicts.

`BridgeProofs` holds for pipes and stdio buffers of any size, with snapshots or
without, from `BridgeAssumption` (sizes and bounds are numbers, the sizes not 0):

* `TypeCorrect`: `Spec => []TypeOK`, the capacities included;
* `CapacityCorrect`: `Spec => []BlockedOnlyOverCapacity`. The invariant behind it,
  `CapacityInv`: lines in the two pipes, plus the one being printed, are at most
  one more (the banner) than the lines sent since the evaluator was last quiet;
* `HitsCorrect`: `Spec => []EachHitHasItsOwnViolation`. The inductive invariant has
  three parts: violation numbers wait in increasing order from the stdio buffer
  through the pipe to the line being printed, above the last one read
  (`QueueInv`); no line is from a session that has not begun (`SessionInv`); the
  number behind the flag is newer than those of all earlier hits (`FlagInv`).
  That `fgets` takes the oldest line, wherever the buffer boundary falls, is the
  lemma `FgetsTakesOldest`.

* `ViolatingFlagged`: `Spec => []ViolatingSessionIsFlagged`, whatever the delays. Three
  parts are added to the invariant of `HitsCorrect`: until `monitor_stop`, a violation
  that was not read is in the stdio buffer, in the pipe or being printed (`KeptInv`);
  lines are sent, handled and found in the order of their sessions (`OrderInv`), so
  that a number read at or after one of this session is of this session too; and the
  loop ends either after a line, with the flag set or another line seen, or with
  nothing more to come, or because it gave up too early (`DrainInv`).

`TypeCheckerProofs`, for any names, texts of numbers and number of comparisons, from
`TypeCheckerAssumption` (names, `true`/`false` and numbers are different texts):

* `ConstantsSane`: `Spec => []ConstantsAreSane`, `AcceptedEvaluates`:
  `Spec => []AcceptedFormulaEvaluates`. The invariant: every constant has an enum type
  whatever clashes were loaded (`ConstantsAreEnums`), and checked formulas still
  check and labels are still sane when the event is evaluated (`Accepted`).

`SnpsProofs`, for any target states and `MAX_SNAPSHOTS`, with `-E` or without, and any
number of calibration runs and bound on runs, from `SnpsAssumption`:

* `TypeCorrect`, `SessionMatchesProcess` (`SessionEndsWithConversation`),
  `SnapshotOfSeed` (`SnapshotIsOfThisSeed`), `FourFailuresAtMost`
  (`FallsBackAfterThree`), `AdapterOfSeed` (`AdapterIsOfThisSeed`). The invariant: which
  flags and processes go with which step of `run_target` (`Control`), how far the
  counter of failures can be (`Failures`), that what was emitted since the seed began
  is of this seed (`OfThisSeed`), and that an image and the monitor's saved state
  are of one moment from the dump on, as long as the flag promises it and the id has
  metadata (`Snapshot`).

`AdaptersProofs`, for any commands, codes, ids, types, epochs, number of packets and
size of the query table, from `AdaptersAssumption` (`response` is not a command, so that a
recorded packet is one or the other; codes, positions and ids are numbers, the table has
room):

* `TypeCorrect`, `TableIsLatest`, `IdMatchRight` (DNS), `FlagsOfTheSender`, `NamedOnce`
  (DTLS), `ChargedWasSent`, `FlagsMeanHistory` (FTP). Each adapter has an invariant of
  its own, kept by its packets and by a reset. DNS: the table is the end of the list of
  queries, element by element (`TableOf`). DTLS: a flag is up just when a record of its
  side showed it, and a name that is given once has left the flag that forbids it a
  second time. FTP: a flag stands when the latest packet that raises or lowers it
  raised it (`Stands`, with the packets `On(f)` and `Off(f)`), one lemma for all flags.

`ResolverProofs`, for any resolvers, rounds, pipe size, deaths and failed starts, from
`ResolverAssumption`:

* `TypeCorrect`, `PastIsSuffix` (`PastIsSuffixOfOwnRounds`), `LostToDeaths`
  (`LostOnlyToDeaths`: no more lines are lost than monitors died or failed to start).
  The invariant: which calls go with which phase (`Calls`), that nothing follows the
  end-of-session line (`EndIsLast`), and that a call whose monitor is already gone has
  its death or failed start counted before its line is lost (`Counted`).

`WifiProofs`, for any number of calls and restarts, from `WifiAssumption`:

* `TypeCorrect`, `AnswerOfTrace` (`AnswerIsOfThisTrace`). The invariant: both answer files
  are empty when the driver reads a trace (`Opened`), the trace that
  waits in the file is newer than the one inferred last (`Newer`), and a text is at most as many calls
  old as there were restarts while a call waits for it, one less before the next call
  is made (`Ages`, `Taken`).
* `ErasedByRestarts` (`ErasedOnlyByRestarts`). The invariant `Paid`: while the driver is
  between its look at `message.txt` and its clearing of it and the file is not what it
  saw (`Loose`), one restart more than traces were erased has happened, and a generator
  that is starting again has one more to spare.

Only model-checked: liveness (`CallsReturn`, `UnitEnds`, `CallReturns`), which needs
`ENABLED` and is out of the prover's reach. The runs that expect a violation have
no theorem, their properties being false. Every other property of the runs is proved for
all values of the constants, under the hypotheses named above.

## 5. Not modelled

* The grammar and lexer, the printer, log files and their wording, the byte parsing
  of packets and of ResolverFuzz result files. Numbers are members of small sets;
  what `stoi` refuses is a set of texts (`Number \ Convertible`).
* In `afl-fuzz.c`: dumb and crash mode, Ctrl-C (`stop_soon`), the forked-daapd branch
  of the dump, the repair of sockets, parallel mode (`sync_fuzzers`), queue and
  state selection, mutation. In the
  forked-daapd branch the monitor is not saved at all, as if every id were beyond
  `MAX_SNAPSHOTS`.
* The SSH, RTSP and SIP adapters: the fuzzer starts a monitor for these protocols
  but installs no line builders, so their state reaches nothing.
* The frames on the air, the SAE cryptography and the valid prefix of a trace in the
  Wi-Fi driver; traces longer than one write or than the line buffer of 100000
  bytes; a death of the driver, which nothing in the code handles.
* `main_.cpp`, `main_true.cpp`, `_main.cpp` and the evaluator copies under
  `profuzzbench`, `ResolverFuzz/ltl-parser` and `wifi-driver-saerm`: copies of the
  code that is modelled, or older states of it.

The repository has some 1.3 million lines. Nearly all of them are vendored or copied:
two trees of hostap, AFL and AFLNet in a dozen versions, ProFuzzBench subjects,
`json.hpp`, generated parsers. None of that is this project's logic, and a model of
it would say nothing about the monitor. The share of all lines that the models cover
is therefore far below one in three and will stay there; of the monitor, its bridge,
its adapters and the snapshot code the models cover most of what changes state.

## 6. Plan

Done: every component that changes state on the path from packet to flag is modelled,
and every safety property of the runs is proved. What is left:

1. State as theorems the step facts the liveness arguments rest on (which steps lower
   the number of lines a call still has to read), so that only the fairness argument
   itself stays with TLC.
2. The order of SIGTERM and unread lines in `ResolverBridge`, if the code or its docs
   come to promise one.
