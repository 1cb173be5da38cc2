---------------------------- MODULE SnpsSession ----------------------------
(***************************************************************************)
(* The fuzzer's side of a snapshot session (SNPSFuzzer/afl-fuzz.c): how     *)
(* run_target, self_criu_dump, self_criu_restore, calibrate_case,           *)
(* save_if_interesting, common_fuzz_stuff and fuzz_one drive the target     *)
(* process, CRIU, the monitor and the predicate adapter, when any of the    *)
(* steps may fail.                                                          *)
(*                                                                         *)
(* An event is the number of the run of the target that emitted it: m1, m23 *)
(* and a whole AFLNet sequence are one event each.  The monitor is what it  *)
(* promises (HistoryMonitor): the events of its session, and those of the   *)
(* saved states.  The adapter is the events it was shown since its reset.   *)
(* A process, an image or a saved state that may be missing is a set of at  *)
(* most one sequence: the conversation on its connection.                   *)
(***************************************************************************)
EXTENDS Integers, Sequences

CONSTANTS
  StateId,       \* the target states, by which snapshots are named
  MAX_SNAPSHOTS, \* the monitor's state is kept for smaller ids only
  CalCycles,     \* runs of one calibration
  MaxRuns        \* bound: runs of the target explored

ASSUME SnpsAssumption ==
  /\ StateId \subseteq Nat /\ 0 \in StateId
  /\ MAX_SNAPSHOTS \in Nat
  /\ CalCycles \in Nat \ {0}
  /\ MaxRuns \in Nat

VARIABLES
  pc,                    \* where the fuzzer is
  caller,                \* who called run_target: "test", "cal", "dry", "hang"
  cal,                   \* calibration runs left
  fault,                 \* what run_target or common_fuzz_stuff concluded
  state_aware_mode,      \* option -E
  target_state_id,
  can_snapshot_flag,
  has_snapshot_flag,
  is_first_run_of_fuzz_one,
  backstep,
  serious_err_count,
  valid,                 \* snapshot_metadata[id].valid
  g_last_violation_detected,
  process,               \* the conversation of the target, if it is alive
  owed,                  \* does the fork server still owe a status?
  image,                 \* image[id]: the process in stateN_images
  seen,                  \* the events of the monitor's session
  saved,                 \* saved[id]: the monitor's saved state
  violation,             \* a violation line the bridge has not reported yet
  adapter,               \* the events since the adapter was reset
  runs,                  \* (history) runs of the target so far
  seedRun                \* (history) runs when fuzz_one began

flags      == <<state_aware_mode, target_state_id, can_snapshot_flag,
                has_snapshot_flag, is_first_run_of_fuzz_one, serious_err_count>>
world      == <<process, owed, image>>
monitor    == <<seen, saved, violation>>
control    == <<pc, caller, cal, fault, backstep>>
hist       == <<runs, seedRun>>
vars       == <<control, flags, valid, g_last_violation_detected, world,
                monitor, adapter, hist>>

-----------------------------------------------------------------------------
\* perform_dry_run is about to calibrate its first seed; the monitor runs.
Init ==
  /\ pc = "calibrate" /\ caller = "dry" /\ cal = CalCycles
  /\ fault = "NONE" /\ backstep = 0
  /\ state_aware_mode \in BOOLEAN /\ target_state_id = 0
  /\ can_snapshot_flag = FALSE /\ has_snapshot_flag = FALSE
  /\ is_first_run_of_fuzz_one = FALSE /\ serious_err_count = 0
  /\ valid = [id \in StateId |-> FALSE]
  /\ g_last_violation_detected = FALSE
  /\ process = {} /\ owed = FALSE /\ image = [id \in StateId |-> {}]
  /\ seen = << >> /\ saved = [id \in StateId |-> {}] /\ violation = FALSE
  /\ adapter = << >>
  /\ runs = 0 /\ seedRun = 0

-----------------------------------------------------------------------------
(* run_target *)

\* The fork server starts a process, unless a snapshot is to be restored.
RunTarget ==
  /\ pc = "run"
  /\ runs < MaxRuns
  /\ runs' = runs + 1
  /\ backstep' = 0
  /\ IF can_snapshot_flag /\ has_snapshot_flag
     THEN pc' = "restore" /\ UNCHANGED <<process, owed>>
     ELSE /\ pc' = IF can_snapshot_flag THEN "m1" ELSE "aflnet"
          /\ process' = {<< >>}
          /\ owed' = TRUE
  /\ UNCHANGED <<caller, cal, fault, flags, valid, g_last_violation_detected, image,
                 monitor, adapter, seedRun>>

\* The adapter turns packets into lines and the monitor reads them; the target
\* is sent the packets.  Any line may violate a formula.
Emit(events) ==
  /\ seen' = seen \o events
  /\ adapter' = adapter \o events
  /\ \/ UNCHANGED violation
     \/ events # << >> /\ violation' = TRUE

\* run_target gives up with FAULT_NONE and leaves the rest to common_fuzz_stuff.
Serious ==
  /\ pc' = "returned"
  /\ fault' = "NONE"
  /\ backstep' = 2

\* send_over_network_m1 succeeds.
SendM1 ==
  /\ pc = "m1"
  /\ Emit(<<runs>>)
  /\ process' = {conversation \o <<runs>> : conversation \in process}
  /\ pc' = "dump"
  /\ UNCHANGED <<caller, cal, fault, backstep, flags, valid,
                 g_last_violation_detected, owed, image, saved, hist>>

\* It fails, before or after it emitted something: the target is terminated and
\* its status read.  Only the timeout and the missing process give __res a
\* value; on the other ways it is indeterminate and may read as OK.
SendM1Fails ==
  /\ pc = "m1"
  /\ \E events \in {<< >>, <<runs>>} : Emit(events)
  /\ process' = {}
  /\ owed' = FALSE
  /\ \/ Serious
     \/ pc' = "dump" /\ UNCHANGED <<fault, backstep>>
  /\ UNCHANGED <<caller, cal, flags, valid, g_last_violation_detected, image, saved,
                 hist>>

\* read() of the fork server's status blocks when it owes none.
ReadStatus ==
  /\ owed' = FALSE
  /\ process' = {}

\* self_criu_dump: dump_afl_socket fails.
DumpSocketFails ==
  /\ pc = "dump"
  /\ ReadStatus
  /\ IF owed THEN Serious ELSE pc' = "hung" /\ UNCHANGED <<fault, backstep>>
  /\ UNCHANGED <<caller, cal, flags, valid, g_last_violation_detected, image,
                 monitor, adapter, hist>>

\* State ids are response codes: those of DTLS, and most of DNS, are not below.
HasMetadata(id) == id < MAX_SNAPSHOTS

\* Changed form of SaveMonitor: a state that is valid is not saved again.
SaveMonitorOnce ==
  IF HasMetadata(target_state_id) /\ ~valid[target_state_id]
  THEN /\ saved' = [saved EXCEPT ![target_state_id] = {seen}]
       /\ valid' = [valid EXCEPT ![target_state_id] = TRUE]
  ELSE UNCHANGED <<saved, valid>>

\* The monitor's state is saved and recorded as valid before criu_dump.
SaveMonitor ==
  IF HasMetadata(target_state_id)
  THEN /\ saved' = [saved EXCEPT ![target_state_id] = {seen}]
       /\ valid' = [valid EXCEPT ![target_state_id] = TRUE]
  ELSE UNCHANGED <<saved, valid>>

\* The old images are removed, then criu_dump fails.
CriuDumpFails ==
  /\ pc = "dump"
  /\ SaveMonitor
  /\ image' = [image EXCEPT ![target_state_id] = {}]
  /\ ReadStatus
  /\ IF owed THEN Serious ELSE pc' = "hung" /\ UNCHANGED <<fault, backstep>>
  /\ UNCHANGED <<caller, cal, flags, g_last_violation_detected, seen, violation,
                 adapter, hist>>

\* It succeeds, and leaves no process behind.
CriuDump ==
  /\ pc = "dump"
  /\ process # {}
  /\ SaveMonitor
  /\ image' = [image EXCEPT ![target_state_id] = process]
  /\ ReadStatus
  /\ pc' = "restore"
  /\ UNCHANGED <<caller, cal, fault, backstep, flags, g_last_violation_detected, seen,
                 violation, adapter, hist>>

\* self_criu_restore: the socket, CRIU or the timer fails; no process is left.
RestoreFails ==
  /\ pc = "restore"
  /\ process' = {}
  /\ Serious
  /\ UNCHANGED <<caller, cal, flags, valid, g_last_violation_detected, owed, image,
                 monitor, adapter, hist>>

\* monitor_restore_bitvectors, or the warning that there is no monitor state.
RestoreMonitor ==
  IF HasMetadata(target_state_id) /\ valid[target_state_id]
  THEN seen' \in saved[target_state_id]
  ELSE UNCHANGED seen

\* It succeeds; after a dump has_snapshot_flag is set.
Restore ==
  /\ pc = "restore"
  /\ \E conversation \in image[target_state_id] : process' = {conversation}
  /\ RestoreMonitor
  /\ has_snapshot_flag' = TRUE
  /\ pc' = "m23"
  /\ UNCHANGED <<caller, cal, fault, backstep, state_aware_mode, target_state_id,
                 can_snapshot_flag, is_first_run_of_fuzz_one, serious_err_count,
                 valid, g_last_violation_detected, owed, image, saved, violation,
                 adapter, hist>>

\* send_over_network_m23, and the decision to give snapshots up when the first
\* restore was slower than sending m1.
SendM23 ==
  /\ pc = "m23"
  /\ Emit(<<runs>>)
  /\ process' = {}
  /\ \E slow \in BOOLEAN :
       /\ slow => is_first_run_of_fuzz_one
       /\ can_snapshot_flag' = (can_snapshot_flag /\ ~slow)
       /\ has_snapshot_flag' = (has_snapshot_flag /\ ~slow)
  /\ is_first_run_of_fuzz_one' = FALSE
  /\ pc' = "report"
  /\ UNCHANGED <<caller, cal, fault, backstep, state_aware_mode, target_state_id,
                 serious_err_count, valid, g_last_violation_detected, owed, image, saved, hist>>

\* send_over_network; the server may refuse the connection.
SendOverNetwork ==
  /\ pc = "aflnet"
  /\ \E events \in {<< >>, <<runs>>} : Emit(events)
  /\ process' = {}
  /\ owed' = FALSE
  /\ pc' = "report"
  /\ UNCHANGED <<caller, cal, fault, backstep, flags, valid,
                 g_last_violation_detected, image, saved, hist>>

\* The end of run_target: the target was killed by the timer or by SIGTERM,
\* crashed, or exited; only the last way looks at the flag.
Report ==
  /\ pc = "report"
  /\ \/ fault' \in {"TMOUT", "NONE", "CRASH"} /\ UNCHANGED g_last_violation_detected
     \/ /\ fault' = IF g_last_violation_detected THEN "VIOLATION" ELSE "NONE"
        /\ g_last_violation_detected' = FALSE
  /\ pc' = "returned"
  /\ UNCHANGED <<caller, cal, backstep, flags, valid, world, monitor, adapter, hist>>

-----------------------------------------------------------------------------
(* The callers of run_target *)

\* Changed form of CalibrateRun: the loop runs once more.
CalibrateOnce ==
  /\ pc = "calibrate"
  /\ cal >= 0
  /\ pc' = "run"
  /\ UNCHANGED <<caller, cal, fault, backstep, flags, valid,
                 g_last_violation_detected, world, monitor, adapter, hist>>

\* One turn of the loop of calibrate_case.
CalibrateRun ==
  /\ pc = "calibrate"
  /\ cal > 0
  /\ pc' = "run"
  /\ UNCHANGED <<caller, cal, fault, backstep, flags, valid,
                 g_last_violation_detected, world, monitor, adapter, hist>>

\* trace_bits was cleared and nothing ran: the restore of a snapshot failed.
NoCoverage == has_snapshot_flag /\ backstep = 2

\* A fault, or a first run without coverage, aborts the calibration.  The
\* monitor's session goes on.
CalibrateReturned ==
  /\ pc = "returned"
  /\ caller \in {"cal", "dry"}
  /\ cal' = IF fault # "NONE" \/ (cal = CalCycles /\ NoCoverage) THEN 0 ELSE cal - 1
  /\ pc' = "calibrate"
  /\ UNCHANGED <<caller, fault, backstep, flags, valid, g_last_violation_detected,
                 world, monitor, adapter, hist>>

\* calibrate_case returns: to save_if_interesting, or to perform_dry_run, which
\* goes on to its next seed or to the main loop.
CalibrateDone ==
  /\ pc = "calibrate"
  /\ cal = 0
  /\ \/ caller = "cal" /\ pc' = "saved" /\ UNCHANGED cal
     \/ caller = "dry" /\ pc' = "main" /\ UNCHANGED cal
     \/ caller = "dry" /\ pc' = "calibrate" /\ cal' = CalCycles
  /\ UNCHANGED <<caller, fault, backstep, flags, valid, g_last_violation_detected,
                 world, monitor, adapter, hist>>

\* Changed form of ChooseSeed: the snapshot of the state is used again.
ChooseSeedKeepSnapshot(id, prefix) ==
  /\ IF state_aware_mode THEN prefix = (id # 0) ELSE id = target_state_id
  /\ target_state_id' = id
  /\ has_snapshot_flag' = (prefix /\ valid[id])
  /\ can_snapshot_flag' = prefix
  /\ is_first_run_of_fuzz_one' = TRUE
  /\ serious_err_count' = 0

\* The main loop chooses a seed and enters fuzz_one, which may snapshot if
\* messages precede the ones to mutate.  The state-aware loop first chooses a
\* state and forgets any snapshot, and all seeds but those of state 0 have such
\* messages; the other loop keeps the state 0 and the flag of the seed before.
ChooseSeed(id, prefix) ==
  /\ IF state_aware_mode THEN prefix = (id # 0) ELSE id = target_state_id
  /\ target_state_id' = id
  /\ has_snapshot_flag' = (prefix /\ ~state_aware_mode /\ has_snapshot_flag)
  /\ can_snapshot_flag' = prefix
  /\ is_first_run_of_fuzz_one' = TRUE
  /\ serious_err_count' = 0

\* fuzz_one returns before it looks for messages to mutate: no region of the
\* seed reaches the state, or a seed already fuzzed is passed over.
PassSeed(id) ==
  /\ IF state_aware_mode THEN id # 0 ELSE id = target_state_id
  /\ target_state_id' = id
  /\ has_snapshot_flag' = (has_snapshot_flag /\ ~state_aware_mode)
  /\ can_snapshot_flag' = (can_snapshot_flag /\ ~state_aware_mode)
  /\ serious_err_count' = 0
  /\ UNCHANGED is_first_run_of_fuzz_one

\* Changed form of ResetAdapters: this adapter is not among them.
ResetOtherAdapters == UNCHANGED adapter

\* fuzz_one begins with the reset of every adapter that is ever installed.
ResetAdapters == adapter' = << >>

FuzzOne(id) ==
  /\ pc = "main"
  /\ \/ pc' = "stage" /\ \E prefix \in BOOLEAN : ChooseSeed(id, prefix)
     \/ pc' = "main" /\ PassSeed(id)
  /\ ResetAdapters
  /\ seedRun' = runs
  /\ UNCHANGED <<caller, cal, fault, backstep, state_aware_mode, valid,
                 g_last_violation_detected, world, monitor, runs>>

\* A stage of fuzz_one calls common_fuzz_stuff, or the entry is abandoned.
TestCase ==
  /\ pc = "stage"
  /\ pc' = "run"
  /\ caller' = "test"
  /\ UNCHANGED <<cal, fault, backstep, flags, valid, g_last_violation_detected, world,
                 monitor, adapter, hist>>

AbandonEntry ==
  /\ pc = "stage"
  /\ pc' = "main"
  /\ UNCHANGED <<caller, cal, fault, backstep, flags, valid,
                 g_last_violation_detected, world, monitor, adapter, hist>>

\* common_fuzz_stuff ends the monitor's session and asks for its verdict.
EndSession ==
  /\ pc = "returned"
  /\ caller = "test"
  /\ seen' = << >>
  /\ violation' = FALSE
  /\ g_last_violation_detected' = (g_last_violation_detected \/ violation)
  /\ fault' = IF violation /\ fault = "NONE" THEN "VIOLATION" ELSE fault
  /\ adapter' = IF violation THEN << >> ELSE adapter
  /\ pc' = "tested"
  /\ UNCHANGED <<caller, cal, backstep, flags, valid, world, saved, hist>>

\* SIGUSR1, too many timeouts or the end: the entry is abandoned.
SkipEntry ==
  /\ pc = "tested"
  /\ pc' = "main"
  /\ UNCHANGED <<caller, cal, fault, backstep, flags, valid,
                 g_last_violation_detected, world, monitor, adapter, hist>>

\* save_if_interesting: nothing new, or a crash, a timeout or a violation is
\* saved; new coverage is calibrated; a timeout is tried once more.
SaveIfInteresting ==
  /\ pc = "tested"
  /\ \/ pc' = "saved" /\ UNCHANGED <<caller, cal>>
     \/ /\ fault = "NONE" /\ ~NoCoverage
        /\ pc' = "calibrate" /\ caller' = "cal" /\ cal' = CalCycles
     \/ fault = "TMOUT" /\ pc' = "run" /\ caller' = "hang" /\ UNCHANGED cal
  /\ UNCHANGED <<fault, backstep, flags, valid, g_last_violation_detected, world,
                 monitor, adapter, hist>>

HangReturned ==
  /\ pc = "returned"
  /\ caller = "hang"
  /\ pc' = "saved"
  /\ UNCHANGED <<caller, cal, fault, backstep, flags, valid,
                 g_last_violation_detected, world, monitor, adapter, hist>>

\* Changed form of Backstep: the fourth failure is forgiven too.
BackstepForever ==
  /\ has_snapshot_flag' = (has_snapshot_flag /\ backstep # 2)
  /\ serious_err_count' = IF backstep = 2 THEN serious_err_count + 1
                                           ELSE serious_err_count
  /\ can_snapshot_flag' = (can_snapshot_flag \/ backstep = 2)

\* The end of common_fuzz_stuff.  Nothing sets backstep to 1.
Backstep ==
  /\ has_snapshot_flag' = (has_snapshot_flag /\ backstep # 2)
  /\ serious_err_count' = IF backstep = 2 THEN serious_err_count + 1
                                           ELSE serious_err_count
  /\ can_snapshot_flag' = IF backstep = 2 THEN serious_err_count' <= 3
                                           ELSE can_snapshot_flag

CommonFuzzStuffEnds ==
  /\ pc = "saved"
  /\ Backstep
  /\ pc' = "stage"
  /\ UNCHANGED <<caller, cal, fault, backstep, state_aware_mode, target_state_id,
                 is_first_run_of_fuzz_one, valid, g_last_violation_detected, world,
                 monitor, adapter, hist>>

-----------------------------------------------------------------------------
Next ==
  \/ RunTarget \/ SendM1 \/ SendM1Fails
  \/ DumpSocketFails \/ CriuDumpFails \/ CriuDump
  \/ RestoreFails \/ Restore
  \/ SendM23 \/ SendOverNetwork \/ Report
  \/ CalibrateRun \/ CalibrateReturned \/ CalibrateDone
  \/ \E id \in StateId : FuzzOne(id)
  \/ TestCase \/ AbandonEntry \/ EndSession \/ SkipEntry
  \/ SaveIfInteresting \/ HangReturned \/ CommonFuzzStuffEnds

Spec == Init /\ [][Next]_vars

-----------------------------------------------------------------------------
(* Properties *)

Faults == {"NONE", "TMOUT", "CRASH", "VIOLATION"}

AtMostOne(S) == \A s, t \in S : s \in Seq(Nat) /\ s = t

ScalarsOK ==
  /\ pc \in {"calibrate", "run", "m1", "dump", "restore", "m23", "aflnet", "report",
             "returned", "tested", "saved", "stage", "main", "hung"}
  /\ caller \in {"test", "cal", "dry", "hang"}
  /\ cal \in 0..CalCycles
  /\ fault \in Faults
  /\ state_aware_mode \in BOOLEAN /\ target_state_id \in StateId
  /\ can_snapshot_flag \in BOOLEAN /\ has_snapshot_flag \in BOOLEAN
  /\ is_first_run_of_fuzz_one \in BOOLEAN /\ owed \in BOOLEAN
  /\ g_last_violation_detected \in BOOLEAN /\ violation \in BOOLEAN
  /\ backstep \in {0, 2}
  /\ serious_err_count \in Nat /\ runs \in Nat /\ seedRun \in Nat
  /\ valid \in [StateId -> BOOLEAN]

StoredOK ==
  /\ seen \in Seq(Nat) /\ adapter \in Seq(Nat)
  /\ DOMAIN image = StateId /\ DOMAIN saved = StateId
  /\ AtMostOne(process)
  /\ \A id \in StateId : AtMostOne(image[id]) /\ AtMostOne(saved[id])

\* Types, and a process, an image or a saved state that may be missing is at most
\* one.
TypeOK == ScalarsOK /\ StoredOK

EndsWith(s, t) ==
  /\ Len(t) <= Len(s)
  /\ SubSeq(s, Len(s) - Len(t) + 1, Len(s)) = t

\* Whenever the target is alive, the last events of the monitor's session are
\* the whole conversation on the target's connection, in order: after a restore
\* too, whichever snapshots of this or of another state were taken, failed, or
\* replaced before.  Exception: the process of a state whose id is not below
\* MAX_SNAPSHOTS, of which self_criu_restore brings back the process alone.
SessionEndsWithConversation ==
  \A conversation \in process :
    EndsWith(seen, conversation) \/ (pc = "m23" /\ ~HasMetadata(target_state_id))

\* has_snapshot_flag promises a snapshot that can be restored: an image and, if
\* the id has metadata, a monitor state of the same moment, even if another seed
\* of the same state left a snapshot, or a dump failed midway.  In the
\* state-aware mode both are of the seed now being fuzzed (the other loop of
\* main does not clear the flag between seeds).
SnapshotIsOfThisSeed ==
  has_snapshot_flag =>
    /\ can_snapshot_flag
    /\ \E conversation \in image[target_state_id] :
         /\ HasMetadata(target_state_id) =>
              /\ valid[target_state_id]
              /\ \E events \in saved[target_state_id] : EndsWith(events, conversation)
         /\ state_aware_mode =>
              \A i \in 1..Len(conversation) : conversation[i] > seedRun

\* "fall back to AFLNET if it exceeds three times": whatever calibrations and
\* second tries run in between, the fourth failure that common_fuzz_stuff sees
\* is the last one of the seed.
FallsBackAfterThree ==
  /\ serious_err_count <= 4
  /\ serious_err_count = 4 => ~can_snapshot_flag

\* What the adapter remembers is of the seed now being fuzzed: the flags it puts
\* on a line never come from a test case, a calibration or a second try of
\* another seed, whatever was left unfinished there.
AdapterIsOfThisSeed == \A i \in 1..Len(adapter) : adapter[i] > seedRun

-----------------------------------------------------------------------------
(* What a comment says, and the code does not keep *)

\* afl-fuzz.c:478 "Monitor state tracking for snapshots", :4797 "Save monitor
\* BitVector state BEFORE CRIU dump": as SessionEndsWithConversation, whatever the
\* id of the state, so that a restored process always has its monitor state.
MonitorFollowsEverySnapshot ==
  \A conversation \in process : EndsWith(seen, conversation)
=============================================================================
