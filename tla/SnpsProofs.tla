----------------------------- MODULE SnpsProofs -----------------------------
(***************************************************************************)
(* Theorems about SnpsSession, for any target states and MAX_SNAPSHOTS, both *)
(* loops of main, and any number of calibration runs: whichever steps of a  *)
(* session fail, a process that is alive and the monitor's session tell the *)
(* same story where the monitor's state is saved, a promised snapshot is of *)
(* the seed being fuzzed with -E, and snapshots are given up in time.       *)
(***************************************************************************)
EXTENDS SnpsSession, SequenceTheorems, TLAPS

\* Inside run_target, after it started or decided not to start a process.
InRun == {"m1", "dump", "restore", "m23", "aflnet", "report"}

\* Only the state-aware loop of main forgets the snapshot of the seed before.
Newer(conversation) ==
  state_aware_mode => \A i \in 1..Len(conversation) : conversation[i] > seedRun

\* The monitor's saved state is of the moment of the image, if there may be one.
SavedWith(conversation) ==
  HasMetadata(target_state_id) =>
    /\ valid[target_state_id]
    /\ \E events \in saved[target_state_id] : EndsWith(events, conversation)

Restorable ==
  \E conversation \in image[target_state_id] : SavedWith(conversation) /\ Newer(conversation)

\* The order of the steps of run_target: which flags it has seen set, that a
\* calibration has a run left, and where a process may be alive.
Control ==
  /\ pc \in {"m1", "dump", "restore", "m23"} => can_snapshot_flag
  /\ pc \in {"m1", "dump"} => ~has_snapshot_flag
  /\ has_snapshot_flag => can_snapshot_flag
  /\ pc \in InRun \cup {"run", "returned"} /\ caller \in {"cal", "dry"} => cal > 0
  /\ pc \notin {"m1", "dump", "m23", "aflnet"} => process = {}

\* A failure is counted once: it is noted by a run that still could snapshot, and
\* every run forgets the note of the one before.
Failures ==
  /\ FallsBackAfterThree
  /\ pc \in InRun => backstep = 0
  /\ pc \in {"returned", "tested", "saved", "calibrate"} /\ backstep = 2 =>
       serious_err_count <= 3

\* What was emitted since fuzz_one began is newer than the runs before it.
OfThisSeed ==
  /\ seedRun <= runs
  /\ pc \in InRun => seedRun < runs
  /\ AdapterIsOfThisSeed
  /\ \A conversation \in process : Newer(conversation)

\* The image and the monitor's state are of one moment, from the dump on and as
\* long as the flag promises it.
Snapshot ==
  /\ SessionEndsWithConversation
  /\ pc = "restore" \/ has_snapshot_flag => Restorable

IInv == TypeOK /\ Control /\ Failures /\ OfThisSeed /\ Snapshot

-----------------------------------------------------------------------------
(* Sequences *)

\* What Emit adds to the monitor's session and to the adapter is of this run.
LEMMA Emitted ==
  ASSUME TypeOK, AdapterIsOfThisSeed, seedRun < runs,
         NEW events \in {<< >>, <<runs>>}, Emit(events)
  PROVE  /\ seen' \in Seq(Nat) /\ adapter' \in Seq(Nat) /\ violation' \in BOOLEAN
         /\ \A i \in 1..Len(adapter') : adapter'[i] > seedRun
<1> USE DEF TypeOK, ScalarsOK, StoredOK
<1>1. events \in Seq(Nat) /\ \A i \in 1..Len(events) : events[i] = runs
  <2>1. CASE events = << >>
    BY <2>1
  <2>2. CASE events = <<runs>>
    BY <2>2
  <2>3. QED
    BY <2>1, <2>2
<1>2. seen' = seen \o events /\ adapter' = adapter \o events /\ violation' \in BOOLEAN
  BY DEF Emit
<1>3. ASSUME NEW i \in 1..Len(adapter') PROVE adapter'[i] > seedRun
  <2>1. Len(adapter') = Len(adapter) + Len(events)
    BY <1>1, <1>2
  <2>2. CASE i <= Len(adapter)
    BY <1>1, <1>2, <2>1, <2>2 DEF AdapterIsOfThisSeed
  <2>3. CASE i > Len(adapter)
    <3>1. i - Len(adapter) \in 1..Len(events)
      BY <1>1, <2>1, <2>3
    <3>2. adapter'[i] = events[i - Len(adapter)]
      BY <1>1, <1>2, <2>1, <2>3
    <3>3. QED
      BY <1>1, <3>1, <3>2
  <2>4. QED
    BY <1>1, <2>1, <2>2, <2>3
<1>4. QED
  BY <1>1, <1>2, <1>3

\* EndsWith, element by element.
LEMMA EndsWithElements ==
  ASSUME NEW s \in Seq(Nat), NEW t \in Seq(Nat)
  PROVE  EndsWith(s, t) <=>
           /\ Len(t) <= Len(s)
           /\ \A i \in 1..Len(t) : t[i] = s[Len(s) - Len(t) + i]
<1> SUFFICES ASSUME Len(t) <= Len(s)
             PROVE  SubSeq(s, Len(s) - Len(t) + 1, Len(s)) = t <=>
                      \A i \in 1..Len(t) : t[i] = s[Len(s) - Len(t) + i]
  BY DEF EndsWith
<1> DEFINE d == Len(s) - Len(t)
           u == SubSeq(s, d + 1, Len(s))
<1>1. d \in Nat /\ Len(s) \in Nat /\ Len(t) \in Nat
  BY LenProperties
<1>2. \A i \in d + 1 .. Len(s) : s[i] \in Nat
  BY <1>1, ElementOfSeq
<1>3. u \in Seq(Nat) /\ Len(u) = Len(t)
  BY <1>1, <1>2, SubSeqProperties
<1>4. \A i \in 1..Len(t) : u[i] = s[d + i]
  <2>1. \A i \in 1 .. Len(s) - (d + 1) + 1 : u[i] = s[d + 1 + i - 1]
    BY <1>1, <1>2, SubSeqProperties
  <2>2. \A i \in 1..Len(t) : i \in 1 .. Len(s) - (d + 1) + 1 /\ d + 1 + i - 1 = d + i
    BY <1>1
  <2>3. QED
    BY <2>1, <2>2, Zenon
<1>5. u = t <=> \A i \in 1..Len(t) : u[i] = t[i]
  BY <1>3, SeqEqual
<1>6. QED
  BY <1>4, <1>5

\* Every session ends with the empty conversation.
LEMMA EndsWithEmpty ==
  ASSUME NEW s \in Seq(Nat) PROVE EndsWith(s, << >>)
<1>1. << >> \in Seq(Nat) /\ Len(<< >>) = 0 /\ Len(s) \in Nat
  BY LenProperties
<1>2. SubSeq(s, Len(s) - Len(<< >>) + 1, Len(s)) = << >>
  BY <1>1, SubSeqEmpty
<1>3. QED
  BY <1>1, <1>2 DEF EndsWith

\* The same event at the end of both.
LEMMA EndsWithAppended ==
  ASSUME NEW s \in Seq(Nat), NEW t \in Seq(Nat), NEW r \in Nat, EndsWith(s, t)
  PROVE  EndsWith(s \o <<r>>, t \o <<r>>)
<1> DEFINE S == s \o <<r>>
           T == t \o <<r>>
           d == Len(s) - Len(t)
<1>1. <<r>> \in Seq(Nat) /\ Len(<<r>>) = 1 /\ <<r>>[1] = r
  OBVIOUS
<1>2. /\ S \in Seq(Nat) /\ Len(S) = Len(s) + 1
      /\ T \in Seq(Nat) /\ Len(T) = Len(t) + 1
  BY <1>1, ConcatProperties
<1>3. /\ \A i \in 1..Len(s) + 1 : S[i] = IF i <= Len(s) THEN s[i] ELSE r
      /\ \A i \in 1..Len(t) + 1 : T[i] = IF i <= Len(t) THEN t[i] ELSE r
  <2>1. \A u \in Seq(Nat) : \A i \in 1..Len(u) + Len(<<r>>) :
          (u \o <<r>>)[i] = IF i <= Len(u) THEN u[i] ELSE <<r>>[i - Len(u)]
    BY <1>1, ConcatProperties
  <2>2. \A u \in Seq(Nat) : Len(u) \in Nat /\
          \A i \in 1..Len(u) + 1 : i <= Len(u) \/ <<r>>[i - Len(u)] = r
    BY <1>1, LenProperties
  <2>3. QED
    BY <1>1, <2>1, <2>2
<1>4. Len(t) <= Len(s) /\ \A i \in 1..Len(t) : t[i] = s[d + i]
  BY EndsWithElements
<1>5. Len(s) \in Nat /\ Len(t) \in Nat
  BY LenProperties
<1>6. \A i \in 1..Len(t) + 1 : T[i] = S[d + i]
  BY <1>3, <1>4, <1>5
<1>7. Len(T) <= Len(S) /\ \A i \in 1..Len(T) : T[i] = S[Len(S) - Len(T) + i]
  BY <1>2, <1>4, <1>5, <1>6
<1> HIDE DEF S, T
<1>8. EndsWith(S, T)
  BY <1>2, <1>7, EndsWithElements
<1>9. QED
  BY <1>8 DEF S, T

-----------------------------------------------------------------------------
(* A step keeps the invariant *)

\* Types.
LEMMA TypesKept ==
  ASSUME IInv, [Next]_vars PROVE TypeOK'
<1> USE SnpsAssumption DEF IInv, TypeOK, ScalarsOK, StoredOK, AtMostOne, Control, InRun, Faults, flags, world, monitor, control, hist
<1>1. CASE RunTarget
  <2>1. CASE can_snapshot_flag /\ has_snapshot_flag
    BY <1>1, <2>1 DEF RunTarget
  <2>2. CASE ~(can_snapshot_flag /\ has_snapshot_flag)
    <3>1. pc' \in {"m1", "aflnet"} /\ owed' = TRUE /\ process' = {<< >>}
      BY <1>1, <2>2 DEF RunTarget
    <3>2. ScalarsOK'
      BY <1>1, <3>1 DEF RunTarget
    <3>3. AtMostOne(process')
      BY <3>1
    <3>4. StoredOK'
      BY <1>1, <3>3 DEF RunTarget
    <3>5. QED
      BY <3>2, <3>4
  <2>3. QED
    BY <2>1, <2>2
<1>2. CASE SendM1
  <2>1. PICK events \in {<< >>, <<runs>>} : Emit(events)
    BY <1>2 DEF SendM1
  <2>2. seen' \in Seq(Nat) /\ adapter' \in Seq(Nat) /\ violation' \in BOOLEAN
    BY <1>2, <2>1, Emitted DEF SendM1, OfThisSeed, InRun
  <2>3. ScalarsOK'
    BY <1>2, <2>2 DEF SendM1
  <2>4. AtMostOne(process')
    <3> SUFFICES ASSUME NEW s \in process', NEW t \in process'
                 PROVE  s \in Seq(Nat) /\ s = t
      OBVIOUS
    <3>1. PICK u \in process, v \in process : s = u \o <<runs>> /\ t = v \o <<runs>>
      BY <1>2 DEF SendM1
    <3>2. u = v /\ u \in Seq(Nat) /\ <<runs>> \in Seq(Nat)
      OBVIOUS
    <3>3. QED
      BY <3>1, <3>2
  <2>5. StoredOK'
    BY <1>2, <2>2, <2>4 DEF SendM1
  <2>6. QED
    BY <2>3, <2>5
<1>3. CASE SendM1Fails
  <2>1. PICK events \in {<< >>, <<runs>>} : Emit(events)
    BY <1>3 DEF SendM1Fails
  <2>2. seen' \in Seq(Nat) /\ adapter' \in Seq(Nat) /\ violation' \in BOOLEAN
    BY <1>3, <2>1, Emitted DEF SendM1Fails, OfThisSeed, InRun
  <2>3. ScalarsOK'
    BY <1>3, <2>2 DEF SendM1Fails, Serious
  <2>4. StoredOK'
    BY <1>3, <2>2 DEF SendM1Fails
  <2>5. QED
    BY <2>3, <2>4
<1>4. CASE DumpSocketFails
  BY <1>4 DEF DumpSocketFails, ReadStatus, Serious
<1>5. CASE CriuDumpFails
  <2>1. ScalarsOK'
    BY <1>5 DEF CriuDumpFails, SaveMonitor, ReadStatus, Serious
  <2>2. StoredOK'
    BY <1>5 DEF CriuDumpFails, SaveMonitor, ReadStatus, Serious
  <2>3. QED
    BY <2>1, <2>2
<1>6. CASE CriuDump
  <2>1. ScalarsOK'
    BY <1>6 DEF CriuDump, SaveMonitor, ReadStatus
  <2>2. StoredOK'
    BY <1>6 DEF CriuDump, SaveMonitor, ReadStatus
  <2>3. QED
    BY <2>1, <2>2
<1>7. CASE RestoreFails
  BY <1>7 DEF RestoreFails, Serious
<1>8. CASE Restore
  BY <1>8 DEF Restore, RestoreMonitor
<1>9. CASE SendM23
  <2>1. PICK events \in {<< >>, <<runs>>} : Emit(events)
    BY <1>9 DEF SendM23
  <2>2. seen' \in Seq(Nat) /\ adapter' \in Seq(Nat) /\ violation' \in BOOLEAN
    BY <1>9, <2>1, Emitted DEF SendM23, OfThisSeed, InRun
  <2>3. ScalarsOK'
    BY <1>9, <2>2 DEF SendM23
  <2>4. StoredOK'
    BY <1>9, <2>2 DEF SendM23
  <2>5. QED
    BY <2>3, <2>4
<1>10. CASE SendOverNetwork
  <2>1. PICK events \in {<< >>, <<runs>>} : Emit(events)
    BY <1>10 DEF SendOverNetwork
  <2>2. seen' \in Seq(Nat) /\ adapter' \in Seq(Nat) /\ violation' \in BOOLEAN
    BY <1>10, <2>1, Emitted DEF SendOverNetwork, OfThisSeed, InRun
  <2>3. ScalarsOK'
    BY <1>10, <2>2 DEF SendOverNetwork
  <2>4. StoredOK'
    BY <1>10, <2>2 DEF SendOverNetwork
  <2>5. QED
    BY <2>3, <2>4
<1>11. CASE Report
  <2>1. /\ fault' \in Faults /\ g_last_violation_detected' \in BOOLEAN /\ pc' = "returned"
        /\ UNCHANGED <<caller, cal, backstep, flags, valid, world, monitor, adapter, hist>>
    BY <1>11 DEF Report
  <2>2. QED
    BY <2>1
<1>12. CASE CalibrateRun
  BY <1>12 DEF CalibrateRun
<1>13. CASE CalibrateReturned
  BY <1>13 DEF CalibrateReturned, NoCoverage
<1>14. CASE CalibrateDone
  BY <1>14 DEF CalibrateDone
<1>15. ASSUME NEW id \in StateId, FuzzOne(id)
      PROVE  TypeOK'
  <2>1. /\ target_state_id' \in StateId /\ serious_err_count' = 0
        /\ pc' \in {"stage", "main"}
        /\ UNCHANGED <<caller, cal, fault, backstep, state_aware_mode, valid,
                       g_last_violation_detected, world, monitor, runs>>
        /\ seedRun' = runs /\ adapter' = << >>
    BY <1>15 DEF FuzzOne, ChooseSeed, PassSeed, ResetAdapters
  <2>2. /\ can_snapshot_flag' \in BOOLEAN /\ has_snapshot_flag' \in BOOLEAN
        /\ is_first_run_of_fuzz_one' \in BOOLEAN
    BY <1>15 DEF FuzzOne, ChooseSeed, PassSeed
  <2>3. ScalarsOK'
    BY <2>1, <2>2
  <2>4. StoredOK'
    BY <2>1
  <2>5. QED
    BY <2>3, <2>4
<1>16. CASE TestCase
  BY <1>16 DEF TestCase
<1>17. CASE AbandonEntry
  BY <1>17 DEF AbandonEntry
<1>18. CASE EndSession
  <2>1. ScalarsOK'
    BY <1>18 DEF EndSession
  <2>2. StoredOK'
    BY <1>18 DEF EndSession
  <2>3. QED
    BY <2>1, <2>2
<1>19. CASE SkipEntry
  BY <1>19 DEF SkipEntry
<1>20. CASE SaveIfInteresting
  BY <1>20 DEF SaveIfInteresting, NoCoverage
<1>21. CASE HangReturned
  BY <1>21 DEF HangReturned
<1>22. CASE CommonFuzzStuffEnds
  <2>1. CASE backstep = 2
    BY <1>22, <2>1 DEF CommonFuzzStuffEnds, Backstep
  <2>2. CASE backstep # 2
    BY <1>22, <2>2 DEF CommonFuzzStuffEnds, Backstep
  <2>3. QED
    BY <2>1, <2>2
<1>23. CASE UNCHANGED vars
  BY <1>23 DEF vars, control, flags, world, monitor, hist
<1>24. QED
  BY <1>1, <1>2, <1>3, <1>4, <1>5, <1>6, <1>7, <1>8, <1>9, <1>10, <1>11,
     <1>12, <1>13, <1>14, <1>15, <1>16, <1>17, <1>18, <1>19, <1>20, <1>21,
     <1>22, <1>23 DEF Next

\* The order of the steps of run_target.
LEMMA ControlKept ==
  ASSUME IInv, [Next]_vars PROVE Control'
<1> USE SnpsAssumption DEF IInv, TypeOK, ScalarsOK, Control, InRun, flags, world, monitor, control, hist
<1>1. CASE RunTarget
  BY <1>1 DEF RunTarget
<1>2. CASE SendM1
  BY <1>2 DEF SendM1, Emit
<1>3. CASE SendM1Fails
  BY <1>3 DEF SendM1Fails, Emit, Serious
<1>4. CASE DumpSocketFails
  BY <1>4 DEF DumpSocketFails, ReadStatus, Serious
<1>5. CASE CriuDumpFails
  BY <1>5 DEF CriuDumpFails, SaveMonitor, ReadStatus, Serious
<1>6. CASE CriuDump
  BY <1>6 DEF CriuDump, SaveMonitor, ReadStatus
<1>7. CASE RestoreFails
  BY <1>7 DEF RestoreFails, Serious
<1>8. CASE Restore
  BY <1>8 DEF Restore, RestoreMonitor
<1>9. CASE SendM23
  BY <1>9 DEF SendM23, Emit
<1>10. CASE SendOverNetwork
  BY <1>10 DEF SendOverNetwork, Emit
<1>11. CASE Report
  BY <1>11 DEF Report
<1>12. CASE CalibrateRun
  BY <1>12 DEF CalibrateRun
<1>13. CASE CalibrateReturned
  BY <1>13 DEF CalibrateReturned, NoCoverage
<1>14. CASE CalibrateDone
  BY <1>14 DEF CalibrateDone
<1>15. ASSUME NEW id \in StateId, FuzzOne(id)
      PROVE  Control'
  BY <1>15 DEF FuzzOne, ChooseSeed, PassSeed, ResetAdapters
<1>16. CASE TestCase
  BY <1>16 DEF TestCase
<1>17. CASE AbandonEntry
  BY <1>17 DEF AbandonEntry
<1>18. CASE EndSession
  BY <1>18 DEF EndSession
<1>19. CASE SkipEntry
  BY <1>19 DEF SkipEntry
<1>20. CASE SaveIfInteresting
  BY <1>20 DEF SaveIfInteresting, NoCoverage
<1>21. CASE HangReturned
  BY <1>21 DEF HangReturned
<1>22. CASE CommonFuzzStuffEnds
  <2>1. CASE backstep = 2
    BY <1>22, <2>1 DEF CommonFuzzStuffEnds, Backstep
  <2>2. CASE backstep # 2
    BY <1>22, <2>2 DEF CommonFuzzStuffEnds, Backstep
  <2>3. QED
    BY <2>1, <2>2
<1>23. CASE UNCHANGED vars
  BY <1>23 DEF vars, control, flags, world, monitor, hist
<1>24. QED
  BY <1>1, <1>2, <1>3, <1>4, <1>5, <1>6, <1>7, <1>8, <1>9, <1>10, <1>11,
     <1>12, <1>13, <1>14, <1>15, <1>16, <1>17, <1>18, <1>19, <1>20, <1>21,
     <1>22, <1>23 DEF Next

\* Failures are counted once.
LEMMA FailuresKept ==
  ASSUME IInv, [Next]_vars PROVE Failures'
<1> USE DEF IInv, TypeOK, ScalarsOK, Control, Failures, FallsBackAfterThree, InRun, flags, world, monitor, control, hist
<1>1. CASE RunTarget
  BY <1>1 DEF RunTarget
<1>2. CASE SendM1
  BY <1>2 DEF SendM1, Emit
<1>3. CASE SendM1Fails
  BY <1>3 DEF SendM1Fails, Emit, Serious
<1>4. CASE DumpSocketFails
  BY <1>4 DEF DumpSocketFails, ReadStatus, Serious
<1>5. CASE CriuDumpFails
  BY <1>5 DEF CriuDumpFails, SaveMonitor, ReadStatus, Serious
<1>6. CASE CriuDump
  BY <1>6 DEF CriuDump, SaveMonitor, ReadStatus
<1>7. CASE RestoreFails
  BY <1>7 DEF RestoreFails, Serious
<1>8. CASE Restore
  BY <1>8 DEF Restore, RestoreMonitor
<1>9. CASE SendM23
  BY <1>9 DEF SendM23, Emit
<1>10. CASE SendOverNetwork
  BY <1>10 DEF SendOverNetwork, Emit
<1>11. CASE Report
  BY <1>11 DEF Report
<1>12. CASE CalibrateRun
  BY <1>12 DEF CalibrateRun
<1>13. CASE CalibrateReturned
  BY <1>13 DEF CalibrateReturned, NoCoverage
<1>14. CASE CalibrateDone
  BY <1>14 DEF CalibrateDone
<1>15. ASSUME NEW id \in StateId, FuzzOne(id)
      PROVE  Failures'
  BY <1>15 DEF FuzzOne, ChooseSeed, PassSeed, ResetAdapters
<1>16. CASE TestCase
  BY <1>16 DEF TestCase
<1>17. CASE AbandonEntry
  BY <1>17 DEF AbandonEntry
<1>18. CASE EndSession
  BY <1>18 DEF EndSession
<1>19. CASE SkipEntry
  BY <1>19 DEF SkipEntry
<1>20. CASE SaveIfInteresting
  BY <1>20 DEF SaveIfInteresting, NoCoverage
<1>21. CASE HangReturned
  BY <1>21 DEF HangReturned
<1>22. CASE CommonFuzzStuffEnds
  <2>1. CASE backstep = 2
    <3>1. /\ serious_err_count' = serious_err_count + 1 /\ serious_err_count <= 3
          /\ pc' = "stage"
      BY <1>22, <2>1 DEF CommonFuzzStuffEnds, Backstep
    <3>2. can_snapshot_flag' => serious_err_count' <= 3
      BY <1>22, <2>1 DEF CommonFuzzStuffEnds, Backstep
    <3>3. QED
      BY <3>1, <3>2
  <2>2. CASE backstep # 2
    BY <1>22, <2>2 DEF CommonFuzzStuffEnds, Backstep
  <2>3. QED
    BY <2>1, <2>2
<1>23. CASE UNCHANGED vars
  BY <1>23 DEF vars, control, flags, world, monitor, hist
<1>24. QED
  BY <1>1, <1>2, <1>3, <1>4, <1>5, <1>6, <1>7, <1>8, <1>9, <1>10, <1>11,
     <1>12, <1>13, <1>14, <1>15, <1>16, <1>17, <1>18, <1>19, <1>20, <1>21,
     <1>22, <1>23 DEF Next

\* What is emitted is of this seed.
LEMMA OfThisSeedKept ==
  ASSUME IInv, [Next]_vars PROVE OfThisSeed'
<1> USE DEF IInv, TypeOK, ScalarsOK, Control, OfThisSeed, AdapterIsOfThisSeed, Newer, InRun, flags, world, monitor, control, hist
<1>1. CASE RunTarget
  BY <1>1 DEF RunTarget
<1>2. CASE SendM1
  <2>1. Emit(<<runs>>) /\ seedRun' = seedRun /\ runs' = runs /\ seedRun < runs /\ pc' = "dump"
    BY <1>2 DEF SendM1
  <2>2. AdapterIsOfThisSeed'
    BY <2>1, Emitted
  <2>3. ASSUME NEW conversation \in process' PROVE Newer(conversation)'
    <3>1. PICK old \in process : conversation = old \o <<runs>>
      BY <1>2 DEF SendM1
    <3>2. old \in Seq(Nat) /\ Newer(old)
      BY DEF StoredOK, AtMostOne
    <3>3. state_aware_mode' = state_aware_mode
      BY <1>2 DEF SendM1
    <3>4. QED
      BY <2>1, <3>1, <3>2, <3>3
  <2>4. QED
    BY <2>1, <2>2, <2>3
<1>3. CASE SendM1Fails
  <2>1. PICK events \in {<< >>, <<runs>>} : Emit(events)
    BY <1>3 DEF SendM1Fails
  <2>2. /\ seedRun' = seedRun /\ runs' = runs /\ seedRun < runs
        /\ process' = {}
    BY <1>3 DEF SendM1Fails
  <2>3. AdapterIsOfThisSeed'
    BY <2>1, <2>2, Emitted
  <2>4. QED
    BY <2>2, <2>3
<1>4. CASE DumpSocketFails
  BY <1>4 DEF DumpSocketFails, ReadStatus, Serious
<1>5. CASE CriuDumpFails
  BY <1>5 DEF CriuDumpFails, SaveMonitor, ReadStatus, Serious
<1>6. CASE CriuDump
  BY <1>6 DEF CriuDump, SaveMonitor, ReadStatus
<1>7. CASE RestoreFails
  BY <1>7 DEF RestoreFails, Serious
<1>8. CASE Restore
  <2>1. has_snapshot_flag \/ pc = "restore"
    BY <1>8 DEF Restore
  <2>2. PICK conversation \in image[target_state_id] : Newer(conversation)
    BY <2>1 DEF Snapshot, Restorable
  <2>3. process' = {conversation}
    BY <1>8, <2>2 DEF Restore, StoredOK, AtMostOne
  <2>4. QED
    BY <1>8, <2>2, <2>3 DEF Restore
<1>9. CASE SendM23
  <2>1. PICK events \in {<< >>, <<runs>>} : Emit(events)
    BY <1>9 DEF SendM23
  <2>2. /\ seedRun' = seedRun /\ runs' = runs /\ seedRun < runs
        /\ process' = {}
    BY <1>9 DEF SendM23
  <2>3. AdapterIsOfThisSeed'
    BY <2>1, <2>2, Emitted
  <2>4. QED
    BY <2>2, <2>3
<1>10. CASE SendOverNetwork
  <2>1. PICK events \in {<< >>, <<runs>>} : Emit(events)
    BY <1>10 DEF SendOverNetwork
  <2>2. /\ seedRun' = seedRun /\ runs' = runs /\ seedRun < runs
        /\ process' = {}
    BY <1>10 DEF SendOverNetwork
  <2>3. AdapterIsOfThisSeed'
    BY <2>1, <2>2, Emitted
  <2>4. QED
    BY <2>2, <2>3
<1>11. CASE Report
  BY <1>11 DEF Report
<1>12. CASE CalibrateRun
  BY <1>12 DEF CalibrateRun
<1>13. CASE CalibrateReturned
  BY <1>13 DEF CalibrateReturned, NoCoverage
<1>14. CASE CalibrateDone
  BY <1>14 DEF CalibrateDone
<1>15. ASSUME NEW id \in StateId, FuzzOne(id)
      PROVE  OfThisSeed'
  BY <1>15 DEF FuzzOne, ChooseSeed, PassSeed, ResetAdapters
<1>16. CASE TestCase
  BY <1>16 DEF TestCase
<1>17. CASE AbandonEntry
  BY <1>17 DEF AbandonEntry
<1>18. CASE EndSession
  BY <1>18 DEF EndSession
<1>19. CASE SkipEntry
  BY <1>19 DEF SkipEntry
<1>20. CASE SaveIfInteresting
  BY <1>20 DEF SaveIfInteresting, NoCoverage
<1>21. CASE HangReturned
  BY <1>21 DEF HangReturned
<1>22. CASE CommonFuzzStuffEnds
  BY <1>22 DEF CommonFuzzStuffEnds, Backstep
<1>23. CASE UNCHANGED vars
  BY <1>23 DEF vars, control, flags, world, monitor, hist
<1>24. QED
  BY <1>1, <1>2, <1>3, <1>4, <1>5, <1>6, <1>7, <1>8, <1>9, <1>10, <1>11,
     <1>12, <1>13, <1>14, <1>15, <1>16, <1>17, <1>18, <1>19, <1>20, <1>21,
     <1>22, <1>23 DEF Next

\* A process and the session tell one story, and so does a snapshot.
LEMMA SnapshotKept ==
  ASSUME IInv, [Next]_vars PROVE Snapshot'
<1> USE DEF IInv, TypeOK, ScalarsOK, Control, Snapshot, SessionEndsWithConversation, Restorable, SavedWith, Newer, flags, world, monitor, control, hist
<1>1. CASE RunTarget
  <2>1. UNCHANGED <<has_snapshot_flag, state_aware_mode, target_state_id, valid, image, saved, seen, seedRun>>
    BY <1>1 DEF RunTarget
  <2>2. pc' = "restore" => has_snapshot_flag
    BY <1>1 DEF RunTarget
  <2>3. process' \in {{}, {<< >>}}
    BY <1>1 DEF RunTarget
  <2>4. SessionEndsWithConversation'
    <3> SUFFICES ASSUME NEW conversation \in process' PROVE EndsWith(seen, conversation)
      BY <2>1
    <3>1. conversation = << >>
      BY <2>3
    <3>2. QED
      BY <3>1, EndsWithEmpty DEF StoredOK
  <2>5. QED
    BY <2>1, <2>2, <2>4
<1>2. CASE SendM1
  <2>1. pc' = "dump" /\ ~has_snapshot_flag'
    BY <1>2 DEF SendM1
  <2>2. ASSUME NEW conversation \in process' PROVE EndsWith(seen', conversation)
    <3>1. PICK old \in process : conversation = old \o <<runs>>
      BY <1>2 DEF SendM1
    <3>2. old \in Seq(Nat) /\ seen \in Seq(Nat) /\ EndsWith(seen, old)
      BY <1>2 DEF SendM1, StoredOK, AtMostOne
    <3>3. seen' = seen \o <<runs>>
      BY <1>2 DEF SendM1, Emit
    <3>4. QED
      BY <3>1, <3>2, <3>3, EndsWithAppended
  <2>3. QED
    BY <2>1, <2>2
<1>3. CASE SendM1Fails
  <2>1. process' = {} /\ (pc' = "restore" \/ has_snapshot_flag' => Restorable)
    BY <1>3 DEF SendM1Fails, Serious
  <2>2. UNCHANGED <<state_aware_mode, target_state_id, valid, image, saved, seedRun>>
    BY <1>3 DEF SendM1Fails
  <2>3. QED
    BY <2>1, <2>2
<1>4. CASE DumpSocketFails
  <2>1. process' = {} /\ (pc' = "restore" \/ has_snapshot_flag' => Restorable)
    BY <1>4 DEF DumpSocketFails, ReadStatus, Serious
  <2>2. UNCHANGED <<state_aware_mode, target_state_id, valid, image, saved, seedRun>>
    BY <1>4 DEF DumpSocketFails
  <2>3. QED
    BY <2>1, <2>2
<1>5. CASE CriuDumpFails
  <2>1. pc' # "restore" /\ ~has_snapshot_flag' /\ process' = {}
    BY <1>5 DEF CriuDumpFails, ReadStatus, Serious
  <2>2. QED
    BY <2>1
<1>6. CASE CriuDump
  <2>1. PICK conversation \in process : Newer(conversation) /\ EndsWith(seen, conversation)
    BY <1>6 DEF CriuDump, OfThisSeed
  <2>2. /\ process' = {} /\ target_state_id' = target_state_id /\ seedRun' = seedRun
        /\ state_aware_mode' = state_aware_mode
    BY <1>6 DEF CriuDump, ReadStatus
  <2>3. /\ conversation \in image'[target_state_id]
        /\ HasMetadata(target_state_id) =>
             seen \in saved'[target_state_id] /\ valid'[target_state_id]
    BY <1>6 DEF CriuDump, SaveMonitor, StoredOK
  <2>4. QED
    BY <2>1, <2>2, <2>3
<1>7. CASE RestoreFails
  <2>1. process' = {} /\ (pc' = "restore" \/ has_snapshot_flag' => Restorable)
    BY <1>7 DEF RestoreFails, Serious
  <2>2. UNCHANGED <<state_aware_mode, target_state_id, valid, image, saved, seedRun>>
    BY <1>7 DEF RestoreFails
  <2>3. QED
    BY <2>1, <2>2
<1>8. CASE Restore
  <2>1. PICK conversation \in image[target_state_id] : SavedWith(conversation)
    BY <1>8 DEF Restore
  <2>2. process' = {conversation}
    BY <1>8, <2>1 DEF Restore, StoredOK, AtMostOne
  <2>3. HasMetadata(target_state_id) => EndsWith(seen', conversation)
    BY <1>8, <2>1 DEF Restore, RestoreMonitor, StoredOK, AtMostOne
  <2>4. UNCHANGED <<state_aware_mode, target_state_id, valid, image, saved, seedRun>>
    BY <1>8 DEF Restore
  <2>5. pc' = "m23"
    BY <1>8 DEF Restore
  <2>6. SessionEndsWithConversation'
    BY <2>2, <2>3, <2>4, <2>5
  <2>7. Restorable /\ (Restorable => Restorable')
    BY <1>8, <2>4 DEF Restore
  <2>8. QED
    BY <2>6, <2>7
<1>9. CASE SendM23
  <2>1. process' = {} /\ (pc' = "restore" \/ has_snapshot_flag' => Restorable)
    BY <1>9 DEF SendM23
  <2>2. UNCHANGED <<state_aware_mode, target_state_id, valid, image, saved, seedRun>>
    BY <1>9 DEF SendM23
  <2>3. QED
    BY <2>1, <2>2
<1>10. CASE SendOverNetwork
  <2>1. process' = {} /\ (pc' = "restore" \/ has_snapshot_flag' => Restorable)
    BY <1>10 DEF SendOverNetwork
  <2>2. UNCHANGED <<state_aware_mode, target_state_id, valid, image, saved, seedRun>>
    BY <1>10 DEF SendOverNetwork
  <2>3. QED
    BY <2>1, <2>2
<1>11. CASE Report
  BY <1>11 DEF Report
<1>12. CASE CalibrateRun
  BY <1>12 DEF CalibrateRun
<1>13. CASE CalibrateReturned
  BY <1>13 DEF CalibrateReturned, NoCoverage
<1>14. CASE CalibrateDone
  BY <1>14 DEF CalibrateDone
<1>15. ASSUME NEW id \in StateId, FuzzOne(id)
      PROVE  Snapshot'
  <2>1. process' = {} /\ pc' # "restore" /\ UNCHANGED <<state_aware_mode, valid, image, saved>>
    BY <1>15 DEF FuzzOne
  <2>2. has_snapshot_flag' => ~state_aware_mode /\ has_snapshot_flag /\ target_state_id' = target_state_id
    BY <1>15 DEF FuzzOne, ChooseSeed, PassSeed
  <2>3. QED
    BY <2>1, <2>2
<1>16. CASE TestCase
  BY <1>16 DEF TestCase
<1>17. CASE AbandonEntry
  BY <1>17 DEF AbandonEntry
<1>18. CASE EndSession
  <2>1. process' = {} /\ UNCHANGED <<has_snapshot_flag, state_aware_mode, target_state_id, valid, image, saved, seedRun>>
    BY <1>18 DEF EndSession
  <2>2. pc' # "restore"
    BY <1>18 DEF EndSession
  <2>3. QED
    BY <2>1, <2>2
<1>19. CASE SkipEntry
  BY <1>19 DEF SkipEntry
<1>20. CASE SaveIfInteresting
  BY <1>20 DEF SaveIfInteresting, NoCoverage
<1>21. CASE HangReturned
  BY <1>21 DEF HangReturned
<1>22. CASE CommonFuzzStuffEnds
  BY <1>22 DEF CommonFuzzStuffEnds, Backstep
<1>23. CASE UNCHANGED vars
  BY <1>23 DEF vars, control, flags, world, monitor, hist
<1>24. QED
  BY <1>1, <1>2, <1>3, <1>4, <1>5, <1>6, <1>7, <1>8, <1>9, <1>10, <1>11,
     <1>12, <1>13, <1>14, <1>15, <1>16, <1>17, <1>18, <1>19, <1>20, <1>21,
     <1>22, <1>23 DEF Next

\* The parts of IInv hold together, by induction.
LEMMA Invariance == Spec => []IInv
<1>1. Init => IInv
  <2> SUFFICES ASSUME Init PROVE IInv
    OBVIOUS
  <2> USE SnpsAssumption DEF Init
  <2>1. TypeOK
    <3>1. ScalarsOK
      <4>1. cal \in 0..CalCycles
        OBVIOUS
      <4>2. valid \in [StateId -> BOOLEAN]
        OBVIOUS
      <4>3. QED
        BY <4>1, <4>2, Zenon DEF ScalarsOK, Faults
    <3>2. StoredOK
      BY DEF StoredOK, AtMostOne
    <3>3. QED
      BY <3>1, <3>2 DEF TypeOK
  <2>2. Control /\ Failures
    BY DEF Control, Failures, FallsBackAfterThree, InRun
  <2>3. OfThisSeed /\ Snapshot
    BY DEF OfThisSeed, AdapterIsOfThisSeed, Snapshot, SessionEndsWithConversation, InRun
  <2>4. QED
    BY <2>1, <2>2, <2>3 DEF IInv
<1>2. IInv /\ [Next]_vars => IInv'
  BY TypesKept, ControlKept, FailuresKept, OfThisSeedKept, SnapshotKept DEF IInv
<1>3. QED
  BY <1>1, <1>2, PTL DEF Spec

-----------------------------------------------------------------------------
(* The properties *)

\* The variables of the session keep their types, and there is at most one
\* process, one image and one saved state of a target state.
THEOREM TypeCorrect == Spec => []TypeOK
BY Invariance, PTL DEF IInv

\* Whichever step of a session fails, the monitor's session ends with the whole
\* conversation of the process that is alive, also after self_criu_restore, if
\* the id of the state is below MAX_SNAPSHOTS.
THEOREM SessionMatchesProcess == Spec => []SessionEndsWithConversation
BY Invariance, PTL DEF IInv, Snapshot

\* has_snapshot_flag promises an image which self_criu_restore will find, with a
\* monitor state of the same moment if the id is below MAX_SNAPSHOTS, and of the
\* seed being fuzzed in the state-aware mode.
THEOREM SnapshotOfSeed == Spec => []SnapshotIsOfThisSeed
<1>1. IInv => SnapshotIsOfThisSeed
  BY DEF IInv, Control, Snapshot, Restorable, SavedWith, Newer, SnapshotIsOfThisSeed
<1>2. QED
  BY <1>1, Invariance, PTL

\* common_fuzz_stuff counts at most four failures of a seed, and the fourth ends
\* its snapshots.
THEOREM FourFailuresAtMost == Spec => []FallsBackAfterThree
BY Invariance, PTL DEF IInv, Failures

\* The adapter remembers nothing of the seeds before the one being fuzzed.
THEOREM AdapterOfSeed == Spec => []AdapterIsOfThisSeed
BY Invariance, PTL DEF IInv, OfThisSeed
=============================================================================
