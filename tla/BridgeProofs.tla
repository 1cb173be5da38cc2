---------------------------- MODULE BridgeProofs ----------------------------
(***************************************************************************)
(* Theorems about Bridge, for pipes and stdio buffers of any size, with or  *)
(* without snapshots, and an evaluator of any speed: types, that no         *)
(* violation is reported for two test cases, how many lines it takes for    *)
(* the two processes to block each other and, for an evaluator that beats   *)
(* the first select(), which violating sessions are not flagged.            *)
(***************************************************************************)
EXTENDS Bridge, SequenceTheorems, TLAPS

USE DEF handleVars, pipeVars, monVars, histVars, Nothing, Banner, Ack, OutLine

-----------------------------------------------------------------------------
(* Reading a line. *)

\* The lines printed and not yet read, oldest first: those in the stdio buffer,
\* then those in the pipe.
QueueLen == Len(file_buf) + Len(from_monitor)
Queue(i) == IF i <= Len(file_buf) THEN file_buf[i]
                                  ELSE from_monitor[i - Len(file_buf)]

\* What fgets takes its line from, and what it leaves, together are what was
\* there.
LEMMA BufferedUnread ==
  ASSUME TypeOK, BridgeAssumption
  PROVE  /\ Buffered \in Seq(OutLine) /\ Len(Buffered) <= FileBuf
         /\ Unread \in Seq(OutLine) /\ Len(Unread) <= Len(from_monitor)
         /\ Len(Buffered) + Len(Unread) = QueueLen
         /\ Buffered = << >> => file_buf = << >> /\ from_monitor = << >>
         /\ \A i \in 1..Len(Buffered) : Buffered[i] = Queue(i)
         /\ \A i \in 1..Len(Unread) : Unread[i] = Queue(Len(Buffered) + i)
<1> USE DEF TypeOK, BridgeAssumption
<1>1. CASE file_buf # << >>
  BY <1>1, LenProperties DEF Buffered, Unread, QueueLen, Queue
<1>2. CASE file_buf = << >>
  <2>1. /\ Len(from_monitor) \in Nat /\ Len(file_buf) = 0
        /\ Taken \in 0..Len(from_monitor) /\ Taken <= FileBuf
        /\ Taken = 0 => Len(from_monitor) = 0
    BY <1>2, LenProperties, EmptySeq DEF Taken
  <2>2. \A i \in 1..Len(from_monitor) : from_monitor[i] \in OutLine
    BY ElementOfSeq
  <2>3. /\ SubSeq(from_monitor, 1, Taken) \in Seq(OutLine)
        /\ Len(SubSeq(from_monitor, 1, Taken)) = Taken
        /\ \A i \in 1..Taken : SubSeq(from_monitor, 1, Taken)[i] = from_monitor[i]
    <3>1. \A i \in 1..Taken : from_monitor[i] \in OutLine
      BY <2>1, <2>2
    <3>2. QED
      BY <2>1, <3>1, SubSeqProperties
  <2> DEFINE rest == SubSeq(from_monitor, Taken + 1, Len(from_monitor))
  <2>4. /\ rest \in Seq(OutLine)
        /\ Len(rest) = Len(from_monitor) - Taken
        /\ \A i \in 1..Len(rest) : rest[i] = from_monitor[Taken + i]
    <3>1. \A i \in (Taken + 1)..Len(from_monitor) : from_monitor[i] \in OutLine
      BY <2>1, <2>2
    <3>2. Taken + 1 \in Int /\ Len(from_monitor) \in Int
      BY <2>1
    <3>3. /\ rest \in Seq(OutLine)
          /\ Len(rest) = IF Taken + 1 <= Len(from_monitor)
                         THEN Len(from_monitor) - (Taken + 1) + 1 ELSE 0
          /\ \A i \in 1..(Len(from_monitor) - (Taken + 1) + 1) :
               rest[i] = from_monitor[(Taken + 1) + i - 1]
      BY <3>1, <3>2, SubSeqProperties
    <3>4. Len(rest) = Len(from_monitor) - Taken
      BY <2>1, <3>3
    <3>5. ASSUME NEW i \in 1..Len(rest) PROVE rest[i] = from_monitor[Taken + i]
      <4>1. rest[i] = from_monitor[(Taken + 1) + i - 1]
        BY <2>1, <3>3, <3>4
      <4>2. (Taken + 1) + i - 1 = Taken + i
        BY <2>1, <3>4
      <4>3. QED
        BY <4>1, <4>2
    <3>6. QED
      BY <3>3, <3>4, <3>5
  <2>5. Buffered = << >> => from_monitor = << >>
    BY <1>2, <2>1, <2>3, EmptySeq DEF Buffered
  <2>6. Buffered = SubSeq(from_monitor, 1, Taken) /\ Unread = rest
    BY <1>2 DEF Buffered, Unread
  <2> HIDE DEF rest
  <2>7. \A i \in 1..Len(from_monitor) : Queue(i) = from_monitor[i]
    BY <2>1 DEF Queue
  <2>8. \A i \in 1..Len(Buffered) : Buffered[i] = Queue(i)
    BY <2>1, <2>3, <2>6, <2>7
  <2>9. ASSUME NEW i \in 1..Len(Unread) PROVE Unread[i] = Queue(Len(Buffered) + i)
    <3>1. Unread[i] = from_monitor[Taken + i] /\ Taken + i \in 1..Len(from_monitor)
      BY <2>1, <2>4, <2>6
    <3>2. Len(Buffered) = Taken
      BY <2>3, <2>6
    <3>3. QED
      BY <2>7, <3>1, <3>2
  <2>10. /\ Len(Buffered) <= FileBuf /\ Len(Unread) <= Len(from_monitor)
         /\ Len(Buffered) + Len(Unread) = QueueLen
    BY <2>1, <2>3, <2>4, <2>6 DEF QueueLen
  <2>11. QED
    BY <1>2, <2>3, <2>4, <2>5, <2>6, <2>8, <2>9, <2>10
<1>3. QED
  BY <1>1, <1>2

\* fgets takes the oldest line.
LEMMA FgetsTakesOldest ==
  ASSUME TypeOK, BridgeAssumption, Fgets
  PROVE  /\ file_buf' \in Seq(OutLine) /\ Len(file_buf') < FileBuf
         /\ from_monitor' \in Seq(OutLine) /\ Len(from_monitor') <= Len(from_monitor)
         /\ QueueLen \in Nat \ {0} /\ QueueLen' = QueueLen - 1
         /\ Head(Buffered) = Queue(1) /\ Head(Buffered) \in OutLine
         /\ \A i \in 1..QueueLen' : Queue(i)' = Queue(i + 1)
<1>1. /\ Buffered # << >> /\ file_buf' = Tail(Buffered) /\ from_monitor' = Unread
  BY DEF Fgets
<1>2. /\ Buffered \in Seq(OutLine) /\ Len(Buffered) \in Nat \ {0}
      /\ Len(Unread) \in Nat
  BY <1>1, BufferedUnread, LenProperties, EmptySeq
<1>3. /\ Head(Buffered) = Buffered[1] /\ Head(Buffered) \in OutLine
      /\ Tail(Buffered) \in Seq(OutLine) /\ Len(Tail(Buffered)) = Len(Buffered) - 1
      /\ \A i \in 1..(Len(Buffered) - 1) : Tail(Buffered)[i] = Buffered[i + 1]
  BY <1>1, <1>2, HeadTailProperties
<1>4. QueueLen \in Nat \ {0} /\ QueueLen' = QueueLen - 1
  BY <1>1, <1>2, <1>3, BufferedUnread DEF QueueLen
<1>5. ASSUME NEW i \in 1..QueueLen' PROVE Queue(i)' = Queue(i + 1)
  <2>1. CASE i <= Len(file_buf')
    BY <1>1, <1>2, <1>3, <1>4, <2>1, BufferedUnread DEF Queue
  <2>2. CASE i > Len(file_buf')
    <3>1. /\ i - Len(file_buf') \in 1..Len(Unread)
          /\ Len(Buffered) + (i - Len(file_buf')) = i + 1
      BY <1>1, <1>2, <1>3, <1>4, <2>2 DEF QueueLen
    <3>2. Unread[i - Len(file_buf')] = Queue(i + 1)
      BY <3>1, BufferedUnread
    <3>3. QED
      BY <1>1, <1>2, <1>3, <2>2, <3>2 DEF Queue
  <2>3. QED
    BY <1>1, <1>2, <1>3, <1>4, <2>1, <2>2 DEF QueueLen
<1>6. QED
  BY <1>1, <1>2, <1>3, <1>4, <1>5, BufferedUnread

-----------------------------------------------------------------------------
(* Types *)

\* The disjuncts of Next, one line each.
LEMMA NextCases ==
  ASSUME [Next]_vars
  PROVE  \/ \E k \in Event \cup Command : Send(k)
         \/ Write \/ Acknowledge \/ DrainRead \/ DrainEnd \/ Check
         \/ Stop \/ Waitpid \/ HandleLine \/ PrintLine \/ Finish
         \/ UNCHANGED vars
BY DEF Next, EmitLine, SaveOrRestore, EndSession, Fuzzer, Evaluator, Stopped, Command

\* What one line of input makes of the evaluator.
LEMMA HandleLineTypes ==
  ASSUME TypeOK, HandleLine
  PROVE  /\ to_monitor[1] \in InLine /\ Len(to_monitor) \in Nat \ {0}
         /\ to_monitor' \in Seq(InLine)
         /\ Len(to_monitor') \in 0..(Len(to_monitor) - 1)
         /\ \A i \in 1..Len(to_monitor') : to_monitor'[i] = to_monitor[i + 1]
         /\ found' \in Seq(Nat)
         /\ \/ found' = found /\ printing' \in {Nothing, Ack}
            \/ /\ found' = Append(found, to_monitor[1].session)
               /\ printing' = Len(found) + 1
<1> DEFINE in == Head(to_monitor)
<1>1. to_monitor # << >> /\ to_monitor \in Seq(InLine)
  BY DEF HandleLine, TypeOK
<1>2. /\ in \in InLine /\ in = to_monitor[1] /\ Len(to_monitor) \in Nat \ {0}
      /\ Tail(to_monitor) \in Seq(InLine) /\ Len(Tail(to_monitor)) = Len(to_monitor) - 1
      /\ \A i \in 1..(Len(to_monitor) - 1) : Tail(to_monitor)[i] = to_monitor[i + 1]
  BY <1>1, HeadTailProperties, EmptySeq
<1>3. to_monitor' = << >> \/ to_monitor' = Tail(to_monitor)
  BY DEF HandleLine
<1>4. in.session \in Nat /\ found \in Seq(Nat)
  BY <1>2 DEF InLine, TypeOK
<1>5. Append(found, in.session) \in Seq(Nat)
      /\ Len(Append(found, in.session)) = Len(found) + 1
  BY <1>4, AppendProperties
<1>6. \/ found' = found /\ printing' \in {Nothing, Ack}
      \/ found' = Append(found, in.session) /\ printing' = Len(found) + 1
  <2>1. CASE in.kind = "bad"
    BY <1>5, <2>1 DEF HandleLine
  <2>2. CASE in.kind # "bad"
    BY <2>2 DEF HandleLine
  <2>3. QED
    BY <2>1, <2>2
<1> HIDE DEF in
<1>7. /\ to_monitor' \in Seq(InLine)
      /\ Len(to_monitor') \in 0..(Len(to_monitor) - 1)
      /\ \A i \in 1..Len(to_monitor') : to_monitor'[i] = to_monitor[i + 1]
  <2>1. CASE to_monitor' = << >>
    BY <1>2, <2>1, EmptySeq
  <2>2. CASE to_monitor' = Tail(to_monitor)
    BY <1>2, <2>2
  <2>3. QED
    BY <1>3, <2>1, <2>2
<1>8. QED
  BY <1>2, <1>3, <1>4, <1>5, <1>6, <1>7

\* The pipes and the stdio buffer keep to their sizes, and every variable to
\* its type.
THEOREM TypeCorrect == Spec => []TypeOK
<1>1. Init => TypeOK
  <2> SUFFICES ASSUME Init PROVE TypeOK
    OBVIOUS
  <2>1. /\ file_buf = << >> /\ from_monitor = << >> /\ to_monitor = << >>
        /\ found = << >> /\ hits = << >> /\ line = NoLine
        /\ pc = "idle"
        /\ session = 1 /\ lines = 0 /\ unanswered = 0 /\ cause = 0
    BY DEF Init
  <2>2. mon \in {"running", "dead"} /\ printing \in OutLine \cup {Nothing}
    BY DEF Init
  <2>3. violation_detected \in BOOLEAN /\ sawOther \in BOOLEAN /\ late \in BOOLEAN
    BY Zenon DEF Init
  <2>4. QED
    BY <2>1, <2>2, <2>3, EmptySeq, BridgeAssumption DEF TypeOK, BridgeAssumption
<1>2. TypeOK /\ [Next]_vars => TypeOK'
  <2> SUFFICES ASSUME TypeOK, [Next]_vars PROVE TypeOK'
    OBVIOUS
  <2>0. /\ Len(to_monitor) \in Nat /\ Len(from_monitor) \in Nat
        /\ Len(file_buf) \in Nat /\ Len(found) \in Nat
    BY LenProperties DEF TypeOK
  <2>1. ASSUME NEW k \in Event \cup Command, Send(k) PROVE TypeOK'
    BY <2>1 DEF Send, TypeOK, InLine, Calls
  <2>2. CASE Write
    <3>1. line \in InLine
      BY <2>2 DEF Write, TypeOK
    <3>2. /\ Append(to_monitor, line) \in Seq(InLine)
          /\ Len(Append(to_monitor, line)) = Len(to_monitor) + 1
      BY <3>1, AppendProperties DEF TypeOK
    <3>3. to_monitor' \in Seq(InLine) /\ Len(to_monitor') <= InCap
      <4>1. CASE mon = "running"
        BY <2>0, <2>2, <3>2, <4>1, BridgeAssumption DEF Write, TypeOK, BridgeAssumption
      <4>2. CASE mon # "running"
        BY <2>2, <4>2 DEF Write, TypeOK
      <4>3. QED
        BY <4>1, <4>2
    <3>4. pc' \in {"idle", "ack", "first_select"}
      BY <2>2, <3>1 DEF Write, InLine, Command
    <3>5. sawOther' \in BOOLEAN /\ late' \in BOOLEAN
      BY <2>2, Zenon DEF Write
    <3>6. /\ UNCHANGED <<violation_detected, file_buf, from_monitor, mon, printing,
                         session, found, cause, hits>>
          /\ line' = NoLine /\ lines' \in Nat /\ unanswered' \in Nat
      BY <2>2 DEF Write, TypeOK
    <3>7. QED
      BY <3>3, <3>4, <3>5, <3>6 DEF TypeOK, Calls
  <2>3. CASE Acknowledge
    <3>1. CASE Fgets
      BY <2>0, <2>3, <3>1, FgetsTakesOldest, BridgeAssumption
         DEF Acknowledge, Fgets, TypeOK, BridgeAssumption
    <3>2. CASE UNCHANGED <<file_buf, from_monitor, cause>>
      BY <2>3, <3>2 DEF Acknowledge, TypeOK
    <3>3. QED
      BY <2>3, <3>1, <3>2 DEF Acknowledge
  <2>4. CASE DrainRead
    <3>1. Fgets
      BY <2>4 DEF DrainRead
    <3>2. QED
      BY <2>0, <2>4, <3>1, FgetsTakesOldest, BridgeAssumption
         DEF DrainRead, Fgets, TypeOK, Calls, BridgeAssumption
  <2>5. CASE DrainEnd
    <3>1. late' \in BOOLEAN
      BY <2>5, Zenon DEF DrainEnd
    <3>2. /\ UNCHANGED <<line, handleVars, pipeVars, monVars, session, lines, found,
                         cause, hits, sawOther>>
          /\ pc' = "check" /\ unanswered' \in Nat
      BY <2>5 DEF DrainEnd, TypeOK
    <3>3. QED
      BY <3>1, <3>2 DEF handleVars, pipeVars, monVars, TypeOK, Calls
  <2>6. CASE Check
    <3>1. hits' \in Seq([session : Nat, violation : Nat])
      <4>1. [session |-> session, violation |-> cause] \in [session : Nat, violation : Nat]
        BY DEF TypeOK
      <4>2. QED
        BY <2>6, <4>1, AppendProperties DEF Check, TypeOK
    <3>2. violation_detected' \in BOOLEAN
      BY <2>6, Zenon DEF Check
    <3>3. /\ UNCHANGED <<line, file_buf, to_monitor, from_monitor, mon, printing,
                         unanswered, found, cause, sawOther, late>>
          /\ pc' = "idle" /\ session' \in Nat \ {0} /\ lines' = 0
      BY <2>6 DEF Check, TypeOK
    <3>4. QED
      BY <3>1, <3>2, <3>3 DEF TypeOK, Calls
  <2>7. CASE Stop
    BY <2>7 DEF Stop, TypeOK, Calls
  <2>8. CASE Waitpid
    BY <2>8 DEF Waitpid, TypeOK
  <2>9. CASE HandleLine
    <3>1. /\ to_monitor' \in Seq(InLine) /\ Len(to_monitor') <= InCap
          /\ found' \in Seq(Nat) /\ printing' \in OutLine \cup {Nothing}
      BY <2>0, <2>9, HandleLineTypes, LenProperties, BridgeAssumption
         DEF TypeOK, BridgeAssumption
    <3>2. QED
      BY <2>9, <3>1 DEF HandleLine, TypeOK
  <2>10. CASE PrintLine
    <3>1. printing \in OutLine
      BY <2>10 DEF PrintLine, TypeOK
    <3>2. /\ Append(from_monitor, printing) \in Seq(OutLine)
          /\ Len(Append(from_monitor, printing)) = Len(from_monitor) + 1
      BY <3>1, AppendProperties DEF TypeOK
    <3>3. QED
      BY <2>0, <2>10, <3>2, BridgeAssumption DEF PrintLine, TypeOK, BridgeAssumption
  <2>11. CASE Finish
    BY <2>11 DEF Finish, TypeOK
  <2>12. CASE UNCHANGED vars
    BY <2>12 DEF vars, TypeOK
  <2>13. QED
    BY <2>1, <2>2, <2>3, <2>4, <2>5, <2>6, <2>7, <2>8, <2>9, <2>10, <2>11, <2>12,
       NextCases
<1>3. QED
  BY <1>1, <1>2, PTL DEF Spec

-----------------------------------------------------------------------------
(* Mutual blocking *)

\* Every line in a pipe or about to be printed was caused by a line sent since
\* the evaluator was last quiet, but for the banner.
InFlight == Len(to_monitor) + (IF printing = Nothing THEN 0 ELSE 1) + Len(from_monitor)
CapacityInv == InFlight <= unanswered + 1

\* The fuzzer and the evaluator can wait for each other only when InCap + OutCap
\* lines have been sent since the evaluator was last quiet, whatever the sizes
\* of the pipes.
THEOREM CapacityCorrect == Spec => []BlockedOnlyOverCapacity
<1>1. Init => CapacityInv
  BY EmptySeq DEF Init, CapacityInv, InFlight
<1>2. TypeOK /\ CapacityInv /\ [Next]_vars => CapacityInv'
  <2> SUFFICES ASSUME TypeOK, CapacityInv, [Next]_vars PROVE CapacityInv'
    OBVIOUS
  <2>0. /\ Len(to_monitor) \in Nat /\ Len(from_monitor) \in Nat /\ unanswered \in Nat
        /\ Len(to_monitor) + (IF printing = Nothing THEN 0 ELSE 1) + Len(from_monitor)
             <= unanswered + 1
    BY LenProperties DEF TypeOK, CapacityInv, InFlight
  <2> USE DEF CapacityInv, InFlight
  <2>1. ASSUME NEW k \in Event \cup Command, Send(k) PROVE CapacityInv'
    BY <2>0, <2>1 DEF Send
  <2>2. CASE Write
    <3>1. Len(to_monitor') \in {Len(to_monitor), Len(to_monitor) + 1}
      <4>1. line \in InLine
        BY <2>2 DEF Write, TypeOK
      <4>2. QED
        BY <2>2, <4>1, AppendProperties DEF Write, TypeOK
    <3>2. /\ UNCHANGED <<printing, from_monitor>> /\ unanswered' = unanswered + 1
      BY <2>2 DEF Write
    <3>3. QED
      BY <2>0, <3>1, <3>2
  <2>3. CASE Acknowledge
    <3>1. Len(from_monitor') \in Nat /\ Len(from_monitor') <= Len(from_monitor)
      BY <2>0, <2>3, FgetsTakesOldest, BridgeAssumption, LenProperties DEF Acknowledge
    <3>2. QED
      BY <2>0, <2>3, <3>1 DEF Acknowledge
  <2>4. CASE DrainRead
    <3>1. Len(from_monitor') \in Nat /\ Len(from_monitor') <= Len(from_monitor)
      BY <2>0, <2>4, FgetsTakesOldest, BridgeAssumption, LenProperties DEF DrainRead
    <3>2. QED
      BY <2>0, <2>4, <3>1 DEF DrainRead
  <2>5. CASE DrainEnd
    <3>1. UNCHANGED <<to_monitor, from_monitor, printing>>
      BY <2>5 DEF DrainEnd
    <3>2. CASE ~Quiet
      BY <2>0, <2>5, <3>1, <3>2 DEF DrainEnd
    <3>3. CASE Quiet
      <4>1. from_monitor = << >>
        BY <2>5, BufferedUnread, BridgeAssumption DEF DrainEnd, Eof, TimesOut, Readable
      <4>2. QED
        BY <2>5, <3>1, <3>3, <4>1, EmptySeq DEF DrainEnd, Quiet
    <3>4. QED
      BY <3>2, <3>3
  <2>6. CASE Check
    BY <2>0, <2>6 DEF Check
  <2>7. CASE Stop
    BY <2>0, <2>7 DEF Stop
  <2>8. CASE Waitpid
    BY <2>0, <2>8 DEF Waitpid
  <2>9. CASE HandleLine
    <3>1. Len(to_monitor') \in 0..(Len(to_monitor) - 1) /\ printing = Nothing
      BY <2>9, HandleLineTypes DEF HandleLine
    <3>2. UNCHANGED <<from_monitor, unanswered>>
      BY <2>9 DEF HandleLine
    <3>3. QED
      BY <2>0, <3>1, <3>2
  <2>10. CASE PrintLine
    <3>1. Len(from_monitor') = Len(from_monitor) + 1 /\ printing # Nothing
      BY <2>10, AppendProperties DEF PrintLine, TypeOK
    <3>2. printing' = Nothing /\ UNCHANGED <<to_monitor, unanswered>>
      BY <2>10 DEF PrintLine
    <3>3. QED
      BY <2>0, <3>1, <3>2
  <2>11. CASE Finish
    BY <2>0, <2>11 DEF Finish
  <2>12. CASE UNCHANGED vars
    BY <2>0, <2>12 DEF vars
  <2>13. QED
    BY <2>1, <2>2, <2>3, <2>4, <2>5, <2>6, <2>7, <2>8, <2>9, <2>10, <2>11, <2>12,
       NextCases
<1>3. TypeOK /\ CapacityInv => BlockedOnlyOverCapacity
  BY BridgeAssumption DEF BridgeAssumption, TypeOK, CapacityInv, InFlight,
     BlockedOnlyOverCapacity, MutuallyBlocked
<1>4. QED
  BY <1>1, <1>2, <1>3, TypeCorrect, PTL DEF Spec

-----------------------------------------------------------------------------
(* Hits *)

\* Violation numbers wait in increasing order, all newer than the last one read
\* and none newer than the last one found; the one being printed is the newest.
QueueInv ==
  /\ \A i \in 1..QueueLen :
       /\ Queue(i) <= Len(found)
       /\ Queue(i) > 0 => Queue(i) > cause
  /\ \A i, j \in 1..QueueLen : i < j /\ Queue(j) > 0 => Queue(i) < Queue(j)
  /\ printing > 0 =>
       /\ printing = Len(found)
       /\ cause < printing
       /\ \A i \in 1..QueueLen : Queue(i) < printing
  /\ cause <= Len(found)

\* No line is from a session that has not begun.
SessionInv ==
  /\ pc = "writing" => line.session <= session
  /\ \A i \in 1..Len(to_monitor) : to_monitor[i].session <= session
  /\ \A n \in 1..Len(found) : found[n] <= session

\* The number behind the flag is newer than those of the earlier hits.
FlagInv ==
  /\ violation_detected => cause > 0
  /\ \A i \in 1..Len(hits) :
       /\ hits[i].violation \in 1..cause
       /\ violation_detected => hits[i].violation < cause
       /\ found[hits[i].violation] <= hits[i].session
  /\ \A i, j \in 1..Len(hits) : i < j => hits[i].violation < hits[j].violation

\* Types in the form the steps below use.
LEMMA QueueTypes ==
  ASSUME TypeOK
  PROVE  /\ Len(to_monitor) \in Nat /\ Len(from_monitor) \in Nat
         /\ Len(file_buf) \in Nat /\ Len(found) \in Nat /\ Len(hits) \in Nat
         /\ QueueLen \in Nat /\ \A i \in 1..QueueLen : Queue(i) \in Int
         /\ cause \in Nat /\ session \in Nat /\ printing \in Int
         /\ \A i \in 1..Len(to_monitor) : to_monitor[i].session \in Nat
         /\ \A n \in 1..Len(found) : found[n] \in Nat
         /\ \A i \in 1..Len(hits) :
              hits[i].violation \in Nat /\ hits[i].session \in Nat
<1>1. /\ Len(to_monitor) \in Nat /\ Len(from_monitor) \in Nat
      /\ Len(file_buf) \in Nat /\ Len(found) \in Nat /\ Len(hits) \in Nat
  BY LenProperties DEF TypeOK
<1>2. /\ \A i \in 1..Len(file_buf) : file_buf[i] \in OutLine
      /\ \A i \in 1..Len(from_monitor) : from_monitor[i] \in OutLine
      /\ \A i \in 1..Len(to_monitor) : to_monitor[i] \in InLine
      /\ \A n \in 1..Len(found) : found[n] \in Nat
      /\ \A i \in 1..Len(hits) : hits[i] \in [session : Nat, violation : Nat]
  BY ElementOfSeq DEF TypeOK
<1>3. QueueLen \in Nat /\ \A i \in 1..QueueLen : Queue(i) \in Int
  <2>1. QueueLen \in Nat
    BY <1>1 DEF QueueLen
  <2>2. ASSUME NEW i \in 1..QueueLen PROVE Queue(i) \in OutLine
    <3>1. CASE i <= Len(file_buf)
      BY <1>1, <1>2, <2>1, <3>1 DEF Queue
    <3>2. CASE ~(i <= Len(file_buf))
      <4>1. i - Len(file_buf) \in 1..Len(from_monitor)
        BY <1>1, <3>2 DEF QueueLen
      <4>2. QED
        BY <1>2, <3>2, <4>1 DEF Queue
    <3>3. QED
      BY <3>1, <3>2
  <2>3. QED
    BY <2>1, <2>2
<1>4. cause \in Nat /\ session \in Nat /\ printing \in Int
  BY DEF TypeOK
<1>5. QED
  BY <1>1, <1>2, <1>3, <1>4 DEF InLine

\* Reading the oldest line keeps the numbers in order.
LEMMA FgetsKeepsOrder ==
  ASSUME TypeOK, QueueInv, Fgets, found' = found, printing' = printing
  PROVE  /\ QueueInv' /\ cause' >= cause /\ cause' \in Nat
         /\ Head(Buffered) > 0 => cause' > cause
         /\ ~(Head(Buffered) > 0) => cause' = cause
<1>1. /\ QueueLen \in Nat \ {0} /\ QueueLen' = QueueLen - 1
      /\ Head(Buffered) = Queue(1)
      /\ \A i \in 1..QueueLen' : Queue(i)' = Queue(i + 1)
  BY FgetsTakesOldest, BridgeAssumption
<1>2. cause' = IF Queue(1) > 0 THEN Queue(1) ELSE cause
  BY <1>1 DEF Fgets
<1>3. /\ Queue(1) \in Int /\ Queue(1) <= Len(found)
      /\ Queue(1) > 0 => Queue(1) > cause
      /\ printing > 0 => Queue(1) < printing
      /\ \A j \in 2..QueueLen : Queue(j) > 0 => Queue(1) < Queue(j)
  BY <1>1, QueueTypes DEF QueueInv
<1>4. \A i \in 1..QueueLen' :
        /\ i + 1 \in 2..QueueLen /\ Queue(i)' = Queue(i + 1) /\ Queue(i + 1) \in Int
  BY <1>1, QueueTypes
<1>5. /\ \A i \in 1..QueueLen' :
           /\ Queue(i)' <= Len(found')
           /\ Queue(i)' > 0 => Queue(i)' > cause'
  BY <1>1, <1>2, <1>3, <1>4, QueueTypes DEF QueueInv
<1>6. \A i, j \in 1..QueueLen' : i < j /\ Queue(j)' > 0 => Queue(i)' < Queue(j)'
  BY <1>1, <1>4, QueueTypes DEF QueueInv
<1>7. printing' > 0 =>
       /\ printing' = Len(found')
       /\ cause' < printing'
       /\ \A i \in 1..QueueLen' : Queue(i)' < printing'
  BY <1>1, <1>2, <1>3, <1>4, QueueTypes DEF QueueInv
<1>8. cause' <= Len(found')
  BY <1>2, <1>3, QueueTypes DEF QueueInv
<1>9. QED
  BY <1>1, <1>2, <1>3, <1>5, <1>6, <1>7, <1>8, QueueTypes DEF QueueInv

\* A printed line joins the end of the queue.
LEMMA PrintAppends ==
  ASSUME TypeOK, PrintLine
  PROVE  /\ QueueLen' = QueueLen + 1
         /\ \A i \in 1..QueueLen : Queue(i)' = Queue(i)
         /\ \A i \in Nat : i = QueueLen + 1 => Queue(i)' = printing
<1>1. /\ printing \in OutLine
      /\ from_monitor' = Append(from_monitor, printing)
      /\ UNCHANGED file_buf
  BY DEF PrintLine, TypeOK
<1>2. /\ Len(from_monitor') = Len(from_monitor) + 1
      /\ \A i \in 1..Len(from_monitor) : from_monitor'[i] = from_monitor[i]
      /\ from_monitor'[Len(from_monitor) + 1] = printing
  BY <1>1, AppendProperties DEF TypeOK
<1>3. QueueLen' = QueueLen + 1
  BY <1>1, <1>2, QueueTypes DEF QueueLen
<1>4. ASSUME NEW i \in 1..QueueLen PROVE Queue(i)' = Queue(i)
  <2>1. CASE i <= Len(file_buf)
    BY <1>1, <2>1 DEF Queue
  <2>2. CASE ~(i <= Len(file_buf))
    <3>1. i - Len(file_buf) \in 1..Len(from_monitor)
      BY <2>2, QueueTypes DEF QueueLen
    <3>2. QED
      BY <1>1, <1>2, <2>2, <3>1 DEF Queue
  <2>3. QED
    BY <2>1, <2>2
<1>5. ASSUME NEW i \in Nat, i = QueueLen + 1 PROVE Queue(i)' = printing
  <2>1. ~(i <= Len(file_buf)) /\ i - Len(file_buf) = Len(from_monitor) + 1
    BY <1>5, QueueTypes DEF QueueLen
  <2>2. QED
    BY <1>1, <1>2, <2>1 DEF Queue
<1>6. QED
  BY <1>3, <1>4, <1>5

\* Printing a line puts the newest number last.
LEMMA PrintKeepsOrder ==
  ASSUME TypeOK, QueueInv, PrintLine
  PROVE  QueueInv'
<1>1. /\ printing \in OutLine /\ printing' = Nothing
      /\ UNCHANGED <<found, cause>>
  BY DEF PrintLine, TypeOK
<1>2. Len(found) \in Nat /\ QueueLen \in Nat /\ cause \in Nat
  BY QueueTypes
<1>3. QueueLen' = QueueLen + 1
  BY PrintAppends
<1>4. \A i \in 1..QueueLen : Queue(i)' = Queue(i)
  BY PrintAppends
<1>5. \A i \in Nat : i = QueueLen + 1 => Queue(i)' = printing
  BY PrintAppends
<1>6. ASSUME NEW i \in 1..QueueLen'
      PROVE  \/ i \in 1..QueueLen /\ Queue(i)' = Queue(i)
             \/ i = QueueLen + 1 /\ Queue(i)' = printing
  <2>1. i \in Nat /\ (i \in 1..QueueLen \/ i = QueueLen + 1)
    BY <1>3, QueueTypes
  <2>2. QED
    BY <1>4, <1>5, <2>1
<1>7. /\ \A i \in 1..QueueLen' :
           /\ Queue(i)' <= Len(found')
           /\ Queue(i)' > 0 => Queue(i)' > cause'
      /\ cause' <= Len(found')
  BY <1>1, <1>2, <1>6 DEF QueueInv
<1>8. \A i, j \in 1..QueueLen' : i < j /\ Queue(j)' > 0 => Queue(i)' < Queue(j)'
  <2> SUFFICES ASSUME NEW i \in 1..QueueLen', NEW j \in 1..QueueLen',
                      i < j, Queue(j)' > 0
               PROVE  Queue(i)' < Queue(j)'
    OBVIOUS
  <2>1. i \in 1..QueueLen /\ Queue(i)' = Queue(i)
    <3>1. i # QueueLen + 1
      BY <1>3, QueueTypes
    <3>2. QED
      BY <1>6, <3>1
  <2>2. CASE j \in 1..QueueLen /\ Queue(j)' = Queue(j)
    BY <2>1, <2>2 DEF QueueInv
  <2>3. CASE j = QueueLen + 1 /\ Queue(j)' = printing
    BY <2>1, <2>3 DEF QueueInv
  <2>4. QED
    BY <1>6, <2>2, <2>3
<1>9. QED
  BY <1>1, <1>7, <1>8 DEF QueueInv

HInv == QueueInv /\ SessionInv /\ FlagInv

\* The three hold together, by induction.
LEMMA HitsKept == Spec => []HInv
<1> USE DEF HInv
<1>1. Init => HInv
  <2> SUFFICES ASSUME Init PROVE HInv
    OBVIOUS
  <2>1. /\ Len(file_buf) = 0 /\ Len(from_monitor) = 0 /\ Len(to_monitor) = 0
        /\ Len(found) = 0 /\ Len(hits) = 0 /\ cause = 0 /\ pc = "idle"
        /\ ~(printing > 0)
    BY EmptySeq DEF Init
  <2>2. ~violation_detected
    BY Zenon DEF Init
  <2>3. QueueInv
    BY <2>1 DEF QueueInv, QueueLen
  <2>4. SessionInv
    BY <2>1 DEF SessionInv
  <2>5. FlagInv
    BY <2>1, <2>2 DEF FlagInv
  <2>6. QED
    BY <2>3, <2>4, <2>5
<1>2. TypeOK /\ HInv /\ [Next]_vars => HInv'
  <2> SUFFICES ASSUME TypeOK, HInv, [Next]_vars PROVE HInv'
    OBVIOUS
  <2>0. QueueInv /\ SessionInv /\ FlagInv
    OBVIOUS
  <2>a. ASSUME UNCHANGED <<file_buf, from_monitor, found, cause, printing>>
        PROVE  QueueInv'
    BY <2>0, <2>a DEF QueueInv, QueueLen, Queue
  <2>b. ASSUME UNCHANGED <<to_monitor, found, session>>, pc' # "writing"
        PROVE  SessionInv'
    BY <2>0, <2>b DEF SessionInv
  <2>c. ASSUME UNCHANGED <<violation_detected, hits, cause, found>>
        PROVE  FlagInv'
    BY <2>0, <2>c DEF FlagInv
  <2> HIDE DEF HInv
  <2>1. ASSUME NEW k \in Event \cup Command, Send(k) PROVE HInv'
    <3>1. SessionInv'
      BY <2>0, <2>1, QueueTypes DEF Send, SessionInv
    <3>2. QED
      BY <2>1, <2>a, <2>c, <3>1 DEF Send, HInv
  <2>2. CASE Write
    <3>1. SessionInv'
      <4>1. line \in InLine /\ line.session <= session
        BY <2>0, <2>2 DEF Write, TypeOK, SessionInv
      <4>2. pc' # "writing" /\ UNCHANGED <<found, session>>
        BY <2>2, <4>1 DEF Write, InLine, Command
      <4>3. \A i \in 1..Len(to_monitor') : to_monitor'[i].session <= session
        <5>1. CASE to_monitor' = to_monitor
          BY <2>0, <5>1 DEF SessionInv
        <5>2. CASE to_monitor' = Append(to_monitor, line)
          <6>1. /\ Len(to_monitor') = Len(to_monitor) + 1
                /\ \A i \in 1..Len(to_monitor) : to_monitor'[i] = to_monitor[i]
                /\ to_monitor'[Len(to_monitor) + 1] = line
            BY <4>1, <5>2, AppendProperties DEF TypeOK
          <6>2. \A i \in 1..Len(to_monitor') :
                  i \in 1..Len(to_monitor) \/ i = Len(to_monitor) + 1
            BY <6>1, QueueTypes
          <6>3. QED
            BY <2>0, <4>1, <6>1, <6>2 DEF SessionInv
        <5>3. QED
          BY <2>2, <5>1, <5>2 DEF Write
      <4>4. QED
        BY <2>0, <4>2, <4>3 DEF SessionInv
    <3>2. QED
      BY <2>2, <2>a, <2>c, <3>1 DEF Write, HInv
  <2>3. CASE Acknowledge
    <3>1. CASE Fgets
      <4>1. QueueInv' /\ cause' >= cause /\ cause' \in Nat
        BY <2>0, <2>3, <3>1, FgetsKeepsOrder DEF Acknowledge
      <4>2. FlagInv'
        BY <2>0, <2>3, <4>1, QueueTypes DEF FlagInv, Acknowledge
      <4>3. QED
        BY <2>3, <2>b, <4>1, <4>2 DEF Acknowledge, HInv
    <3>2. CASE UNCHANGED <<file_buf, from_monitor, cause>>
      BY <2>3, <2>a, <2>b, <2>c, <3>2 DEF Acknowledge, HInv
    <3>3. QED
      BY <2>3, <3>1, <3>2 DEF Acknowledge
  <2>4. CASE DrainRead
    <3>1. /\ QueueInv' /\ cause' >= cause /\ cause' \in Nat
          /\ Head(Buffered) > 0 => cause' > cause
          /\ ~(Head(Buffered) > 0) => cause' = cause
      BY <2>0, <2>4, FgetsKeepsOrder DEF DrainRead
    <3>2. FlagInv'
      <4>1. UNCHANGED <<hits, found>>
        BY <2>4 DEF DrainRead
      <4>2. CASE Head(Buffered) > 0
        BY <2>0, <3>1, <4>1, <4>2, QueueTypes DEF FlagInv
      <4>3. CASE ~(Head(Buffered) > 0)
        <5>1. violation_detected' <=> violation_detected
          BY <2>4, <4>3, Zenon DEF DrainRead
        <5>2. QED
          BY <2>0, <3>1, <4>1, <4>3, <5>1 DEF FlagInv
      <4>4. QED
        BY <4>2, <4>3
    <3>3. QED
      BY <2>4, <2>b, <3>1, <3>2 DEF DrainRead, HInv
  <2>5. CASE DrainEnd
    BY <2>5, <2>a, <2>b, <2>c DEF DrainEnd, HInv
  <2>6. CASE Check
    <3>1. /\ UNCHANGED <<file_buf, from_monitor, to_monitor, found, cause, printing>>
          /\ session' = session + 1 /\ pc' = "idle"
      BY <2>6 DEF Check
    <3>2. ~violation_detected'
      BY <2>6, Zenon DEF Check
    <3>3. SessionInv'
      BY <2>0, <3>1, QueueTypes DEF SessionInv
    <3>4. CASE ~violation_detected
      <4>1. hits' = hits
        BY <2>6, <3>4 DEF Check
      <4>2. FlagInv'
        BY <2>0, <3>1, <3>2, <4>1 DEF FlagInv
      <4>3. QED
        BY <2>a, <3>1, <3>3, <4>2 DEF HInv
    <3>5. CASE violation_detected
      <4> DEFINE hit == [session |-> session, violation |-> cause]
      <4>1. hits' = Append(hits, hit)
        BY <2>6, <3>5 DEF Check
      <4>2. hit \in [session : Nat, violation : Nat]
            /\ hit.session = session /\ hit.violation = cause
        BY QueueTypes
      <4> HIDE DEF hit
      <4>3. /\ Len(hits') = Len(hits) + 1
            /\ \A i \in 1..Len(hits) : hits'[i] = hits[i]
            /\ hits'[Len(hits) + 1] = hit
        BY <4>1, <4>2, AppendProperties DEF TypeOK
      <4>4. cause \in 1..Len(found) /\ found[cause] <= session
        BY <2>0, <3>5, QueueTypes DEF FlagInv, QueueInv, SessionInv
      <4>5. \A i \in 1..Len(hits') : i \in 1..Len(hits) \/ i = Len(hits) + 1
        BY <4>3, QueueTypes
      <4>6. ASSUME NEW i \in 1..Len(hits')
            PROVE  /\ hits'[i].violation \in 1..cause
                   /\ found[hits'[i].violation] <= hits'[i].session
        <5>1. CASE i \in 1..Len(hits)
          BY <2>0, <4>3, <5>1 DEF FlagInv
        <5>2. CASE i = Len(hits) + 1
          <6>1. hits'[i].violation = cause /\ hits'[i].session = session
            BY <4>2, <4>3, <5>2
          <6>2. cause \in 1..cause
            BY <4>4, QueueTypes
          <6>3. QED
            BY <4>4, <6>1, <6>2
        <5>3. QED
          BY <4>5, <5>1, <5>2
      <4>7. ASSUME NEW i \in 1..Len(hits'), NEW j \in 1..Len(hits'), i < j
            PROVE  hits'[i].violation < hits'[j].violation
        <5>1. i \in 1..Len(hits) /\ hits'[i] = hits[i]
          BY <4>3, <4>5, <4>7, QueueTypes
        <5>2. CASE j \in 1..Len(hits)
          BY <2>0, <4>3, <4>7, <5>1, <5>2 DEF FlagInv
        <5>3. CASE j = Len(hits) + 1
          BY <2>0, <3>5, <4>2, <4>3, <5>1, <5>3 DEF FlagInv
        <5>4. QED
          BY <4>5, <5>2, <5>3
      <4>8. FlagInv'
        BY <3>1, <3>2, <4>6, <4>7 DEF FlagInv
      <4>9. QED
        BY <2>a, <3>1, <3>3, <4>8 DEF HInv
    <3>6. QED
      BY <3>4, <3>5
  <2>7. CASE Stop
    BY <2>7, <2>a, <2>b, <2>c DEF Stop, HInv
  <2>8. CASE Waitpid
    BY <2>8, <2>a, <2>b, <2>c DEF Waitpid, HInv
  <2>9. CASE HandleLine
    <3>1. /\ UNCHANGED <<pc, line, violation_detected, file_buf, from_monitor,
                         session, cause, hits>>
          /\ printing = Nothing
      BY <2>9 DEF HandleLine
    <3>2. \A i \in 1..Len(to_monitor') : to_monitor'[i].session <= session
      BY <2>0, <2>9, HandleLineTypes DEF SessionInv
    <3>3. CASE found' = found /\ printing' \in {Nothing, Ack}
      <4>1. QueueInv'
        BY <2>0, <3>1, <3>3 DEF QueueInv, QueueLen, Queue
      <4>2. SessionInv'
        BY <2>0, <3>1, <3>2, <3>3 DEF SessionInv
      <4>3. QED
        BY <2>c, <3>1, <3>3, <4>1, <4>2 DEF HInv
    <3>4. CASE /\ found' = Append(found, to_monitor[1].session)
               /\ printing' = Len(found) + 1
      <4>1. /\ Len(to_monitor) \in Nat \ {0}
            /\ to_monitor[1].session \in Nat /\ to_monitor[1].session <= session
        BY <2>0, <2>9, HandleLineTypes, QueueTypes DEF SessionInv
      <4>2. /\ Len(found') = Len(found) + 1
            /\ \A n \in 1..Len(found) : found'[n] = found[n]
            /\ found'[Len(found) + 1] = to_monitor[1].session
        BY <3>4, <4>1, AppendProperties DEF TypeOK
      <4>3. QueueInv'
        <5>1. QueueLen' = QueueLen /\ \A i \in 1..QueueLen : Queue(i)' = Queue(i)
          BY <3>1 DEF QueueLen, Queue
        <5>2. QED
          BY <2>0, <3>1, <3>4, <4>2, <5>1, QueueTypes DEF QueueInv
      <4>4. SessionInv'
        <5>1. \A n \in 1..Len(found') : n \in 1..Len(found) \/ n = Len(found) + 1
          BY <4>2, QueueTypes
        <5>2. QED
          BY <2>0, <3>1, <3>2, <4>1, <4>2, <5>1 DEF SessionInv
      <4>5. FlagInv'
        <5>1. \A i \in 1..Len(hits) : hits[i].violation \in 1..Len(found)
          BY <2>0, QueueTypes DEF FlagInv, QueueInv
        <5>2. QED
          BY <2>0, <3>1, <4>2, <5>1 DEF FlagInv
      <4>6. QED
        BY <4>3, <4>4, <4>5 DEF HInv
    <3>5. QED
      BY <2>9, <3>3, <3>4, HandleLineTypes
  <2>10. CASE PrintLine
    <3>1. QueueInv'
      BY <2>0, <2>10, PrintKeepsOrder
    <3>2. SessionInv'
      BY <2>0, <2>10 DEF PrintLine, SessionInv
    <3>3. QED
      BY <2>10, <2>c, <3>1, <3>2 DEF PrintLine, HInv
  <2>11. CASE Finish
    <3>1. QueueInv'
      BY <2>0, <2>11, QueueTypes DEF Finish, QueueInv, QueueLen, Queue
    <3>2. QED
      BY <2>11, <2>b, <2>c, <3>1 DEF Finish, HInv
  <2>12. CASE UNCHANGED vars
    <3>1. SessionInv'
      BY <2>0, <2>12 DEF vars, SessionInv
    <3>2. QED
      BY <2>12, <2>a, <2>c, <3>1 DEF vars, HInv
  <2>13. QED
    BY <2>1, <2>2, <2>3, <2>4, <2>5, <2>6, <2>7, <2>8, <2>9, <2>10, <2>11, <2>12,
       NextCases
<1>3. QED
  BY <1>1, <1>2, TypeCorrect, PTL DEF Spec

\* Whatever is lost, late or left in a buffer, every test case reported as a
\* violation has a violation of its own, found no later than in that test case.
THEOREM HitsCorrect == Spec => []EachHitHasItsOwnViolation
<1>1. TypeOK /\ HInv => EachHitHasItsOwnViolation
  <2> SUFFICES ASSUME TypeOK, HInv PROVE EachHitHasItsOwnViolation
    OBVIOUS
  <2>1. cause \in Nat /\ Len(found) \in Nat /\ cause <= Len(found)
    BY QueueTypes DEF HInv, QueueInv
  <2>2. \A i \in 1..Len(hits) : hits[i].violation \in 1..Len(found)
    BY <2>1 DEF HInv, FlagInv
  <2>3. QED
    BY <2>2 DEF HInv, FlagInv, EachHitHasItsOwnViolation
<1>2. QED
  BY <1>1, TypeCorrect, HitsKept, PTL
-----------------------------------------------------------------------------
(* Violating sessions *)

\* Until monitor_stop, a violation that was not read yet is in the stdio buffer,
\* in the pipe, or being printed.
KeptInv ==
  pc \notin {"stopping", "stopped"} =>
    \A n \in 1..Len(found) :
      n <= cause \/ n = printing \/ \E i \in 1..QueueLen : Queue(i) = n

\* Lines are sent, handled and found in the order of their sessions.
OrderInv ==
  /\ pc = "writing" => line.session = session
  /\ \A i, j \in 1..Len(to_monitor) :
       i < j => to_monitor[i].session <= to_monitor[j].session
  /\ \A n \in 1..Len(found) : \A i \in 1..Len(to_monitor) :
       found[n] <= to_monitor[i].session
  /\ \A m, n \in 1..Len(found) : m < n => found[m] <= found[n]

\* Past the first line the loop of monitor_end_session has either set the flag
\* or seen another line; if it ended before any line, nothing more can come,
\* unless it gave up too early.
DrainInv ==
  /\ mon # "running" => printing = Nothing
  /\ pc = "drain" => violation_detected \/ sawOther
  /\ pc = "check" =>
       \/ violation_detected \/ sawOther \/ late
       \/ /\ from_monitor = << >> /\ printing = Nothing
          /\ mon = "running" => to_monitor = << >>

\* A step keeps OrderInv.
LEMMA OrderStep ==
  ASSUME TypeOK, SessionInv, OrderInv, [Next]_vars
  PROVE  OrderInv'
<1>0. /\ Len(to_monitor) \in Nat /\ Len(found) \in Nat /\ session \in Nat
      /\ \A i \in 1..Len(to_monitor) : to_monitor[i].session \in Nat
      /\ \A n \in 1..Len(found) : found[n] \in Nat
  BY QueueTypes
<1>a. ASSUME UNCHANGED <<to_monitor, found>>, pc' # "writing"
      PROVE  OrderInv'
  BY <1>a DEF OrderInv
<1>1. ASSUME NEW k \in Event \cup Command, Send(k) PROVE OrderInv'
  BY <1>1 DEF Send, OrderInv
<1>2. CASE Write
  <2>1. line \in InLine /\ line.session = session
    BY <1>2 DEF Write, TypeOK, OrderInv
  <2>2. pc' # "writing" /\ UNCHANGED <<found, session>>
    BY <1>2, <2>1 DEF Write, InLine, Command
  <2>3. CASE to_monitor' = to_monitor
    BY <1>a, <2>2, <2>3
  <2>4. CASE to_monitor' = Append(to_monitor, line)
    <3>1. /\ Len(to_monitor') = Len(to_monitor) + 1
          /\ \A i \in 1..Len(to_monitor) : to_monitor'[i] = to_monitor[i]
          /\ to_monitor'[Len(to_monitor) + 1] = line
      BY <2>1, <2>4, AppendProperties DEF TypeOK
    <3>2. \A i \in 1..Len(to_monitor') :
            i \in 1..Len(to_monitor) \/ i = Len(to_monitor) + 1
      BY <1>0, <3>1
    <3>3. \A n \in 1..Len(found) : \A i \in 1..Len(to_monitor') :
            found[n] <= to_monitor'[i].session
      BY <2>1, <3>1, <3>2 DEF OrderInv, SessionInv
    <3>4. ASSUME NEW i \in 1..Len(to_monitor'), NEW j \in 1..Len(to_monitor'), i < j
          PROVE  to_monitor'[i].session <= to_monitor'[j].session
      <4>1. i \in 1..Len(to_monitor) /\ to_monitor'[i] = to_monitor[i]
        BY <1>0, <3>1, <3>4
      <4>2. CASE j \in 1..Len(to_monitor)
        BY <3>1, <3>4, <4>1, <4>2 DEF OrderInv
      <4>3. CASE j = Len(to_monitor) + 1
        BY <2>1, <3>1, <4>1, <4>3 DEF SessionInv
      <4>4. QED
        BY <3>2, <4>2, <4>3
    <3>5. QED
      BY <2>2, <3>3, <3>4 DEF OrderInv
  <2>5. QED
    BY <1>2, <2>3, <2>4 DEF Write
<1>3. CASE HandleLine
  <2>1. /\ \A i \in 1..Len(to_monitor') :
             i + 1 \in 1..Len(to_monitor) /\ to_monitor'[i] = to_monitor[i + 1]
        /\ Len(to_monitor) \in Nat \ {0} /\ Len(to_monitor') \in Nat
        /\ UNCHANGED <<pc, line, session>>
    BY <1>0, <1>3, HandleLineTypes DEF HandleLine
  <2>2. \A i, j \in 1..Len(to_monitor') :
          i < j => to_monitor'[i].session <= to_monitor'[j].session
    <3>1. \A i, j \in 1..Len(to_monitor') : i < j => i + 1 < j + 1
      OBVIOUS
    <3>2. QED
      BY <2>1, <3>1 DEF OrderInv
  <2>3. \A i \in 1..Len(to_monitor') : to_monitor[1].session <= to_monitor'[i].session
    <3>1. \A i \in 1..Len(to_monitor') : 1 < i + 1 /\ 1 \in 1..Len(to_monitor)
      BY <2>1
    <3>2. QED
      BY <2>1, <3>1 DEF OrderInv
  <2>4. \A n \in 1..Len(found) : \A i \in 1..Len(to_monitor') :
          found[n] <= to_monitor'[i].session
    BY <2>1 DEF OrderInv
  <2>5. CASE found' = found
    BY <2>1, <2>2, <2>4, <2>5 DEF OrderInv
  <2>6. CASE found' = Append(found, to_monitor[1].session)
    <3>1. to_monitor[1].session \in Nat /\ 1 \in 1..Len(to_monitor)
      BY <1>0, <2>1
    <3>2. /\ Len(found') = Len(found) + 1
          /\ \A n \in 1..Len(found) : found'[n] = found[n]
          /\ found'[Len(found) + 1] = to_monitor[1].session
      BY <2>6, <3>1, AppendProperties DEF TypeOK
    <3>3. \A n \in 1..Len(found') : n \in 1..Len(found) \/ n = Len(found) + 1
      BY <1>0, <3>2
    <3>4. \A n \in 1..Len(found') : \A i \in 1..Len(to_monitor') :
            found'[n] <= to_monitor'[i].session
      BY <2>3, <2>4, <3>2, <3>3
    <3>5. ASSUME NEW m \in 1..Len(found'), NEW n \in 1..Len(found'), m < n
          PROVE  found'[m] <= found'[n]
      <4>1. m \in 1..Len(found) /\ found'[m] = found[m]
        BY <1>0, <3>2, <3>5
      <4>2. CASE n \in 1..Len(found)
        BY <3>2, <3>5, <4>1, <4>2 DEF OrderInv
      <4>3. CASE n = Len(found) + 1
        BY <3>1, <3>2, <4>1, <4>3 DEF OrderInv
      <4>4. QED
        BY <3>3, <4>2, <4>3
    <3>6. QED
      BY <2>1, <2>2, <3>4, <3>5 DEF OrderInv
  <2>7. QED
    BY <1>3, <2>5, <2>6, HandleLineTypes
<1>4. CASE \/ Acknowledge \/ DrainRead \/ DrainEnd \/ Check \/ Stop \/ Waitpid
  BY <1>4, <1>a DEF Acknowledge, DrainRead, DrainEnd, Check, Stop, Waitpid
<1>5. CASE PrintLine \/ Finish \/ UNCHANGED vars
  BY <1>5 DEF PrintLine, Finish, vars, OrderInv
<1>6. QED
  BY <1>1, <1>2, <1>3, <1>4, <1>5, NextCases

\* Reading a line loses no violation but the one it returns, which becomes the
\* last one read.
LEMMA FgetsKeeps ==
  ASSUME TypeOK, HInv, KeptInv, Fgets, found' = found, printing' = printing,
         pc \notin {"stopping", "stopped"}
  PROVE  KeptInv'
<1>1. /\ QueueLen \in Nat \ {0} /\ QueueLen' = QueueLen - 1
      /\ Head(Buffered) = Queue(1)
      /\ \A i \in 1..QueueLen' : Queue(i)' = Queue(i + 1)
  BY FgetsTakesOldest, BridgeAssumption
<1>2. cause' = IF Queue(1) > 0 THEN Queue(1) ELSE cause
  BY <1>1 DEF Fgets
<1>3. cause' \in Nat /\ cause \in Nat /\ cause' >= cause /\ Len(found) \in Nat
  BY FgetsKeepsOrder, QueueTypes DEF HInv
<1>4. ASSUME NEW n \in 1..Len(found)
      PROVE  n <= cause' \/ n = printing \/ \E i \in 1..QueueLen' : Queue(i)' = n
  <2>1. CASE n <= cause \/ n = printing
    BY <1>3, <2>1
  <2>2. CASE \E i \in 1..QueueLen : Queue(i) = n
    <3>1. PICK i \in 1..QueueLen : Queue(i) = n
      BY <2>2
    <3>2. CASE i = 1
      BY <1>2, <1>3, <3>1, <3>2
    <3>3. CASE i # 1
      <4>1. i - 1 \in 1..QueueLen' /\ (i - 1) + 1 = i
        BY <1>1, <3>3
      <4>2. Queue(i - 1)' = n
        BY <1>1, <3>1, <4>1
      <4>3. QED
        BY <4>1, <4>2
    <3>4. QED
      BY <3>2, <3>3
  <2>3. QED
    BY <2>1, <2>2 DEF KeptInv
<1>5. QED
  BY <1>4 DEF KeptInv

\* A step keeps KeptInv.
LEMMA KeptStep ==
  ASSUME TypeOK, HInv, KeptInv, [Next]_vars
  PROVE  KeptInv'
<1>a. ASSUME UNCHANGED <<file_buf, from_monitor, found, cause, printing>>,
             pc \notin {"stopping", "stopped"}
      PROVE  KeptInv'
  BY <1>a DEF KeptInv, QueueLen, Queue
<1>b. ASSUME pc' \in {"stopping", "stopped"} PROVE KeptInv'
  BY <1>b DEF KeptInv
<1>1. ASSUME NEW k \in Event \cup Command, Send(k) PROVE KeptInv'
  BY <1>1, <1>a DEF Send
<1>2. CASE Acknowledge
  BY <1>2, <1>a, FgetsKeeps DEF Acknowledge
<1>3. CASE DrainRead
  BY <1>3, FgetsKeeps DEF DrainRead
<1>4. CASE Write \/ DrainEnd \/ Check
  BY <1>4, <1>a DEF Write, DrainEnd, Check
<1>5. CASE Stop \/ Waitpid \/ Finish
  BY <1>5, <1>b DEF Stop, Waitpid, Finish
<1>6. CASE HandleLine
  <2>1. /\ UNCHANGED <<pc, file_buf, from_monitor, cause>> /\ printing = Nothing
    BY <1>6 DEF HandleLine
  <2>2. QueueLen' = QueueLen /\ \A i \in 1..QueueLen : Queue(i)' = Queue(i)
    BY <2>1 DEF QueueLen, Queue
  <2>3. Len(found) \in Nat /\ Len(found') \in Nat
    BY <1>6, HandleLineTypes, LenProperties DEF TypeOK
  <2>4. ASSUME pc \notin {"stopping", "stopped"}, NEW n \in 1..Len(found)
        PROVE  n <= cause' \/ \E i \in 1..QueueLen' : Queue(i)' = n
    <3>1. n # printing
      BY <2>1, <2>3
    <3>2. QED
      BY <2>1, <2>2, <2>4, <3>1 DEF KeptInv
  <2>5. \A n \in 1..Len(found') : n \in 1..Len(found) \/ n = printing'
    <3>1. CASE found' = found
      BY <3>1
    <3>2. CASE /\ found' = Append(found, to_monitor[1].session)
               /\ printing' = Len(found) + 1
      <4>1. Len(found') = Len(found) + 1
        BY <1>6, <3>2, HandleLineTypes, AppendProperties DEF TypeOK, InLine
      <4>2. QED
        BY <2>3, <3>2, <4>1
    <3>3. QED
      BY <1>6, <3>1, <3>2, HandleLineTypes
  <2>6. QED
    BY <2>1, <2>4, <2>5 DEF KeptInv
<1>7. CASE PrintLine
  <2>1. UNCHANGED <<pc, found, cause>>
    BY <1>7 DEF PrintLine
  <2>2. /\ QueueLen \in Nat /\ QueueLen' = QueueLen + 1
        /\ \A i \in 1..QueueLen : Queue(i)' = Queue(i)
        /\ \A i \in Nat : i = QueueLen + 1 => Queue(i)' = printing
    BY <1>7, PrintAppends, QueueTypes
  <2>3. \E i \in 1..QueueLen' : Queue(i)' = printing
    BY <2>2
  <2>4. ASSUME NEW n, \E i \in 1..QueueLen : Queue(i) = n
        PROVE  \E i \in 1..QueueLen' : Queue(i)' = n
    <3>1. PICK i \in 1..QueueLen : Queue(i) = n
      BY <2>4
    <3>2. i \in 1..QueueLen' /\ Queue(i)' = n
      BY <2>2, <3>1
    <3>3. QED
      BY <3>2
  <2>5. QED
    BY <2>1, <2>3, <2>4 DEF KeptInv
<1>8. CASE UNCHANGED vars
  BY <1>8 DEF vars, KeptInv, QueueLen, Queue
<1>9. QED
  BY <1>1, <1>2, <1>3, <1>4, <1>5, <1>6, <1>7, <1>8, NextCases

\* A step keeps DrainInv.
LEMMA DrainStep ==
  ASSUME TypeOK, DrainInv, [Next]_vars
  PROVE  DrainInv'
<1>1. ASSUME NEW k \in Event \cup Command, Send(k) PROVE DrainInv'
  BY <1>1 DEF Send, DrainInv
<1>2. CASE Write
  <2>1. pc' \in {"idle", "ack", "first_select"}
    BY <1>2 DEF Write, TypeOK, InLine, Command
  <2>2. QED
    BY <1>2, <2>1 DEF Write, DrainInv
<1>3. CASE Acknowledge
  BY <1>3 DEF Acknowledge, DrainInv
<1>4. CASE DrainRead
  <2>1. Head(Buffered) \in Int
    BY <1>4, FgetsTakesOldest, BridgeAssumption DEF DrainRead
  <2>2. Head(Buffered) > 0 \/ Head(Buffered) <= 0
    BY <2>1
  <2>3. violation_detected' \/ sawOther'
    BY <1>4, <2>2, Zenon DEF DrainRead
  <2>4. pc' = "drain" /\ UNCHANGED <<mon, printing>>
    BY <1>4 DEF DrainRead
  <2>5. QED
    BY <2>3, <2>4 DEF DrainInv
<1>5. CASE DrainEnd
  <2>1. /\ pc' = "check"
        /\ UNCHANGED <<violation_detected, sawOther, from_monitor, to_monitor,
                       mon, printing>>
    BY <1>5 DEF DrainEnd
  <2>2. CASE pc = "drain"
    BY <2>1, <2>2 DEF DrainInv
  <2>3. CASE Eof
    <3>1. from_monitor = << >> /\ mon # "running"
      BY <2>3, BufferedUnread, BridgeAssumption DEF Eof, Readable
    <3>2. QED
      BY <2>1, <3>1 DEF DrainInv
  <2>4. CASE pc = "first_select" /\ TimesOut /\ Quiet
    BY <2>1, <2>4 DEF DrainInv, TimesOut, Readable, Quiet
  <2>5. CASE pc = "first_select" /\ TimesOut /\ ~Quiet
    <3>1. late'
      BY <1>5, <2>5, Zenon DEF DrainEnd
    <3>2. QED
      BY <2>1, <3>1 DEF DrainInv
  <2>6. QED
    BY <1>5, <2>2, <2>3, <2>4, <2>5 DEF DrainEnd
<1>6. CASE Check \/ Stop \/ Waitpid
  BY <1>6 DEF Check, Stop, Waitpid, DrainInv
<1>7. CASE HandleLine
  <2>1. /\ mon = "running" /\ to_monitor # << >>
        /\ UNCHANGED <<pc, violation_detected, sawOther, late, from_monitor>>
        /\ mon' # "running" => printing' = Nothing
    BY <1>7 DEF HandleLine
  <2>2. QED
    BY <2>1 DEF DrainInv
<1>8. CASE PrintLine
  BY <1>8 DEF PrintLine, DrainInv
<1>9. CASE Finish
  BY <1>9 DEF Finish, Quiet, DrainInv
<1>10. CASE UNCHANGED vars
  BY <1>10 DEF vars, DrainInv
<1>11. QED
  BY <1>1, <1>2, <1>3, <1>4, <1>5, <1>6, <1>7, <1>8, <1>9, <1>10, NextCases

\* monitor_end_session leaves the flag set for every session with a violation,
\* but for the four exceptions ViolatingSessionIsFlagged names, whatever the delay
\* of the evaluator and the sizes of the pipes and of the stdio buffer.
THEOREM ViolatingFlagged == Spec => []ViolatingSessionIsFlagged
<1>1. Init => KeptInv /\ OrderInv /\ DrainInv
  <2> SUFFICES ASSUME Init PROVE KeptInv /\ OrderInv /\ DrainInv
    OBVIOUS
  <2>1. Len(to_monitor) = 0 /\ Len(found) = 0 /\ pc = "idle"
    BY EmptySeq DEF Init
  <2>2. mon # "running" => printing = Nothing
    BY DEF Init
  <2>3. QED
    BY <2>1, <2>2 DEF KeptInv, OrderInv, DrainInv
<1>2. TypeOK /\ HInv /\ KeptInv /\ OrderInv /\ DrainInv /\ [Next]_vars
        => (KeptInv /\ OrderInv /\ DrainInv)'
  BY KeptStep, OrderStep, DrainStep DEF HInv
<1>3. TypeOK /\ HInv /\ KeptInv /\ OrderInv /\ DrainInv => ViolatingSessionIsFlagged
  <2> SUFFICES ASSUME TypeOK, HInv, KeptInv, OrderInv, DrainInv, pc = "check",
                      NEW n \in 1..Len(found), found[n] = session,
                      ~violation_detected, ~sawOther, ~late
               PROVE  (cause > 0 /\ found[cause] = session) \/ LeftInBuffer
    BY DEF ViolatingSessionIsFlagged
  <2>1. from_monitor = << >> /\ printing = Nothing
    BY DEF DrainInv
  <2>2. /\ Len(found) \in Nat /\ cause \in Nat /\ cause <= Len(found)
        /\ session \in Nat /\ \A m \in 1..Len(found) : found[m] \in Nat
    BY QueueTypes DEF HInv, QueueInv
  <2>3. CASE n <= cause
    <3>1. cause \in 1..Len(found) /\ cause > 0
      BY <2>2, <2>3
    <3>2. found[n] <= found[cause]
      <4>1. n = cause \/ n < cause
        BY <2>2, <2>3
      <4>2. QED
        BY <2>2, <3>1, <4>1 DEF OrderInv
    <3>3. found[cause] <= session
      BY <3>1 DEF HInv, SessionInv
    <3>4. QED
      BY <2>2, <3>1, <3>2, <3>3
  <2>4. CASE ~(n <= cause)
    <3>1. n # printing
      BY <2>1
    <3>2. PICK i \in 1..QueueLen : Queue(i) = n
      BY <2>4, <3>1 DEF KeptInv
    <3>3. QueueLen = Len(file_buf)
      BY <2>1, QueueTypes, EmptySeq DEF QueueLen
    <3>4. i \in 1..Len(file_buf) /\ file_buf[i] = n
      BY <3>2, <3>3, QueueTypes DEF Queue
    <3>5. QED
      BY <3>4 DEF LeftInBuffer
  <2>5. QED
    BY <2>3, <2>4
<1>4. QED
  BY <1>1, <1>2, <1>3, TypeCorrect, HitsKept, PTL DEF Spec
=============================================================================
