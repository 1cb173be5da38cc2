----------------------------- MODULE WifiProofs -----------------------------
(***************************************************************************)
(* Theorems about WifiExchange, for any number of calls and of restarts of  *)
(* the generator: an answer that a call takes is at most one call old for   *)
(* every restart, and as many traces are cleared unread as there are         *)
(* restarts, at most.                                                        *)
(***************************************************************************)
EXTENDS WifiExchange, FiniteSetTheorems, TLAPS

\* The driver opens both files for writing, and so empties them, before it reads
\* the trace whose answers go into them.
Opened ==
  /\ drv \in {"openOracle", "read", "clear", "infer", "answer"} => response.call = 0
  /\ drv \in {"read", "clear", "infer"} => oracle.call = 0
  /\ buffered.call # 0 => drv = "close" /\ response.call = 0
  /\ drv \in {"infer", "answer"} => trace.call # 0

\* The trace that waits in the file is newer than the one that was inferred last.
Newer ==
  /\ message.call # 0 /\ oracle.call # 0 => message.call > oracle.call
  /\ message.call # 0 /\ drv = "infer" => message.call > trace.call

\* What an answer of x is when the next one is taken: as old as there were
\* restarts when the call waits for it, one call younger when a call is still to
\* be made before.
Fits(x, waits) ==
  x.call # 0 => calls - x.call \in 0..(IF waits THEN restarts ELSE restarts - 1)

Ages ==
  /\ Fits(message, gen = "readOracle")
  /\ drv \in {"clear", "infer"} => Fits(trace, gen = "readOracle")
  /\ Fits(oracle, gen \in {"readOracle", "dropOracle"})
  /\ drv = "answer" => Fits(trace, gen \in {"readOracle", "dropOracle", "readResponse"})
  /\ Fits(buffered, gen \in {"readOracle", "dropOracle", "readResponse"})
  /\ Fits(response, gen \in {"readOracle", "dropOracle", "readResponse", "dropResponse"})

Taken ==
  /\ gen \in {"dropOracle", "readResponse"} => answer.call = calls
  /\ answer.call - answer.oracle \in 0..restarts
  /\ answer.response # 0 => answer.call - answer.response \in 0..restarts

\* Before the first call the driver has nothing to do.
Idle == calls = 0 => message.call = 0 /\ drv = "poll"

\* The driver is between its look at message.txt and its clearing of it, and the
\* file is not what it saw: what is written now may be cleared unread.
Loose ==
  \/ drv \in {"openResponse", "openOracle", "read"} /\ message.call = 0
  \/ drv = "clear" /\ (trace # message \/ trace.call = 0)

\* Every clearing of an unread trace is paid for by a start of the generator, and
\* a start that has not cleared message.txt yet has paid for none.
Paid ==
  /\ Cardinality(erased) + (IF Loose THEN 1 ELSE 0) <= restarts
  /\ gen \in {"clearOracle", "clearMessage"} /\ calls # 0 =>
       Cardinality(erased) + (IF Loose THEN 1 ELSE 0) + 1 <= restarts

IInv == TypeOK /\ Opened /\ Newer /\ Ages /\ Taken /\ Idle /\ Paid

-----------------------------------------------------------------------------
\* state_inference yields one of four states.
LEMMA InferredState ==
  ASSUME NEW f \in Frame
  PROVE  Inferred(f) \in {"NOTHING", "CONFIRMED", "ACCEPTED", "IGNORE"}
<1>1. f.kind \in {"commit", "confirm", "other"} /\ f.group \in BOOLEAN
  BY DEF Frame
<1>2. QED
  BY <1>1 DEF Inferred

\* What the driver writes for a trace is an outcome.
LEMMA OutcomeText ==
  ASSUME NEW f \in Frame, NEW a \in Reply
  PROVE  OutcomeOf(f, a) \in Outcome
<1>1. a.type \in {"commit", "confirm", "assoc", "timeout", "other"}
  BY DEF Reply
<1>2. QED
  BY <1>1 DEF OutcomeOf, Outcome

\* A text is there exactly when it is of some call.
LEMMA Numbers ==
  ASSUME TypeOK
  PROVE  /\ calls \in Nat /\ restarts \in Nat
         /\ trace.call \in Nat /\ (trace = Empty <=> trace.call = 0)
         /\ buffered.call \in Nat /\ (buffered = Empty <=> buffered.call = 0)
         /\ message.call \in Nat /\ (message = Empty <=> message.call = 0)
         /\ oracle.call \in Nat /\ (oracle = Empty <=> oracle.call = 0)
         /\ response.call \in Nat /\ (response = Empty <=> response.call = 0)
         /\ answer.call \in Nat /\ answer.oracle \in Nat /\ answer.response \in Nat
         /\ Empty.call = 0
<1> USE WifiAssumption
<1>1. Empty.call = 0
  BY DEF Empty
<1>2. calls \in Nat /\ restarts \in Nat
  BY DEF TypeOK
<1>3. trace.call \in Nat /\ (trace = Empty <=> trace.call = 0)
  BY <1>1 DEF TypeOK
<1>4. buffered.call \in Nat /\ (buffered = Empty <=> buffered.call = 0)
  BY <1>1 DEF TypeOK
<1>5. message.call \in Nat /\ (message = Empty <=> message.call = 0)
  BY <1>1 DEF TypeOK
<1>6. oracle.call \in Nat /\ (oracle = Empty <=> oracle.call = 0)
  BY <1>1 DEF TypeOK
<1>7. response.call \in Nat /\ (response = Empty <=> response.call = 0)
  BY <1>1 DEF TypeOK
<1>8. answer.call \in Nat /\ answer.oracle \in Nat /\ answer.response \in Nat
  BY DEF TypeOK
<1>9. QED
  BY <1>1, <1>2, <1>3, <1>4, <1>5, <1>6, <1>7, <1>8

\* erased is finite, and a call adds one to its number at most.
LEMMA Counted ==
  ASSUME TypeOK
  PROVE  /\ IsFiniteSet(erased) /\ Cardinality(erased) \in Nat
         /\ \A c : Cardinality(erased \cup {c}) \in Nat
                 /\ Cardinality(erased \cup {c}) <= Cardinality(erased) + 1
<1>1. IsFiniteSet(1..MaxCalls)
  BY WifiAssumption, FS_Interval
<1>2. IsFiniteSet(erased)
  BY <1>1, FS_Subset DEF TypeOK
<1>3. Cardinality(erased) \in Nat
  BY <1>2, FS_CardinalityType
<1>4. ASSUME NEW c
      PROVE  /\ Cardinality(erased \cup {c}) \in Nat
             /\ Cardinality(erased \cup {c}) <= Cardinality(erased) + 1
  <2>1. Cardinality(erased \cup {c}) = IF c \in erased THEN Cardinality(erased)
                                                      ELSE Cardinality(erased) + 1
    BY <1>2, FS_AddElement
  <2>2. QED
    BY <2>1, <1>3
<1>5. QED
  BY <1>2, <1>3, <1>4

\* A step keeps the types.
LEMMA TypesKept ==
  ASSUME TypeOK, Opened, [Next]_vars PROVE TypeOK'
<1> USE WifiAssumption DEF generator, driver, files
<1>1. CASE ClearOracleFile
  BY <1>1 DEF ClearOracleFile, TypeOK
<1>2. CASE ClearMessageFile
  BY <1>2 DEF ClearMessageFile, TypeOK
<1>3. CASE ClearResponseFile
  BY <1>3 DEF ClearResponseFile, TypeOK
<1>4. CASE WriteTrace
  BY <1>4 DEF WriteTrace, TypeOK
<1>5. CASE ReadOracle
  BY <1>5 DEF ReadOracle, TypeOK
<1>6. CASE DropOracle
  BY <1>6 DEF DropOracle, TypeOK
<1>7. CASE ReadResponse
  BY <1>7 DEF ReadResponse, TypeOK
<1>8. CASE DropResponse
  BY <1>8 DEF DropResponse, TypeOK
<1>9. CASE FileNotEmpty
  BY <1>9 DEF FileNotEmpty, TypeOK
<1>10. CASE OpenResponse
  BY <1>10 DEF OpenResponse, TypeOK
<1>11. CASE OpenOracle
  BY <1>11 DEF OpenOracle, TypeOK
<1>12. CASE ReadTrace
  BY <1>12 DEF ReadTrace, TypeOK
<1>13. CASE ClearTrace
  BY <1>13 DEF ClearTrace, TypeOK
<1>14. CASE StateInference
  <2>1. trace \in [call : 1..MaxCalls, text : Frame]
    BY <1>14, Numbers DEF StateInference, Opened, TypeOK
  <2>2. Inferred(trace.text) \in {"NOTHING", "CONFIRMED", "ACCEPTED", "IGNORE"}
    BY <2>1, InferredState
  <2>3. QED
    BY <1>14, <2>1, <2>2 DEF StateInference, TypeOK
<1>15. CASE WriteOutcome
  <2>1. trace \in [call : 1..MaxCalls, text : Frame]
    BY <1>15, Numbers DEF WriteOutcome, Opened, TypeOK
  <2>2. PICK a \in Reply :
          LET out == [call |-> trace.call, text |-> OutcomeOf(trace.text, a)]
          IN  IF Unflushed(trace.text, a) THEN buffered' = out /\ UNCHANGED response
                                          ELSE response' = out /\ UNCHANGED buffered
    BY <1>15 DEF WriteOutcome
  <2>3. OutcomeOf(trace.text, a) \in Outcome
    BY <2>1, OutcomeText
  <2>4. [call |-> trace.call, text |-> OutcomeOf(trace.text, a)] \in [call : 1..MaxCalls, text : Outcome]
    BY <2>1, <2>3
  <2>5. /\ buffered' \in {Empty} \cup [call : 1..MaxCalls, text : Outcome]
        /\ response' \in {Empty} \cup [call : 1..MaxCalls, text : Outcome]
    BY <2>2, <2>4 DEF TypeOK
  <2>6. QED
    BY <1>15, <2>5 DEF WriteOutcome, TypeOK
<1>16. CASE CloseFiles
  BY <1>16 DEF CloseFiles, TypeOK
<1>17. CASE Restart
  BY <1>17 DEF Restart, TypeOK
<1>18. CASE UNCHANGED vars
  BY <1>18 DEF vars, TypeOK
<1>19. QED
  BY <1>1, <1>2, <1>3, <1>4, <1>5, <1>6, <1>7, <1>8, <1>9, <1>10,
     <1>11, <1>12, <1>13, <1>14, <1>15, <1>16, <1>17, <1>18
     DEF Next, Generator, Driver

\* A step keeps Opened.
LEMMA OpenedKept ==
  ASSUME TypeOK, Opened, [Next]_vars PROVE Opened'
<1> USE Numbers DEF generator, driver, files
<1>1. CASE ClearOracleFile
  BY <1>1 DEF ClearOracleFile, Opened
<1>2. CASE ClearMessageFile
  BY <1>2 DEF ClearMessageFile, Opened
<1>3. CASE ClearResponseFile
  BY <1>3 DEF ClearResponseFile, Opened
<1>4. CASE WriteTrace
  BY <1>4 DEF WriteTrace, Opened
<1>5. CASE ReadOracle
  BY <1>5 DEF ReadOracle, Opened
<1>6. CASE DropOracle
  BY <1>6 DEF DropOracle, Opened
<1>7. CASE ReadResponse
  BY <1>7 DEF ReadResponse, Opened
<1>8. CASE DropResponse
  BY <1>8 DEF DropResponse, Opened
<1>9. CASE FileNotEmpty
  BY <1>9 DEF FileNotEmpty, Opened
<1>10. CASE OpenResponse
  BY <1>10 DEF OpenResponse, Opened
<1>11. CASE OpenOracle
  BY <1>11 DEF OpenOracle, Opened
<1>12. CASE ReadTrace
  BY <1>12 DEF ReadTrace, Opened
<1>13. CASE ClearTrace
  BY <1>13 DEF ClearTrace, Opened
<1>14. CASE StateInference
  BY <1>14 DEF StateInference, Opened
<1>15. CASE WriteOutcome
  BY <1>15 DEF WriteOutcome, Opened
<1>16. CASE CloseFiles
  BY <1>16 DEF CloseFiles, Opened
<1>17. CASE Restart
  BY <1>17 DEF Restart, Opened
<1>18. CASE UNCHANGED vars
  BY <1>18 DEF vars, Opened
<1>19. QED
  BY <1>1, <1>2, <1>3, <1>4, <1>5, <1>6, <1>7, <1>8, <1>9, <1>10,
     <1>11, <1>12, <1>13, <1>14, <1>15, <1>16, <1>17, <1>18
     DEF Next, Generator, Driver

\* A step keeps Newer.
LEMMA NewerKept ==
  ASSUME TypeOK, Opened, Newer, Ages, [Next]_vars PROVE Newer'
<1> USE Numbers DEF generator, driver, files
<1>1. CASE ClearOracleFile
  BY <1>1 DEF ClearOracleFile, Newer, Opened, Ages, Fits
<1>2. CASE ClearMessageFile
  BY <1>2 DEF ClearMessageFile, Newer, Opened, Ages, Fits
<1>3. CASE ClearResponseFile
  BY <1>3 DEF ClearResponseFile, Newer, Opened, Ages, Fits
<1>4. CASE WriteTrace
  BY <1>4 DEF WriteTrace, Newer, Opened, Ages, Fits
<1>5. CASE ReadOracle
  BY <1>5 DEF ReadOracle, Newer, Opened, Ages, Fits
<1>6. CASE DropOracle
  BY <1>6 DEF DropOracle, Newer, Opened, Ages, Fits
<1>7. CASE ReadResponse
  BY <1>7 DEF ReadResponse, Newer, Opened, Ages, Fits
<1>8. CASE DropResponse
  BY <1>8 DEF DropResponse, Newer, Opened, Ages, Fits
<1>9. CASE FileNotEmpty
  BY <1>9 DEF FileNotEmpty, Newer, Opened, Ages, Fits
<1>10. CASE OpenResponse
  BY <1>10 DEF OpenResponse, Newer, Opened, Ages, Fits
<1>11. CASE OpenOracle
  BY <1>11 DEF OpenOracle, Newer, Opened, Ages, Fits
<1>12. CASE ReadTrace
  BY <1>12 DEF ReadTrace, Newer, Opened, Ages, Fits
<1>13. CASE ClearTrace
  BY <1>13 DEF ClearTrace, Newer, Opened, Ages, Fits
<1>14. CASE StateInference
  BY <1>14 DEF StateInference, Newer, Opened, Ages, Fits
<1>15. CASE WriteOutcome
  BY <1>15 DEF WriteOutcome, Newer, Opened, Ages, Fits
<1>16. CASE CloseFiles
  BY <1>16 DEF CloseFiles, Newer, Opened, Ages, Fits
<1>17. CASE Restart
  BY <1>17 DEF Restart, Newer, Opened, Ages, Fits
<1>18. CASE UNCHANGED vars
  BY <1>18 DEF vars, Newer, Opened, Ages, Fits
<1>19. QED
  BY <1>1, <1>2, <1>3, <1>4, <1>5, <1>6, <1>7, <1>8, <1>9, <1>10,
     <1>11, <1>12, <1>13, <1>14, <1>15, <1>16, <1>17, <1>18
     DEF Next, Generator, Driver

\* A step keeps Ages.
LEMMA AgesKept ==
  ASSUME TypeOK, Opened, Newer, Ages, [Next]_vars PROVE Ages'
<1> USE Numbers DEF generator, driver, files
<1>1. CASE ClearOracleFile
  BY <1>1 DEF ClearOracleFile, Ages, Opened, Newer, Fits
<1>2. CASE ClearMessageFile
  BY <1>2 DEF ClearMessageFile, Ages, Opened, Newer, Fits
<1>3. CASE ClearResponseFile
  BY <1>3 DEF ClearResponseFile, Ages, Opened, Newer, Fits
<1>4. CASE WriteTrace
  <2>1. /\ gen = "send" /\ gen' = "readOracle" /\ calls' = calls + 1 /\ message'.call = calls + 1
        /\ UNCHANGED <<drv, trace, buffered, oracle, response, restarts>>
    BY <1>4 DEF WriteTrace
  <2>2. Fits(message, TRUE)'
    BY <2>1 DEF Fits
  <2>3. /\ (drv \in {"clear", "infer", "answer"} => Fits(trace, TRUE)')
        /\ Fits(oracle, TRUE)' /\ Fits(buffered, TRUE)' /\ Fits(response, TRUE)'
    BY <2>1 DEF Ages, Fits
  <2>4. QED
    BY <2>1, <2>2, <2>3 DEF Ages, Fits
<1>5. CASE ReadOracle
  BY <1>5 DEF ReadOracle, Ages, Opened, Newer, Fits
<1>6. CASE DropOracle
  BY <1>6 DEF DropOracle, Ages, Opened, Newer, Fits
<1>7. CASE ReadResponse
  BY <1>7 DEF ReadResponse, Ages, Opened, Newer, Fits
<1>8. CASE DropResponse
  BY <1>8 DEF DropResponse, Ages, Opened, Newer, Fits
<1>9. CASE FileNotEmpty
  BY <1>9 DEF FileNotEmpty, Ages, Opened, Newer, Fits
<1>10. CASE OpenResponse
  BY <1>10 DEF OpenResponse, Ages, Opened, Newer, Fits
<1>11. CASE OpenOracle
  BY <1>11 DEF OpenOracle, Ages, Opened, Newer, Fits
<1>12. CASE ReadTrace
  BY <1>12 DEF ReadTrace, Ages, Opened, Newer, Fits
<1>13. CASE ClearTrace
  BY <1>13 DEF ClearTrace, Ages, Opened, Newer, Fits
<1>14. CASE StateInference
  BY <1>14 DEF StateInference, Ages, Opened, Newer, Fits
<1>15. CASE WriteOutcome
  BY <1>15 DEF WriteOutcome, Ages, Opened, Newer, Fits
<1>16. CASE CloseFiles
  BY <1>16 DEF CloseFiles, Ages, Opened, Newer, Fits
<1>17. CASE Restart
  BY <1>17 DEF Restart, Ages, Opened, Newer, Fits
<1>18. CASE UNCHANGED vars
  BY <1>18 DEF vars, Ages, Opened, Newer, Fits
<1>19. QED
  BY <1>1, <1>2, <1>3, <1>4, <1>5, <1>6, <1>7, <1>8, <1>9, <1>10,
     <1>11, <1>12, <1>13, <1>14, <1>15, <1>16, <1>17, <1>18
     DEF Next, Generator, Driver

\* A step keeps Taken.
LEMMA TakenKept ==
  ASSUME TypeOK, Ages, Taken, [Next]_vars PROVE Taken'
<1> USE Numbers DEF generator, driver, files
<1>1. CASE ClearOracleFile
  BY <1>1 DEF ClearOracleFile, Ages, Taken, Fits
<1>2. CASE ClearMessageFile
  BY <1>2 DEF ClearMessageFile, Ages, Taken, Fits
<1>3. CASE ClearResponseFile
  BY <1>3 DEF ClearResponseFile, Ages, Taken, Fits
<1>4. CASE WriteTrace
  BY <1>4 DEF WriteTrace, Ages, Taken, Fits
<1>5. CASE ReadOracle
  BY <1>5 DEF ReadOracle, Ages, Taken, Fits
<1>6. CASE DropOracle
  BY <1>6 DEF DropOracle, Ages, Taken, Fits
<1>7. CASE ReadResponse
  BY <1>7 DEF ReadResponse, Ages, Taken, Fits
<1>8. CASE DropResponse
  BY <1>8 DEF DropResponse, Ages, Taken, Fits
<1>9. CASE FileNotEmpty
  BY <1>9 DEF FileNotEmpty, Ages, Taken, Fits
<1>10. CASE OpenResponse
  BY <1>10 DEF OpenResponse, Ages, Taken, Fits
<1>11. CASE OpenOracle
  BY <1>11 DEF OpenOracle, Ages, Taken, Fits
<1>12. CASE ReadTrace
  BY <1>12 DEF ReadTrace, Ages, Taken, Fits
<1>13. CASE ClearTrace
  BY <1>13 DEF ClearTrace, Ages, Taken, Fits
<1>14. CASE StateInference
  BY <1>14 DEF StateInference, Ages, Taken, Fits
<1>15. CASE WriteOutcome
  BY <1>15 DEF WriteOutcome, Ages, Taken, Fits
<1>16. CASE CloseFiles
  BY <1>16 DEF CloseFiles, Ages, Taken, Fits
<1>17. CASE Restart
  BY <1>17 DEF Restart, Ages, Taken, Fits
<1>18. CASE UNCHANGED vars
  BY <1>18 DEF vars, Ages, Taken, Fits
<1>19. QED
  BY <1>1, <1>2, <1>3, <1>4, <1>5, <1>6, <1>7, <1>8, <1>9, <1>10,
     <1>11, <1>12, <1>13, <1>14, <1>15, <1>16, <1>17, <1>18
     DEF Next, Generator, Driver

\* A step keeps Idle.
LEMMA IdleKept ==
  ASSUME TypeOK, Idle, [Next]_vars PROVE Idle'
<1> USE Numbers DEF generator, driver, files
<1>1. CASE ClearOracleFile
  BY <1>1 DEF ClearOracleFile, Idle
<1>2. CASE ClearMessageFile
  BY <1>2 DEF ClearMessageFile, Idle
<1>3. CASE ClearResponseFile
  BY <1>3 DEF ClearResponseFile, Idle
<1>4. CASE WriteTrace
  BY <1>4 DEF WriteTrace, Idle
<1>5. CASE ReadOracle
  BY <1>5 DEF ReadOracle, Idle
<1>6. CASE DropOracle
  BY <1>6 DEF DropOracle, Idle
<1>7. CASE ReadResponse
  BY <1>7 DEF ReadResponse, Idle
<1>8. CASE DropResponse
  BY <1>8 DEF DropResponse, Idle
<1>9. CASE FileNotEmpty
  BY <1>9 DEF FileNotEmpty, Idle
<1>10. CASE OpenResponse
  BY <1>10 DEF OpenResponse, Idle
<1>11. CASE OpenOracle
  BY <1>11 DEF OpenOracle, Idle
<1>12. CASE ReadTrace
  BY <1>12 DEF ReadTrace, Idle
<1>13. CASE ClearTrace
  BY <1>13 DEF ClearTrace, Idle
<1>14. CASE StateInference
  BY <1>14 DEF StateInference, Idle
<1>15. CASE WriteOutcome
  BY <1>15 DEF WriteOutcome, Idle
<1>16. CASE CloseFiles
  BY <1>16 DEF CloseFiles, Idle
<1>17. CASE Restart
  BY <1>17 DEF Restart, Idle
<1>18. CASE UNCHANGED vars
  BY <1>18 DEF vars, Idle
<1>19. QED
  BY <1>1, <1>2, <1>3, <1>4, <1>5, <1>6, <1>7, <1>8, <1>9, <1>10,
     <1>11, <1>12, <1>13, <1>14, <1>15, <1>16, <1>17, <1>18
     DEF Next, Generator, Driver

\* A step keeps Paid.
LEMMA PaidKept ==
  ASSUME TypeOK, Idle, Paid, [Next]_vars PROVE Paid'
<1> USE Numbers, Counted DEF generator, driver, files
<1>1. CASE ClearOracleFile
  BY <1>1 DEF ClearOracleFile, Idle, Paid, Loose
<1>2. CASE ClearMessageFile
  BY <1>2 DEF ClearMessageFile, Idle, Paid, Loose
<1>3. CASE ClearResponseFile
  BY <1>3 DEF ClearResponseFile, Idle, Paid, Loose
<1>4. CASE WriteTrace
  BY <1>4 DEF WriteTrace, Idle, Paid, Loose
<1>5. CASE ReadOracle
  BY <1>5 DEF ReadOracle, Idle, Paid, Loose
<1>6. CASE DropOracle
  BY <1>6 DEF DropOracle, Idle, Paid, Loose
<1>7. CASE ReadResponse
  BY <1>7 DEF ReadResponse, Idle, Paid, Loose
<1>8. CASE DropResponse
  BY <1>8 DEF DropResponse, Idle, Paid, Loose
<1>9. CASE FileNotEmpty
  BY <1>9 DEF FileNotEmpty, Idle, Paid, Loose
<1>10. CASE OpenResponse
  BY <1>10 DEF OpenResponse, Idle, Paid, Loose
<1>11. CASE OpenOracle
  BY <1>11 DEF OpenOracle, Idle, Paid, Loose
<1>12. CASE ReadTrace
  BY <1>12 DEF ReadTrace, Idle, Paid, Loose
<1>13. CASE ClearTrace
  <2>1. /\ drv = "clear" /\ drv' \in {"close", "infer"}
        /\ UNCHANGED <<gen, calls, restarts>>
    BY <1>13 DEF ClearTrace
  <2>2. ~Loose'
    BY <2>1 DEF Loose
  <2>3. CASE message \in {trace, Empty}
    <3>1. erased' = erased
      BY <1>13, <2>3 DEF ClearTrace
    <3>2. QED
      BY <2>1, <2>2, <3>1 DEF Paid
  <2>4. CASE message \notin {trace, Empty}
    <3>1. erased' = erased \cup {message.call}
      BY <1>13, <2>4 DEF ClearTrace
    <3>2. Loose
      BY <2>1, <2>4 DEF Loose
    <3>3. Cardinality(erased') \in Nat /\ Cardinality(erased') <= Cardinality(erased) + 1
      BY <3>1
    <3>4. QED
      BY <2>1, <2>2, <3>2, <3>3 DEF Paid
  <2>5. QED
    BY <2>3, <2>4
<1>14. CASE StateInference
  BY <1>14 DEF StateInference, Idle, Paid, Loose
<1>15. CASE WriteOutcome
  BY <1>15 DEF WriteOutcome, Idle, Paid, Loose
<1>16. CASE CloseFiles
  BY <1>16 DEF CloseFiles, Idle, Paid, Loose
<1>17. CASE Restart
  BY <1>17 DEF Restart, Idle, Paid, Loose
<1>18. CASE UNCHANGED vars
  BY <1>18 DEF vars, Idle, Paid, Loose
<1>19. QED
  BY <1>1, <1>2, <1>3, <1>4, <1>5, <1>6, <1>7, <1>8, <1>9, <1>10,
     <1>11, <1>12, <1>13, <1>14, <1>15, <1>16, <1>17, <1>18
     DEF Next, Generator, Driver

-----------------------------------------------------------------------------
\* At the start the files are empty and no call was made.
LEMMA InitIInv == Init => IInv
<1> SUFFICES ASSUME Init PROVE IInv
  OBVIOUS
<1>1. TypeOK
  BY WifiAssumption DEF Init, TypeOK
<1>2. Opened /\ Newer /\ Ages /\ Taken
  BY DEF Init, Empty, Opened, Newer, Ages, Taken, Fits
<1>3. Cardinality(erased) = 0
  BY FS_EmptySet DEF Init
<1>4. Idle /\ Paid
  BY <1>3 DEF Init, Empty, Idle, Paid, Loose
<1>5. QED
  BY <1>1, <1>2, <1>4 DEF IInv

\* The parts above are together an invariant of generator, driver and files.
THEOREM Invariance == Spec => []IInv
<1>1. IInv /\ [Next]_vars => IInv'
  BY TypesKept, OpenedKept, NewerKept, AgesKept, TakenKept, IdleKept, PaidKept DEF IInv
<1>2. QED
  BY InitIInv, <1>1, PTL DEF Spec

\* Each file holds nothing or a text of its kind, of some call that was made.
THEOREM TypeCorrect == Spec => []TypeOK
BY Invariance, PTL DEF IInv

\* What wait_for_oracle_response and wait_for_python_response return is at most
\* one call old for every time the generator was started again, and of the call
\* itself when it never was.
THEOREM AnswerOfTrace == Spec => []AnswerIsOfThisTrace
<1>1. IInv => AnswerIsOfThisTrace
  BY DEF IInv, Taken, AnswerIsOfThisTrace
<1>2. QED
  BY Invariance, <1>1, PTL

\* Each start of the generator costs at most one trace, cleared unread between the
\* driver's read of message.txt and its clearing of it; without restarts the two
\* steps are as good as one.
THEOREM ErasedByRestarts == Spec => []ErasedOnlyByRestarts
<1>1. IInv => ErasedOnlyByRestarts
  BY Numbers, Counted DEF IInv, Paid, ErasedOnlyByRestarts
<1>2. QED
  BY Invariance, <1>1, PTL
=============================================================================
