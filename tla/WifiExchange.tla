---------------------------- MODULE WifiExchange ----------------------------
(***************************************************************************)
(* The exchange between the Wi-Fi packet generator (WiFiPacketGen-saerm,     *)
(* grammarFuzzing.ml) and the Wi-Fi driver (wifi-driver-saerm, fuzzer.cpp):  *)
(* two processes that poll three files.  The generator writes a trace into   *)
(* message.txt and waits for the state the driver infers, in                 *)
(* oracle-response.txt, and then for the outcome, in response.txt.           *)
(*                                                                           *)
(* A trace is the number of the call that wrote it and what its last packet, *)
(* the fuzzed one, is; the valid packets before it are left out.  Every file *)
(* operation is a step.  A text goes into a file in one write.  The          *)
(* generator may be killed and started again at any point; the driver not.   *)
(***************************************************************************)
EXTENDS Integers, FiniteSets

CONSTANTS
  MaxCalls,      \* bound: traces sent
  MaxRestarts    \* bound: times the generator is started again

ASSUME WifiAssumption == MaxCalls \in Nat /\ MaxRestarts \in Nat

VARIABLES
  gen,        \* where the generator is
  calls,      \* traces sent so far
  answer,     \* what the last finished call took: the traces its two answers are of
  drv,        \* where the driver is
  trace,      \* the tokens of the trace being run
  buffered,   \* a text in the buffer of fout, not yet in the file
  erased,     \* history: the calls whose trace the driver has cleared unread
  message, oracle, response,     \* the three files
  restarts

generator == <<gen, calls, answer>>
driver    == <<drv, trace, buffered, erased>>
files     == <<message, oracle, response>>
vars      == <<gen, calls, answer, drv, trace, buffered, erased, message, oracle, response, restarts>>

Empty == [call |-> 0, text |-> "empty"]

\* The fuzzed packet as the driver parses it: a commit, a confirm or something
\* else; whether its group is supported, its fields (scalar and element, or send
\* confirm and confirm) are placeholders the driver fills in, and its containers
\* are valid; its status code.
Frame ==
  {f \in [kind : {"commit", "confirm", "other"}, group : BOOLEAN, fields : BOOLEAN,
          containers : BOOLEAN, status : {0, 1, 126}] :
     /\ f.kind # "commit" => ~f.group
     /\ f.kind = "other" => ~f.fields
     /\ ~(f.group /\ f.fields) => f.containers /\ f.status = 0}

\* The answer of the access point; good: it is alive, the confirm it sent is
\* right, or the keys are set, whichever the driver asks.
Reply == [type : {"commit", "confirm", "assoc", "timeout", "other"}, status : {0, 1, 77, 126},
          good : BOOLEAN]

Outcome == {"EXPECTED_OUTPUT", "UNEXPECTED_OUTPUT", "TIMEOUT", "CRASH"}

TypeOK ==
  /\ gen \in {"clearOracle", "clearMessage", "clearResponse", "send",
              "readOracle", "dropOracle", "readResponse", "dropResponse"}
  /\ calls \in 0..MaxCalls
  /\ answer \in [call : 0..MaxCalls, oracle : 0..MaxCalls, response : 0..MaxCalls]
  /\ drv \in {"poll", "openResponse", "openOracle", "read", "clear", "infer", "answer", "close"}
  /\ trace \in {Empty} \cup [call : 1..MaxCalls, text : Frame]
  /\ buffered \in {Empty} \cup [call : 1..MaxCalls, text : Outcome]
  /\ message \in {Empty} \cup [call : 1..MaxCalls, text : Frame]
  /\ oracle \in {Empty} \cup [call : 1..MaxCalls,
                              text : {"NOTHING", "CONFIRMED", "ACCEPTED", "IGNORE"}]
  /\ response \in {Empty} \cup [call : 1..MaxCalls, text : Outcome]
  /\ restarts \in 0..MaxRestarts
  /\ erased \in SUBSET (1..MaxCalls)

Init ==
  /\ gen = "clearOracle"
  /\ calls = 0
  /\ answer = [call |-> 0, oracle |-> 0, response |-> 0]
  /\ drv = "poll"
  /\ trace = Empty
  /\ buffered = Empty
  /\ message = Empty
  /\ oracle = Empty
  /\ response = Empty
  /\ restarts = 0
  /\ erased = {}

-----------------------------------------------------------------------------
(* The generator *)

\* initialize_clear_file of the three files, in this order.
ClearOracleFile ==
  /\ gen = "clearOracle"
  /\ gen' = "clearMessage"
  /\ oracle' = Empty
  /\ UNCHANGED <<calls, answer, driver, message, response, restarts>>

ClearMessageFile ==
  /\ gen = "clearMessage"
  /\ gen' = "clearResponse"
  /\ message' = Empty
  /\ UNCHANGED <<calls, answer, driver, oracle, response, restarts>>

ClearResponseFile ==
  /\ gen = "clearResponse"
  /\ gen' = "send"
  /\ response' = Empty
  /\ UNCHANGED <<calls, answer, driver, message, oracle, restarts>>

\* callDriver_new, write_symbol_to_file: waits until the file is empty.
WriteTrace ==
  /\ gen = "send" /\ calls < MaxCalls
  /\ message = Empty
  /\ calls' = calls + 1
  /\ \E f \in Frame : message' = [call |-> calls', text |-> f]
  /\ gen' = "readOracle"
  /\ UNCHANGED <<answer, driver, oracle, response, restarts>>

\* Changed form of ReadOracle: the file is not cleared after reading.
ReadOracleAndKeep ==
  /\ gen = "readOracle"
  /\ oracle # Empty
  /\ answer' = [call |-> calls, oracle |-> oracle.call, response |-> 0]
  /\ gen' = "readResponse"
  /\ UNCHANGED <<calls, driver, files, restarts>>

\* wait_for_oracle_response: the read, and
ReadOracle ==
  /\ gen = "readOracle"
  /\ oracle # Empty
  /\ answer' = [call |-> calls, oracle |-> oracle.call, response |-> 0]
  /\ gen' = "dropOracle"
  /\ UNCHANGED <<calls, driver, files, restarts>>

\* a moment later, clear_file.
DropOracle ==
  /\ gen = "dropOracle"
  /\ gen' = "readResponse"
  /\ oracle' = Empty
  /\ UNCHANGED <<calls, answer, driver, message, response, restarts>>

\* wait_for_python_response: the read, and
ReadResponse ==
  /\ gen = "readResponse"
  /\ response # Empty
  /\ answer' = [answer EXCEPT !.response = response.call]
  /\ gen' = "dropResponse"
  /\ UNCHANGED <<calls, driver, files, restarts>>

\* a moment later, clear_file.
DropResponse ==
  /\ gen = "dropResponse"
  /\ gen' = "send"
  /\ response' = Empty
  /\ UNCHANGED <<calls, answer, driver, message, oracle, restarts>>

\* Killed and started again.
Restart ==
  /\ restarts < MaxRestarts
  /\ restarts' = restarts + 1
  /\ gen' = "clearOracle"
  /\ UNCHANGED <<calls, answer, driver, files>>

-----------------------------------------------------------------------------
(* The driver: run_fuzzer *)

FileNotEmpty ==
  /\ drv = "poll" /\ message # Empty
  /\ drv' = "openResponse"
  /\ UNCHANGED <<trace, buffered, generator, files, restarts, erased>>

\* fopen(output_file, "w").
OpenResponse ==
  /\ drv = "openResponse"
  /\ drv' = "openOracle"
  /\ response' = Empty
  /\ UNCHANGED <<trace, buffered, generator, message, oracle, restarts, erased>>

\* fopen(oracle_response_file, "w").
OpenOracle ==
  /\ drv = "openOracle"
  /\ drv' = "read"
  /\ oracle' = Empty
  /\ UNCHANGED <<trace, buffered, generator, message, response, restarts, erased>>

\* fgets and tokenizeALine; no token when the file is empty again.
ReadTrace ==
  /\ drv = "read"
  /\ drv' = "clear"
  /\ trace' = message
  /\ UNCHANGED <<buffered, generator, files, restarts, erased>>

ClearTrace ==
  /\ drv = "clear"
  /\ drv' = IF trace = Empty THEN "close" ELSE "infer"
  /\ message' = Empty
  /\ erased' = IF message \in {trace, Empty} THEN erased ELSE erased \cup {message.call}
  /\ UNCHANGED <<trace, buffered, generator, oracle, response, restarts>>

\* state_inference.  The test of the status code holds of every code, and so does
\* the test that the access point's scalar and element are there, which
\* AP_CTX_INITIALIZE has allocated.
Inferred(f) ==
  CASE f.kind = "commit" /\ ~f.group -> "NOTHING"
    [] f.kind = "commit" /\ f.group ->
         IF f.fields /\ (~f.containers \/ f.status # 0 \/ f.status # 126)
         THEN "CONFIRMED" ELSE "NOTHING"
    [] f.kind = "confirm" -> IF f.fields THEN "ACCEPTED" ELSE "IGNORE"
    [] f.kind = "other"   -> "IGNORE"

\* Changed form of OutcomeOf: the text for a valid last packet.
OutcomeOfSuccess(f, a) ==
  IF f.group /\ a.type = "commit" /\ a.status = 0 THEN "SUCCESSFUL_TRANSITION_SUCCESS"
                                                 ELSE "UNEXPECTED_OUTPUT"

\* The outcome of a trace whose last packet is f, answered by a.
OutcomeOf(f, a) ==
  CASE a.type = "commit" ->
         LET accepted == a.status \in {0, 126}
             unfit == ~f.containers \/ f.status # 0 \/ f.status # 126
         IN  IF accepted /\ (f.group /\ f.fields => unfit)
             THEN "UNEXPECTED_OUTPUT" ELSE "EXPECTED_OUTPUT"
    [] a.type = "confirm" ->
         IF a.status = 0 THEN IF a.good THEN "EXPECTED_OUTPUT" ELSE "UNEXPECTED_OUTPUT"
         ELSE IF a.good /\ f.kind = "confirm" /\ f.fields THEN "UNEXPECTED_OUTPUT"
                                                         ELSE "EXPECTED_OUTPUT"
    [] a.type = "timeout" -> IF a.good THEN "TIMEOUT" ELSE "CRASH"
    [] a.type \in {"assoc", "other"} -> "UNEXPECTED_OUTPUT"

\* The one outcome that is not flushed.
Unflushed(f, a) == a.type = "commit" /\ ~f.group /\ a.status \notin {0, 77, 126}

\* runASingleTrace, the last packet: the inferred state,
StateInference ==
  /\ drv = "infer"
  /\ drv' = "answer"
  /\ oracle' = [call |-> trace.call, text |-> Inferred(trace.text)]
  /\ UNCHANGED <<trace, buffered, generator, message, response, restarts, erased>>

\* and the outcome, in the file or, when it is not flushed, in the buffer.
WriteOutcome ==
  /\ drv = "answer"
  /\ drv' = "close"
  /\ \E a \in Reply :
       LET out == [call |-> trace.call, text |-> OutcomeOf(trace.text, a)]
       IN  IF Unflushed(trace.text, a) THEN buffered' = out /\ UNCHANGED response
                                       ELSE response' = out /\ UNCHANGED buffered
  /\ UNCHANGED <<trace, generator, message, oracle, restarts, erased>>

\* Changed form of CloseFiles: the files stay open.
CloseNothing ==
  /\ drv = "close"
  /\ drv' = "poll"
  /\ trace' = Empty
  /\ UNCHANGED <<buffered, generator, message, oracle, response, restarts, erased>>

\* Changed form of CloseFiles: message.txt is cleared once more.
CloseFilesAndClear ==
  /\ drv = "close"
  /\ drv' = "poll"
  /\ trace' = Empty
  /\ buffered' = Empty
  /\ response' = IF buffered = Empty THEN response ELSE buffered
  /\ message' = Empty
  /\ erased' = IF message \in {trace, Empty} THEN erased ELSE erased \cup {message.call}
  /\ UNCHANGED <<generator, oracle, restarts>>

\* fclose writes what is buffered; the evaluator is reset.
CloseFiles ==
  /\ drv = "close"
  /\ drv' = "poll"
  /\ trace' = Empty
  /\ buffered' = Empty
  /\ response' = IF buffered = Empty THEN response ELSE buffered
  /\ UNCHANGED <<generator, message, oracle, restarts, erased>>

-----------------------------------------------------------------------------
Generator ==
  \/ ClearOracleFile \/ ClearMessageFile \/ ClearResponseFile
  \/ WriteTrace \/ ReadOracle \/ DropOracle \/ ReadResponse \/ DropResponse

Driver ==
  \/ FileNotEmpty \/ OpenResponse \/ OpenOracle \/ ReadTrace \/ ClearTrace
  \/ StateInference \/ WriteOutcome \/ CloseFiles

Next == Generator \/ Driver \/ Restart

\* Both processes poll until there is something to do.
Spec == Init /\ [][Next]_vars /\ WF_vars(Generator) /\ WF_vars(Driver)

-----------------------------------------------------------------------------
(* Properties *)

\* Both answers a call returns are of the trace it sent.  A generator started
\* again while the driver still runs a trace of its predecessor takes that
\* trace's answers for its own, but the error does not grow: an answer is at most
\* one call old for every restart, and no answer is ever of a later call.
AnswerIsOfThisTrace ==
  gen \in {"dropResponse", "send"} /\ answer.response # 0 =>
    /\ answer.call - answer.oracle \in 0..restarts
    /\ answer.call - answer.response \in 0..restarts

\* The driver reads message.txt and clears it in two steps.  What it clears is
\* what it has read, except that each start of the generator, which clears the
\* file too, can cost one trace: the one written between the two steps.
ErasedOnlyByRestarts == Cardinality(erased) <= restarts

\* Neither process waits for the other for ever: a generator that has sent a
\* trace, or is starting again, comes to the point of sending the next one,
\* whatever the driver has buffered and however often the generator was started
\* again.  The one way to wait for ever is to wait for the answer to a trace that
\* was cleared unread.
CallReturns ==
  (gen # "send") ~> (gen = "send" \/ calls \in erased)
=============================================================================
