----------------------------- MODULE FtpAdapter -----------------------------
(***************************************************************************)
(* The FTP predicate adapter (ftp_predicate_adapter.c): what it remembers   *)
(* of a session between the packets it turns into predicate lines.          *)
(*                                                                         *)
(* A command packet is the value map_ftp_command gives it ("cmdNotSet" when *)
(* the bytes are no known command), a response packet its reply code (0     *)
(* when it has none).  The Boolean fields of g_ftp_state are the set of     *)
(* those that are true; the predicate line carries all of them.             *)
(***************************************************************************)
EXTENDS Integers, Sequences

CONSTANTS
  Command,      \* values of map_ftp_command explored
  Code,         \* reply codes explored
  Position,     \* arguments of REST explored
  MaxMessages   \* bound: packets since the last reset

VARIABLES
  flags,            \* the Boolean fields of g_ftp_state that are true
  last_command,
  sequence_number,
  rest_position,
  line,             \* the predicates of the last line that are not flags
  messages          \* (history) the packets since the last reset

state == <<flags, last_command, sequence_number, rest_position>>
vars  == <<state, line, messages>>

NoLine == [ftp_command |-> "cmdNotSet", resp_code |-> 0, timeout |-> FALSE,
           auth_state |-> "authNone", data_state |-> "dataNotSet"]

-----------------------------------------------------------------------------
\* What a command sets and clears.
Raised(cmd) ==
  CASE cmd = "cmdUSER" -> {"user_sent"}
    [] cmd = "cmdPASS" -> {"pass_sent"}
    [] cmd = "cmdPORT" -> {"port_sent"}
    [] cmd = "cmdPASV" -> {"pasv_sent"}
    [] cmd = "cmdRETR" -> {"retr_sent"}
    [] cmd = "cmdSTOR" -> {"stor_sent"}
    [] cmd = "cmdRNFR" -> {"rnfr_sent"}
    [] cmd = "cmdRNTO" -> {"rnto_sent"}
    [] cmd = "cmdABOR" -> {"transfer_aborted"}
    [] cmd = "cmdQUIT" -> {"quit_sent"}
    [] cmd = "cmdREIN" -> {"reinit_sent"}
    [] OTHER           -> {}

\* Changed form of Lowered: an aborted transfer stays in progress.
LoweredNotByABOR(cmd) ==
  CASE cmd = "cmdPORT" -> {"pasv_sent"}
    [] cmd = "cmdPASV" -> {"port_sent"}
    [] OTHER           -> {}

Lowered(cmd) ==
  CASE cmd = "cmdPORT" -> {"pasv_sent"}
    [] cmd = "cmdPASV" -> {"port_sent"}
    [] cmd = "cmdABOR" -> {"transfer_in_progress"}
    [] OTHER           -> {}

get_auth_state(f) ==
  IF "user_logged_in" \in f    THEN "authComplete"
  ELSE IF "login_failed" \in f THEN "authFailed"
  ELSE IF "pass_sent" \in f    THEN "authPasswordSent"
  ELSE IF "user_sent" \in f    THEN "authUserSent" ELSE "authNone"

get_data_state(f) ==
  IF "data_connection_open" \in f THEN "dataActive"
  ELSE IF "port_sent" \in f       THEN "dataPORT"
  ELSE IF "pasv_sent" \in f       THEN "dataPASV" ELSE "dataNotSet"

\* The command a reply code stands for, and the flag that is the evidence that
\* the command was sent.
Inferable ==
  {[code |-> 220, cmd |-> "cmdREIN", evidence |-> "reinit_sent"],
   [code |-> 331, cmd |-> "cmdUSER", evidence |-> "user_sent"],
   [code |-> 230, cmd |-> "cmdPASS", evidence |-> "pass_sent"],
   [code |-> 227, cmd |-> "cmdPASV", evidence |-> "pasv_sent"],
   [code |-> 350, cmd |-> "cmdRNFR", evidence |-> "rnfr_sent"],
   [code |-> 221, cmd |-> "cmdQUIT", evidence |-> "quit_sent"]}
Unguarded ==
  {[code |-> 257, cmd |-> "cmdPWD"], [code |-> 215, cmd |-> "cmdSYST"],
   [code |-> 211, cmd |-> "cmdFEAT"]}

\* Changed form of Inferred: from the reply code alone.
InferredFromCode(code) ==
  {i.cmd : i \in {j \in Inferable \cup Unguarded : j.code = code}}

Inferred(code) ==
  {i.cmd : i \in {j \in Inferable : /\ j.code = code
                                    /\ j.evidence \in flags
                                    /\ code \in {220, 230} => sequence_number # 0}}
  \cup {i.cmd : i \in {j \in Unguarded : j.code = code}}

\* infer_command_from_response: the value of last_command after it.
InferCommand(code) ==
  IF last_command = "cmdNotSet" /\ Inferred(code) # {}
  THEN CHOOSE cmd \in Inferred(code) : TRUE
  ELSE last_command

\* The flags after a response, when the last command is cmd.  The reset of an
\* accepted REIN is a case of its own.
AfterResponse(code, cmd) ==
  CASE code = 220 /\ sequence_number = 0 -> flags \cup {"session_initialized"}
    [] code = 230 -> flags \cup {"user_logged_in", "login_successful"}
    [] code = 530 -> (flags \cup {"login_failed"}) \ {"user_logged_in"}
    [] code = 200 /\ cmd = "cmdPORT" -> flags \cup {"port_accepted"}
    [] code = 227 -> flags \cup {"pasv_response_received"}
    [] code = 150 -> flags \cup {"transfer_started", "transfer_in_progress",
                                 "data_connection_open"}
    [] code = 226 -> (flags \cup {"transfer_complete"})
                       \ {"transfer_in_progress", "data_connection_open"}
    [] code = 350 /\ cmd = "cmdRNFR" -> flags \cup {"rnfr_accepted"}
    [] code = 221 -> flags \cup {"connection_closed"}
    [] OTHER -> flags

Reinitialised(code, cmd) == code = 220 /\ sequence_number # 0 /\ cmd = "cmdREIN"

-----------------------------------------------------------------------------
Init ==
  /\ flags = {}
  /\ last_command = "cmdNotSet"
  /\ sequence_number = 0
  /\ rest_position = 0
  /\ line = NoLine
  /\ messages = << >>

\* ftp_predicate_reset_session, called by fuzz_one and after a violation.
ResetSession ==
  /\ flags' = {}
  /\ last_command' = "cmdNotSet"
  /\ sequence_number' = 0
  /\ rest_position' = 0
  /\ messages' = << >>
  /\ UNCHANGED line

\* ftp_build_command_pred_line.
BuildCommand(cmd, position) ==
  /\ Len(messages) < MaxMessages
  /\ last_command' = cmd
  /\ flags' = (flags \cup Raised(cmd)) \ Lowered(cmd)
  /\ rest_position' = IF cmd = "cmdREST" THEN position ELSE rest_position
  /\ sequence_number' = sequence_number + 1
  /\ line' = [ftp_command |-> cmd, resp_code |-> 0, timeout |-> FALSE,
              auth_state |-> get_auth_state(flags'),
              data_state |-> get_data_state(flags')]
  /\ messages' = Append(messages, [cmd |-> cmd, code |-> 0, position |-> position])

\* ftp_build_response_pred_line.
BuildResponse(code) ==
  LET cmd == InferCommand(code)
  IN  /\ Len(messages) < MaxMessages
      /\ IF Reinitialised(code, cmd)
         THEN /\ flags' = {"session_initialized"}
              /\ last_command' = "cmdNotSet"
              /\ sequence_number' = 1
              /\ rest_position' = 0
              /\ messages' = <<[cmd |-> "response", code |-> code, position |-> 0]>>
         ELSE /\ flags' = AfterResponse(code, cmd)
              /\ last_command' = cmd
              /\ sequence_number' = sequence_number + 1
              /\ UNCHANGED rest_position
              /\ messages' = Append(messages, [cmd |-> "response", code |-> code,
                                               position |-> 0])
      /\ line' = [ftp_command |-> last_command', resp_code |-> code,
                  timeout |-> (code = 0),
                  auth_state |-> get_auth_state(flags'),
                  data_state |-> get_data_state(flags')]

\* A packet of either side.
BuildPredLine ==
  \/ \E cmd \in Command, position \in Position : BuildCommand(cmd, position)
  \/ \E code \in Code : BuildResponse(code)

-----------------------------------------------------------------------------
(* Properties *)

At == 1..Len(messages)
Sent(cmd)   == \E i \in At : messages[i].cmd = cmd
Got(code)   == \E i \in At : messages[i].cmd = "response" /\ messages[i].code = code
IsCmd(i, S)  == messages[i].cmd \in S
IsCode(i, S) == messages[i].cmd = "response" /\ messages[i].code \in S

\* A message of `on' came, and none of `off' after it.
LastIs(on(_), off(_)) ==
  \E i \in At : on(i) /\ \A j \in At : j > i => ~off(j)

\* Some reply came while the last command line before it was cmd.
AnsweredBy(cmd, code) ==
  \E i, j \in At :
    /\ i < j /\ messages[i].cmd = cmd /\ IsCode(j, {code})
    /\ \A k \in i + 1 .. j - 1 : messages[k].cmd = "response"

\* The flags on the predicate lines mean what their names say of the packets
\* since the last reset or accepted REIN, whatever came in between: a login
\* stands until a 530, a data connection until a 226, a transfer until a 226 or
\* an ABOR, PORT and PASV replace each other, a "sent" flag needs that command,
\* and port_accepted and rnfr_accepted need the reply to that very command or,
\* for RNFR, to bytes that were no command, after a RNFR.
FlagsMeanHistory ==
  LET Login(i)  == IsCode(i, {230})
      Logout(i) == IsCode(i, {530})
      Open(i)   == IsCode(i, {150})
      Close(i)  == IsCode(i, {226})
      Ends(i)   == IsCode(i, {226}) \/ IsCmd(i, {"cmdABOR"})
      Port(i)   == IsCmd(i, {"cmdPORT"})
      Pasv(i)   == IsCmd(i, {"cmdPASV"})
  IN  /\ "user_logged_in" \in flags <=> LastIs(Login, Logout)
      /\ "data_connection_open" \in flags <=> LastIs(Open, Close)
      /\ "transfer_in_progress" \in flags <=> LastIs(Open, Ends)
      /\ "port_sent" \in flags <=> LastIs(Port, Pasv)
      /\ "pasv_sent" \in flags <=> LastIs(Pasv, Port)
      /\ "port_accepted" \in flags <=> AnsweredBy("cmdPORT", 200)
      /\ "pass_sent" \in flags <=> Sent("cmdPASS")
      /\ "login_failed" \in flags <=> Got(530)
      /\ "rnfr_accepted" \in flags => Sent("cmdRNFR") /\ Got(350)
      /\ "session_initialized" \in flags <=> (At # {} /\ IsCode(1, {220}))
      /\ sequence_number = Len(messages)

\* A reply is charged to a command, in the line of the reply, only if that
\* command was sent since the last reset: a reply to bytes the adapter cannot
\* read is never charged to a login, a rename or another command that changes
\* the session.  PWD, SYST and FEAT, which do not, are the exceptions.
ChargedCommandWasSent ==
  \/ last_command \in {"cmdNotSet", "cmdPWD", "cmdSYST", "cmdFEAT"}
  \/ Sent(last_command)
=============================================================================
