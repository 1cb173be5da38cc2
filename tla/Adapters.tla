------------------------------ MODULE Adapters ------------------------------
(***************************************************************************)
(* The predicate adapters as afl-fuzz.c drives them: the option -P installs *)
(* the builders and the reset of one protocol, every packet goes to the     *)
(* installed builders, the start of fuzz_one resets all adapters and a      *)
(* violation the installed one.  The variables of an adapter carry its      *)
(* prefix.  (The SSH adapter is reset but never installed.)                 *)
(***************************************************************************)
EXTENDS Integers, Sequences

CONSTANTS
  Command, Code, Position, MaxMessages,           \* of FtpAdapter
  Id, Qtype, MAX_TRACKED_QUERIES, MaxQueries,     \* of DnsAdapter
  Epoch                                           \* of DtlsAdapter

ASSUME AdaptersAssumption ==
  /\ Code \cup Position \cup Id \cup Qtype \cup Epoch \subseteq Nat
  /\ "response" \notin Command
  /\ {MaxMessages, MaxQueries} \subseteq Nat
  /\ MAX_TRACKED_QUERIES \in Nat \ {0}

VARIABLES
  protocol,       \* the protocol whose adapter is installed
  ftp_flags, ftp_last_command, ftp_sequence_number, ftp_rest_position, ftp_line,
  ftp_messages,
  dns_query_history, dns_cache_hits, dns_upstream_queries, dns_line, dns_asked,
  dns_answered,
  dtls_flags, dtls_line, dtls_seen, dtls_named

ftpVars  == <<ftp_flags, ftp_last_command, ftp_sequence_number, ftp_rest_position,
              ftp_line, ftp_messages>>
dnsVars  == <<dns_query_history, dns_cache_hits, dns_upstream_queries, dns_line,
              dns_asked, dns_answered>>
dtlsVars == <<dtls_flags, dtls_line, dtls_seen, dtls_named>>
vars     == <<protocol, ftpVars, dnsVars, dtlsVars>>

Ftp == INSTANCE FtpAdapter
         WITH flags <- ftp_flags, last_command <- ftp_last_command,
              sequence_number <- ftp_sequence_number,
              rest_position <- ftp_rest_position, line <- ftp_line,
              messages <- ftp_messages
Dns == INSTANCE DnsAdapter
         WITH g_query_history <- dns_query_history, g_cache_hits <- dns_cache_hits,
              g_upstream_queries <- dns_upstream_queries, line <- dns_line,
              asked <- dns_asked, answered <- dns_answered
Dtls == INSTANCE DtlsAdapter
          WITH flags <- dtls_flags, line <- dtls_line, seen <- dtls_seen,
               named <- dtls_named

-----------------------------------------------------------------------------
\* The option -P.
Init ==
  /\ protocol \in {"FTP", "DNS", "DTLS12"}
  /\ Ftp!Init /\ Dns!Init /\ Dtls!Init

\* A packet that is sent or received.
FtpPacket ==
  /\ protocol = "FTP"
  /\ Ftp!BuildPredLine
  /\ UNCHANGED <<protocol, dnsVars, dtlsVars>>

DnsPacket ==
  /\ protocol = "DNS"
  /\ Dns!BuildPredLine
  /\ UNCHANGED <<protocol, ftpVars, dtlsVars>>

DtlsPacket ==
  /\ protocol = "DTLS12"
  /\ Dtls!BuildPredLine
  /\ UNCHANGED <<protocol, ftpVars, dnsVars>>

\* fuzz_one.
FuzzOne ==
  /\ Ftp!ResetSession /\ Dns!ResetSession /\ Dtls!ResetSession
  /\ UNCHANGED protocol

\* predicate_reset_session, when the monitor has reported a violation.
Violation ==
  /\ \/ protocol = "FTP" /\ Ftp!ResetSession /\ UNCHANGED <<dnsVars, dtlsVars>>
     \/ protocol = "DNS" /\ Dns!ResetSession /\ UNCHANGED <<ftpVars, dtlsVars>>
     \/ protocol = "DTLS12" /\ Dtls!ResetSession /\ UNCHANGED <<ftpVars, dnsVars>>
  /\ UNCHANGED protocol

Next == FtpPacket \/ DnsPacket \/ DtlsPacket \/ FuzzOne \/ Violation

Spec == Init /\ [][Next]_vars

-----------------------------------------------------------------------------
(* The properties of the adapters *)

\* Types; the table of the DNS adapter never outgrows MAX_TRACKED_QUERIES
\* (track_query).
TypeOK ==
  /\ protocol \in {"FTP", "DNS", "DTLS12"}
  /\ {ftp_sequence_number, ftp_rest_position} \subseteq Nat
  /\ Dns!TypeOK
  /\ dtls_named \in [Dtls!Milestone -> 0..2]

\* The flags of the FTP adapter mean what their names say of the packets since
\* the reset (ftp_build_command_pred_line, ftp_build_response_pred_line).
FtpFlagsMeanHistory == Ftp!FlagsMeanHistory

\* infer_command_from_response charges a reply to a command that was sent, PWD,
\* SYST and FEAT excepted.
FtpChargedCommandWasSent == Ftp!ChargedCommandWasSent

\* The table of the DNS adapter is the latest queries, however often it has
\* overflowed (track_query).
DnsTableIsLatestQueries == Dns!TableIsLatestQueries

\* id_match on a DNS response line is right about the session
\* (find_matching_query).
DnsIdMatchIsRight == Dns!IdMatchIsRight

\* The flags of the DTLS adapter are about what each side itself sent
\* (dtls_build_pred_line_internal).
DtlsFlagsAreOfTheSender == Dtls!FlagsAreOfTheSender

\* The DTLS adapter names a change cipher spec and a Finished of each side once,
\* and after what must precede them (dtls_request_enum_for_type,
\* dtls_response_enum_for_type).
DtlsNamedOnceInOrder == Dtls!NamedOnceInOrder
=============================================================================
