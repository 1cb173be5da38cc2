---------------------------- MODULE DtlsAdapter ----------------------------
(***************************************************************************)
(* The DTLS predicate adapter (dtls_predicate_adapter.c): the handshake     *)
(* flags it keeps, and the request and response names it gives to records.  *)
(* The predicates that describe the record itself (epoch, cipher suite,     *)
(* encrypted) depend on no state and are left out.                          *)
(*                                                                         *)
(* A record is its content type, its epoch, the type byte of its payload    *)
(* and its shape: "sound" when the lengths agree (for a handshake message   *)
(* the fragment is the whole message and fills the record), "odd" when they *)
(* do not, "short" when the payload is too short to hold a type.  A packet  *)
(* that is no record has content type "none", an unknown content type is    *)
(* "other".  The adapter looks at the first record of a packet only.  A      *)
(* name is a pair of the direction and the message, and <<>> when not set.   *)
(***************************************************************************)
EXTENDS Integers, Sequences

CONSTANT
  Epoch          \* epochs explored

VARIABLES
  flags,     \* the g_ booleans that are true; the two nothing reads
             \* (server_hello_sent and server_hello_done_sent) are left out
  line,      \* the names on the last line
  seen,      \* (history) the milestones legible since the last reset, with their sender
  named      \* (history) how often they were named since: 0, 1, or 2 for more

vars == <<flags, line, seen, named>>

\* Handshake types named whatever happened before.
Client == {"ClientKeyExchange", "CertificateVerify"}
Server == {"HelloVerifyRequest", "ServerHello", "Certificate", "ServerKeyExchange",
           "CertificateRequest", "ServerHelloDone"}
Unread == "0xFF"

Content == [handshake |-> Client \cup Server \cup {"ClientHello", "Finished"},
            ccs |-> {"1"}, alert |-> {"description"}, appdata |-> {"data"},
            other |-> {"0"}, none |-> {"0"}]
Record  == {r \in [ct : DOMAIN Content, type : UNION {Content[c] : c \in DOMAIN Content},
                   epoch : Epoch, shape : {"sound", "odd", "short"}] :
              /\ r.type \in Content[r.ct]
              /\ r.ct = "none" => r.epoch = 0 /\ r.shape = "odd"}
Dir     == {"c2s", "s2c"}

\* What the flags are about.
Milestone == {"c2s"} \X {"ClientKeyExchange", "ccs", "Finished"}
             \cup {"s2c"} \X {"HelloVerifyRequest", "ServerHello", "CertificateRequest",
                              "ccs", "Finished"}

\* The error line.
NoLine == [request |-> << >>, response |-> << >>]

-----------------------------------------------------------------------------
\* The message type, or Unread when it cannot be seen.
TypeC2S(r) ==
  IF \/ r.ct \in {"other", "none"}
     \/ r.ct # "appdata" /\ r.epoch = 0 /\ r.shape # "short"
  THEN r.type ELSE Unread
TypeS2C(r) ==
  IF \/ r.ct \in {"other", "none"}
     \/ r.ct \in {"handshake", "ccs"} /\ r.shape = "sound"
     \/ r.ct = "alert" /\ r.epoch = 0 /\ r.shape = "sound"
  THEN r.type ELSE Unread

NotSet == << >>

\* dtls_request_enum_for_type.
RequestEnum(ct, type) ==
  LET known == \/ ct \in {"alert", "appdata"}
               \/ ct = "handshake" /\ type \in Client
               \/ /\ ct = "handshake" /\ type = "Certificate"
                  /\ "certificate_request_sent" \in flags
               \/ /\ ct = "handshake" /\ type = "Finished"
                  /\ "client_ccs_received" \in flags
                  /\ "client_finished_received" \notin flags
               \/ /\ ct = "ccs"
                  /\ "client_key_exchange_received" \in flags
                  /\ "client_ccs_received" \notin flags
  IN  CASE ct = "handshake" /\ type = "ClientHello" ->
             <<"c2s", IF "cookie_exchange_done" \in flags THEN "ClientHello_with_cookie"
                                                          ELSE "ClientHello">>
        [] known -> <<"c2s", IF ct = "handshake" THEN type ELSE ct>>
        [] OTHER -> NotSet

\* Changed form of ResponseEnum: a change cipher spec is named every time.
ResponseEnumAgain(ct, type) ==
  IF \/ ct \in {"alert", "appdata"}
     \/ ct = "handshake" /\ type \in Server
     \/ /\ ct = "handshake" /\ type = "Finished"
        /\ "server_ccs_sent" \in flags /\ "server_finished_sent" \notin flags
     \/ ct = "ccs" /\ "client_finished_received" \in flags
  THEN <<"s2c", IF ct = "handshake" THEN type ELSE ct>>
  ELSE NotSet

\* dtls_response_enum_for_type.
ResponseEnum(ct, type) ==
  IF \/ ct \in {"alert", "appdata"}
     \/ ct = "handshake" /\ type \in Server
     \/ /\ ct = "handshake" /\ type = "Finished"
        /\ "server_ccs_sent" \in flags /\ "server_finished_sent" \notin flags
     \/ /\ ct = "ccs"
        /\ "client_finished_received" \in flags /\ "server_ccs_sent" \notin flags
  THEN <<"s2c", IF ct = "handshake" THEN type ELSE ct>>
  ELSE NotSet

\* Changed form of Raised: whatever the direction.
RaisedBoth(dir, ct, type) ==
  CASE ct = "ccs" -> {IF dir = "c2s" THEN "client_ccs_received" ELSE "server_ccs_sent"}
    [] ct = "handshake" /\ type = "Finished" ->
         {IF dir = "c2s" THEN "client_finished_received" ELSE "server_finished_sent"}
    [] ct = "handshake" /\ type = "ClientKeyExchange" -> {"client_key_exchange_received"}
    [] ct = "handshake" /\ type = "HelloVerifyRequest" -> {"cookie_exchange_done"}
    [] ct = "handshake" /\ type = "ServerHello" -> {"cipher_negotiated"}
    [] ct = "handshake" /\ type = "CertificateRequest" -> {"certificate_request_sent"}
    [] OTHER -> {}

\* The flags a record sets: those of the side that sent it.
Raised(dir, ct, type) ==
  CASE ct = "ccs" -> {IF dir = "c2s" THEN "client_ccs_received" ELSE "server_ccs_sent"}
    [] ct = "handshake" /\ type = "Finished" ->
         {IF dir = "c2s" THEN "client_finished_received" ELSE "server_finished_sent"}
    [] ct = "handshake" /\ type = "ClientKeyExchange" /\ dir = "c2s" ->
         {"client_key_exchange_received"}
    [] ct = "handshake" /\ type = "HelloVerifyRequest" /\ dir = "s2c" ->
         {"cookie_exchange_done"}
    [] ct = "handshake" /\ type = "ServerHello" /\ dir = "s2c" ->
         {"cipher_negotiated"}
    [] ct = "handshake" /\ type = "CertificateRequest" /\ dir = "s2c" ->
         {"certificate_request_sent"}
    [] OTHER -> {}

\* The second Finished of the two completes the handshake.
Completed(f) ==
  IF {"client_finished_received", "server_finished_sent"} \subseteq f
  THEN f \cup {"handshake_complete"} ELSE f

-----------------------------------------------------------------------------
Init ==
  /\ flags = {}
  /\ line = NoLine
  /\ seen = {}
  /\ named = [m \in Milestone |-> 0]

\* dtls_predicate_reset_session.
ResetSession ==
  /\ flags' = {}
  /\ seen' = {}
  /\ named' = [m \in Milestone |-> 0]
  /\ UNCHANGED line

\* (history) The message a record shows to one who reads it: a change cipher spec
\* is one whatever it holds, a client message is legible in clear, however
\* damaged, a server message when its lengths agree.
Told(dir, r) ==
  CASE r.ct = "ccs" -> {<<dir, "ccs">>}
    [] /\ r.ct = "handshake"
       /\ \/ dir = "c2s" /\ r.epoch = 0 /\ r.shape # "short"
          \/ dir = "s2c" /\ r.shape = "sound" -> {<<dir, r.type>>}
    [] OTHER -> {}

\* dtls_build_request_pred_line and dtls_build_response_pred_line.
BuildInternal(dir, r) ==
  LET type == IF dir = "c2s" THEN TypeC2S(r) ELSE TypeS2C(r)
  IN  /\ flags' = Completed(flags \cup Raised(dir, r.ct, type))
      /\ line' =
           [request  |-> IF dir = "c2s" THEN RequestEnum(r.ct, type) ELSE NotSet,
            response |-> IF dir = "s2c" THEN ResponseEnum(r.ct, type) ELSE NotSet]
      /\ seen' = seen \cup (Told(dir, r) \cap Milestone)
      /\ named' = [m \in Milestone |->
                     IF m \in {line'.request, line'.response} /\ named[m] < 2
                     THEN named[m] + 1 ELSE named[m]]

\* A packet of either side.
BuildPredLine == \E dir \in Dir, r \in Record : BuildInternal(dir, r)

-----------------------------------------------------------------------------
(* Properties *)

\* The flags behind the predicates are about what each side itself sent since
\* the last reset, however many records ago: a record the client made up never
\* counts as the server's, nor the other way round.  handshake_complete needs a
\* Finished of both, the client's in clear.
FlagsAreOfTheSender ==
  /\ \A f \in {<<"cookie_exchange_done", <<"s2c", "HelloVerifyRequest">>>>,
               <<"cipher_negotiated", <<"s2c", "ServerHello">>>>,
               <<"certificate_request_sent", <<"s2c", "CertificateRequest">>>>,
               <<"client_key_exchange_received", <<"c2s", "ClientKeyExchange">>>>,
               <<"client_ccs_received", <<"c2s", "ccs">>>>,
               <<"server_ccs_sent", <<"s2c", "ccs">>>>} :
       f[1] \in flags <=> f[2] \in seen
  /\ ("handshake_complete" \in flags) <=> Dir \X {"Finished"} \subseteq seen

\* Retransmissions are not named again, and a name comes only after what must
\* precede it: at most one change cipher spec and one Finished of each side is
\* named in a session; the client's change cipher spec is named only after a
\* named ClientKeyExchange, the server's only after a Finished of the client,
\* and a Finished only after a change cipher spec of its side.
NamedOnceInOrder ==
  /\ \A m \in Dir \X {"ccs", "Finished"} : named[m] <= 1
  /\ named[<<"c2s", "ccs">>] > 0 => named[<<"c2s", "ClientKeyExchange">>] > 0
  /\ named[<<"s2c", "ccs">>] > 0 => <<"c2s", "Finished">> \in seen
  /\ \A side \in Dir : named[<<side, "Finished">>] > 0 => <<side, "ccs">> \in seen
=============================================================================
