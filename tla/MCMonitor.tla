------------------------------ MODULE MCMonitor ------------------------------
(* Monitor with the two formulas                                            *)
(*   1:  H(ok)                                                              *)
(*   2:  Y(ok) -> ok                                                        *)
(* and lines that are, for every protocol, a valid response or not, with ok *)
(* true or false, and two lines that fail an assertion.                     *)
EXTENDS Monitor, TLC

un(k, c)      == [kind |-> k, left |-> c, right |-> 0, name |-> "ok"]
bin(k, l, r)  == [kind |-> k, left |-> l, right |-> r, name |-> "ok"]
leaf(k, nm)   == [kind |-> k, left |-> 0, right |-> 0, name |-> nm]
table(s)      == [n \in 0..(Len(s) - 1) |-> s[n + 1]]

MCNode ==
  << table(<<un("H", 1), leaf("ID", "ok")>>),
     table(<<bin("ARROW", 1, 3), un("Y", 2), leaf("ID", "ok"),
             leaf("ID", "ok")>>) >>
MCSize == [f \in DOMAIN MCNode |-> Cardinality(DOMAIN MCNode[f])]

Bools == {"ok", "id_mismatch", "response_valid", "encrypted", "mac_ok", "timeout"}
Ints  == {"q_id", "resp_id"}
Enums == {"status_class", "ftp_status_class", "response", "sip_msg_type"}
MCEnumConstant == {"scNotSet"}

MCName   == Bools \cup Ints \cup Enums \cup MCEnumConstant
MCLabel  == {"true", "false", "1", "2", "request", "response", "sc2xx",
             "responseNotSet", "helloDone"} \cup MCEnumConstant
MCStoi   == [l \in MCLabel |-> IF l = "1" THEN 1 ELSE IF l = "2" THEN 2 ELSE 0]
MCTypeOf == [n \in MCName |->
   CASE n \in Bools -> {"true", "false"}
     [] n \in Ints -> {"1", "2"}
     [] n \in {"status_class", "ftp_status_class"} -> {"scNotSet", "sc2xx"}
     [] n = "response" -> {"responseNotSet", "helloDone"}
     [] n = "sip_msg_type" -> {"request", "response"}
     [] OTHER -> {"scNotSet", "sc2xx"}]

kv(r) == [n \in MCName |-> IF n \in DOMAIN r THEN r[n] ELSE Unset]

valid(ok) == kv([ok |-> ok, q_id |-> "1", resp_id |-> "2",
  response_valid |-> "true", encrypted |-> "true", mac_ok |-> "true",
  timeout |-> "false", status_class |-> "sc2xx", ftp_status_class |-> "sc2xx",
  response |-> "helloDone", sip_msg_type |-> "response"])
invalid(ok) == kv([ok |-> ok, q_id |-> "1", resp_id |-> "1",
  response_valid |-> "false", encrypted |-> "true", mac_ok |-> "false",
  timeout |-> "true", status_class |-> "scNotSet",
  ftp_status_class |-> "scNotSet", response |-> "responseNotSet",
  sip_msg_type |-> "request"])

MCLine ==
  { [kv |-> valid("true"),    ref |-> "p1"],
    [kv |-> valid("false"),   ref |-> "p2"],
    [kv |-> invalid("false"), ref |-> "none"],
    [kv |-> kv([ok |-> "sc2xx"]), ref |-> "none"],
    [kv |-> kv([timeout |-> "true"]), ref |-> "none"] }

MCEvent == {Labels(line.kv) : line \in MCLine}

\* The ids of snapshots are interchangeable.
IdSymmetry == Permutations(SnapId)

\* Two snapshots are in use for one protocol only, and until the second report:
\* neither the trace nor the evaluator depends on the protocol or the reports.
BoundSecondSnapshot ==
  proto_tag # "generic" \/ total_violations > 1 =>
    Cardinality({id \in SnapId : saved_states[id].saved}) <= 1
=============================================================================
