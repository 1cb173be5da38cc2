--------------------------- MODULE AdaptersProofs ---------------------------
(***************************************************************************)
(* Theorems about Adapters, for any commands, codes, ids, types, epochs and *)
(* bounds, and any size of the table of tracked queries.                    *)
(***************************************************************************)
EXTENDS Adapters, SequenceTheorems, TLAPS

-----------------------------------------------------------------------------
(* The DNS adapter *)

Query == [id : Id, qtype : Qtype]

\* The table h has the length of the session a, up to its size, and its records
\* are the last of the session, one by one.
TableOf(h, a) ==
  /\ h \in Seq(Query) /\ a \in Seq(Query)
  /\ Len(h) <= Len(a) /\ Len(h) <= MAX_TRACKED_QUERIES
  /\ Len(h) = Len(a) \/ Len(h) = MAX_TRACKED_QUERIES
  /\ \A i \in 1..Len(h) : h[i] = a[Len(a) - Len(h) + i]

DnsTypes ==
  /\ dns_cache_hits \in Nat /\ dns_upstream_queries \in Nat
  /\ dns_line.id_match \in BOOLEAN
  /\ dns_answered \in Query \cup {Dns!Unparsable}

DnsInv == DnsTypes /\ TableOf(dns_query_history, dns_asked) /\ DnsIdMatchIsRight

\* Appending one query to both, while there is room.
LEMMA TableGrows ==
  ASSUME NEW h, NEW a, NEW q \in Query, TableOf(h, a), Len(h) < MAX_TRACKED_QUERIES
  PROVE  TableOf(Append(h, q), Append(a, q))
<1> DEFINE t == Append(h, q)
           b == Append(a, q)
<1>1. /\ h \in Seq(Query) /\ a \in Seq(Query) /\ Len(h) = Len(a)
      /\ \A i \in 1..Len(h) : h[i] = a[i]
      /\ Len(h) \in Nat /\ MAX_TRACKED_QUERIES \in Nat
  BY AdaptersAssumption, LenProperties DEF TableOf
<1>2. /\ t \in Seq(Query) /\ Len(t) = Len(h) + 1 /\ t[Len(h) + 1] = q
      /\ b \in Seq(Query) /\ Len(b) = Len(a) + 1 /\ b[Len(a) + 1] = q
      /\ \A i \in 1..Len(h) : t[i] = h[i]
      /\ \A i \in 1..Len(a) : b[i] = a[i]
  BY <1>1, AppendProperties
<1> HIDE DEF t, b
<1>3. \A i \in 1..Len(t) : t[i] = b[Len(b) - Len(t) + i]
  BY <1>1, <1>2
<1>4. TableOf(t, b)
  BY <1>1, <1>2, <1>3 DEF TableOf
<1>5. QED
  BY <1>4 DEF t, b

\* The same when it is full: the oldest record goes.
LEMMA TableSlides ==
  ASSUME NEW h, NEW a, NEW q \in Query, TableOf(h, a), Len(h) = MAX_TRACKED_QUERIES
  PROVE  TableOf(Append(SubSeq(h, 2, MAX_TRACKED_QUERIES), q), Append(a, q))
<1> DEFINE s == SubSeq(h, 2, Len(h))
           t == Append(s, q)
           b == Append(a, q)
<1>1. /\ h \in Seq(Query) /\ a \in Seq(Query) /\ Len(h) <= Len(a)
      /\ \A i \in 1..Len(h) : h[i] = a[Len(a) - Len(h) + i]
      /\ Len(h) \in Nat /\ Len(h) > 0 /\ Len(a) \in Nat
  BY AdaptersAssumption, LenProperties DEF TableOf
<1>2. s \in Seq(Query) /\ Len(s) = Len(h) - 1 /\ \A i \in 1..Len(s) : s[i] = h[i + 1]
  <2>1. \A i \in 2..Len(h) : h[i] \in Query
    BY <1>1, ElementOfSeq
  <2>2. /\ s \in Seq(Query) /\ Len(s) = IF 2 <= Len(h) THEN Len(h) - 2 + 1 ELSE 0
        /\ \A i \in 1..Len(h) - 2 + 1 : s[i] = h[2 + i - 1]
    BY <1>1, <2>1, SubSeqProperties
  <2> HIDE DEF s
  <2>3. QED
    BY <1>1, <2>2
<1> HIDE DEF s
<1>3. /\ t \in Seq(Query) /\ Len(t) = Len(s) + 1 /\ t[Len(s) + 1] = q
      /\ b \in Seq(Query) /\ Len(b) = Len(a) + 1 /\ b[Len(a) + 1] = q
      /\ \A i \in 1..Len(s) : t[i] = s[i]
      /\ \A i \in 1..Len(a) : b[i] = a[i]
  BY <1>1, <1>2, AppendProperties
<1> HIDE DEF t, b
<1>4. Len(t) = Len(h) /\ Len(t) <= Len(b)
  BY <1>1, <1>2, <1>3
<1>5. ASSUME NEW i \in 1..Len(t) PROVE t[i] = b[Len(b) - Len(t) + i]
  <2>1. CASE i = Len(s) + 1
    BY <1>1, <1>2, <1>3, <2>1
  <2>2. CASE i \in 1..Len(s)
    <3>1. t[i] = h[i + 1] /\ i \in Nat /\ i + 1 \in 1..Len(h)
      <4>1. t[i] = s[i] /\ s[i] = h[i + 1]
        BY <1>2, <1>3, <2>2
      <4>2. i \in 1..Len(h) - 1
        BY <1>2, <2>2
      <4>3. QED
        BY <1>1, <4>1, <4>2
    <3>2. h[i + 1] = a[Len(a) - Len(h) + (i + 1)]
      BY <1>1, <3>1
    <3>3. /\ Len(a) - Len(h) + (i + 1) = Len(b) - Len(t) + i
          /\ Len(b) - Len(t) + i \in 1..Len(a)
      <4>1. Len(b) = Len(a) + 1 /\ Len(t) = Len(h)
        BY <1>3, <1>4
      <4>2. Len(a) \in Nat /\ Len(h) \in Nat /\ Len(h) <= Len(a)
        BY <1>1
      <4>3. QED
        BY <3>1, <4>1, <4>2
    <3>4. QED
      BY <1>3, <3>1, <3>2, <3>3
  <2>3. QED
    BY <1>1, <1>2, <1>3, <2>1, <2>2
<1>6. TableOf(t, b)
  BY <1>3, <1>4, <1>5 DEF TableOf
<1>7. QED
  BY <1>6 DEF s, t, b

\* track_query, whether the table is full or not.
LEMMA TrackQuery ==
  ASSUME NEW h, NEW a, NEW q \in Query, TableOf(h, a)
  PROVE  TableOf(Dns!track_query(h, q), Append(a, q))
<1>1. Len(h) \in Nat /\ MAX_TRACKED_QUERIES \in Nat /\ Len(h) <= MAX_TRACKED_QUERIES
  BY AdaptersAssumption, LenProperties DEF TableOf
<1>2. CASE Len(h) < MAX_TRACKED_QUERIES
  BY <1>1, <1>2, TableGrows DEF Dns!track_query
<1>3. CASE Len(h) = MAX_TRACKED_QUERIES
  BY <1>1, <1>3, TableSlides DEF Dns!track_query
<1>4. QED
  BY <1>1, <1>2, <1>3

\* A packet keeps the table and the verdicts on it.
LEMMA DnsPacketKeeps ==
  ASSUME DnsInv, Dns!BuildPredLine PROVE DnsInv'
<1> USE DEF DnsInv, DnsTypes
<1>1. ASSUME NEW q \in Dns!Query, Dns!BuildRequest(q) PROVE DnsInv'
  <2>1. /\ dns_query_history' = Dns!track_query(dns_query_history, q)
        /\ dns_asked' = Append(dns_asked, q)
    BY <1>1 DEF Dns!BuildRequest
  <2>2. q \in Query
    BY DEF Dns!Query, Query
  <2>3. TableOf(dns_query_history', dns_asked')
    BY <2>1, <2>2, TrackQuery
  <2>4. DnsTypes'
    BY <1>1, <2>3 DEF Dns!BuildRequest
  <2>5. DnsIdMatchIsRight'
    BY <1>1 DEF Dns!BuildRequest, DnsIdMatchIsRight, Dns!IdMatchIsRight
  <2>6. QED
    BY <2>3, <2>4, <2>5
<1>2. ASSUME NEW r \in Dns!Response, Dns!BuildResponse(r) PROVE DnsInv'
  <2> DEFINE match == Dns!find_matching_query(r)
             query == [id |-> r.id, qtype |-> r.qtype]
  <2>1. /\ dns_line'.message_type = "response" /\ dns_line'.id_match = match
        /\ dns_answered' = query
        /\ UNCHANGED <<dns_query_history, dns_upstream_queries, dns_asked>>
        /\ dns_cache_hits' \in {dns_cache_hits, dns_cache_hits + 1}
    BY <1>2 DEF Dns!BuildResponse
  <2>2. query \in Query
    BY DEF Dns!Response, Query
  <2>3. match <=> \E i \in 1..Len(dns_query_history) : dns_query_history[i] = query
    <3>1. \A i \in 1..Len(dns_query_history) : dns_query_history[i] \in Query
      BY ElementOfSeq DEF TableOf
    <3>2. \A p \in Query : p = query <=> p.id = r.id /\ p.qtype = r.qtype
      BY DEF Query
    <3>3. QED
      BY <3>1, <3>2 DEF Dns!find_matching_query
  <2>4. match \in BOOLEAN
    BY DEF Dns!find_matching_query
  <2> HIDE DEF match, query
  <2>5. DnsTypes'
    BY <2>1, <2>2, <2>4
  <2>6. TableOf(dns_query_history, dns_asked)'
    BY <2>1 DEF TableOf
  <2>7. match => \E i \in 1..Len(dns_asked) : dns_asked[i] = query
    <3> SUFFICES ASSUME match PROVE \E i \in 1..Len(dns_asked) : dns_asked[i] = query
      OBVIOUS
    <3>1. PICK i \in 1..Len(dns_query_history) : dns_query_history[i] = query
      BY <2>3
    <3>2. Len(dns_asked) - Len(dns_query_history) + i \in 1..Len(dns_asked)
      BY LenProperties DEF TableOf
    <3>3. QED
      BY <3>1, <3>2 DEF TableOf
  <2>8. ~match => \A i \in 1..Len(dns_asked) :
                    dns_asked[i] = query => i <= Len(dns_asked) - MAX_TRACKED_QUERIES
    <3> DEFINE d == Len(dns_asked) - Len(dns_query_history)
    <3> SUFFICES ASSUME ~match, NEW i \in 1..Len(dns_asked), dns_asked[i] = query,
                        i > Len(dns_asked) - MAX_TRACKED_QUERIES
                 PROVE  FALSE
      BY AdaptersAssumption, LenProperties DEF TableOf
    <3>1. i - d \in 1..Len(dns_query_history) /\ d + (i - d) = i
      <4>1. /\ Len(dns_asked) \in Nat /\ Len(dns_query_history) \in Nat
            /\ MAX_TRACKED_QUERIES \in Nat /\ d >= 0
            /\ d = 0 \/ Len(dns_query_history) = MAX_TRACKED_QUERIES
        BY AdaptersAssumption, LenProperties DEF TableOf
      <4>2. QED
        BY <4>1
    <3>2. dns_query_history[i - d] = dns_asked[d + (i - d)]
      BY <3>1 DEF TableOf
    <3>3. QED
      BY <2>3, <3>1, <3>2
  <2>9. DnsIdMatchIsRight'
    BY <2>1, <2>7, <2>8 DEF DnsIdMatchIsRight, Dns!IdMatchIsRight
  <2>10. QED
    BY <2>5, <2>6, <2>9
<1>3. CASE Dns!BuildUnparsable
  BY <1>3 DEF TableOf, Dns!BuildUnparsable, Dns!NoLine, DnsIdMatchIsRight, Dns!IdMatchIsRight
<1>4. QED
  BY <1>1, <1>2, <1>3 DEF Dns!BuildPredLine

-----------------------------------------------------------------------------
(* The DTLS adapter *)

\* Every flag about one milestone, with the milestone.
Evidence ==
  {<<"cookie_exchange_done", <<"s2c", "HelloVerifyRequest">>>>,
   <<"cipher_negotiated", <<"s2c", "ServerHello">>>>,
   <<"certificate_request_sent", <<"s2c", "CertificateRequest">>>>,
   <<"client_key_exchange_received", <<"c2s", "ClientKeyExchange">>>>,
   <<"client_ccs_received", <<"c2s", "ccs">>>>,
   <<"server_ccs_sent", <<"s2c", "ccs">>>>,
   <<"client_finished_received", <<"c2s", "Finished">>>>,
   <<"server_finished_sent", <<"s2c", "Finished">>>>}

DtlsFlags ==
  /\ \A f \in Evidence : f[1] \in dtls_flags <=> f[2] \in dtls_seen
  /\ "handshake_complete" \in dtls_flags <=>
       {"client_finished_received", "server_finished_sent"} \subseteq dtls_flags

\* What was named has set its flag, and the flags it needed are set too.
DtlsNames ==
  /\ dtls_named \in [Dtls!Milestone -> 0..2]
  /\ DtlsNamedOnceInOrder
  /\ "client_key_exchange_received" \in dtls_flags =>
       dtls_named[<<"c2s", "ClientKeyExchange">>] > 0
  /\ \A f \in {g \in Evidence : g[2][2] \in {"ccs", "Finished"}} :
       dtls_named[f[2]] > 0 => f[1] \in dtls_flags

DtlsInv == DtlsFlags /\ DtlsNames

MessageType(dir, r) == IF dir = "c2s" THEN Dtls!TypeC2S(r) ELSE Dtls!TypeS2C(r)

\* A record raises the flag of a milestone just when it shows that milestone.
LEMMA RaisedIsTold ==
  ASSUME NEW dir \in Dtls!Dir, NEW r \in Dtls!Record, NEW f \in Evidence
  PROVE  /\ f[1] \in Dtls!Raised(dir, r.ct, MessageType(dir, r)) <=> f[2] \in Dtls!Told(dir, r)
         /\ f[1] # "handshake_complete"
         /\ f[2] \in Dtls!Milestone
<1>1. CASE r.ct = "ccs"
  BY <1>1 DEF Evidence, Dtls!Raised, Dtls!Told, Dtls!Milestone, Dtls!Dir
<1>2. CASE r.ct = "handshake"
  <2> DEFINE legible == \/ dir = "c2s" /\ r.epoch = 0 /\ r.shape # "short"
                        \/ dir = "s2c" /\ r.shape = "sound"
  <2>1. MessageType(dir, r) = IF legible THEN r.type ELSE "0xFF"
    BY <1>2 DEF MessageType, Dtls!TypeC2S, Dtls!TypeS2C, Dtls!Unread, Dtls!Dir
  <2>2. Dtls!Told(dir, r) = IF legible THEN {<<dir, r.type>>} ELSE {}
    BY <1>2 DEF Dtls!Told
  <2> HIDE DEF legible
  <2>3. ASSUME NEW type, type # "ccs"
        PROVE  f[1] \in Dtls!Raised(dir, "handshake", type) <=> f[2] = <<dir, type>>
    BY <2>3 DEF Evidence, Dtls!Raised, Dtls!Dir
  <2>4. f[2] # <<dir, "0xFF">> /\ f[1] # "handshake_complete" /\ f[2] \in Dtls!Milestone
    BY DEF Evidence, Dtls!Milestone
  <2>5. r.type # "ccs"
    BY <1>2 DEF Dtls!Record, Dtls!Content, Dtls!Client, Dtls!Server
  <2>6. QED
    BY <1>2, <2>1, <2>2, <2>3, <2>4, <2>5
<1>3. CASE r.ct \notin {"ccs", "handshake"}
  BY <1>3 DEF Evidence, Dtls!Raised, Dtls!Told, Dtls!Milestone
<1>4. QED
  BY <1>1, <1>2, <1>3

\* A record, sound or damaged, keeps the flags in step with what was sent.
LEMMA DtlsFlagsKept ==
  ASSUME DtlsFlags, NEW dir \in Dtls!Dir, NEW r \in Dtls!Record, Dtls!BuildInternal(dir, r)
  PROVE  DtlsFlags'
<1> DEFINE raised == Dtls!Raised(dir, r.ct, MessageType(dir, r))
           told == Dtls!Told(dir, r)
           fin == {"client_finished_received", "server_finished_sent"}
<1>1. /\ dtls_flags' = IF fin \subseteq dtls_flags \cup raised
                       THEN dtls_flags \cup raised \cup {"handshake_complete"}
                       ELSE dtls_flags \cup raised
      /\ dtls_seen' = dtls_seen \cup (told \cap Dtls!Milestone)
  BY DEF Dtls!BuildInternal, Dtls!Completed, MessageType
<1>2. "handshake_complete" \notin raised
  BY DEF Dtls!Raised
<1>3. \A f \in Evidence : /\ f[1] \in raised <=> f[2] \in told
                          /\ f[1] # "handshake_complete" /\ f[2] \in Dtls!Milestone
  BY RaisedIsTold
<1>4. fin \subseteq dtls_flags' <=> fin \subseteq dtls_flags \cup raised
  BY <1>1
<1> HIDE DEF raised, told
<1>5. \A f \in Evidence : f[1] \in dtls_flags' <=> f[2] \in dtls_seen'
  BY <1>1, <1>3 DEF DtlsFlags
<1>6. "handshake_complete" \in dtls_flags' <=> fin \subseteq dtls_flags'
  BY <1>1, <1>2, <1>4 DEF DtlsFlags
<1>7. QED
  BY <1>5, <1>6 DEF DtlsFlags

\* The names that are guarded, and their guards.
LEMMA RequestNames ==
  ASSUME NEW ct, NEW type
  PROVE  /\ Dtls!RequestEnum(ct, type) = <<"c2s", "ccs">> =>
              /\ ct = "ccs" /\ "client_key_exchange_received" \in dtls_flags
              /\ "client_ccs_received" \notin dtls_flags
         /\ Dtls!RequestEnum(ct, type) = <<"c2s", "Finished">> =>
              /\ ct = "handshake" /\ type = "Finished"
              /\ "client_ccs_received" \in dtls_flags
              /\ "client_finished_received" \notin dtls_flags
         /\ \A m : Dtls!RequestEnum(ct, type) # <<"s2c", m>>
<1> DEFINE name == IF ct = "handshake" THEN type ELSE ct
<1>1. CASE ct = "handshake" /\ type = "ClientHello"
  BY <1>1 DEF Dtls!RequestEnum
<1>2. CASE ~(ct = "handshake" /\ type = "ClientHello")
  <2>1. CASE Dtls!RequestEnum(ct, type) = << >>
    BY <2>1
  <2>2. CASE /\ Dtls!RequestEnum(ct, type) = <<"c2s", name>>
             /\ \/ ct \in {"alert", "appdata"}
                \/ ct = "handshake" /\ type \in {"ClientKeyExchange", "CertificateVerify",
                                                 "Certificate"}
                \/ /\ ct = "handshake" /\ type = "Finished"
                   /\ "client_ccs_received" \in dtls_flags
                   /\ "client_finished_received" \notin dtls_flags
                \/ /\ ct = "ccs"
                   /\ "client_key_exchange_received" \in dtls_flags
                   /\ "client_ccs_received" \notin dtls_flags
    BY <2>2
  <2>3. QED
    BY <1>2, <2>1, <2>2 DEF Dtls!RequestEnum, Dtls!NotSet, Dtls!Client
<1>3. QED
  BY <1>1, <1>2

\* The same for the names of the server's records.
LEMMA ResponseNames ==
  ASSUME NEW ct, NEW type
  PROVE  /\ Dtls!ResponseEnum(ct, type) = <<"s2c", "ccs">> =>
              /\ ct = "ccs" /\ "client_finished_received" \in dtls_flags
              /\ "server_ccs_sent" \notin dtls_flags
         /\ Dtls!ResponseEnum(ct, type) = <<"s2c", "Finished">> =>
              /\ ct = "handshake" /\ type = "Finished"
              /\ "server_ccs_sent" \in dtls_flags
              /\ "server_finished_sent" \notin dtls_flags
         /\ \A m : Dtls!ResponseEnum(ct, type) # <<"c2s", m>>
<1> DEFINE name == IF ct = "handshake" THEN type ELSE ct
<1>1. CASE Dtls!ResponseEnum(ct, type) = << >>
  BY <1>1
<1>2. CASE /\ Dtls!ResponseEnum(ct, type) = <<"s2c", name>>
           /\ \/ ct \in {"alert", "appdata"}
              \/ ct = "handshake" /\ type \in Dtls!Server
              \/ /\ ct = "handshake" /\ type = "Finished"
                 /\ "server_ccs_sent" \in dtls_flags
                 /\ "server_finished_sent" \notin dtls_flags
              \/ /\ ct = "ccs"
                 /\ "client_finished_received" \in dtls_flags
                 /\ "server_ccs_sent" \notin dtls_flags
  BY <1>2 DEF Dtls!Server
<1>3. QED
  BY <1>1, <1>2 DEF Dtls!ResponseEnum, Dtls!NotSet

\* A name is given only under the flags that allow it, and naming sets a flag.
LEMMA DtlsNamesKept ==
  ASSUME DtlsInv, NEW dir \in Dtls!Dir, NEW r \in Dtls!Record, Dtls!BuildInternal(dir, r)
  PROVE  DtlsNames'
<1> DEFINE type == MessageType(dir, r)
           raised == Dtls!Raised(dir, r.ct, type)
           now == {dtls_line'.request, dtls_line'.response}
<1>1. /\ dtls_line'.request = IF dir = "c2s" THEN Dtls!RequestEnum(r.ct, type) ELSE << >>
      /\ dtls_line'.response = IF dir = "s2c" THEN Dtls!ResponseEnum(r.ct, type) ELSE << >>
  BY DEF Dtls!BuildInternal, MessageType, Dtls!NotSet
<1>2. dtls_named' = [m \in Dtls!Milestone |-> IF m \in now /\ dtls_named[m] < 2
                                              THEN dtls_named[m] + 1 ELSE dtls_named[m]]
  BY DEF Dtls!BuildInternal
<1>3. /\ dtls_flags \cup raised \subseteq dtls_flags' /\ dtls_seen \subseteq dtls_seen'
      /\ dtls_flags' \subseteq dtls_flags \cup raised \cup {"handshake_complete"}
  BY DEF Dtls!BuildInternal, Dtls!Completed, MessageType
<1>4. /\ <<"c2s", "ccs">> \in now =>
           /\ "client_key_exchange_received" \in dtls_flags
           /\ "client_ccs_received" \in raised \ dtls_flags
      /\ <<"c2s", "Finished">> \in now =>
           /\ "client_ccs_received" \in dtls_flags
           /\ "client_finished_received" \in raised \ dtls_flags
  <2>1. CASE dir = "c2s"
    BY <1>1, <2>1, RequestNames DEF Dtls!Raised
  <2>2. CASE dir = "s2c"
    BY <1>1, <2>2, ResponseNames
  <2>3. QED
    BY <2>1, <2>2 DEF Dtls!Dir
<1>5. /\ <<"s2c", "ccs">> \in now =>
           /\ "client_finished_received" \in dtls_flags
           /\ "server_ccs_sent" \in raised \ dtls_flags
      /\ <<"s2c", "Finished">> \in now =>
           /\ "server_ccs_sent" \in dtls_flags
           /\ "server_finished_sent" \in raised \ dtls_flags
  <2>1. CASE dir = "s2c"
    BY <1>1, <2>1, ResponseNames DEF Dtls!Raised
  <2>2. CASE dir = "c2s"
    BY <1>1, <2>2, RequestNames
  <2>3. QED
    BY <2>1, <2>2 DEF Dtls!Dir
<1>6. "client_key_exchange_received" \in raised => <<"c2s", "ClientKeyExchange">> \in now
  BY <1>1 DEF Dtls!RequestEnum, Dtls!Raised, Dtls!Client
<1> HIDE DEF type, raised, now
<1> USE DEF Dtls!Milestone, Dtls!Dir
<1>7. \A m \in Dtls!Milestone : /\ dtls_named[m] \in 0..2
                                /\ dtls_named'[m] > 0 <=> dtls_named[m] > 0 \/ m \in now
                                /\ m \notin now => dtls_named'[m] = dtls_named[m]
  BY <1>2 DEF DtlsInv, DtlsNames
<1>8. dtls_named' \in [Dtls!Milestone -> 0..2]
  BY <1>2, <1>7
<1>9. "client_key_exchange_received" \in dtls_flags' =>
        dtls_named'[<<"c2s", "ClientKeyExchange">>] > 0
  BY <1>3, <1>6, <1>7 DEF DtlsInv, DtlsNames
<1>10. ASSUME NEW flag, NEW m \in Dtls!Milestone, <<flag, m>> \in Evidence,
              m[2] \in {"ccs", "Finished"}
       PROVE  dtls_named'[m] <= 1 /\ (dtls_named'[m] > 0 => flag \in dtls_flags')
  <2>1. dtls_named[m] <= 1 /\ (dtls_named[m] > 0 => flag \in dtls_flags)
    BY <1>10 DEF DtlsInv, DtlsNames, DtlsNamedOnceInOrder, Dtls!NamedOnceInOrder
  <2>2. m \in now => flag \in raised \ dtls_flags
    BY <1>4, <1>5, <1>10 DEF Evidence
  <2>3. QED
    BY <1>2, <1>3, <1>7, <2>1, <2>2
<1>11. \A f \in {g \in Evidence : g[2][2] \in {"ccs", "Finished"}} :
         dtls_named'[f[2]] > 0 => f[1] \in dtls_flags'
  BY <1>10 DEF Evidence
<1>12. \A m \in Dtls!Dir \X {"ccs", "Finished"} : dtls_named'[m] <= 1
  BY <1>10 DEF Evidence
<1>13. dtls_named'[<<"c2s", "ccs">>] > 0 => dtls_named'[<<"c2s", "ClientKeyExchange">>] > 0
  BY <1>4, <1>7 DEF DtlsInv, DtlsNames, DtlsNamedOnceInOrder, Dtls!NamedOnceInOrder
<1>14. /\ "client_finished_received" \in dtls_flags => <<"c2s", "Finished">> \in dtls_seen'
       /\ "client_ccs_received" \in dtls_flags => <<"c2s", "ccs">> \in dtls_seen'
       /\ "server_ccs_sent" \in dtls_flags => <<"s2c", "ccs">> \in dtls_seen'
  BY <1>3 DEF DtlsInv, DtlsFlags, Evidence
<1>15. /\ dtls_named'[<<"s2c", "ccs">>] > 0 => <<"c2s", "Finished">> \in dtls_seen'
       /\ \A side \in Dtls!Dir :
            dtls_named'[<<side, "Finished">>] > 0 => <<side, "ccs">> \in dtls_seen'
  BY <1>3, <1>4, <1>5, <1>7, <1>14
     DEF DtlsInv, DtlsNames, DtlsNamedOnceInOrder, Dtls!NamedOnceInOrder
<1>16. QED
  BY <1>8, <1>9, <1>11, <1>12, <1>13, <1>15
     DEF DtlsNames, DtlsNamedOnceInOrder, Dtls!NamedOnceInOrder

-----------------------------------------------------------------------------
(* The FTP adapter *)

Message == [cmd : Command \cup {"response"}, code : Code \cup {0},
            position : Position \cup {0}]

Replies(codes)  == {e \in Message : e.cmd = "response" /\ e.code \in codes}
Commands(cmds)  == {e \in Message : e.cmd \in cmds}
AnyCommand      == {e \in Message : e.cmd # "response"}

\* A message of A came, and none of B after it.
Stands(m, A, B) ==
  \E i \in 1..Len(m) : m[i] \in A /\ \A j \in 1..Len(m) : j > i => m[j] \notin B

\* The flags that stand from one kind of message to another.
Standing == {"user_logged_in", "data_connection_open", "transfer_in_progress",
             "port_sent", "pasv_sent", "pass_sent", "login_failed"}

On(f) ==
  CASE f = "user_logged_in" -> Replies({230})
    [] f \in {"data_connection_open", "transfer_in_progress"} -> Replies({150})
    [] f = "port_sent" -> Commands({"cmdPORT"})
    [] f = "pasv_sent" -> Commands({"cmdPASV"})
    [] f = "pass_sent" -> Commands({"cmdPASS"})
    [] f = "login_failed" -> Replies({530})
Off(f) ==
  CASE f = "user_logged_in" -> Replies({530})
    [] f = "data_connection_open" -> Replies({226})
    [] f = "transfer_in_progress" -> Replies({226}) \cup Commands({"cmdABOR"})
    [] f = "port_sent" -> Commands({"cmdPASV"})
    [] f = "pasv_sent" -> Commands({"cmdPORT"})
    [] f \in {"pass_sent", "login_failed"} -> {}

\* cmd was sent.
WasSent(m, cmd) == \E i \in 1..Len(m) : m[i].cmd = cmd

\* cmd is the last command, and some reply came while it was.
Pending(m, cmd) == Stands(m, Commands({cmd}), AnyCommand)
Answered(m, cmd, code) ==
  \E i, j \in 1..Len(m) :
    /\ i < j /\ m[i] \in Commands({cmd}) /\ m[j] \in Replies({code})
    /\ \A k \in i + 1 .. j - 1 : m[k] \notin AnyCommand

FtpHistory ==
  /\ ftp_messages \in Seq(Message)
  /\ ftp_sequence_number = Len(ftp_messages)
  /\ ftp_rest_position \in Nat

FtpStanding == \A f \in Standing : f \in ftp_flags <=> Stands(ftp_messages, On(f), Off(f))

FtpAccepted ==
  /\ ftp_last_command = "cmdPORT" <=> Pending(ftp_messages, "cmdPORT")
  /\ "port_accepted" \in ftp_flags <=> Answered(ftp_messages, "cmdPORT", 200)
  /\ "rnfr_accepted" \in ftp_flags =>
       WasSent(ftp_messages, "cmdRNFR") /\ Stands(ftp_messages, Replies({350}), {})
  /\ "session_initialized" \in ftp_flags <=>
       Len(ftp_messages) > 0 /\ ftp_messages[1] \in Replies({220})

\* The evidence for an inference is a command that was sent.
FtpCharged ==
  /\ \/ ftp_last_command \in {"cmdNotSet", "cmdPWD", "cmdSYST", "cmdFEAT"}
     \/ WasSent(ftp_messages, ftp_last_command)
  /\ \A j \in Ftp!Inferable : j.evidence \in ftp_flags => WasSent(ftp_messages, j.cmd)

FtpInv == FtpHistory /\ FtpStanding /\ FtpAccepted /\ FtpCharged

\* One more message.
LEMMA StandsAppended ==
  ASSUME NEW m \in Seq(Message), NEW e \in Message, NEW A, NEW B
  PROVE  Stands(Append(m, e), A, B) <=> e \in A \/ (Stands(m, A, B) /\ e \notin B)
<1> DEFINE n == Append(m, e)
<1>1. /\ Len(m) \in Nat /\ Len(n) = Len(m) + 1 /\ n[Len(m) + 1] = e
      /\ \A i \in 1..Len(m) : n[i] = m[i]
  BY AppendProperties, LenProperties
<1> HIDE DEF n
<1>2. e \in A => Stands(n, A, B)
  <2>1. Len(m) + 1 \in 1..Len(n) /\ \A j \in 1..Len(n) : ~(j > Len(m) + 1)
    BY <1>1
  <2>2. QED
    BY <1>1, <2>1 DEF Stands
<1>3. ASSUME Stands(m, A, B), e \notin B PROVE Stands(n, A, B)
  <2>1. PICK i \in 1..Len(m) : m[i] \in A /\ \A j \in 1..Len(m) : j > i => m[j] \notin B
    BY <1>3 DEF Stands
  <2>2. i \in 1..Len(n) /\ n[i] \in A
    BY <1>1, <2>1
  <2>3. \A j \in 1..Len(n) : j \in 1..Len(m) \/ j = Len(m) + 1
    BY <1>1
  <2>4. \A j \in 1..Len(n) : j > i => n[j] \notin B
    BY <1>1, <1>3, <2>1, <2>3
  <2>5. QED
    BY <2>2, <2>4 DEF Stands
<1>4. ASSUME Stands(n, A, B), e \notin A PROVE Stands(m, A, B) /\ e \notin B
  <2>1. PICK i \in 1..Len(n) : n[i] \in A /\ \A j \in 1..Len(n) : j > i => n[j] \notin B
    BY <1>4 DEF Stands
  <2>2. i \in 1..Len(m)
    BY <1>1, <1>4, <2>1
  <2>3. Len(m) + 1 \in 1..Len(n) /\ Len(m) + 1 > i /\ \A j \in 1..Len(m) : j \in 1..Len(n)
    BY <1>1, <2>2
  <2>4. QED
    BY <1>1, <2>1, <2>2, <2>3 DEF Stands
<1>5. QED
  BY <1>2, <1>3, <1>4 DEF n

\* A command was sent if it is the newest packet or was sent before.
LEMMA WasSentAppended ==
  ASSUME NEW m \in Seq(Message), NEW e \in Message, NEW cmd
  PROVE  WasSent(Append(m, e), cmd) <=> e.cmd = cmd \/ WasSent(m, cmd)
<1> DEFINE n == Append(m, e)
<1>1. /\ Len(m) \in Nat /\ Len(n) = Len(m) + 1 /\ n[Len(m) + 1] = e
      /\ \A i \in 1..Len(m) : n[i] = m[i]
  BY AppendProperties, LenProperties
<1> HIDE DEF n
<1>2. \A i : i \in 1..Len(n) <=> i \in 1..Len(m) \/ i = Len(m) + 1
  BY <1>1
<1>3. WasSent(n, cmd) <=> e.cmd = cmd \/ WasSent(m, cmd)
  BY <1>1, <1>2 DEF WasSent
<1>4. QED
  BY <1>3 DEF n

\* A reply answers the command that is pending when it comes.
LEMMA AnsweredAppended ==
  ASSUME NEW m \in Seq(Message), NEW e \in Message, NEW cmd, NEW code
  PROVE  Answered(Append(m, e), cmd, code) <=>
           Answered(m, cmd, code) \/ (e \in Replies({code}) /\ Pending(m, cmd))
<1> DEFINE n == Append(m, e)
           l == Len(m)
<1>1. /\ l \in Nat /\ Len(n) = l + 1 /\ n[l + 1] = e
      /\ \A i \in 1..l : n[i] = m[i]
  BY AppendProperties, LenProperties
<1> HIDE DEF n, l
<1>2. ASSUME Answered(m, cmd, code) PROVE Answered(n, cmd, code)
  <2>1. PICK i \in 1..l, j \in 1..l :
          /\ i < j /\ m[i] \in Commands({cmd}) /\ m[j] \in Replies({code})
          /\ \A k \in i + 1 .. j - 1 : m[k] \notin AnyCommand
    BY <1>2 DEF Answered, l
  <2>2. i \in 1..Len(n) /\ j \in 1..Len(n) /\ \A k \in i + 1 .. j - 1 : k \in 1..l
    BY <1>1
  <2>3. QED
    BY <1>1, <2>1, <2>2 DEF Answered
<1>3. ASSUME e \in Replies({code}), Pending(m, cmd) PROVE Answered(n, cmd, code)
  <2>1. PICK i \in 1..l :
          m[i] \in Commands({cmd}) /\ \A j \in 1..l : j > i => m[j] \notin AnyCommand
    BY <1>3 DEF Pending, Stands, l
  <2>2. PICK j \in 1..Len(n) : j = l + 1
    BY <1>1
  <2>3. i \in 1..Len(n) /\ i < j /\ \A k \in i + 1 .. j - 1 : k \in 1..l /\ k > i
    BY <1>1, <2>2
  <2>4. n[i] \in Commands({cmd}) /\ n[j] \in Replies({code})
    BY <1>1, <1>3, <2>1, <2>2
  <2>5. \A k \in i + 1 .. j - 1 : n[k] \notin AnyCommand
    BY <1>1, <2>1, <2>3
  <2>6. QED
    BY <2>3, <2>4, <2>5 DEF Answered
<1>4. ASSUME Answered(n, cmd, code)
      PROVE  Answered(m, cmd, code) \/ (e \in Replies({code}) /\ Pending(m, cmd))
  <2>1. PICK i \in 1..Len(n), j \in 1..Len(n) :
          /\ i < j /\ n[i] \in Commands({cmd}) /\ n[j] \in Replies({code})
          /\ \A k \in i + 1 .. j - 1 : n[k] \notin AnyCommand
    BY <1>4 DEF Answered
  <2>2. i \in 1..l /\ m[i] \in Commands({cmd})
    BY <1>1, <2>1
  <2>3. CASE j = l + 1
    <3>1. e \in Replies({code})
      BY <1>1, <2>1, <2>3
    <3>2. \A k \in 1..l : k > i => k \in i + 1 .. j - 1
      BY <1>1, <2>3
    <3>3. Pending(m, cmd)
      BY <1>1, <2>1, <2>2, <3>2 DEF Pending, Stands, l
    <3>4. QED
      BY <3>1, <3>3
  <2>4. CASE j \in 1..l
    <3>1. \A k \in i + 1 .. j - 1 : k \in 1..l
      BY <1>1, <2>2, <2>4
    <3>2. QED
      BY <1>1, <2>1, <2>2, <2>4, <3>1 DEF Answered, l
  <2>5. QED
    BY <1>1, <2>3, <2>4
<1>5. QED
  BY <1>2, <1>3, <1>4 DEF n

-----------------------------------------------------------------------------
\* A command or a reply, and what they do to the standing flags.
LEMMA CommandSteps ==
  ASSUME NEW cmd \in Command, NEW position \in Position, Ftp!BuildCommand(cmd, position),
         NEW e, e = [cmd |-> cmd, code |-> 0, position |-> position], NEW f \in Standing
  PROVE  f \in ftp_flags' <=> e \in On(f) \/ (f \in ftp_flags /\ e \notin Off(f))
<1> USE DEF Ftp!BuildCommand, Ftp!Raised, Ftp!Lowered
<1>1. e \in Message /\ e.cmd = cmd /\ \A codes : e \notin Replies(codes)
  BY AdaptersAssumption DEF Message, Replies
<1>2. \A cmds : e \in Commands(cmds) <=> cmd \in cmds
  BY <1>1 DEF Commands
<1>3. e \in On(f) <=> \/ f = "port_sent" /\ cmd = "cmdPORT"
                      \/ f = "pasv_sent" /\ cmd = "cmdPASV"
                      \/ f = "pass_sent" /\ cmd = "cmdPASS"
  BY <1>1, <1>2 DEF On, Standing
<1>4. e \in Off(f) <=> \/ f = "port_sent" /\ cmd = "cmdPASV"
                       \/ f = "pasv_sent" /\ cmd = "cmdPORT"
                       \/ f = "transfer_in_progress" /\ cmd = "cmdABOR"
  BY <1>1, <1>2 DEF Off, Standing
<1>5. QED
  BY <1>3, <1>4 DEF Standing

\* What a reply does to the flags does not depend on the command it is charged
\* to.
LEMMA ReplySteps ==
  ASSUME NEW code \in Code, NEW cmd,
         NEW e, e = [cmd |-> "response", code |-> code, position |-> 0], NEW f \in Standing
  PROVE  f \in Ftp!AfterResponse(code, cmd) <=>
           e \in On(f) \/ (f \in ftp_flags /\ e \notin Off(f))
<1> USE DEF Ftp!AfterResponse
<1>1. e \in Message /\ \A codes : e \in Replies(codes) <=> code \in codes
  BY DEF Message, Replies
<1>2. \A cmds : "response" \notin cmds => e \notin Commands(cmds)
  BY DEF Commands
<1>3. e \in On(f) <=> \/ f = "user_logged_in" /\ code = 230
                      \/ f \in {"data_connection_open", "transfer_in_progress"} /\ code = 150
                      \/ f = "login_failed" /\ code = 530
  BY <1>1, <1>2 DEF On, Standing
<1>4. e \in Off(f) <=> \/ f = "user_logged_in" /\ code = 530
                       \/ f \in {"data_connection_open", "transfer_in_progress"} /\ code = 226
  BY <1>1, <1>2 DEF Off, Standing
<1>5. QED
  BY <1>3, <1>4 DEF Standing

\* A reply is charged to the last command, to one of which there is evidence, or
\* to one of three that change nothing.
LEMMA InferredWasSent ==
  ASSUME FtpCharged, NEW code, NEW cmd, cmd = Ftp!InferCommand(code)
  PROVE  /\ cmd \in {"cmdNotSet", "cmdPWD", "cmdSYST", "cmdFEAT"} \/ WasSent(ftp_messages, cmd)
         /\ cmd = "cmdPORT" <=> ftp_last_command = "cmdPORT"
<1>1. CASE cmd = ftp_last_command
  BY <1>1 DEF FtpCharged
<1>2. CASE ftp_last_command = "cmdNotSet" /\ cmd \in Ftp!Inferred(code)
  <2>1. CASE cmd \in {"cmdPWD", "cmdSYST", "cmdFEAT"}
    BY <1>2, <2>1
  <2>2. CASE \E j \in Ftp!Inferable : cmd = j.cmd /\ j.evidence \in ftp_flags
    BY <1>2, <2>2 DEF FtpCharged, Ftp!Inferable
  <2>3. QED
    BY <1>2, <2>1, <2>2 DEF Ftp!Inferred, Ftp!Unguarded
<1>3. QED
  BY <1>1, <1>2 DEF Ftp!InferCommand

\* A command keeps the invariant of the FTP adapter.
LEMMA FtpCommandKeeps ==
  ASSUME FtpInv, NEW cmd \in Command, NEW position \in Position,
         Ftp!BuildCommand(cmd, position)
  PROVE  FtpInv'
<1> DEFINE e == [cmd |-> cmd, code |-> 0, position |-> position]
           m == ftp_messages
<1>1. /\ ftp_messages' = Append(m, e) /\ ftp_last_command' = cmd
      /\ ftp_flags' = (ftp_flags \cup Ftp!Raised(cmd)) \ Ftp!Lowered(cmd)
      /\ ftp_sequence_number' = ftp_sequence_number + 1
      /\ ftp_rest_position' \in {ftp_rest_position, position}
  BY DEF Ftp!BuildCommand
<1>2. /\ e \in Message /\ e.cmd = cmd /\ cmd # "response" /\ e \in AnyCommand
      /\ \A codes : e \notin Replies(codes)
      /\ \A cmds : e \in Commands(cmds) <=> cmd \in cmds
  BY AdaptersAssumption DEF Message, Replies, Commands, AnyCommand
<1>3. /\ m \in Seq(Message) /\ Append(m, e) \in Seq(Message)
      /\ Len(m) \in Nat /\ Len(Append(m, e)) = Len(m) + 1
      /\ \A i \in 1..Len(m) : Append(m, e)[i] = m[i]
      /\ Append(m, e)[Len(m) + 1] = e
  BY <1>2, AppendProperties, LenProperties DEF FtpInv, FtpHistory
<1>4. FtpHistory'
  BY <1>1, <1>3, AdaptersAssumption DEF FtpInv, FtpHistory
<1>5. FtpStanding'
  <2> SUFFICES ASSUME NEW f \in Standing
               PROVE  f \in ftp_flags' <=> Stands(ftp_messages', On(f), Off(f))
    BY DEF FtpStanding
  <2>1. f \in ftp_flags' <=> e \in On(f) \/ (f \in ftp_flags /\ e \notin Off(f))
    BY CommandSteps
  <2>2. f \in ftp_flags <=> Stands(m, On(f), Off(f))
    BY DEF FtpInv, FtpStanding
  <2>3. QED
    BY <1>1, <1>2, <1>3, <2>1, <2>2, StandsAppended
<1> HIDE DEF e, m
<1>6. FtpAccepted'
  <2>1. Pending(ftp_messages', "cmdPORT") <=> cmd = "cmdPORT"
    BY <1>1, <1>2, <1>3, StandsAppended DEF Pending
  <2>2. Answered(ftp_messages', "cmdPORT", 200) <=> Answered(m, "cmdPORT", 200)
    <3>1. Answered(Append(m, e), "cmdPORT", 200) <=>
            Answered(m, "cmdPORT", 200) \/ (e \in Replies({200}) /\ Pending(m, "cmdPORT"))
      BY <1>2, <1>3, AnsweredAppended
    <3>2. e \notin Replies({200})
      BY <1>2
    <3>3. QED
      BY <1>1, <3>1, <3>2
  <2>3. WasSent(m, "cmdRNFR") => WasSent(ftp_messages', "cmdRNFR")
    BY <1>1, <1>2, <1>3, WasSentAppended
  <2>4. Stands(m, Replies({350}), {}) => Stands(ftp_messages', Replies({350}), {})
    BY <1>1, <1>2, <1>3, StandsAppended
  <2>5. (Len(ftp_messages') > 0 /\ ftp_messages'[1] \in Replies({220})) <=>
          (Len(m) > 0 /\ m[1] \in Replies({220}))
    BY <1>1, <1>2, <1>3
  <2>6. \A f \in {"port_accepted", "rnfr_accepted", "session_initialized"} :
          f \in ftp_flags' <=> f \in ftp_flags
    BY <1>1 DEF Ftp!Raised, Ftp!Lowered
  <2>7. QED
    BY <1>1, <2>1, <2>2, <2>3, <2>4, <2>5, <2>6 DEF FtpInv, FtpAccepted, m
<1>7. FtpCharged'
  <2>1. WasSent(ftp_messages', cmd) /\ \A c : WasSent(m, c) => WasSent(ftp_messages', c)
    BY <1>1, <1>2, <1>3, WasSentAppended
  <2>2. ASSUME NEW j \in Ftp!Inferable, j.evidence \in ftp_flags'
        PROVE  j.cmd = cmd \/ j.evidence \in ftp_flags
    BY <1>1, <2>2 DEF Ftp!Inferable, Ftp!Raised
  <2>3. QED
    BY <1>1, <2>1, <2>2 DEF FtpInv, FtpCharged, m
<1>8. QED
  BY <1>4, <1>5, <1>6, <1>7 DEF FtpInv

\* So does a reply, whatever command it is charged to.
LEMMA FtpReplyKeeps ==
  ASSUME FtpInv, NEW code \in Code, Ftp!BuildResponse(code)
  PROVE  FtpInv'
<1> DEFINE e == [cmd |-> "response", code |-> code, position |-> 0]
           m == ftp_messages
           cmd == Ftp!InferCommand(code)
<1>1. /\ e \in Message /\ e.cmd = "response" /\ e \notin AnyCommand
      /\ \A codes : e \in Replies(codes) <=> code \in codes
      /\ \A cmds : "response" \notin cmds => e \notin Commands(cmds)
      /\ code \in Nat
  BY AdaptersAssumption DEF Message, Replies, Commands, AnyCommand
<1>2. /\ cmd \in {"cmdNotSet", "cmdPWD", "cmdSYST", "cmdFEAT"} \/ WasSent(m, cmd)
      /\ cmd = "cmdPORT" <=> ftp_last_command = "cmdPORT"
  BY InferredWasSent DEF FtpInv
<1> HIDE DEF e, cmd
<1>3. CASE Ftp!Reinitialised(code, cmd)
  <2>1. /\ ftp_flags' = {"session_initialized"} /\ ftp_last_command' = "cmdNotSet"
        /\ ftp_sequence_number' = 1 /\ ftp_rest_position' = 0 /\ ftp_messages' = <<e>>
        /\ code = 220
    BY <1>3 DEF Ftp!BuildResponse, Ftp!Reinitialised, e, cmd
  <2>2. /\ <<e>> \in Seq(Message) /\ Len(<<e>>) = 1 /\ <<e>>[1] = e
        /\ \A i \in 1..Len(<<e>>) : i = 1 /\ <<e>>[i] = e
    BY <1>1
  <2>3. FtpHistory'
    BY <2>1, <2>2 DEF FtpHistory
  <2>4. \A A, B : Stands(<<e>>, A, B) => e \in A
    BY <2>2 DEF Stands
  <2>5. ASSUME NEW f \in Standing PROVE e \notin On(f)
    BY <1>1, <2>1 DEF On, Standing
  <2>6. FtpStanding'
    BY <2>1, <2>4, <2>5 DEF FtpStanding, Standing
  <2>7. ~Pending(<<e>>, "cmdPORT") /\ ~Answered(<<e>>, "cmdPORT", 200)
    BY <1>1, <2>2, <2>4 DEF Pending, Answered
  <2>8. FtpAccepted'
    BY <1>1, <2>1, <2>2, <2>7 DEF FtpAccepted
  <2>9. FtpCharged'
    BY <2>1 DEF FtpCharged, Ftp!Inferable
  <2>10. QED
    BY <2>3, <2>6, <2>8, <2>9 DEF FtpInv
<1>4. CASE ~Ftp!Reinitialised(code, cmd)
  <2>1. /\ ftp_messages' = Append(m, e) /\ ftp_last_command' = cmd
        /\ ftp_flags' = Ftp!AfterResponse(code, cmd)
        /\ ftp_sequence_number' = ftp_sequence_number + 1
        /\ ftp_rest_position' = ftp_rest_position
    BY <1>4 DEF Ftp!BuildResponse, e, cmd
  <2>2. /\ m \in Seq(Message) /\ Append(m, e) \in Seq(Message)
        /\ Len(m) \in Nat /\ Len(Append(m, e)) = Len(m) + 1
        /\ \A i \in 1..Len(m) : Append(m, e)[i] = m[i]
        /\ Append(m, e)[Len(m) + 1] = e /\ ftp_sequence_number = Len(m)
    BY <1>1, AppendProperties, LenProperties DEF FtpInv, FtpHistory
  <2>3. FtpHistory'
    BY <2>1, <2>2 DEF FtpInv, FtpHistory
  <2>4. FtpStanding'
    <3> SUFFICES ASSUME NEW f \in Standing
                 PROVE  f \in ftp_flags' <=> Stands(ftp_messages', On(f), Off(f))
      BY DEF FtpStanding
    <3>1. f \in ftp_flags' <=> e \in On(f) \/ (f \in ftp_flags /\ e \notin Off(f))
      BY <2>1, ReplySteps DEF e
    <3>2. f \in ftp_flags <=> Stands(m, On(f), Off(f))
      BY DEF FtpInv, FtpStanding
    <3>3. QED
      BY <1>1, <2>1, <2>2, <3>1, <3>2, StandsAppended
  <2> HIDE DEF m
  <2>5. \A c : WasSent(m, c) => WasSent(ftp_messages', c)
    BY <1>1, <2>1, <2>2, WasSentAppended
  <2>6. ftp_last_command' = "cmdPORT" <=> Pending(ftp_messages', "cmdPORT")
    <3>1. Pending(Append(m, e), "cmdPORT") <=>
            e \in Commands({"cmdPORT"}) \/ (Pending(m, "cmdPORT") /\ e \notin AnyCommand)
      BY <1>1, <2>2, StandsAppended DEF Pending
    <3>2. Pending(m, "cmdPORT") <=> ftp_last_command = "cmdPORT"
      BY DEF FtpInv, FtpAccepted, m
    <3>3. QED
      BY <1>1, <1>2, <2>1, <3>1, <3>2
  <2>7. "port_accepted" \in ftp_flags' <=> Answered(ftp_messages', "cmdPORT", 200)
    <3>1. Answered(Append(m, e), "cmdPORT", 200) <=>
            Answered(m, "cmdPORT", 200) \/ (e \in Replies({200}) /\ Pending(m, "cmdPORT"))
      BY <1>1, <2>2, AnsweredAppended
    <3>2. Pending(m, "cmdPORT") <=> cmd = "cmdPORT"
      BY <1>2 DEF FtpInv, FtpAccepted, m
    <3>3. "port_accepted" \in ftp_flags' <=>
            "port_accepted" \in ftp_flags \/ (code = 200 /\ cmd = "cmdPORT")
      BY <1>1, <2>1 DEF Ftp!AfterResponse
    <3>4. QED
      BY <1>1, <2>1, <3>1, <3>2, <3>3 DEF FtpInv, FtpAccepted, m
  <2>8. "rnfr_accepted" \in ftp_flags' =>
          WasSent(ftp_messages', "cmdRNFR") /\ Stands(ftp_messages', Replies({350}), {})
    <3>1. "rnfr_accepted" \in ftp_flags' =>
            "rnfr_accepted" \in ftp_flags \/ (code = 350 /\ cmd = "cmdRNFR")
      BY <1>1, <2>1 DEF Ftp!AfterResponse
    <3>2. Stands(Append(m, e), Replies({350}), {}) <=>
            e \in Replies({350}) \/ (Stands(m, Replies({350}), {}) /\ e \notin {})
      BY <1>1, <2>2, StandsAppended
    <3>3. QED
      BY <1>1, <1>2, <2>1, <2>5, <3>1, <3>2 DEF FtpInv, FtpAccepted, m
  <2>9. "session_initialized" \in ftp_flags' <=>
          Len(ftp_messages') > 0 /\ ftp_messages'[1] \in Replies({220})
    <3>1. "session_initialized" \in ftp_flags' <=>
            "session_initialized" \in ftp_flags \/ (code = 220 /\ ftp_sequence_number = 0)
      BY <1>1, <2>1 DEF Ftp!AfterResponse
    <3>2. "session_initialized" \in ftp_flags <=> Len(m) > 0 /\ m[1] \in Replies({220})
      BY DEF FtpInv, FtpAccepted, m
    <3>3. CASE Len(m) = 0
      BY <1>1, <2>1, <2>2, <3>1, <3>2, <3>3
    <3>4. CASE Len(m) > 0
      BY <1>1, <2>1, <2>2, <3>1, <3>2, <3>4
    <3>5. QED
      BY <2>2, <3>3, <3>4
  <2>10. FtpAccepted'
    BY <2>6, <2>7, <2>8, <2>9 DEF FtpAccepted
  <2>11. FtpCharged'
    <3>1. ASSUME NEW j \in Ftp!Inferable, j.evidence \in ftp_flags'
          PROVE  j.evidence \in ftp_flags
      <4> DEFINE E == {"reinit_sent", "user_sent", "pass_sent", "pasv_sent", "rnfr_sent",
                       "quit_sent"}
      <4>1. j.evidence \in E
        BY DEF Ftp!Inferable
      <4>2. \A f \in E : f \in ftp_flags' => f \in ftp_flags
        BY <1>1, <2>1 DEF Ftp!AfterResponse
      <4>3. QED
        BY <3>1, <4>1, <4>2
    <3>2. QED
      BY <1>2, <2>1, <2>5, <3>1 DEF FtpInv, FtpCharged, m
  <2>12. QED
    BY <2>3, <2>4, <2>10, <2>11 DEF FtpInv
<1>5. QED
  BY <1>3, <1>4

-----------------------------------------------------------------------------
(* The adapters together *)

IInv ==
  /\ protocol \in {"FTP", "DNS", "DTLS12"}
  /\ FtpInv /\ DnsInv /\ DtlsInv

\* A step that leaves the variables of an adapter alone keeps its invariant.
LEMMA Untouched ==
  /\ FtpInv /\ UNCHANGED ftpVars => FtpInv'
  /\ DnsInv /\ UNCHANGED dnsVars => DnsInv'
  /\ DtlsInv /\ UNCHANGED dtlsVars => DtlsInv'
<1>1. FtpInv /\ UNCHANGED ftpVars => FtpInv'
  BY DEF FtpInv, FtpHistory, FtpStanding, FtpAccepted, FtpCharged, Pending, Answered, Stands,
     WasSent, ftpVars
<1>2. DnsInv /\ UNCHANGED dnsVars => DnsInv'
  BY DEF DnsInv, DnsTypes, TableOf, DnsIdMatchIsRight, Dns!IdMatchIsRight, dnsVars
<1>3. DtlsInv /\ UNCHANGED dtlsVars => DtlsInv'
  BY DEF DtlsInv, DtlsFlags, DtlsNames, DtlsNamedOnceInOrder, Dtls!NamedOnceInOrder, dtlsVars
<1>4. QED
  BY <1>1, <1>2, <1>3

\* The adapters after a reset.
FtpEmpty ==
  /\ ftp_flags = {} /\ ftp_last_command = "cmdNotSet" /\ ftp_sequence_number = 0
  /\ ftp_rest_position = 0 /\ ftp_messages = << >>
DnsEmpty ==
  /\ dns_query_history = << >> /\ dns_cache_hits = 0 /\ dns_upstream_queries = 0
  /\ dns_line = Dns!NoLine /\ dns_asked = << >> /\ dns_answered = Dns!Unparsable
DtlsEmpty ==
  dtls_flags = {} /\ dtls_seen = {} /\ dtls_named = [m \in Dtls!Milestone |-> 0]

\* The state after a reset satisfies the invariant of each adapter.
LEMMA FtpFresh == FtpEmpty => FtpInv
<1> SUFFICES ASSUME FtpEmpty PROVE FtpInv
  OBVIOUS
<1> USE DEF FtpEmpty
<1>1. ftp_messages \in Seq(Message) /\ Len(ftp_messages) = 0
  OBVIOUS
<1>2. \A A, B : ~Stands(ftp_messages, A, B)
  BY <1>1 DEF Stands
<1>3. FtpHistory /\ FtpStanding
  BY <1>1, <1>2 DEF FtpHistory, FtpStanding
<1>4. FtpAccepted /\ FtpCharged
  BY <1>1, <1>2 DEF FtpAccepted, FtpCharged, Pending, Answered
<1>5. QED
  BY <1>3, <1>4 DEF FtpInv

\* An empty table is the table of no queries.
LEMMA DnsFresh == DnsEmpty => DnsInv
<1> SUFFICES ASSUME DnsEmpty PROVE DnsInv
  OBVIOUS
<1> USE DEF DnsEmpty
<1>1. TableOf(dns_query_history, dns_asked)
  <2>1. << >> \in Seq(Query) /\ Len(<< >>) = 0
    OBVIOUS
  <2>2. QED
    BY <2>1, AdaptersAssumption DEF TableOf
<1>2. DnsTypes /\ DnsIdMatchIsRight
  BY DEF DnsTypes, DnsIdMatchIsRight, Dns!IdMatchIsRight, Dns!NoLine
<1>3. QED
  BY <1>1, <1>2 DEF DnsInv

\* Before any record no flag is up and nothing was named.
LEMMA DtlsFresh == DtlsEmpty => DtlsInv
<1> SUFFICES ASSUME DtlsEmpty PROVE DtlsInv
  OBVIOUS
<1> USE DEF DtlsEmpty
<1>1. DtlsFlags
  BY DEF DtlsFlags
<1>2. \A m \in Dtls!Milestone : dtls_named[m] = 0
  OBVIOUS
<1>3. /\ Dtls!Dir \X {"ccs", "Finished"} \subseteq Dtls!Milestone
      /\ \A f \in Evidence : f[2] \in Dtls!Milestone
  BY DEF Dtls!Milestone, Dtls!Dir, Evidence
<1>4. dtls_named \in [Dtls!Milestone -> 0..2]
  OBVIOUS
<1>5. DtlsNames
  BY <1>2, <1>3, <1>4 DEF DtlsNames, DtlsNamedOnceInOrder, Dtls!NamedOnceInOrder, Dtls!Dir
<1>6. QED
  BY <1>1, <1>5 DEF DtlsInv

\* A reset, by fuzz_one or after a violation, leaves such a state.
LEMMA Reset ==
  /\ Ftp!ResetSession => FtpInv'
  /\ Dns!ResetSession => DnsInv'
  /\ Dtls!ResetSession => DtlsInv'
<1>1. (FtpEmpty' => FtpInv') /\ (DnsEmpty' => DnsInv') /\ (DtlsEmpty' => DtlsInv')
  BY FtpFresh, DnsFresh, DtlsFresh, PTL
<1>2. Ftp!ResetSession => FtpEmpty'
  BY DEF Ftp!ResetSession, FtpEmpty
<1>3. Dns!ResetSession => DnsEmpty'
  BY DEF Dns!ResetSession, DnsEmpty
<1>4. Dtls!ResetSession => DtlsEmpty'
  BY DEF Dtls!ResetSession, DtlsEmpty
<1>5. QED
  BY <1>1, <1>2, <1>3, <1>4

\* The invariants of the three adapters hold together, by induction.
LEMMA Invariance == Spec => []IInv
<1>1. Init => IInv
  BY FtpFresh, DnsFresh, DtlsFresh DEF Init, IInv, Ftp!Init, Dns!Init, Dtls!Init,
     FtpEmpty, DnsEmpty, DtlsEmpty
<1>2. ASSUME IInv, [Next]_vars PROVE IInv'
  <2> USE Untouched DEF IInv
  <2>1. CASE FtpPacket
    BY <1>2, <2>1, FtpCommandKeeps, FtpReplyKeeps DEF FtpPacket, Ftp!BuildPredLine
  <2>2. CASE DnsPacket
    BY <1>2, <2>2, DnsPacketKeeps DEF DnsPacket
  <2>3. CASE DtlsPacket
    BY <1>2, <2>3, DtlsFlagsKept, DtlsNamesKept DEF DtlsPacket, Dtls!BuildPredLine, DtlsInv
  <2>4. CASE FuzzOne
    BY <1>2, <2>4, Reset DEF FuzzOne
  <2>5. CASE Violation
    BY <1>2, <2>5, Reset DEF Violation
  <2>6. CASE UNCHANGED vars
    BY <1>2, <2>6 DEF vars
  <2>7. QED
    BY <1>2, <2>1, <2>2, <2>3, <2>4, <2>5, <2>6 DEF Next
<1>3. QED
  BY <1>1, <1>2, PTL DEF Spec

-----------------------------------------------------------------------------
(* The properties *)

\* The variables keep their types, and the table of tracked queries never outgrows
\* MAX_TRACKED_QUERIES.
THEOREM TypeCorrect == Spec => []TypeOK
<1>1. IInv => TypeOK
  <2> SUFFICES ASSUME IInv PROVE TypeOK
    OBVIOUS
  <2>1. ftp_sequence_number \in Nat /\ ftp_rest_position \in Nat
    BY LenProperties DEF IInv, FtpInv, FtpHistory
  <2>2. Dns!TypeOK
    BY DEF IInv, DnsInv, DnsTypes, TableOf, Dns!TypeOK, Query, Dns!Query
  <2>3. QED
    BY <2>1, <2>2 DEF IInv, DtlsInv, DtlsNames, TypeOK
<1>2. QED
  BY <1>1, Invariance, PTL

\* track_query keeps the latest queries of the session in order, whatever the size
\* of the table and however often it has overflowed.
THEOREM TableIsLatest == Spec => []DnsTableIsLatestQueries
<1>1. IInv => DnsTableIsLatestQueries
  <2> SUFFICES ASSUME IInv PROVE DnsTableIsLatestQueries
    OBVIOUS
  <2> DEFINE h == dns_query_history
             a == dns_asked
             M == MAX_TRACKED_QUERIES
             n == IF Len(a) < M THEN Len(a) ELSE M
             s == SubSeq(a, Len(a) - n + 1, Len(a))
  <2>1. TableOf(h, a) /\ Len(h) \in Nat /\ Len(a) \in Nat /\ M \in Nat
    BY AdaptersAssumption, LenProperties DEF IInv, DnsInv, TableOf
  <2>2. Len(h) = n
    BY <2>1 DEF TableOf
  <2>3. \A i \in Len(a) - Len(h) + 1 .. Len(a) : a[i] \in Query
    BY <2>1, ElementOfSeq DEF TableOf
  <2> DEFINE t == SubSeq(a, Len(a) - Len(h) + 1, Len(a))
  <2>4. t \in Seq(Query) /\ Len(t) = Len(h) /\ \A i \in 1..Len(h) : t[i] = h[i]
    <3>1. /\ t \in Seq(Query)
          /\ Len(t) = IF Len(a) - Len(h) + 1 <= Len(a)
                      THEN Len(a) - (Len(a) - Len(h) + 1) + 1 ELSE 0
          /\ \A i \in 1 .. Len(a) - (Len(a) - Len(h) + 1) + 1 :
               t[i] = a[Len(a) - Len(h) + 1 + i - 1]
      BY <2>1, <2>3, SubSeqProperties
    <3> HIDE DEF t
    <3>2. Len(t) = Len(h)
      BY <2>1, <3>1
    <3>3. ASSUME NEW i \in 1..Len(h) PROVE t[i] = h[i]
      <4>1. /\ i \in 1 .. Len(a) - (Len(a) - Len(h) + 1) + 1
            /\ Len(a) - Len(h) + 1 + i - 1 = Len(a) - Len(h) + i
        BY <2>1
      <4>2. QED
        BY <2>1, <3>1, <4>1 DEF TableOf
    <3>4. QED
      BY <3>1, <3>2, <3>3
  <2> HIDE DEF t
  <2>5. h = t
    BY <2>1, <2>4, SeqEqual DEF TableOf
  <2>6. QED
    BY <2>2, <2>5 DEF t, DnsTableIsLatestQueries, Dns!TableIsLatestQueries, Dns!Latest
<1>2. QED
  BY <1>1, Invariance, PTL

\* find_matching_query is right about the session: a match was asked, and what is
\* said not to match was not asked among the latest MAX_TRACKED_QUERIES queries.
THEOREM IdMatchRight == Spec => []DnsIdMatchIsRight
BY Invariance, PTL DEF IInv, DnsInv

\* The handshake flags of the DTLS adapter are about what each side itself sent.
THEOREM FlagsOfTheSender == Spec => []DtlsFlagsAreOfTheSender
<1>1. IInv => DtlsFlagsAreOfTheSender
  BY DEF IInv, DtlsInv, DtlsFlags, Evidence, DtlsFlagsAreOfTheSender,
     Dtls!FlagsAreOfTheSender, Dtls!Dir
<1>2. QED
  BY <1>1, Invariance, PTL

\* The DTLS adapter names a change cipher spec and a Finished of each side once,
\* and after what must precede them.
THEOREM NamedOnce == Spec => []DtlsNamedOnceInOrder
BY Invariance, PTL DEF IInv, DtlsInv, DtlsNames

\* A reply is charged to a command that was sent since the reset, PWD, SYST and
\* FEAT excepted.
THEOREM ChargedWasSent == Spec => []FtpChargedCommandWasSent
<1>1. IInv => FtpChargedCommandWasSent
  BY DEF IInv, FtpInv, FtpCharged, WasSent, FtpChargedCommandWasSent,
     Ftp!ChargedCommandWasSent, Ftp!Sent, Ftp!At
<1>2. QED
  BY <1>1, Invariance, PTL

\* The flags of the FTP adapter mean what their names say of the packets since the
\* reset or the accepted REIN, however many there were.
THEOREM FlagsMeanHistory == Spec => []FtpFlagsMeanHistory
<1>1. ASSUME IInv PROVE FtpFlagsMeanHistory
  <2> DEFINE m == ftp_messages
  <2>1. /\ m \in Seq(Message) /\ Len(m) \in Nat
        /\ \A i \in 1..Len(m) : m[i] \in Message
    BY <1>1, LenProperties, ElementOfSeq DEF IInv, FtpInv, FtpHistory
  <2>2. \A i \in 1..Len(m) :
          /\ \A S : Ftp!IsCode(i, S) <=> m[i] \in Replies(S)
          /\ \A S : Ftp!IsCmd(i, S) <=> m[i] \in Commands(S)
    BY <2>1 DEF Ftp!IsCode, Ftp!IsCmd, Replies, Commands
  <2>3. \A f \in Standing : f \in ftp_flags <=> Stands(m, On(f), Off(f))
    BY <1>1 DEF IInv, FtpInv, FtpStanding
  <2>4. /\ "user_logged_in" \in ftp_flags <=>
             \E i \in 1..Len(m) : /\ Ftp!IsCode(i, {230})
                                  /\ \A j \in 1..Len(m) : j > i => ~Ftp!IsCode(j, {530})
        /\ "data_connection_open" \in ftp_flags <=>
             \E i \in 1..Len(m) : /\ Ftp!IsCode(i, {150})
                                  /\ \A j \in 1..Len(m) : j > i => ~Ftp!IsCode(j, {226})
        /\ "transfer_in_progress" \in ftp_flags <=>
             \E i \in 1..Len(m) :
               /\ Ftp!IsCode(i, {150})
               /\ \A j \in 1..Len(m) :
                    j > i => ~(Ftp!IsCode(j, {226}) \/ Ftp!IsCmd(j, {"cmdABOR"}))
        /\ "port_sent" \in ftp_flags <=>
             \E i \in 1..Len(m) : /\ Ftp!IsCmd(i, {"cmdPORT"})
                                  /\ \A j \in 1..Len(m) : j > i => ~Ftp!IsCmd(j, {"cmdPASV"})
        /\ "pasv_sent" \in ftp_flags <=>
             \E i \in 1..Len(m) : /\ Ftp!IsCmd(i, {"cmdPASV"})
                                  /\ \A j \in 1..Len(m) : j > i => ~Ftp!IsCmd(j, {"cmdPORT"})
    <3>1. /\ On("user_logged_in") = Replies({230})
          /\ On("data_connection_open") = Replies({150})
          /\ On("transfer_in_progress") = Replies({150})
          /\ On("port_sent") = Commands({"cmdPORT"}) /\ On("pasv_sent") = Commands({"cmdPASV"})
      BY DEF On
    <3>2. /\ Off("user_logged_in") = Replies({530})
          /\ Off("data_connection_open") = Replies({226})
          /\ Off("transfer_in_progress") = Replies({226}) \cup Commands({"cmdABOR"})
          /\ Off("port_sent") = Commands({"cmdPASV"}) /\ Off("pasv_sent") = Commands({"cmdPORT"})
      BY DEF Off
    <3>3. {"user_logged_in", "data_connection_open", "transfer_in_progress", "port_sent",
           "pasv_sent"} \subseteq Standing
      BY DEF Standing
    <3>4. QED
      BY <2>2, <2>3, <3>1, <3>2, <3>3 DEF Stands
  <2>5. /\ "pass_sent" \in ftp_flags <=> Ftp!Sent("cmdPASS")
        /\ "login_failed" \in ftp_flags <=> Ftp!Got(530)
    BY <2>1, <2>3 DEF Standing, Stands, On, Off, Ftp!Sent, Ftp!Got, Ftp!At, Replies, Commands
  <2>6. "port_accepted" \in ftp_flags <=> Ftp!AnsweredBy("cmdPORT", 200)
    <3>1. \A i, j \in 1..Len(m) : \A k \in i + 1 .. j - 1 : k \in 1..Len(m)
      BY <2>1
    <3>2. /\ \A i \in 1..Len(m) : m[i] \in Commands({"cmdPORT"}) <=> m[i].cmd = "cmdPORT"
          /\ \A i \in 1..Len(m) : m[i] \notin AnyCommand <=> m[i].cmd = "response"
      BY <2>1 DEF Commands, AnyCommand
    <3>3. Answered(m, "cmdPORT", 200) <=> Ftp!AnsweredBy("cmdPORT", 200)
      BY <2>2, <3>1, <3>2 DEF Answered, Ftp!AnsweredBy, Ftp!At
    <3>4. QED
      BY <1>1, <3>3 DEF IInv, FtpInv, FtpAccepted
  <2>7. "rnfr_accepted" \in ftp_flags => Ftp!Sent("cmdRNFR") /\ Ftp!Got(350)
    BY <1>1, <2>1 DEF IInv, FtpInv, FtpAccepted, WasSent, Stands, Ftp!Sent, Ftp!Got, Ftp!At,
       Replies
  <2>8. "session_initialized" \in ftp_flags <=> Ftp!At # {} /\ Ftp!IsCode(1, {220})
    BY <1>1, <2>1, <2>2 DEF IInv, FtpInv, FtpAccepted, Ftp!At
  <2>9. ftp_sequence_number = Len(ftp_messages)
    BY <1>1 DEF IInv, FtpInv, FtpHistory
  <2>10. QED
    BY <2>4, <2>5, <2>6, <2>7, <2>8, <2>9
       DEF FtpFlagsMeanHistory, Ftp!FlagsMeanHistory, Ftp!LastIs, Ftp!At
<1>2. QED
  BY <1>1, Invariance, PTL
=============================================================================
