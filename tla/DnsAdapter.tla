----------------------------- MODULE DnsAdapter -----------------------------
(***************************************************************************)
(* The DNS predicate adapter (dnsmasq_predicate_adapter.c): the table of    *)
(* tracked queries against which responses are matched.                     *)
(*                                                                         *)
(* A packet is what the adapter reads of it: the id, the type of the first  *)
(* question (0 when it cannot be parsed), whether there is an answer and    *)
(* whether the response code is NOERROR; or Unparsable, when it is shorter  *)
(* than a header.  The direction comes from the caller.                     *)
(***************************************************************************)
EXTENDS Integers, Sequences

CONSTANTS
  Id,                   \* query ids explored
  Qtype,                \* types of the first question explored
  MAX_TRACKED_QUERIES,
  MaxQueries            \* bound: queries since the last reset

VARIABLES
  g_query_history,    \* the first g_query_count records of the table
  g_cache_hits,
  g_upstream_queries,
  line,               \* the predicates of the last line the state decides
  asked,              \* (history) the queries since the last reset
  answered            \* (history) the packet the last line is about

vars == <<g_query_history, g_cache_hits, g_upstream_queries, line, asked, answered>>

Query      == [id : Id, qtype : Qtype]
Response   == [id : Id, qtype : Qtype, ancount : {0, 1}, noerror : BOOLEAN]
Unparsable == [id |-> -1, qtype |-> 0]
NoLine     == [message_type |-> "messageNotSet", id_match |-> FALSE,
               cache_hit |-> FALSE, upstream_queried |-> FALSE]

-----------------------------------------------------------------------------
Init ==
  /\ g_query_history = << >>
  /\ g_cache_hits = 0
  /\ g_upstream_queries = 0
  /\ line = NoLine
  /\ asked = << >>
  /\ answered = Unparsable

\* dnsmasq_predicate_reset_session.
ResetSession ==
  /\ g_query_history' = << >>
  /\ g_cache_hits' = 0
  /\ g_upstream_queries' = 0
  /\ line' = NoLine
  /\ asked' = << >>
  /\ answered' = Unparsable

\* Changed forms of track_query: the table is taken to be full one record too
\* late, and a full table drops its newest record.
track_late(history, q) ==
  IF Len(history) > MAX_TRACKED_QUERIES
  THEN Append(SubSeq(history, 2, MAX_TRACKED_QUERIES), q)
  ELSE Append(history, q)
track_newest(history, q) ==
  IF Len(history) >= MAX_TRACKED_QUERIES
  THEN Append(SubSeq(history, 1, MAX_TRACKED_QUERIES - 1), q)
  ELSE Append(history, q)

\* A full table loses its oldest record.
track_query(history, q) ==
  IF Len(history) >= MAX_TRACKED_QUERIES
  THEN Append(SubSeq(history, 2, MAX_TRACKED_QUERIES), q)
  ELSE Append(history, q)

\* Changed form of find_matching_query: by the id alone.
find_matching_id(r) ==
  \E i \in 1..Len(g_query_history) : g_query_history[i].id = r.id

\* Records stay valid: a response does not use its query up.
find_matching_query(r) ==
  \E i \in 1..Len(g_query_history) :
    /\ g_query_history[i].id = r.id
    /\ g_query_history[i].qtype = r.qtype

\* dnsmasq_build_request_pred_line, whatever the QR bit says.
BuildRequest(q) ==
  /\ Len(asked) < MaxQueries
  /\ g_query_history' = track_query(g_query_history, q)
  /\ g_upstream_queries' = g_upstream_queries + 1
  /\ line' = [message_type |-> "query", id_match |-> FALSE, cache_hit |-> FALSE,
              upstream_queried |-> TRUE]
  /\ asked' = Append(asked, q)
  /\ answered' = Unparsable
  /\ UNCHANGED g_cache_hits

\* dnsmasq_build_response_pred_line.  Whether an answer came from the cache is
\* guessed from the id.
BuildResponse(r) ==
  LET id_match  == find_matching_query(r)
      good      == id_match /\ r.ancount > 0 /\ r.noerror
      cache_hit == good /\ r.id % 3 = 0
  IN  /\ g_cache_hits < MaxQueries
      /\ g_cache_hits' = IF cache_hit THEN g_cache_hits + 1 ELSE g_cache_hits
      /\ line' = [message_type |-> "response", id_match |-> id_match,
                  cache_hit |-> cache_hit, upstream_queried |-> good /\ ~cache_hit]
      /\ answered' = [id |-> r.id, qtype |-> r.qtype]
      /\ UNCHANGED <<g_query_history, g_upstream_queries, asked>>

\* Either builder, on fewer than 12 bytes: output_default_error.
BuildUnparsable ==
  /\ line' = NoLine
  /\ answered' = Unparsable
  /\ UNCHANGED <<g_query_history, g_cache_hits, g_upstream_queries, asked>>

\* A packet of either side.
BuildPredLine ==
  \/ \E q \in Query : BuildRequest(q)
  \/ \E r \in Response : BuildResponse(r)
  \/ BuildUnparsable

-----------------------------------------------------------------------------
(* Properties *)

\* Types; the table never holds more than MAX_TRACKED_QUERIES records.
TypeOK ==
  /\ g_query_history \in Seq(Query)
  /\ Len(g_query_history) <= MAX_TRACKED_QUERIES
  /\ g_cache_hits \in Nat
  /\ g_upstream_queries \in Nat
  /\ line.id_match \in BOOLEAN
  /\ asked \in Seq(Query)
  /\ answered \in Query \cup {Unparsable}

\* The table is the latest queries of the session, in order, and all of them
\* while there are no more than it holds: however often it has overflowed, no
\* recent query is lost and no old one is kept.
Latest(n) == SubSeq(asked, Len(asked) - n + 1, Len(asked))
TableIsLatestQueries ==
  g_query_history =
    Latest(IF Len(asked) < MAX_TRACKED_QUERIES THEN Len(asked) ELSE MAX_TRACKED_QUERIES)

\* id_match, which the formulas read, is right about the session: a response is
\* said to match only if its id and type were asked since the last reset, and
\* said not to match only if no such query is among the latest
\* MAX_TRACKED_QUERIES.
IdMatchIsRight ==
  line.message_type = "response" =>
    /\ line.id_match =>
         \E i \in 1..Len(asked) : asked[i] = answered
    /\ ~line.id_match =>
         \A i \in 1..Len(asked) :
           asked[i] = answered => i <= Len(asked) - MAX_TRACKED_QUERIES
=============================================================================
