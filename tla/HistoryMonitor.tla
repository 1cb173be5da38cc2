--------------------------- MODULE HistoryMonitor ---------------------------
(***************************************************************************)
(* What the evaluator promises, without bit vectors: it remembers every     *)
(* event of the session, and its verdicts are the past-time meaning of the  *)
(* formulas at the last one.  A save remembers the events, a restore        *)
(* returns to them, a reset forgets them.                                   *)
(***************************************************************************)
EXTENDS PastLTL

CONSTANTS Event, SnapId

VARIABLES
  events,   \* the events of the session
  verdict,  \* verdict[f] after the last event; empty when there is none
  kept      \* kept[id]: {} or {the events at the last save of id}

vars == <<events, verdict, kept>>

\* The positions of h at which each node of f holds, children first.
Meaning(f, h) ==
  LET P[n \in Visited(f)] == {i \in 1..Len(h) : PastMeaning(f, n, P, i, h)}
  IN  P

Verdict(h) == [f \in Formula |-> Len(h) \in Meaning(f, h)[0]]

Init ==
  /\ events = << >>
  /\ verdict = << >>
  /\ kept = [id \in SnapId |-> {}]

Observe(e) ==
  /\ events' = Append(events, e)
  /\ verdict' = Verdict(events')
  /\ UNCHANGED kept

Reset ==
  /\ events' = << >>
  /\ verdict' = << >>
  /\ UNCHANGED kept

Save(id) ==
  /\ kept' = [kept EXCEPT ![id] = {events}]
  /\ verdict' = << >>
  /\ UNCHANGED events

Restore(id) ==
  /\ events' \in kept[id]
  /\ verdict' = << >>
  /\ UNCHANGED kept

Next ==
  \/ \E e \in Event : Observe(e)
  \/ Reset
  \/ \E id \in SnapId : Save(id)
  \/ \E id \in SnapId : Restore(id)

Spec == Init /\ [][Next]_vars
=============================================================================
