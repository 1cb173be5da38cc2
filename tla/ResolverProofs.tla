--------------------------- MODULE ResolverProofs ---------------------------
(***************************************************************************)
(* Theorems about ResolverBridge, for any resolvers, rounds, pipe sizes and *)
(* numbers of deaths and failed starts: what a monitor judges is a suffix   *)
(* of its own resolver's rounds, and a line is lost only to a death or a     *)
(* failed start.                                                            *)
(***************************************************************************)
EXTENDS ResolverBridge, SequenceTheorems, FiniteSetTheorems, TLAPS

Line == Event \cup {End}

\* send_line is called for a resolver's own bridge while rounds are streamed,
\* end_session once for each bridge after the last round.
Calls ==
  /\ phase \in {"test", "auth", "stream"} => round < Rounds
  /\ phase \in {"test", "auth", "terminate", "done", "raised"} => call = Idle
  /\ call # Idle /\ phase = "stream" =>
       call.line \in Event /\ call.line[1] = call.bridge
  /\ call # Idle /\ phase = "end" => call.line = End /\ call.bridge \notin todo

\* The end of the session is the last line a monitor is ever sent.
EndIsLast ==
  \A b \in Resolvers : \A i \in 1..Len(pipe[b]) :
    pipe[b][i] = End =>
      /\ i = Len(pipe[b])
      /\ phase \in {"end", "terminate", "done"}
      /\ phase = "end" => b \notin todo
      /\ call # Idle => call.bridge # b

\* A call whose monitor is gone will lose its line: the death or the failed start
\* is already counted.
Doomed == IF call.step \in {"check", "write"} /\ st[call.bridge] # "up" THEN 1 ELSE 0

Counted == IsFiniteSet(Lost) /\ Cardinality(Lost) + Doomed <= deaths + failures

IInv == TypeOK /\ Calls /\ EndIsLast /\ PastIsSuffixOfOwnRounds /\ Counted

-----------------------------------------------------------------------------
(* Sequences *)

\* Reverse, element by element.
LEMMA ReverseElements ==
  ASSUME NEW S, NEW s \in Seq(S)
  PROVE  /\ Reverse(s) \in Seq(S) /\ Len(Reverse(s)) = Len(s)
         /\ \A i \in 1..Len(s) : Reverse(s)[i] = s[Len(s) - i + 1]
<1>1. Len(s) \in Nat /\ \A i \in 1..Len(s) : Len(s) - i + 1 \in 1..Len(s)
  BY LenProperties
<1>2. \A i \in 1..Len(s) : s[Len(s) - i + 1] \in S
  BY <1>1, ElementOfSeq
<1>3. QED
  BY <1>1, <1>2 DEF Reverse

\* IsSuffix, element by element.
LEMMA SuffixElements ==
  ASSUME NEW S, NEW s \in Seq(S), NEW t \in Seq(S)
  PROVE  IsSuffix(s, t) <=> /\ Len(s) <= Len(t)
                            /\ \A i \in 1..Len(s) : s[i] = t[Len(t) - Len(s) + i]
<1> DEFINE u == Reverse(s)
           v == Reverse(t)
           w == SubSeq(v, 1, Len(s))
<1>1. /\ u \in Seq(S) /\ Len(u) = Len(s) /\ \A i \in 1..Len(s) : u[i] = s[Len(s) - i + 1]
      /\ v \in Seq(S) /\ Len(v) = Len(t) /\ \A i \in 1..Len(t) : v[i] = t[Len(t) - i + 1]
      /\ Len(s) \in Nat /\ Len(t) \in Nat
  BY ReverseElements, LenProperties
<1> HIDE DEF u, v
<1>2. SubSeq(u, 1, Len(u)) = u
  BY <1>1, SubSeqFull
<1>3. ASSUME Len(s) <= Len(t)
      PROVE  w \in Seq(S) /\ Len(w) = Len(s) /\ \A i \in 1..Len(s) : w[i] = v[i]
  <2>1. \A i \in 1..Len(s) : v[i] \in S
    BY <1>1, <1>3, ElementOfSeq
  <2>2. /\ w \in Seq(S) /\ Len(w) = IF 1 <= Len(s) THEN Len(s) - 1 + 1 ELSE 0
        /\ \A i \in 1 .. Len(s) - 1 + 1 : w[i] = v[1 + i - 1]
    BY <1>1, <2>1, SubSeqProperties
  <2> HIDE DEF w
  <2>3. QED
    BY <1>1, <2>2
<1> HIDE DEF w
<1>4. IsSuffix(s, t) <=> Len(s) <= Len(t) /\ u = w
  BY <1>1, <1>2 DEF IsSuffix, IsPrefix, u, v, w
<1>5. ASSUME Len(s) <= Len(t) PROVE u = w <=> \A i \in 1..Len(s) : u[i] = v[i]
  BY <1>1, <1>3, <1>5, SeqEqual
<1>6. ASSUME Len(s) <= Len(t)
      PROVE  (\A i \in 1..Len(s) : u[i] = v[i]) <=>
             \A i \in 1..Len(s) : s[i] = t[Len(t) - Len(s) + i]
  <2>1. ASSUME NEW i \in 1..Len(s)
        PROVE  /\ Len(s) - i + 1 \in 1..Len(s) /\ Len(s) - (Len(s) - i + 1) + 1 = i
               /\ Len(t) - (Len(s) - i + 1) + 1 = Len(t) - Len(s) + i
               /\ Len(t) - Len(s) + (Len(s) - i + 1) = Len(t) - i + 1
               /\ i \in 1..Len(t)
    BY <1>1, <1>6
  <2>2. ASSUME \A i \in 1..Len(s) : u[i] = v[i], NEW i \in 1..Len(s)
        PROVE  s[i] = t[Len(t) - Len(s) + i]
    <3> DEFINE j == Len(s) - i + 1
    <3>1. /\ j \in 1..Len(s) /\ j \in 1..Len(t)
          /\ Len(s) - j + 1 = i /\ Len(t) - j + 1 = Len(t) - Len(s) + i
      BY <2>1
    <3> HIDE DEF j
    <3>2. u[j] = s[i] /\ v[j] = t[Len(t) - Len(s) + i]
      BY <1>1, <3>1
    <3>3. QED
      BY <2>2, <3>1, <3>2
  <2>3. ASSUME \A i \in 1..Len(s) : s[i] = t[Len(t) - Len(s) + i], NEW i \in 1..Len(s)
        PROVE  u[i] = v[i]
    <3> DEFINE j == Len(s) - i + 1
    <3>1. j \in 1..Len(s) /\ i \in 1..Len(t) /\ Len(t) - Len(s) + j = Len(t) - i + 1
      BY <2>1
    <3>2. u[i] = s[j] /\ v[i] = t[Len(t) - i + 1]
      BY <1>1, <3>1
    <3> HIDE DEF j
    <3>3. QED
      BY <2>3, <3>1, <3>2
  <2>4. QED
    BY <2>2, <2>3
<1>7. QED
  BY <1>4, <1>5, <1>6

\* A monitor that has judged and holds nothing is a suffix of anything.
LEMMA EmptyIsSuffix ==
  ASSUME NEW S, NEW t \in Seq(S) PROVE IsSuffix(<< >> \o << >>, t)
<1> DEFINE s == << >> \o << >>
<1>1. s \in Seq(S) /\ Len(s) = 0 /\ Len(t) \in Nat
  BY EmptySeq, ConcatProperties, LenProperties
<1> HIDE DEF s
<1>2. Len(s) <= Len(t) /\ \A i \in 1..Len(s) : s[i] = t[Len(t) - Len(s) + i]
  BY <1>1
<1>3. IsSuffix(s, t)
  BY <1>1, <1>2, SuffixElements
<1>4. QED
  BY <1>3 DEF s

\* The same line at the end of what a monitor has and of what was offered.
LEMMA SuffixAppended ==
  ASSUME NEW S, NEW p \in Seq(S), NEW q \in Seq(S), NEW t \in Seq(S), NEW e \in S,
         IsSuffix(p \o q, t)
  PROVE  IsSuffix(p \o Append(q, e), Append(t, e))
<1> DEFINE s == p \o q
           u == p \o Append(q, e)
           v == Append(t, e)
<1>1. /\ Len(p) \in Nat /\ Len(q) \in Nat /\ Len(t) \in Nat
      /\ s \in Seq(S) /\ Len(s) = Len(p) + Len(q)
      /\ Append(q, e) \in Seq(S) /\ Len(Append(q, e)) = Len(q) + 1
      /\ v \in Seq(S) /\ Len(v) = Len(t) + 1
  BY LenProperties, ConcatProperties, AppendProperties
<1>2. u \in Seq(S) /\ Len(u) = Len(s) + 1
  <2>1. u \in Seq(S) /\ Len(u) = Len(p) + Len(Append(q, e))
    BY <1>1, ConcatProperties
  <2>2. QED
    BY <1>1, <2>1
<1>3. u = s \o <<e>>
  <2>1. Append(q, e) = q \o <<e>> /\ <<e>> \in Seq(S)
    BY AppendIsConcat
  <2>2. QED
    BY <2>1, ConcatAssociative
<1>4. \A i \in 1..Len(s) : u[i] = s[i]
  BY <1>1, <1>3
<1>5. u[Len(s) + 1] = e
  BY <1>1, <1>3
<1>6. v[Len(t) + 1] = e /\ \A i \in 1..Len(t) : v[i] = t[i]
  BY AppendProperties
<1>7. Len(s) <= Len(t) /\ \A i \in 1..Len(s) : s[i] = t[Len(t) - Len(s) + i]
  BY <1>1, SuffixElements
<1> HIDE DEF s, u, v
<1>8. Len(s) \in Nat /\ Len(v) - Len(u) = Len(t) - Len(s) /\ Len(u) <= Len(v)
  BY <1>1, <1>2, <1>7
<1>9. \A i \in 1..Len(u) : u[i] = v[Len(v) - Len(u) + i]
  <2> SUFFICES ASSUME NEW i \in 1..Len(u) PROVE u[i] = v[Len(t) - Len(s) + i]
    BY <1>8
  <2>1. CASE i = Len(s) + 1
    <3>1. Len(t) - Len(s) + i = Len(t) + 1
      BY <1>1, <1>8, <2>1
    <3>2. QED
      BY <1>5, <1>6, <2>1, <3>1
  <2>2. CASE i # Len(s) + 1
    <3>1. i \in 1..Len(s) /\ Len(t) - Len(s) + i \in 1..Len(t)
      BY <1>1, <1>2, <1>7, <1>8, <2>2
    <3>2. QED
      BY <1>4, <1>6, <1>7, <3>1
  <2>3. QED
    BY <2>1, <2>2
<1>10. IsSuffix(u, v)
  <2>1. u \in Seq(S) /\ v \in Seq(S)
    BY <1>1, <1>2
  <2>2. QED
    BY <1>8, <1>9, <2>1, SuffixElements
<1>11. QED
  BY <1>10 DEF u, v

\* A line goes from the pipe to what was judged.
LEMMA ReadKeeps ==
  ASSUME NEW S, NEW p \in Seq(S), NEW q \in Seq(S), q # << >>
  PROVE  Append(p, Head(q)) \o Tail(q) = p \o q
<1>1. /\ Head(q) \in S /\ Tail(q) \in Seq(S)
  BY HeadTailProperties
<1>2. Append(p, Head(q)) = p \o <<Head(q)>> /\ <<Head(q)>> \in Seq(S)
  BY <1>1, AppendIsConcat
<1>3. <<Head(q)>> \o Tail(q) = q
  BY <1>1
<1>4. QED
  BY <1>1, <1>2, <1>3, ConcatAssociative

\* Appending a line adds it to the lines there are.
LEMMA RangeAppended ==
  ASSUME NEW S, NEW s \in Seq(S), NEW e \in S
  PROVE  Range(Append(s, e)) = Range(s) \cup {e}
<1> DEFINE t == Append(s, e)
<1>1. /\ DOMAIN s = 1..Len(s) /\ Len(s) \in Nat
      /\ DOMAIN t = 1..(Len(s) + 1) /\ t[Len(s) + 1] = e /\ \A i \in 1..Len(s) : t[i] = s[i]
  BY AppendProperties, LenProperties
<1> HIDE DEF t
<1>2. 1..(Len(s) + 1) = (1..Len(s)) \cup {Len(s) + 1}
  BY <1>1
<1>3. Range(t) = Range(s) \cup {e}
  BY <1>1, <1>2 DEF Range
<1>4. QED
  BY <1>3 DEF t

-----------------------------------------------------------------------------
(* The state *)

\* An event line is not the end-of-session line, and names its resolver.
LEMMA EventIsNoEnd ==
  \A e \in Event : e # End /\ e[1] \in Resolvers
BY DEF Event, End

\* What is known of a call in progress.
LEMMA CallFields ==
  ASSUME TypeOK
  PROVE  /\ call = Idle => call.step = "idle"
         /\ call # Idle => /\ call.step \in {"ensure", "check", "write"}
                           /\ call.line \in Line /\ call.bridge \in Resolvers
         /\ call.step \in {"ensure", "check", "write"} => call # Idle
BY DEF TypeOK, Idle, Line

\* A monitor is started with an empty pipe and nothing judged, or is not there.
LEMMA Started ==
  ASSUME TypeOK, NEW b \in Resolvers, StartProc(b)
  PROVE  /\ st' \in [Resolvers -> {"none", "up", "exited"}]
         /\ pipe' \in [Resolvers -> Seq(Line)]
         /\ past' \in [Resolvers -> Seq(Event)]
         /\ failures' \in 0..MaxFailures /\ failures <= failures'
         /\ \A c \in Resolvers \ {b} :
              st'[c] = st[c] /\ pipe'[c] = pipe[c] /\ past'[c] = past[c]
         /\ st'[b] = "up" => pipe'[b] = << >> /\ past'[b] = << >>
         /\ st'[b] # "up" => failures' = failures + 1
         /\ pipe'[b] = << >> \/ pipe'[b] = pipe[b]
<1>1. << >> \in Seq(Line) /\ << >> \in Seq(Event)
  BY EmptySeq
<1>2. CASE /\ st' = [st EXCEPT ![b] = "up"]
           /\ pipe' = [pipe EXCEPT ![b] = << >>]
           /\ past' = [past EXCEPT ![b] = << >>]
           /\ UNCHANGED failures
  BY <1>1, <1>2, ResolverAssumption DEF TypeOK, Line
<1>3. CASE /\ failures < MaxFailures
           /\ failures' = failures + 1
           /\ st' = [st EXCEPT ![b] = "none"]
           /\ UNCHANGED <<pipe, past>>
  BY <1>3, ResolverAssumption DEF TypeOK, Line
<1>4. QED
  BY <1>2, <1>3 DEF StartProc

\* What a call leaves behind when it returns.
LEMMA Returned ==
  ASSUME TypeOK, call # Idle, NEW w \in BOOLEAN, Return(w)
  PROVE  /\ call' = Idle
         /\ offered' \in [Resolvers -> Seq(Event)]
         /\ sent' \in [Resolvers -> Seq(Event)]
         /\ \A c \in Resolvers : (call.line = End \/ call.line[1] # c) => offered'[c] = offered[c]
         /\ call.line \in Event =>
              offered'[call.line[1]] = Append(offered[call.line[1]], call.line)
         /\ IF w THEN Lost' \subseteq Lost ELSE Lost' \subseteq Lost \cup ({call.line} \cap Event)
<1> DEFINE e == call.line
           r == e[1]
<1>1. e \in Event \cup {End}
  BY CallFields DEF Line
<1>2. CASE e = End
  <2>1. UNCHANGED <<offered, sent>> /\ call' = Idle
    BY <1>2 DEF Return
  <2>2. e \notin Event
    BY <1>2, EventIsNoEnd
  <2>3. Lost' = Lost
    BY <2>1 DEF Lost
  <2>4. QED
    BY <1>2, <2>1, <2>2, <2>3 DEF TypeOK
<1>3. CASE e \in Event
  <2>1. e # End /\ r \in Resolvers
    BY <1>3, EventIsNoEnd
  <2>2. /\ call' = Idle
        /\ offered' = [offered EXCEPT ![r] = Append(@, e)]
        /\ sent' = IF w THEN [sent EXCEPT ![r] = Append(@, e)] ELSE sent
    BY <2>1 DEF Return
  <2>3. offered[r] \in Seq(Event) /\ sent[r] \in Seq(Event)
    BY <2>1 DEF TypeOK
  <2>4. Append(offered[r], e) \in Seq(Event) /\ Append(sent[r], e) \in Seq(Event)
    BY <1>3, <2>3, AppendProperties
  <2>5. /\ Range(Append(offered[r], e)) = Range(offered[r]) \cup {e}
        /\ Range(Append(sent[r], e)) = Range(sent[r]) \cup {e}
    BY <1>3, <2>3, RangeAppended
  <2> HIDE DEF e, r
  <2>6. /\ offered' \in [Resolvers -> Seq(Event)]
        /\ offered'[r] = Append(offered[r], e)
        /\ \A c \in Resolvers \ {r} : offered'[c] = offered[c]
    BY <2>1, <2>2, <2>4 DEF TypeOK
  <2>7. /\ sent' \in [Resolvers -> Seq(Event)]
        /\ sent'[r] = IF w THEN Append(sent[r], e) ELSE sent[r]
        /\ \A c \in Resolvers \ {r} : sent'[c] = sent[c]
    BY <2>1, <2>2, <2>4 DEF TypeOK
  <2>8. ASSUME NEW d \in Lost' PROVE d \in Lost \/ (d = e /\ ~w)
    <3>1. /\ d \in Event /\ d[1] \in Resolvers
          /\ d \in Range(offered'[d[1]]) /\ d \notin Range(sent'[d[1]])
      BY <2>8, EventIsNoEnd DEF Lost
    <3>2. CASE d[1] # r
      BY <2>6, <2>7, <3>1, <3>2 DEF Lost
    <3>3. CASE d[1] = r /\ w
      <4>1. d # e /\ d \notin Range(sent[r]) /\ d \in Range(offered[r])
        BY <2>5, <2>6, <2>7, <3>1, <3>3
      <4>2. QED
        BY <3>1, <3>3, <4>1 DEF Lost
    <3>4. CASE d[1] = r /\ ~w
      <4>1. d \notin Range(sent[r]) /\ (d = e \/ d \in Range(offered[r]))
        BY <2>5, <2>6, <2>7, <3>1, <3>4
      <4>2. QED
        BY <3>1, <3>4, <4>1 DEF Lost
    <3>5. QED
      BY <3>2, <3>3, <3>4
  <2>9. call.line = e /\ call.line[1] = r
    BY DEF e, r
  <2>10. QED
    BY <1>3, <2>1, <2>2, <2>6, <2>7, <2>8, <2>9
<1>4. QED
  BY <1>1, <1>2, <1>3

-----------------------------------------------------------------------------
(* One lemma for each part of the invariant *)

\* A step keeps the types.
LEMMA TypesKept ==
  ASSUME TypeOK, Calls, [Next]_vars PROVE TypeOK'
<1> USE ResolverAssumption
<1>1. CASE TestNextPayload
  BY <1>1 DEF TypeOK, TestNextPayload
<1>2. CASE StreamNext
  <2>1. PICK r \in todo :
          /\ todo' = todo \ {r}
          /\ call' = [step |-> "ensure", line |-> <<r, round>>, bridge |-> r]
          /\ bridges' = bridges \cup {r}
          /\ IF r \in bridges THEN UNCHANGED <<st, pipe, past, failures>> ELSE StartProc(r)
    BY <1>2 DEF StreamNext, BridgeFor
  <2>2. phase = "stream" /\ UNCHANGED <<phase, round, deaths, offered, sent>>
    BY <1>2 DEF StreamNext
  <2>3. r \in Resolvers /\ <<r, round>> \in Event
    BY <2>2 DEF TypeOK, Calls, Event
  <2>4. /\ st' \in [Resolvers -> {"none", "up", "exited"}]
        /\ pipe' \in [Resolvers -> Seq(Event \cup {End})]
        /\ past' \in [Resolvers -> Seq(Event)]
        /\ failures' \in 0..MaxFailures
    <3>1. CASE r \in bridges
      BY <2>1, <3>1 DEF TypeOK
    <3>2. CASE r \notin bridges
      BY <2>1, <2>3, <3>2, Started DEF Line
    <3>3. QED
      BY <3>1, <3>2
  <2>5. QED
    BY <2>1, <2>2, <2>3, <2>4 DEF TypeOK
<1>3. CASE BuildFails
  BY <1>3 DEF TypeOK, BuildFails
<1>4. CASE RoundDone
  BY <1>4 DEF TypeOK, Calls, RoundDone
<1>5. CASE EndNext
  BY <1>5 DEF TypeOK, EndNext
<1>6. CASE EndDone
  BY <1>6 DEF TypeOK, EndDone
<1>7. CASE Terminate
  BY <1>7 DEF TypeOK, Terminate
<1>8. CASE TerminateDone
  BY <1>8 DEF TypeOK, TerminateDone
<1>9. CASE EnsureProc
  <2>1. call.bridge \in Resolvers /\ call # Idle
    BY <1>9, CallFields DEF EnsureProc
  <2>2. /\ st' \in [Resolvers -> {"none", "up", "exited"}]
        /\ pipe' \in [Resolvers -> Seq(Event \cup {End})]
        /\ past' \in [Resolvers -> Seq(Event)]
        /\ failures' \in 0..MaxFailures
    <3>1. CASE st[call.bridge] = "up"
      BY <1>9, <3>1 DEF TypeOK, EnsureProc
    <3>2. CASE st[call.bridge] # "up"
      BY <1>9, <2>1, <3>2, Started DEF EnsureProc, Line
    <3>3. QED
      BY <3>1, <3>2
  <2>3. QED
    BY <1>9, <2>1, <2>2 DEF TypeOK, EnsureProc
<1>10. CASE IsBroken
  <2>1. call # Idle
    BY <1>10, CallFields DEF IsBroken
  <2>2. CASE st[call.bridge] = "up"
    <3>1. /\ call' = [call EXCEPT !.step = "write"]
          /\ UNCHANGED <<phase, round, todo, bridges, st, pipe, past, deaths, failures, offered, sent>>
      BY <1>10, <2>2 DEF IsBroken
    <3>2. call' \in [step : {"ensure", "check", "write"}, line : Event \cup {End}, bridge : Resolvers]
      BY <2>1, <3>1 DEF TypeOK
    <3>3. QED
      BY <3>1, <3>2 DEF TypeOK
  <2>3. CASE st[call.bridge] # "up"
    <3>1. Return(FALSE) /\ UNCHANGED <<phase, round, todo, bridges, st, pipe, past, deaths, failures>>
      BY <1>10, <2>3 DEF IsBroken
    <3>2. QED
      BY <2>1, <3>1, Returned DEF TypeOK
  <2>4. QED
    BY <2>2, <2>3
<1>11. CASE WriteLine
  <2>1. call # Idle /\ call.bridge \in Resolvers /\ call.line \in Event \cup {End}
    BY <1>11, CallFields DEF WriteLine, Line
  <2>2. /\ Return(TRUE) /\ UNCHANGED <<phase, round, todo, bridges, st, past, deaths, failures>>
        /\ pipe' = [pipe EXCEPT ![call.bridge] = Append(@, call.line)]
    BY <1>11 DEF WriteLine
  <2>3. Append(pipe[call.bridge], call.line) \in Seq(Event \cup {End})
    BY <2>1, AppendProperties DEF TypeOK
  <2>4. pipe' \in [Resolvers -> Seq(Event \cup {End})]
    BY <2>1, <2>2, <2>3 DEF TypeOK
  <2>5. QED
    BY <2>1, <2>2, <2>4, Returned DEF TypeOK
<1>12. CASE WriteFails
  <2>1. call # Idle /\ call.bridge \in Resolvers
    BY <1>12, CallFields DEF WriteFails
  <2>2. /\ StartProc(call.bridge) /\ Return(FALSE)
        /\ UNCHANGED <<phase, round, todo, bridges, deaths>>
    BY <1>12 DEF WriteFails
  <2>3. QED
    BY <2>1, <2>2, Started, Returned DEF TypeOK, Line
<1>13. ASSUME NEW b \in Resolvers, MonitorReads(b) PROVE TypeOK'
  <2>1. pipe[b] \in Seq(Event \cup {End}) /\ past[b] \in Seq(Event) /\ pipe[b] # << >>
    BY <1>13 DEF TypeOK, MonitorReads
  <2>2. Head(pipe[b]) \in Event \cup {End} /\ Tail(pipe[b]) \in Seq(Event \cup {End})
    BY <2>1, HeadTailProperties
  <2> DEFINE p == IF Head(pipe[b]) = End THEN << >> ELSE Append(past[b], Head(pipe[b]))
  <2>3. p \in Seq(Event)
    BY <2>1, <2>2, EmptySeq, AppendProperties
  <2>4. /\ pipe' = [pipe EXCEPT ![b] = Tail(pipe[b])] /\ past' = [past EXCEPT ![b] = p]
        /\ UNCHANGED <<phase, round, todo, call, bridges, st, deaths, failures, offered, sent>>
    BY <1>13 DEF MonitorReads, driver
  <2> HIDE DEF p
  <2>5. QED
    BY <2>2, <2>3, <2>4 DEF TypeOK
<1>14. ASSUME NEW b \in Resolvers, MonitorDies(b) PROVE TypeOK'
  BY <1>14 DEF TypeOK, MonitorDies, driver
<1>15. CASE UNCHANGED vars
  BY <1>15 DEF TypeOK, vars
<1>16. CASE AuthSrvFails
  BY <1>16 DEF TypeOK, AuthSrvFails
<1>17. CASE AuthSrvStarts
  BY <1>17 DEF TypeOK, AuthSrvStarts
<1>18. CASE UnitRaises
  BY <1>18 DEF TypeOK, UnitRaises
<1>19. ASSUME NEW b \in Resolvers, MonitorEof(b) PROVE TypeOK'
  BY <1>19 DEF TypeOK, MonitorEof, driver
<1>20. QED
  BY <1>1, <1>2, <1>3, <1>4, <1>5, <1>6, <1>7, <1>8, <1>9, <1>10, <1>11, <1>12,
     <1>13, <1>14, <1>15, <1>16, <1>17, <1>18, <1>19 DEF Next, Driver

\* A step keeps Calls.
LEMMA CallsKept ==
  ASSUME TypeOK, Calls, [Next]_vars PROVE Calls'
<1> USE ResolverAssumption
<1>1. CASE TestNextPayload
  BY <1>1 DEF Calls, TestNextPayload
<1>2. CASE StreamNext
  <2>1. PICK r \in todo :
          /\ call' = [step |-> "ensure", line |-> <<r, round>>, bridge |-> r]
          /\ phase = "stream" /\ UNCHANGED <<phase, round>>
    BY <1>2 DEF StreamNext, BridgeFor
  <2>2. <<r, round>> \in Event
    BY <2>1 DEF TypeOK, Calls, Event
  <2>3. QED
    BY <2>1, <2>2 DEF Calls
<1>3. CASE BuildFails
  BY <1>3 DEF Calls, BuildFails
<1>4. CASE RoundDone
  BY <1>4 DEF TypeOK, Calls, RoundDone
<1>5. CASE EndNext
  BY <1>5 DEF Calls, EndNext
<1>6. CASE EndDone
  BY <1>6 DEF Calls, EndDone
<1>7. CASE Terminate
  BY <1>7 DEF Calls, Terminate
<1>8. CASE TerminateDone
  BY <1>8 DEF Calls, TerminateDone
<1>9. CASE EnsureProc
  <2>1. /\ call # Idle /\ UNCHANGED <<phase, round, todo>>
        /\ call' = [call EXCEPT !.step = "check"]
    BY <1>9, CallFields DEF EnsureProc
  <2>2. call'.line = call.line /\ call'.bridge = call.bridge
    BY <2>1 DEF TypeOK
  <2>3. QED
    BY <2>1, <2>2 DEF Calls
<1>10. CASE IsBroken
  <2>1. call # Idle /\ UNCHANGED <<phase, round, todo>>
    BY <1>10, CallFields DEF IsBroken
  <2>2. CASE call' = [call EXCEPT !.step = "write"]
    <3>1. call'.line = call.line /\ call'.bridge = call.bridge
      BY <2>1, <2>2 DEF TypeOK
    <3>2. QED
      BY <2>1, <3>1 DEF Calls
  <2>3. CASE call' = Idle
    BY <2>1, <2>3 DEF Calls
  <2>4. QED
    BY <1>10, <2>2, <2>3 DEF IsBroken, Return
<1>11. CASE WriteLine
  BY <1>11 DEF Calls, WriteLine, Return
<1>12. CASE WriteFails
  BY <1>12 DEF Calls, WriteFails, Return
<1>13. ASSUME NEW b \in Resolvers, MonitorReads(b) \/ MonitorEof(b) \/ MonitorDies(b) PROVE Calls'
  BY <1>13 DEF Calls, MonitorReads, MonitorEof, MonitorDies, driver
<1>14. CASE UNCHANGED vars
  BY <1>14 DEF Calls, vars
<1>15. CASE AuthSrvFails
  BY <1>15 DEF Calls, AuthSrvFails
<1>16. CASE AuthSrvStarts
  BY <1>16 DEF Calls, AuthSrvStarts
<1>17. CASE UnitRaises
  BY <1>17 DEF Calls, UnitRaises
<1>18. QED
  BY <1>1, <1>2, <1>3, <1>4, <1>5, <1>6, <1>7, <1>8, <1>9, <1>10, <1>11, <1>12,
     <1>13, <1>14, <1>15, <1>16, <1>17 DEF Next, Driver

\* A step keeps EndIsLast.
LEMMA EndIsLastKept ==
  ASSUME TypeOK, Calls, EndIsLast, [Next]_vars PROVE EndIsLast'
<1>1. CASE TestNextPayload
  BY <1>1 DEF EndIsLast, TestNextPayload
<1>2. CASE StreamNext
  <2>1. PICK r \in todo :
          IF r \in bridges THEN UNCHANGED <<st, pipe, past, failures>> ELSE StartProc(r)
    BY <1>2 DEF StreamNext, BridgeFor
  <2>2. r \in Resolvers /\ phase = "stream"
    BY <1>2 DEF StreamNext, TypeOK
  <2>3. \A c \in Resolvers : pipe'[c] = << >> \/ pipe'[c] = pipe[c]
    BY <2>1, <2>2, Started
  <2>4. \A c \in Resolvers : \A i \in 1..Len(pipe[c]) : pipe[c][i] # End
    BY <2>2 DEF EndIsLast
  <2>5. \A c \in Resolvers : \A i \in 1..Len(pipe'[c]) : pipe'[c][i] # End
    BY <2>3, <2>4, EmptySeq
  <2>6. QED
    BY <2>5 DEF EndIsLast
<1>3. CASE BuildFails
  BY <1>3 DEF EndIsLast, BuildFails
<1>4. CASE RoundDone
  BY <1>4 DEF EndIsLast, RoundDone
<1>5. CASE EndNext
  <2>1. PICK b \in todo : /\ todo' = todo \ {b}
                          /\ call' = [step |-> "ensure", line |-> End, bridge |-> b]
    BY <1>5 DEF EndNext
  <2>2. call'.bridge = b /\ phase = "end" /\ UNCHANGED <<phase, pipe>>
    BY <1>5, <2>1 DEF EndNext
  <2>3. QED
    BY <2>1, <2>2 DEF EndIsLast
<1>6. CASE EndDone
  BY <1>6 DEF EndIsLast, EndDone
<1>7. CASE Terminate
  BY <1>7 DEF EndIsLast, Terminate
<1>8. CASE TerminateDone
  BY <1>8 DEF EndIsLast, TerminateDone
<1>9. CASE EnsureProc
  <2>1. /\ call # Idle /\ call.bridge \in Resolvers /\ UNCHANGED <<phase, todo>>
        /\ call' = [call EXCEPT !.step = "check"]
        /\ IF st[call.bridge] = "up" THEN UNCHANGED <<st, pipe, past, failures>>
                                     ELSE StartProc(call.bridge)
    BY <1>9, CallFields DEF EnsureProc
  <2>2. call'.bridge = call.bridge
    BY <2>1 DEF TypeOK
  <2>3. \A c \in Resolvers : pipe'[c] = << >> \/ pipe'[c] = pipe[c]
    BY <2>1, Started
  <2>4. ASSUME NEW c \in Resolvers, NEW i \in 1..Len(pipe'[c]), pipe'[c][i] = End
        PROVE  i \in 1..Len(pipe[c]) /\ pipe'[c] = pipe[c]
    BY <2>3, <2>4, EmptySeq
  <2>5. QED
    BY <2>1, <2>2, <2>4 DEF EndIsLast
<1>10. CASE IsBroken
  <2>1. call # Idle /\ UNCHANGED <<phase, todo, pipe>>
    BY <1>10, CallFields DEF IsBroken
  <2>2. CASE call' = [call EXCEPT !.step = "write"]
    <3>1. call'.bridge = call.bridge
      BY <2>1, <2>2 DEF TypeOK
    <3>2. QED
      BY <2>1, <3>1 DEF EndIsLast
  <2>3. CASE call' = Idle
    BY <2>1, <2>3 DEF EndIsLast
  <2>4. QED
    BY <1>10, <2>2, <2>3 DEF IsBroken, Return
<1>11. CASE WriteLine
  <2> DEFINE b == call.bridge
             e == call.line
  <2>1. call # Idle /\ b \in Resolvers /\ e \in Line
    BY <1>11, CallFields DEF WriteLine
  <2>2. /\ call' = Idle /\ UNCHANGED <<phase, todo>>
        /\ pipe' = [pipe EXCEPT ![b] = Append(@, e)]
    BY <1>11 DEF WriteLine, Return
  <2>3. e = End => phase = "end" /\ b \notin todo
    BY <2>1, EventIsNoEnd DEF TypeOK, Calls
  <2>4. pipe[b] \in Seq(Line)
    BY <2>1 DEF TypeOK, Line
  <2>5. \A i \in 1..Len(pipe[b]) : pipe[b][i] # End
    BY <2>1 DEF EndIsLast
  <2> DEFINE t == Append(pipe[b], e)
  <2>6. /\ Len(pipe[b]) \in Nat /\ Len(t) = Len(pipe[b]) + 1
        /\ \A i \in 1..Len(pipe[b]) : t[i] = pipe[b][i]
        /\ t[Len(pipe[b]) + 1] = e
    BY <2>1, <2>4, AppendProperties, LenProperties
  <2> HIDE DEF t
  <2>7. ASSUME NEW i \in 1..Len(t), t[i] = End PROVE i = Len(t) /\ e = End
    <3>1. CASE i = Len(pipe[b]) + 1
      BY <2>6, <2>7, <3>1
    <3>2. CASE i # Len(pipe[b]) + 1
      <4>1. i \in 1..Len(pipe[b])
        BY <2>6, <3>2
      <4>2. QED
        BY <2>5, <2>6, <2>7, <4>1
    <3>3. QED
      BY <3>1, <3>2
  <2> HIDE DEF b, e
  <2>8. pipe'[b] = t /\ \A c \in Resolvers \ {b} : pipe'[c] = pipe[c]
    BY <2>1, <2>2 DEF TypeOK, t
  <2>9. ASSUME NEW c \in Resolvers, NEW i \in 1..Len(pipe'[c]), pipe'[c][i] = End
        PROVE  /\ i = Len(pipe'[c])
               /\ phase' \in {"end", "terminate", "done"}
               /\ phase' = "end" => c \notin todo'
    <3>1. CASE c = b
      BY <2>2, <2>3, <2>7, <2>8, <2>9, <3>1
    <3>2. CASE c # b
      BY <2>2, <2>8, <2>9, <3>2 DEF EndIsLast
    <3>3. QED
      BY <3>1, <3>2
  <2>10. QED
    BY <2>2, <2>9 DEF EndIsLast
<1>12. CASE WriteFails
  <2>1. call # Idle /\ call.bridge \in Resolvers
    BY <1>12, CallFields DEF WriteFails
  <2>2. StartProc(call.bridge) /\ call' = Idle /\ UNCHANGED <<phase, todo>>
    BY <1>12 DEF WriteFails, Return
  <2>3. \A c \in Resolvers : pipe'[c] = << >> \/ pipe'[c] = pipe[c]
    BY <2>1, <2>2, Started
  <2>4. ASSUME NEW c \in Resolvers, NEW i \in 1..Len(pipe'[c]), pipe'[c][i] = End
        PROVE  i \in 1..Len(pipe[c]) /\ pipe'[c] = pipe[c]
    BY <2>3, <2>4, EmptySeq
  <2>5. QED
    BY <2>2, <2>4 DEF EndIsLast
<1>13. ASSUME NEW b \in Resolvers, MonitorReads(b) PROVE EndIsLast'
  <2>1. pipe[b] \in Seq(Line) /\ pipe[b] # << >>
    BY <1>13 DEF TypeOK, MonitorReads, Line
  <2> DEFINE t == Tail(pipe[b])
  <2>2. /\ Len(pipe[b]) \in Nat /\ Len(t) = Len(pipe[b]) - 1
        /\ \A i \in 1..Len(t) : t[i] = pipe[b][i + 1]
    BY <2>1, HeadTailProperties, LenProperties
  <2> HIDE DEF t
  <2>3. UNCHANGED <<phase, todo, call>>
    BY <1>13 DEF MonitorReads, driver
  <2>4. pipe'[b] = t /\ \A c \in Resolvers \ {b} : pipe'[c] = pipe[c]
    BY <1>13 DEF MonitorReads, TypeOK, t
  <2>5. ASSUME NEW i \in 1..Len(t), t[i] = End
        PROVE  i = Len(t) /\ i + 1 \in 1..Len(pipe[b]) /\ pipe[b][i + 1] = End
    <3>1. i + 1 \in 1..Len(pipe[b])
      BY <2>2
    <3>2. pipe[b][i + 1] = End
      BY <2>2, <2>5
    <3>3. i + 1 = Len(pipe[b])
      BY <3>1, <3>2 DEF EndIsLast
    <3>4. QED
      BY <2>2, <3>1, <3>2, <3>3
  <2>6. ASSUME NEW c \in Resolvers, NEW i \in 1..Len(pipe'[c]), pipe'[c][i] = End
        PROVE  /\ i = Len(pipe'[c])
               /\ phase \in {"end", "terminate", "done"}
               /\ phase = "end" => c \notin todo
               /\ call # Idle => call.bridge # c
    <3>1. CASE c = b
      <4>1. i \in 1..Len(t) /\ t[i] = End
        BY <2>4, <2>6, <3>1
      <4>2. i = Len(t) /\ i + 1 \in 1..Len(pipe[b]) /\ pipe[b][i + 1] = End
        BY <2>5, <4>1
      <4>3. QED
        BY <2>4, <3>1, <4>2 DEF EndIsLast
    <3>2. CASE c # b
      BY <2>4, <2>6, <3>2 DEF EndIsLast
    <3>3. QED
      BY <3>1, <3>2
  <2>7. QED
    BY <2>3, <2>6 DEF EndIsLast
<1>14. ASSUME NEW b \in Resolvers, MonitorDies(b) PROVE EndIsLast'
  BY <1>14 DEF EndIsLast, MonitorDies, driver
<1>15. CASE UNCHANGED vars
  BY <1>15 DEF EndIsLast, vars
<1>16. CASE AuthSrvFails
  BY <1>16 DEF EndIsLast, AuthSrvFails
<1>17. CASE AuthSrvStarts
  BY <1>17 DEF EndIsLast, AuthSrvStarts
<1>18. CASE UnitRaises
  BY <1>18 DEF EndIsLast, UnitRaises
<1>19. ASSUME NEW b \in Resolvers, MonitorEof(b) PROVE EndIsLast'
  BY <1>19 DEF EndIsLast, MonitorEof, driver
<1>20. QED
  BY <1>1, <1>2, <1>3, <1>4, <1>5, <1>6, <1>7, <1>8, <1>9, <1>10, <1>11, <1>12,
     <1>13, <1>14, <1>15, <1>16, <1>17, <1>18, <1>19 DEF Next, Driver

\* The step in which a monitor is started, or is not.
LEMMA StartKeepsSuffix ==
  ASSUME TypeOK, TypeOK', PastIsSuffixOfOwnRounds, NEW b \in Resolvers, StartProc(b),
         \A c \in Resolvers \ {b} : offered'[c] = offered[c]
  PROVE  PastIsSuffixOfOwnRounds'
<1> SUFFICES ASSUME NEW c \in Resolvers, st'[c] = "up", End \notin Range(pipe'[c])
             PROVE  IsSuffix(past'[c] \o pipe'[c], offered'[c])
  BY DEF PastIsSuffixOfOwnRounds
<1>1. CASE c = b
  <2>1. pipe'[c] = << >> /\ past'[c] = << >> /\ offered'[c] \in Seq(Event)
    BY <1>1, Started DEF TypeOK
  <2>2. QED
    BY <2>1, EmptyIsSuffix
<1>2. CASE c # b
  <2>1. st'[c] = st[c] /\ pipe'[c] = pipe[c] /\ past'[c] = past[c] /\ offered'[c] = offered[c]
    BY <1>2, Started
  <2>2. QED
    BY <2>1 DEF PastIsSuffixOfOwnRounds
<1>3. QED
  BY <1>1, <1>2

\* A line given to send_line is about the resolver of the bridge it is written to.
LEMMA OwnBridge ==
  ASSUME TypeOK, Calls, call # Idle
  PROVE  call.line = End \/ (call.line \in Event /\ call.line[1] = call.bridge)
BY DEF TypeOK, Calls

\* A step keeps PastIsSuffixOfOwnRounds.
LEMMA SuffixKept ==
  ASSUME TypeOK, Calls, EndIsLast, PastIsSuffixOfOwnRounds, [Next]_vars
  PROVE  PastIsSuffixOfOwnRounds'
<1>0. TypeOK'
  BY TypesKept
<1>1. CASE TestNextPayload
  BY <1>1 DEF PastIsSuffixOfOwnRounds, TestNextPayload
<1>2. CASE StreamNext
  <2>1. PICK r \in todo :
          IF r \in bridges THEN UNCHANGED <<st, pipe, past, failures>> ELSE StartProc(r)
    BY <1>2 DEF StreamNext, BridgeFor
  <2>2. r \in Resolvers /\ UNCHANGED offered
    BY <1>2 DEF StreamNext, TypeOK
  <2>3. CASE UNCHANGED <<st, pipe, past, failures>>
    BY <2>2, <2>3 DEF PastIsSuffixOfOwnRounds
  <2>4. CASE StartProc(r)
    BY <1>0, <2>2, <2>4, StartKeepsSuffix
  <2>5. QED
    BY <2>1, <2>3, <2>4
<1>3. CASE BuildFails
  BY <1>3 DEF PastIsSuffixOfOwnRounds, BuildFails
<1>4. CASE RoundDone
  BY <1>4 DEF PastIsSuffixOfOwnRounds, RoundDone
<1>5. CASE EndNext
  BY <1>5 DEF PastIsSuffixOfOwnRounds, EndNext
<1>6. CASE EndDone
  BY <1>6 DEF PastIsSuffixOfOwnRounds, EndDone
<1>7. CASE Terminate
  <2>1. UNCHANGED <<pipe, past, offered>> /\ \A c \in Resolvers : st'[c] = "up" => st[c] = "up"
    BY <1>7 DEF Terminate, TypeOK
  <2>2. QED
    BY <2>1 DEF PastIsSuffixOfOwnRounds
<1>8. CASE TerminateDone
  BY <1>8 DEF PastIsSuffixOfOwnRounds, TerminateDone
<1>9. CASE EnsureProc
  <2>1. /\ call.bridge \in Resolvers /\ UNCHANGED offered
        /\ IF st[call.bridge] = "up" THEN UNCHANGED <<st, pipe, past, failures>>
                                     ELSE StartProc(call.bridge)
    BY <1>9, CallFields DEF EnsureProc
  <2>2. CASE UNCHANGED <<st, pipe, past, failures>>
    BY <2>1, <2>2 DEF PastIsSuffixOfOwnRounds
  <2>3. CASE StartProc(call.bridge)
    BY <1>0, <2>1, <2>3, StartKeepsSuffix
  <2>4. QED
    BY <2>1, <2>2, <2>3
<1>10. CASE IsBroken
  <2>1. call # Idle /\ UNCHANGED <<st, pipe, past>>
    BY <1>10, CallFields DEF IsBroken
  <2>2. CASE st[call.bridge] = "up"
    BY <1>10, <2>1, <2>2 DEF IsBroken, PastIsSuffixOfOwnRounds
  <2>3. CASE st[call.bridge] # "up"
    <3>1. Return(FALSE)
      BY <1>10, <2>3 DEF IsBroken
    <3>2. \A c \in Resolvers \ {call.bridge} : offered'[c] = offered[c]
      BY <2>1, <3>1, Returned, OwnBridge
    <3>3. QED
      BY <2>1, <2>3, <3>2 DEF PastIsSuffixOfOwnRounds
  <2>4. QED
    BY <2>2, <2>3
<1>11. CASE WriteLine
  <2> DEFINE b == call.bridge
             e == call.line
  <2>1. call # Idle /\ b \in Resolvers /\ e \in Line
    BY <1>11, CallFields DEF WriteLine
  <2>2. /\ Return(TRUE) /\ UNCHANGED <<st, past>> /\ st[b] = "up"
        /\ pipe' = [pipe EXCEPT ![b] = Append(@, e)]
    BY <1>11 DEF WriteLine
  <2>3. /\ e = End \/ (e \in Event /\ e[1] = b)
        /\ \A c \in Resolvers \ {b} : offered'[c] = offered[c]
        /\ e \in Event => offered'[b] = Append(offered[b], e)
    <3>1. e = End \/ (e \in Event /\ e[1] = b)
      BY <2>1, OwnBridge
    <3>2. /\ \A c \in Resolvers : (e = End \/ e[1] # c) => offered'[c] = offered[c]
          /\ e \in Event => offered'[e[1]] = Append(offered[e[1]], e)
      BY <2>1, <2>2, Returned
    <3> HIDE DEF b, e
    <3>3. e \in Event => e # End
      BY EventIsNoEnd
    <3>4. QED
      BY <3>1, <3>2, <3>3
  <2> HIDE DEF b, e
  <2>4. /\ pipe[b] \in Seq(Line) /\ past[b] \in Seq(Event) /\ offered[b] \in Seq(Event)
        /\ pipe'[b] = Append(pipe[b], e) /\ \A c \in Resolvers \ {b} : pipe'[c] = pipe[c]
    BY <2>1, <2>2 DEF TypeOK, Line
  <2>5. Range(pipe'[b]) = Range(pipe[b]) \cup {e}
    BY <2>1, <2>4, RangeAppended
  <2>6. past[b] \in Seq(Line) /\ offered[b] \in Seq(Line)
    BY <2>4 DEF Line
  <2>7. ASSUME NEW c \in Resolvers, st'[c] = "up", End \notin Range(pipe'[c])
        PROVE  IsSuffix(past'[c] \o pipe'[c], offered'[c])
    <3>1. CASE c # b
      BY <2>2, <2>3, <2>4, <2>7, <3>1 DEF PastIsSuffixOfOwnRounds
    <3>2. CASE c = b
      <4>1. e \in Event /\ End \notin Range(pipe[b])
        BY <2>3, <2>5, <2>7, <3>2
      <4>2. IsSuffix(past[b] \o pipe[b], offered[b])
        BY <2>1, <2>2, <4>1 DEF PastIsSuffixOfOwnRounds
      <4>3. IsSuffix(past[b] \o Append(pipe[b], e), Append(offered[b], e))
        BY <2>1, <2>4, <2>6, <4>2, SuffixAppended
      <4>4. QED
        BY <2>2, <2>3, <2>4, <3>2, <4>1, <4>3
    <3>3. QED
      BY <3>1, <3>2
  <2>8. QED
    BY <2>7 DEF PastIsSuffixOfOwnRounds
<1>12. CASE WriteFails
  <2>1. call # Idle /\ call.bridge \in Resolvers
    BY <1>12, CallFields DEF WriteFails
  <2>2. StartProc(call.bridge) /\ Return(FALSE)
    BY <1>12 DEF WriteFails
  <2>3. \A c \in Resolvers \ {call.bridge} : offered'[c] = offered[c]
    BY <2>1, <2>2, Returned, OwnBridge
  <2>4. QED
    BY <1>0, <2>1, <2>2, <2>3, StartKeepsSuffix
<1>13. ASSUME NEW b \in Resolvers, MonitorReads(b) PROVE PastIsSuffixOfOwnRounds'
  <2> DEFINE q == pipe[b]
             p == past[b]
  <2>1. q \in Seq(Line) /\ p \in Seq(Line) /\ offered[b] \in Seq(Line) /\ q # << >>
    BY <1>13 DEF TypeOK, MonitorReads, Line
  <2>2. /\ UNCHANGED <<st, offered>> /\ st[b] = "up" /\ pipe'[b] = Tail(q)
        /\ past'[b] = IF Head(q) = End THEN << >> ELSE Append(p, Head(q))
        /\ \A c \in Resolvers \ {b} : pipe'[c] = pipe[c] /\ past'[c] = past[c]
    BY <1>13 DEF MonitorReads, TypeOK
  <2>3. CASE Head(q) = End
    <3>1. Len(q) \in Nat /\ Len(q) # 0 /\ q[1] = End /\ Len(Tail(q)) = Len(q) - 1
          /\ Tail(q) \in Seq(Line)
      BY <2>1, <2>3, HeadTailProperties, LenProperties, EmptySeq
    <3>2. Len(q) = 1
      <4>1. 1 \in 1..Len(q)
        BY <3>1
      <4>2. QED
        BY <3>1, <4>1 DEF EndIsLast
    <3>3. Tail(q) = << >>
      <4> HIDE DEF q
      <4>1. Len(Tail(q)) = 0
        BY <3>1, <3>2
      <4>2. QED
        BY <3>1, <4>1, EmptySeq
    <3> HIDE DEF q, p
    <3>4. IsSuffix(past'[b] \o pipe'[b], offered[b])
      BY <2>1, <2>2, <2>3, <3>3, EmptyIsSuffix
    <3>5. QED
      BY <2>2, <3>4 DEF PastIsSuffixOfOwnRounds
  <2>4. CASE Head(q) # End
    <3>1. past'[b] \o pipe'[b] = p \o q
      BY <2>1, <2>2, <2>4, ReadKeeps
    <3>2. End \notin Range(pipe'[b]) => End \notin Range(q)
      <4> DEFINE t == Tail(q)
      <4>1. /\ t \in Seq(Line) /\ Len(q) \in Nat /\ Len(q) # 0
            /\ Len(t) = Len(q) - 1 /\ \A i \in 1..Len(t) : t[i] = q[i + 1]
            /\ q[1] # End /\ DOMAIN q = 1..Len(q) /\ DOMAIN t = 1..Len(t)
        BY <2>1, <2>4, HeadTailProperties, LenProperties, EmptySeq
      <4> HIDE DEF t, q
      <4>2. ASSUME NEW i \in 1..Len(q), q[i] = End PROVE End \in Range(t)
        <5>1. i # 1
          BY <4>1, <4>2
        <5>2. PICK j : j = i - 1
          OBVIOUS
        <5>3. j \in 1..Len(t) /\ j + 1 = i
          BY <4>1, <5>1, <5>2
        <5>4. t[j] = End
          BY <4>1, <4>2, <5>3
        <5>5. QED
          BY <4>1, <5>3, <5>4 DEF Range
      <4>3. End \in Range(q) => End \in Range(t)
        BY <4>1, <4>2 DEF Range
      <4>4. QED
        BY <2>2, <4>3 DEF t
    <3>3. QED
      BY <2>2, <3>1, <3>2 DEF PastIsSuffixOfOwnRounds
  <2>5. QED
    BY <2>3, <2>4
<1>14. ASSUME NEW b \in Resolvers, MonitorDies(b) PROVE PastIsSuffixOfOwnRounds'
  <2>1. UNCHANGED <<pipe, past, offered>> /\ \A c \in Resolvers : st'[c] = "up" => st[c] = "up"
    BY <1>14 DEF MonitorDies, TypeOK
  <2>2. QED
    BY <2>1 DEF PastIsSuffixOfOwnRounds
<1>15. CASE UNCHANGED vars
  BY <1>15 DEF PastIsSuffixOfOwnRounds, vars
<1>16. CASE AuthSrvFails
  BY <1>16 DEF PastIsSuffixOfOwnRounds, AuthSrvFails
<1>17. CASE AuthSrvStarts
  BY <1>17 DEF PastIsSuffixOfOwnRounds, AuthSrvStarts
<1>18. CASE UnitRaises
  BY <1>18 DEF PastIsSuffixOfOwnRounds, UnitRaises
<1>19. ASSUME NEW b \in Resolvers, MonitorEof(b) PROVE PastIsSuffixOfOwnRounds'
  <2>1. UNCHANGED <<pipe, past, offered>> /\ \A c \in Resolvers : st'[c] = "up" => st[c] = "up"
    BY <1>19 DEF MonitorEof, TypeOK
  <2>2. QED
    BY <2>1 DEF PastIsSuffixOfOwnRounds
<1>20. QED
  BY <1>1, <1>2, <1>3, <1>4, <1>5, <1>6, <1>7, <1>8, <1>9, <1>10, <1>11, <1>12,
     <1>13, <1>14, <1>15, <1>16, <1>17, <1>18, <1>19 DEF Next, Driver

\* Lines that are lost in a step were doomed before it.
LEMMA LostGrows ==
  ASSUME NEW S, NEW T, NEW e, IsFiniteSet(S), T \subseteq S \cup {e}
  PROVE  /\ IsFiniteSet(T) /\ Cardinality(T) \in Nat /\ Cardinality(S) \in Nat
         /\ Cardinality(T) <= Cardinality(S) + 1
<1>1. /\ IsFiniteSet(S \cup {e}) /\ Cardinality(S) \in Nat
      /\ Cardinality(S \cup {e}) = Cardinality(S) \/ Cardinality(S \cup {e}) = Cardinality(S) + 1
  BY FS_AddElement, FS_CardinalityType
<1>2. /\ IsFiniteSet(T) /\ Cardinality(T) \in Nat
      /\ Cardinality(T) <= Cardinality(S \cup {e})
  BY <1>1, FS_Subset, FS_CardinalityType
<1>3. QED
  BY <1>1, <1>2

\* A step in which no line is lost, and one more call is doomed only when one
\* more death or failure is counted.
LEMMA NoneLost ==
  ASSUME TypeOK, TypeOK', Counted, Lost' \subseteq Lost,
         deaths + failures + Doomed' <= deaths' + failures' + Doomed
  PROVE  Counted'
<1>1. IsFiniteSet(Lost) /\ Cardinality(Lost) \in Nat
  BY FS_CardinalityType DEF Counted
<1>2. IsFiniteSet(Lost') /\ Cardinality(Lost') \in Nat /\ Cardinality(Lost') <= Cardinality(Lost)
  BY <1>1, FS_Subset, FS_CardinalityType
<1>3. (Doomed = 0 \/ Doomed = 1) /\ (Doomed' = 0 \/ Doomed' = 1)
  BY DEF Doomed
<1>4. /\ deaths \in Int /\ failures \in Int /\ deaths' \in Int /\ failures' \in Int
      /\ Cardinality(Lost) + Doomed <= deaths + failures
  BY ResolverAssumption DEF TypeOK, Counted
<1>5. Cardinality(Lost') + Doomed' <= deaths' + failures'
  BY <1>1, <1>2, <1>3, <1>4
<1>6. QED
  BY <1>2, <1>5 DEF Counted

\* A step in which no line is lost and after which no call is doomed.
LEMMA NoneDoomed ==
  ASSUME TypeOK, TypeOK', Counted, Lost' \subseteq Lost,
         deaths' = deaths, failures <= failures', Doomed' = 0
  PROVE  Counted'
<1>1. /\ deaths \in Int /\ failures \in Int /\ failures' \in Int
      /\ Doomed = 0 \/ Doomed = 1
  BY ResolverAssumption DEF TypeOK, Doomed
<1>2. deaths + failures + Doomed' <= deaths' + failures' + Doomed
  BY <1>1
<1>3. QED
  BY <1>2, NoneLost

\* The line of a doomed call is lost, and the call is over.
LEMMA DoomedLost ==
  ASSUME TypeOK, TypeOK', Counted, Doomed = 1, call # Idle, Return(FALSE),
         deaths' = deaths, failures <= failures'
  PROVE  Counted'
<1>1. Lost' \subseteq Lost \cup {call.line} /\ call' = Idle
  BY Returned
<1>2. IsFiniteSet(Lost)
  BY DEF Counted
<1>3. /\ IsFiniteSet(Lost') /\ Cardinality(Lost') \in Nat /\ Cardinality(Lost) \in Nat
      /\ Cardinality(Lost') <= Cardinality(Lost) + 1
  BY <1>1, <1>2, LostGrows
<1>4. Doomed' = 0
  BY <1>1 DEF Doomed, Idle
<1>5. /\ deaths \in Int /\ failures \in Int /\ failures' \in Int
      /\ Cardinality(Lost) + 1 <= deaths + failures
  BY ResolverAssumption DEF TypeOK, Counted
<1>6. Cardinality(Lost') + Doomed' <= deaths' + failures'
  BY <1>3, <1>4, <1>5
<1>7. QED
  BY <1>3, <1>6 DEF Counted

\* A step keeps Counted.
LEMMA CountedKept ==
  ASSUME TypeOK, Calls, Counted, [Next]_vars PROVE Counted'
<1>0. /\ TypeOK'
      /\ deaths \in Int /\ failures \in Int
      /\ Doomed = 0 \/ Doomed = 1
      /\ Doomed' = 0 \/ Doomed' = 1
      /\ UNCHANGED <<offered, sent>> => Lost' \subseteq Lost
      /\ call.step \notin {"check", "write"} => Doomed = 0
      /\ call'.step \notin {"check", "write"} => Doomed' = 0
  <2>1. TypeOK' /\ (UNCHANGED <<offered, sent>> => Lost' \subseteq Lost)
    BY TypesKept DEF Lost
  <2>2. deaths \in Int /\ failures \in Int
    BY ResolverAssumption DEF TypeOK
  <2>3. /\ Doomed = 0 \/ Doomed = 1
        /\ Doomed' = 0 \/ Doomed' = 1
        /\ call.step \notin {"check", "write"} => Doomed = 0
        /\ call'.step \notin {"check", "write"} => Doomed' = 0
    BY DEF Doomed
  <2>4. QED
    BY <2>1, <2>2, <2>3
<1>1. CASE TestNextPayload
  BY <1>0, <1>1, NoneLost DEF TestNextPayload, Doomed
<1>2. CASE StreamNext
  <2>1. PICK r \in todo :
          /\ call' = [step |-> "ensure", line |-> <<r, round>>, bridge |-> r]
          /\ IF r \in bridges THEN UNCHANGED <<st, pipe, past, failures>> ELSE StartProc(r)
    BY <1>2 DEF StreamNext, BridgeFor
  <2>2. r \in Resolvers /\ UNCHANGED <<deaths, offered, sent>> /\ call = Idle
    BY <1>2 DEF StreamNext, TypeOK
  <2>3. failures' \in Int /\ failures <= failures'
    <3>1. CASE UNCHANGED failures
      BY <1>0, <3>1
    <3>2. CASE StartProc(r)
      BY <2>2, <3>2, Started
    <3>3. QED
      BY <2>1, <3>1, <3>2
  <2>4. Doomed = 0 /\ Doomed' = 0
    BY <1>0, <2>1, <2>2 DEF Idle
  <2>5. QED
    BY <1>0, <2>2, <2>3, <2>4, NoneDoomed
<1>3. CASE BuildFails
  BY <1>0, <1>3, NoneLost DEF BuildFails, Doomed
<1>4. CASE RoundDone
  BY <1>0, <1>4, NoneLost DEF RoundDone, Doomed
<1>5. CASE EndNext
  <2>1. UNCHANGED <<deaths, failures, offered, sent>> /\ call = Idle /\ call'.step = "ensure"
    BY <1>5 DEF EndNext
  <2>2. Doomed = 0 /\ Doomed' = 0
    BY <1>0, <2>1 DEF Idle
  <2>3. QED
    BY <1>0, <2>1, <2>2, NoneLost
<1>6. CASE EndDone
  BY <1>0, <1>6, NoneLost DEF EndDone, Doomed
<1>7. CASE Terminate
  <2>1. UNCHANGED <<deaths, failures, offered, sent, call>> /\ call = Idle
    BY <1>7 DEF Terminate, Calls
  <2>2. Doomed = 0 /\ Doomed' = 0
    BY <1>0, <2>1 DEF Idle
  <2>3. QED
    BY <1>0, <2>1, <2>2, NoneLost
<1>8. CASE TerminateDone
  BY <1>0, <1>8, NoneLost DEF TerminateDone, Doomed
<1>9. CASE EnsureProc
  <2>1. /\ call # Idle /\ call.bridge \in Resolvers /\ UNCHANGED <<deaths, offered, sent>>
        /\ call.step = "ensure" /\ call' = [call EXCEPT !.step = "check"]
        /\ IF st[call.bridge] = "up" THEN UNCHANGED <<st, pipe, past, failures>>
                                     ELSE StartProc(call.bridge)
    BY <1>9, CallFields DEF EnsureProc
  <2>2. call'.bridge = call.bridge /\ Doomed = 0
    BY <1>0, <2>1 DEF TypeOK
  <2>3. failures' \in Int /\ failures + Doomed' <= failures'
    <3>1. CASE st[call.bridge] = "up"
      BY <1>0, <2>1, <2>2, <3>1 DEF Doomed
    <3>2. CASE st[call.bridge] # "up"
      <4>1. /\ failures' \in Int /\ failures <= failures'
            /\ st'[call.bridge] # "up" => failures' = failures + 1
        BY <2>1, <3>2, Started
      <4>2. st'[call.bridge] = "up" => Doomed' = 0
        BY <2>2 DEF Doomed
      <4>3. QED
        BY <1>0, <4>1, <4>2
    <3>3. QED
      BY <3>1, <3>2
  <2>4. QED
    BY <1>0, <2>1, <2>2, <2>3, NoneLost
<1>10. CASE IsBroken
  <2>1. call # Idle /\ UNCHANGED <<st, deaths, failures>> /\ call.step = "check"
    BY <1>10, CallFields DEF IsBroken
  <2>2. CASE st[call.bridge] = "up"
    <3>1. call' = [call EXCEPT !.step = "write"] /\ UNCHANGED <<offered, sent>>
      BY <1>10, <2>2 DEF IsBroken
    <3>2. call'.bridge = call.bridge
      BY <2>1, <3>1 DEF TypeOK
    <3>3. Doomed' = 0
      BY <2>1, <2>2, <3>2 DEF Doomed
    <3>4. QED
      BY <1>0, <2>1, <3>1, <3>3, NoneLost
  <2>3. CASE st[call.bridge] # "up"
    <3>1. Return(FALSE) /\ Doomed = 1
      BY <1>10, <2>1, <2>3 DEF IsBroken, Doomed
    <3>2. failures <= failures'
      BY <1>0, <2>1
    <3>3. QED
      BY <1>0, <2>1, <3>1, <3>2, DoomedLost
  <2>4. QED
    BY <2>2, <2>3
<1>11. CASE WriteLine
  <2>1. /\ call # Idle /\ Return(TRUE) /\ UNCHANGED <<deaths, failures>>
        /\ Doomed = 0
    BY <1>11, CallFields DEF WriteLine, Doomed
  <2>2. Lost' \subseteq Lost /\ call' = Idle
    BY <2>1, Returned
  <2>3. Doomed' = 0
    BY <1>0, <2>2 DEF Idle
  <2>4. QED
    BY <1>0, <2>1, <2>2, <2>3, NoneLost
<1>12. CASE WriteFails
  <2>1. call # Idle /\ call.bridge \in Resolvers
    BY <1>12, CallFields DEF WriteFails
  <2>2. StartProc(call.bridge) /\ Return(FALSE) /\ deaths' = deaths /\ Doomed = 1
    BY <1>12 DEF WriteFails, Doomed
  <2>3. failures <= failures'
    BY <2>1, <2>2, Started
  <2>4. QED
    BY <1>0, <2>1, <2>2, <2>3, DoomedLost
<1>13. ASSUME NEW b \in Resolvers, MonitorReads(b) PROVE Counted'
  BY <1>0, <1>13, NoneLost DEF MonitorReads, driver, Doomed
<1>14. ASSUME NEW b \in Resolvers, MonitorDies(b) PROVE Counted'
  <2>1. deaths' = deaths + 1 /\ UNCHANGED <<failures, offered, sent>>
    BY <1>14 DEF MonitorDies
  <2>2. QED
    BY <1>0, <2>1, NoneLost
<1>15. CASE UNCHANGED vars
  BY <1>0, <1>15, NoneLost DEF vars, Doomed
<1>16. CASE AuthSrvFails
  BY <1>0, <1>16, NoneLost DEF AuthSrvFails, Doomed
<1>17. CASE AuthSrvStarts
  BY <1>0, <1>17, NoneLost DEF AuthSrvStarts, Doomed
<1>18. CASE UnitRaises
  BY <1>0, <1>18, NoneLost DEF UnitRaises, Doomed
<1>19. ASSUME NEW b \in Resolvers, MonitorEof(b) PROVE Counted'
  <2>1. call = Idle /\ UNCHANGED <<call, deaths, failures, offered, sent>>
    BY <1>19 DEF MonitorEof, driver, Calls
  <2>2. QED
    BY <1>0, <2>1, NoneLost DEF Idle
<1>20. QED
  BY <1>1, <1>2, <1>3, <1>4, <1>5, <1>6, <1>7, <1>8, <1>9, <1>10, <1>11, <1>12,
     <1>13, <1>14, <1>15, <1>16, <1>17, <1>18, <1>19 DEF Next, Driver

-----------------------------------------------------------------------------
(* The theorems *)

\* Before the first round nothing was offered, sent or lost.
LEMMA InitIInv == Init => IInv
<1> SUFFICES ASSUME Init PROVE IInv
  OBVIOUS
<1>1. TypeOK
  BY ResolverAssumption, EmptySeq DEF Init, TypeOK
<1>2. Calls
  BY ResolverAssumption DEF Init, Calls
<1>3. EndIsLast
  BY EmptySeq DEF Init, EndIsLast
<1>4. PastIsSuffixOfOwnRounds
  BY DEF Init, PastIsSuffixOfOwnRounds
<1>5. Counted
  <2>1. Lost = {}
    <3>1. \A r \in Resolvers : Range(offered[r]) = {}
      BY EmptySeq DEF Init, Range
    <3>2. QED
      BY <3>1, EventIsNoEnd DEF Lost
  <2>2. Doomed = 0 /\ deaths = 0 /\ failures = 0
    BY DEF Init, Doomed, Idle
  <2>3. QED
    BY <2>1, <2>2, FS_EmptySet DEF Counted
<1>6. QED
  BY <1>1, <1>2, <1>3, <1>4, <1>5 DEF IInv

\* The parts above are together an invariant of driver, bridges and monitors.
THEOREM Invariance == Spec => []IInv
<1>1. IInv /\ [Next]_vars => IInv'
  BY TypesKept, CallsKept, EndIsLastKept, SuffixKept, CountedKept DEF IInv
<1>2. QED
  BY InitIInv, <1>1, PTL DEF Spec

\* Every value the driver, the bridges and the monitors hold is of its kind.
THEOREM TypeCorrect == Spec => []TypeOK
BY Invariance, PTL DEF IInv

\* A living monitor judges an unbroken suffix of its own resolver's rounds,
\* however often monitors die or cannot be started (_ensure_proc, send_line).
THEOREM PastIsSuffix == Spec => []PastIsSuffixOfOwnRounds
BY Invariance, PTL DEF IInv

\* A line that send_line is given and never writes is paid for by a death or a
\* failed start of its own.
THEOREM LostToDeaths == Spec => []LostOnlyToDeaths
<1>1. IInv => LostOnlyToDeaths
  <2> SUFFICES ASSUME IInv PROVE LostOnlyToDeaths
    OBVIOUS
  <2>1. Cardinality(Lost) \in Nat
    BY FS_CardinalityType DEF IInv, Counted
  <2>2. deaths \in Int /\ failures \in Int /\ Doomed \in 0..1
    BY ResolverAssumption DEF IInv, TypeOK, Doomed
  <2>3. QED
    BY <2>1, <2>2 DEF IInv, Counted, LostOnlyToDeaths
<1>2. QED
  BY Invariance, <1>1, PTL
=============================================================================
