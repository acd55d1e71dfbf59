---------------------------- MODULE ListenerProofs ----------------------------
(***************************************************************************)
(* Proofs about AebListener: what the summary says about lost packets,     *)
(* what a lost packet costs, and which windows the parser pairs with the   *)
(* rows.                                                                   *)
(***************************************************************************)
EXTENDS AebListener, SequenceFacts, FiniteSetTheorems

------------------------------------------------------------------------------
(* The invariants. *)

\* The packets wait in the order the sender sent them: trial after trial, and
\* the START of a trial before its bursts.  The trial the device works on is
\* not behind any of them.
OrderInv ==
    /\ \A k \in 1..Len(net) :
          /\ net[k].session = session /\ net[k].bursts = Bursts /\ net[k].chunks = Chunks
          /\ net[k].trial < trial \/ (net[k].trial = trial /\ seq # NotStarted)
    /\ \A i, j \in 1..Len(net) : i < j =>
          /\ net[i].trial <= net[j].trial
          /\ net[j].type = "START" => net[i].trial < net[j].trial
    /\ current # NoTrial =>
          /\ current.session = session /\ current.bursts = Bursts /\ current.chunks = Chunks
          /\ current.trial < trial \/ (current.trial = trial /\ seq # NotStarted)
          /\ \A k \in 1..Len(net) :
                /\ current.trial <= net[k].trial
                /\ net[k].type = "START" => current.trial < net[k].trial

\* The bursts of trial t.
BurstsOf(t) == {p \in Packets : p.type = "BURST" /\ p.trial = t}

Places(s, A) == {k \in 1..Len(s) : s[k] \in A}

\* How many bursts of trial t wait in queue q.
Waiting(q, t) == Cardinality(Places(q, BurstsOf(t)))

\* The sender has left this trial behind.
Closed(id) == id[1] < session \/ (id[1] = session /\ id[2] < trial)

\* The sender has sent, or tried to send, the START of this trial.
Begun(id) == Closed(id) \/ (id[1] = session /\ id[2] = trial /\ seq # NotStarted)

\* While a trial is before the device, the bursts that reached the socket are
\* those that were seen and those that wait; a turn is used up by something
\* else only when all of them have been seen and no more will come.
CountInv ==
    /\ \A id \in Ids : ~Begun(id) => delivered[id] = 0
    /\ \A k \in 1..Len(net) : net[k].type = "START" =>
          delivered[<<session, net[k].trial>>] = Waiting(net, net[k].trial)
    /\ current # NoTrial =>
          /\ delivered[<<session, current.trial>>] = seen + Waiting(net, current.trial)
          /\ turns <= Expected(current)
          /\ turns > seen => Waiting(net, current.trial) = 0 /\ current.trial < trial

\* A row has seen all the bursts it expects, or all that will ever reach the
\* device.
RowInv ==
    \A i \in ParsedRows(log) :
        LET id == <<log[i].session, log[i].trial>>
        IN  \/ log[i].seen = log[i].expected /\ log[i].seen <= delivered[id]
            \/ log[i].seen = delivered[id] /\ Closed(id)

\* The START of trial t waits in the socket; the device works on trial t.
Coming(t) == \E k \in 1..Len(net) : net[k].type = "START" /\ net[k].trial = t

Working(t) == current # NoTrial /\ current.trial = t

\* Bursts of a trial that has begun that the sender has yet to send.
Unsent(t) == IF t = trial THEN Bursts - seq ELSE 0

\* AEB_MAX_BURSTS applied to this session.
Turns == Expected([bursts |-> Bursts])

\* Turns of a trial that packets of later trials will use up, because its own
\* bursts did not reach the socket.
Spare(t) == (Turns - (IF Working(t) THEN turns ELSE 0)) - (Waiting(net, t) + Unsent(t))

\* The trial has begun, and nothing is left that could give it a row.
Lost(id) ==
    /\ Begun(id)
    /\ Row(id) = {}
    /\ id[1] = session => ~Coming(id[2]) /\ ~Working(id[2])

\* What the missed packets are charged for: the trials that are lost, and the
\* turns that are still to be wasted, each of which may take a START.
Owes(id, n) ==
    IF n = 0
    THEN Lost(id)
    ELSE id[1] = session /\ (Coming(id[2]) \/ Working(id[2])) /\ n <= Spare(id[2])

Claims == {c \in Ids \X (0..MaxBursts) : Owes(c[1], c[2])}

ChargeInv == Cardinality(Claims) <= missed

\* The log is in the order of the sessions, and no window is longer than its
\* session asked for.
WindowInv ==
    /\ \A i \in 1..Len(log) : log[i].session <= session
    /\ \A i, j \in 1..Len(log) : i < j => log[i].session <= log[j].session
    /\ \A i \in 1..Len(log) : log[i].kind = "chunk" =>
          log[i].offset \in 1..Requested(Sessions[log[i].session])

------------------------------------------------------------------------------
(* The queue of packets. *)

\* The oldest packet is taken, the others move up.
LEMMA QueueRead ==
    ASSUME NEW S, NEW s \in Seq(S), s # <<>>
    PROVE  /\ Tail(s) \in Seq(S) /\ Head(s) = s[1] /\ Head(s) \in S
           /\ Len(s) \in Nat \ {0} /\ Len(Tail(s)) = Len(s) - 1
           /\ \A k \in 1..(Len(s) - 1) : Tail(s)[k] = s[k + 1]
OBVIOUS

\* A new packet comes last.
LEMMA QueueAdded ==
    ASSUME NEW S, NEW s \in Seq(S), NEW e \in S
    PROVE  /\ Append(s, e) \in Seq(S) /\ Len(s) \in Nat /\ Len(Append(s, e)) = Len(s) + 1
           /\ \A k \in 1..Len(s) : Append(s, e)[k] = s[k]
           /\ Append(s, e)[Len(s) + 1] = e
OBVIOUS

\* There are finitely many places.
LEMMA PlacesFinite ==
    ASSUME NEW S, NEW s \in Seq(S), NEW A
    PROVE  IsFiniteSet(Places(s, A)) /\ Cardinality(Places(s, A)) \in Nat
<1>1. Len(s) \in Nat /\ IsFiniteSet(1..Len(s)) /\ Places(s, A) \subseteq 1..Len(s)
  BY FS_Interval DEF Places
<1>2. IsFiniteSet(Places(s, A))
  BY <1>1, FS_Subset
<1>. QED
  BY <1>2, FS_CardinalityType

\* A packet that comes adds a place if it is one of those that count.
LEMMA PlacesAdded ==
    ASSUME NEW S, NEW s \in Seq(S), NEW e \in S, NEW A
    PROVE  Cardinality(Places(Append(s, e), A)) =
              Cardinality(Places(s, A)) + (IF e \in A THEN 1 ELSE 0)
<1>. DEFINE n == Len(s)
            t == Append(s, e)
<1>1. /\ n \in Nat /\ Len(t) = n + 1 /\ t[n + 1] = e
      /\ \A k \in 1..n : t[k] = s[k]
  BY QueueAdded
<1>. HIDE DEF t, n
<1>2. IsFiniteSet(Places(s, A)) /\ Cardinality(Places(s, A)) \in Nat
  BY PlacesFinite
<1>3. n + 1 \notin Places(s, A)
  BY <1>1 DEF Places, n
<1>4. CASE e \in A
  <2>1. Places(t, A) = Places(s, A) \union {n + 1}
    BY <1>1, <1>4 DEF Places, n
  <2>. QED
    BY <1>2, <1>3, <1>4, <2>1, FS_AddElement DEF t
<1>5. CASE e \notin A
  <2>1. Places(t, A) = Places(s, A)
    BY <1>1, <1>5 DEF Places, n
  <2>. QED
    BY <1>2, <1>5, <2>1 DEF t
<1>. QED
  BY <1>4, <1>5

\* The packet that goes had a place if it was one of those that count.
LEMMA PlacesRead ==
    ASSUME NEW S, NEW s \in Seq(S), s # <<>>, NEW A
    PROVE  Cardinality(Places(s, A)) =
              Cardinality(Places(Tail(s), A)) + (IF Head(s) \in A THEN 1 ELSE 0)
<1>. DEFINE t == Tail(s)
            Rest == Places(s, A) \ {1}
<1>1. /\ t \in Seq(S) /\ Len(s) \in Nat \ {0} /\ Len(t) = Len(s) - 1 /\ Head(s) = s[1]
      /\ \A k \in 1..(Len(s) - 1) : t[k] = s[k + 1]
  BY QueueRead
<1>. HIDE DEF t
<1>2. /\ IsFiniteSet(Places(s, A)) /\ Cardinality(Places(s, A)) \in Nat
      /\ IsFiniteSet(Places(t, A)) /\ Cardinality(Places(t, A)) \in Nat
  BY <1>1, PlacesFinite
<1>3. Cardinality(Rest) = Cardinality(Places(t, A))
  <2>. DEFINE f == [k \in Places(t, A) |-> k + 1]
  <2>1. \A k \in Places(t, A) : k \in Nat /\ k + 1 \in Rest
    BY <1>1 DEF Places
  <2>2. \A k \in Rest : k - 1 \in Places(t, A) /\ (k - 1) + 1 = k
    BY <1>1 DEF Places
  <2>3. f \in Bijection(Places(t, A), Rest)
    <3>1. f \in [Places(t, A) -> Rest]
      BY <2>1
    <3>2. \A a, b \in Places(t, A) : f[a] = f[b] => a = b
      BY <2>1
    <3>3. \A k \in Rest : \E a \in Places(t, A) : f[a] = k
      BY <2>2
    <3>. HIDE DEF f, Rest
    <3>. QED
      BY <3>1, <3>2, <3>3 DEF Bijection, Injection, Surjection, IsInjective
  <2>4. ExistsBijection(Places(t, A), Rest)
    BY <2>3 DEF ExistsBijection
  <2>. HIDE DEF Rest, f
  <2>. QED
    BY <1>2, <2>4, FS_Bijection
<1>4. CASE Head(s) \in A
  <2>1. 1 \in Places(s, A)
    BY <1>1, <1>4 DEF Places
  <2>2. Cardinality(Rest) = Cardinality(Places(s, A)) - 1
    BY <1>2, <2>1, FS_RemoveElement
  <2>. QED
    BY <1>2, <1>3, <1>4, <2>2 DEF t
<1>5. CASE Head(s) \notin A
  <2>1. Rest = Places(s, A)
    BY <1>1, <1>5 DEF Places
  <2>2. Cardinality(Places(t, A)) = Cardinality(Places(s, A))
    BY <1>3, <2>1
  <2>3. Cardinality(Places(Tail(s), A)) = Cardinality(Places(s, A))
    BY <2>2 DEF t
  <2>. QED
    BY <1>2, <1>5, <2>3
<1>. QED
  BY <1>4, <1>5

------------------------------------------------------------------------------
(* Type correctness. *)

\* The constants have their types, and no packet is NoTrial.
LEMMA ListenerTypes ==
    /\ Trials \in Nat \ {0} /\ MaxBursts \in Nat \ {0} /\ MaxChunks \in Nat
    /\ QueueLength \in Nat \ {0} /\ MaxFaults \in Nat /\ Len(Sessions) \in Nat \ {0}
    /\ NoTrial \notin Packets
    /\ \A p \in Packets : Expected(p) \in 0..MaxBursts /\ Expected(p) <= p.bursts
    /\ TypeOK => Bursts \in Nat /\ Chunks \in Nat
    /\ \A start : Requested(start) \in 0..MaxChunks
<1>1. NoTrial \notin Packets
  BY DEF NoTrial, Packets
<1>2. ASSUME NEW p \in Packets
      PROVE  Expected(p) \in 0..MaxBursts /\ Expected(p) <= p.bursts
  <2>1. p.bursts \in Nat /\ MaxBursts \in Nat
    BY ListenerAssumption DEF Packets
  <2>. QED
    BY <2>1 DEF Expected
<1>3. TypeOK => Bursts \in Nat /\ Chunks \in Nat
  BY ListenerAssumption DEF TypeOK, Bursts, Chunks
<1>4. ASSUME NEW start
      PROVE  Requested(start) \in 0..MaxChunks
  BY ListenerAssumption DEF Requested
<1>. QED
  BY <1>1, <1>2, <1>3, <1>4, ListenerAssumption

\* The packets that the sender makes are packets, the lines that the device
\* prints are log lines.
LEMMA MessageTypes ==
    ASSUME TypeOK
    PROVE  /\ trial < Trials =>
                 \A type \in {"START", "BURST"} : Msg(type) \in Packets
           /\ current # NoTrial =>
                 ResultLine \in LogLines /\ \A o \in 1..MaxChunks : ChunkLine(o) \in LogLines
<1>1. ASSUME trial < Trials, NEW type \in {"START", "BURST"}
      PROVE  Msg(type) \in Packets
  <2>1. trial \in 0..(Trials - 1) /\ Bursts \in Nat /\ Chunks \in Nat
    BY <1>1, ListenerTypes DEF TypeOK
  <2>. QED
    BY <2>1 DEF Msg, Packets, TypeOK
<1>2. ASSUME current # NoTrial
      PROVE  ResultLine \in LogLines /\ \A o \in 1..MaxChunks : ChunkLine(o) \in LogLines
  <2>1. /\ current.session \in 1..Len(Sessions) /\ current.trial \in 0..(Trials - 1)
        /\ Expected(current) \in Nat /\ seen \in Nat /\ MaxChunks \in Nat
    BY <1>2, ListenerTypes DEF TypeOK, Packets
  <2>2. ResultLine \in LogLines
    BY <2>1 DEF ResultLine, LogLines
  <2>3. ASSUME NEW o \in 1..MaxChunks
        PROVE  ChunkLine(o) \in LogLines
    <3>1. ASSUME NEW e \in Nat, NEW n \in Nat, NEW p \in 0..MaxChunks,
                 NEW s \in 1..Len(Sessions), NEW t \in 0..(Trials - 1)
          PROVE  [[kind |-> "result", session |-> s, trial |-> t, offset |-> 0, expected |-> e,
                   seen |-> n] EXCEPT !.kind = "chunk", !.offset = p] \in LogLines
      BY DEF LogLines
    <3>2. o \in 0..MaxChunks
      BY <2>1
    <3>. QED
      BY <2>1, <3>1, <3>2, Zenon DEF ChunkLine, ResultLine
  <2>. QED
    BY <2>2, <2>3
<1>. QED
  BY <1>1, <1>2

\* What the lines of a trial say.
LEMMA LineFields ==
    /\ ResultLine.kind = "result" /\ ResultLine.session = current.session
    /\ ResultLine.trial = current.trial
    /\ ResultLine.expected = Expected(current) /\ ResultLine.seen = seen
    /\ \A o : /\ ChunkLine(o).kind = "chunk" /\ ChunkLine(o).session = current.session
              /\ ChunkLine(o).trial = current.trial /\ ChunkLine(o).offset = o
BY DEF ResultLine, ChunkLine

\* A finished trial adds its lines to the log: the result line, unless it is the
\* one that gets lost, and the chunks, all of them if nothing gets lost.
LEMMA LogGrows ==
    ASSUME TypeOK, NEW gap \in 0..(MaxChunks + 1), Finish(gap)
    PROVE  /\ log' \in Seq(LogLines)
           /\ Len(log) \in Nat /\ Len(log') \in Nat /\ Len(log) <= Len(log')
           /\ \A k \in 1..Len(log) : log'[k] = log[k]
           /\ \A k \in 1..Len(log') : k > Len(log) =>
                 log'[k] = ResultLine \/ \E o \in 1..Requested(current) : log'[k] = ChunkLine(o)
           /\ gap # 1 => Len(log) + 1 \in 1..Len(log') /\ log'[Len(log) + 1] = ResultLine
           /\ gap = 0 => \A o \in 1..Requested(current) :
                 Len(log) + 1 + o \in 1..Len(log') /\ log'[Len(log) + 1 + o] = ChunkLine(o)
<1>. DEFINE chunks == [o \in 1..Requested(current) |-> ChunkLine(o)]
            lines == <<ResultLine>> \o chunks
<1>c. /\ Requested(current) \in Nat /\ Requested(current) <= MaxChunks /\ MaxChunks \in Nat
      /\ current # NoTrial
  BY ListenerTypes DEF Finish
<1>d. /\ gap \in 0..Len(lines)
      /\ IF gap = 0 THEN log' = log \o lines ELSE log' = log \o RemoveAt(lines, gap)
  BY Zenon DEF Finish
<1>1. ResultLine \in LogLines /\ \A o \in 1..Requested(current) : ChunkLine(o) \in LogLines
  <2>1. \A o \in 1..Requested(current) : o \in 1..MaxChunks
    BY <1>c
  <2>. QED
    BY <1>c, <2>1, MessageTypes
<1>2. /\ lines \in Seq(LogLines) /\ Len(lines) = Requested(current) + 1
      /\ lines[1] = ResultLine /\ \A o \in 1..Requested(current) : lines[o + 1] = ChunkLine(o)
  <2>1. chunks \in Seq(LogLines) /\ Len(chunks) = Requested(current)
    BY <1>c, <1>1
  <2>2. <<ResultLine>> \in Seq(LogLines) /\ Len(<<ResultLine>>) = 1 /\ <<ResultLine>>[1] = ResultLine
    BY <1>1
  <2>3. \A o \in 1..Requested(current) : chunks[o] = ChunkLine(o)
    OBVIOUS
  <2>. HIDE DEF chunks
  <2>4. /\ lines \in Seq(LogLines) /\ Len(lines) = 1 + Requested(current)
        /\ lines[1] = ResultLine /\ \A o \in 1..Requested(current) : lines[1 + o] = chunks[o]
    BY <1>c, <2>1, <2>2
  <2>. HIDE DEF lines
  <2>. QED
    BY <1>c, <2>3, <2>4
<1>. HIDE DEF chunks
<1>3. \A k \in 1..Len(lines) : lines[k] = ResultLine \/ \E o \in 1..Requested(current) : lines[k] = ChunkLine(o)
  <2>1. ASSUME NEW k \in 1..Len(lines)
        PROVE  k = 1 \/ (k - 1 \in 1..Requested(current) /\ lines[(k - 1) + 1] = lines[k])
    BY <1>c, <1>2
  <2>. HIDE DEF lines
  <2>. QED
    BY <1>2, <2>1
<1>4. \E added \in Seq(LogLines) :
         /\ log' = log \o added
         /\ \A k \in 1..Len(added) : added[k] = ResultLine \/ \E o \in 1..Requested(current) : added[k] = ChunkLine(o)
         /\ gap # 1 => Len(added) >= 1 /\ added[1] = ResultLine
         /\ gap = 0 => added = lines
  <2>1. CASE gap = 0
    <3>1. log' = log \o lines
      <4>. HIDE DEF lines
      <4>. QED
        BY <2>1, <1>d
    <3>. HIDE DEF lines
    <3>. QED
      BY <1>c, <1>2, <1>3, <2>1, <3>1
  <2>2. CASE gap # 0
    <3>1. log' = log \o RemoveAt(lines, gap)
      <4>. HIDE DEF lines
      <4>1. gap \in 1..Len(lines)
        BY <2>2, <1>d
      <4>. QED
        BY <2>2, <1>d
    <3>. HIDE DEF lines
    <3>. DEFINE a == SubSeq(lines, 1, gap - 1)
                b == SubSeq(lines, gap + 1, Len(lines))
    <3>2. log' = log \o (a \o b)
      BY <3>1 DEF RemoveAt
    <3>3. /\ a \in Seq(LogLines) /\ Len(a) = gap - 1
          /\ \A k \in 1..Len(a) : a[k] = lines[k] /\ k \in 1..Len(lines)
      <4>1. gap - 1 \in 0..Len(lines) /\ \A k \in 1..(gap - 1) : 1 + k - 1 = k /\ k \in 1..Len(lines)
        BY <1>c, <1>d, <1>2, <2>2
      <4>. QED
        BY <1>c, <1>2, <2>2, <4>1, SubSeqProperties
    <3>4. /\ b \in Seq(LogLines) /\ Len(b) \in Nat
          /\ \A k \in 1..Len(b) : gap + k \in 1..Len(lines) /\ b[k] = lines[gap + k]
      <4>1. gap + 1 \in 1..(Len(lines) + 1) /\ Len(lines) \in Nat
        BY <1>c, <1>d, <1>2, <2>2
      <4>2. b \in Seq(LogLines)
        BY <1>2, <4>1, SubSeqProperties
      <4>3. Len(b) = Len(lines) - gap
        <5>1. CASE gap + 1 <= Len(lines)
          BY <1>2, <4>1, <5>1, SubSeqProperties
        <5>2. CASE gap = Len(lines)
          BY <1>2, <4>1, <5>2, SubSeqProperties
        <5>. QED
          BY <1>c, <1>2, <4>1, <5>1, <5>2
      <4>4. \A k \in 1..Len(b) : gap + k \in 1..Len(lines) /\ b[k] = lines[gap + k]
        <5>1. \A k \in 1..(Len(lines) - gap) :
                 gap + k \in 1..Len(lines) /\ gap + 1 + k - 1 = gap + k
          BY <1>c, <1>2, <2>2
        <5>. QED
          BY <1>2, <2>2, <4>1, <4>3, <5>1, SubSeqProperties
      <4>. QED
        BY <1>c, <1>2, <4>2, <4>3, <4>4
    <3>. HIDE DEF a, b
    <3>5. /\ a \o b \in Seq(LogLines) /\ Len(a \o b) = Len(a) + Len(b)
          /\ \A k \in 1..Len(a) : (a \o b)[k] = a[k]
          /\ \A k \in 1..Len(b) : (a \o b)[Len(a) + k] = b[k]
      <4>1. a \in Seq(LogLines) /\ b \in Seq(LogLines)
        BY <3>3, <3>4
      <4>. QED
        BY <4>1, ConcatProperties
    <3>6. ASSUME NEW k \in 1..Len(a \o b)
          PROVE  (a \o b)[k] = ResultLine \/ \E o \in 1..Requested(current) : (a \o b)[k] = ChunkLine(o)
      <4>1. k \in 1..Len(a) \/ (k - Len(a) \in 1..Len(b) /\ Len(a) + (k - Len(a)) = k)
        BY <3>3, <3>4, <3>5
      <4>2. \E n \in 1..Len(lines) : (a \o b)[k] = lines[n]
        BY <3>3, <3>4, <3>5, <4>1
      <4>. QED
        BY <1>3, <4>2
    <3>7. gap # 1 => Len(a \o b) >= 1 /\ (a \o b)[1] = ResultLine
      BY <1>2, <2>2, <3>3, <3>4, <3>5
    <3>. QED
      BY <2>2, <3>2, <3>5, <3>6, <3>7
  <2>. QED
    BY <2>1, <2>2
<1>5. PICK added \in Seq(LogLines) :
         /\ log' = log \o added
         /\ \A k \in 1..Len(added) : added[k] = ResultLine \/ \E o \in 1..Requested(current) : added[k] = ChunkLine(o)
         /\ gap # 1 => Len(added) >= 1 /\ added[1] = ResultLine
         /\ gap = 0 => added = lines
  BY <1>4
<1>. HIDE DEF lines
<1>6. log \in Seq(LogLines)
  BY DEF TypeOK
<1>7. /\ log' \in Seq(LogLines) /\ Len(log) \in Nat /\ Len(added) \in Nat
      /\ Len(log') = Len(log) + Len(added)
      /\ \A k \in 1..Len(log) : log'[k] = log[k]
      /\ \A k \in 1..Len(added) : log'[Len(log) + k] = added[k]
  BY <1>5, <1>6
<1>8. \A k \in 1..Len(log') : k > Len(log) =>
         k - Len(log) \in 1..Len(added) /\ Len(log) + (k - Len(log)) = k
  BY <1>7
<1>9. gap = 0 => \A o \in 1..Requested(current) :
         o + 1 \in 1..Len(added) /\ added[o + 1] = ChunkLine(o) /\ Len(log) + (o + 1) = Len(log) + 1 + o
  BY <1>c, <1>2, <1>5, <1>7
<1>10. \A k \in 1..Len(log') : k > Len(log) =>
          log'[k] = ResultLine \/ \E o \in 1..Requested(current) : log'[k] = ChunkLine(o)
  BY <1>5, <1>7, <1>8
<1>11. gap # 1 => Len(log) + 1 \in 1..Len(log') /\ log'[Len(log) + 1] = ResultLine
  BY <1>5, <1>7
<1>12. gap = 0 => \A o \in 1..Requested(current) :
          Len(log) + 1 + o \in 1..Len(log') /\ log'[Len(log) + 1 + o] = ChunkLine(o)
  <2>. SUFFICES ASSUME gap = 0, NEW o \in 1..Requested(current)
                PROVE  Len(log) + 1 + o \in 1..Len(log') /\ log'[Len(log) + 1 + o] = ChunkLine(o)
    OBVIOUS
  <2>1. log'[Len(log) + (o + 1)] = added[o + 1] /\ Len(log) + (o + 1) \in 1..Len(log')
    BY <1>7, <1>9
  <2>. QED
    BY <1>9, <2>1
<1>. QED
  BY <1>7, <1>10, <1>11, <1>12

\* The initial values have their types.
LEMMA TypeInit == ListenerInit => TypeOK
<1>. SUFFICES ASSUME ListenerInit
              PROVE  TypeOK
  OBVIOUS
<1>1. <<>> \in Seq(Packets) /\ <<>> \in Seq(LogLines) /\ Len(<<>>) = 0
  OBVIOUS
<1>. QED
  BY <1>1, ListenerTypes DEF ListenerInit, TypeOK, NotStarted

\* What sendto leaves.
LEMMA SentType ==
    ASSUME TypeOK, NEW type \in {"START", "BURST"}, NEW lost \in BOOLEAN, trial < Trials,
           Sent(type, lost)
    PROVE  /\ net' \in Seq(Packets) /\ Len(net') <= QueueLength
           /\ missed' \in Nat /\ delivered' \in [Ids -> Nat] /\ faults' \in 0..MaxFaults
<1>1. Msg(type) \in Packets /\ net \in Seq(Packets) /\ Len(net) \in Nat /\ QueueLength \in Nat
  BY MessageTypes, ListenerTypes DEF TypeOK
<1>2. net' \in Seq(Packets) /\ Len(net') <= QueueLength
  <2>1. Append(net, Msg(type)) \in Seq(Packets) /\ Len(Append(net, Msg(type))) = Len(net) + 1
    BY <1>1, QueueAdded
  <2>. QED
    BY <1>1, <2>1 DEF Sent, TypeOK
<1>3. missed' \in Nat
  BY DEF Sent, TypeOK
<1>4. delivered' \in [Ids -> Nat]
  <2>1. <<session, trial>> \in Ids
    BY ListenerTypes DEF TypeOK, Ids
  <2>. QED
    BY <2>1 DEF Sent, TypeOK
<1>5. faults' \in 0..MaxFaults
  BY ListenerTypes DEF Sent, Fault, TypeOK
<1>. QED
  BY <1>2, <1>3, <1>4, <1>5

\* Every step keeps the types.
LEMMA TypeStep == TypeOK /\ [ListenerNext]_listenerVars => TypeOK'
<1>. SUFFICES ASSUME TypeOK, [ListenerNext]_listenerVars
              PROVE  TypeOK'
  OBVIOUS
<1>. USE DEF senderVars, deviceVars
<1>b. Bursts \in Nat /\ NotStarted = -1 /\ (session' = session => Bursts' = Bursts)
  BY ListenerTypes DEF NotStarted, Bursts
<1>1. ASSUME NEW lost \in BOOLEAN, SendStart(lost)
      PROVE  TypeOK'
  BY <1>1, <1>b, SentType DEF SendStart, TypeOK
<1>2. ASSUME NEW lost \in BOOLEAN, SendBurst(lost)
      PROVE  TypeOK'
  <2>1. trial < Trials /\ seq + 1 \in 0..Bursts
    BY <1>2, <1>b DEF SendBurst, TypeOK
  <2>. QED
    BY <1>2, <1>b, <2>1, SentType DEF SendBurst, TypeOK
<1>3. CASE NextTrial
  <2>1. trial < Trials /\ trial + 1 \in 0..Trials
    BY <1>3, <1>b, ListenerTypes DEF NextTrial, TypeOK
  <2>. QED
    BY <1>3, <1>b, <2>1 DEF NextTrial, TypeOK
<1>4. CASE NextSession
  <2>1. seq = NotStarted /\ session + 1 \in 1..Len(Sessions)
    BY <1>4, ListenerTypes DEF NextSession, SenderRests, TypeOK
  <2>. QED
    BY <1>4, <2>1, ListenerTypes DEF NextSession, TypeOK
<1>5. CASE Listen
  <2>1. Tail(net) \in Seq(Packets) /\ Len(Tail(net)) <= QueueLength /\ Head(net) \in Packets
    BY <1>5, ListenerTypes, QueueRead DEF Listen, TypeOK
  <2>. QED
    BY <1>5, <1>b, <2>1, ListenerTypes DEF Listen, Received, TypeOK
<1>6. CASE Turn
  <2>1. Tail(net) \in Seq(Packets) /\ Len(Tail(net)) <= QueueLength
    BY <1>6, ListenerTypes, QueueRead DEF Turn, TypeOK
  <2>2. turns + 1 \in 0..MaxBursts
    <3>1. Expected(current) \in 0..MaxBursts
      BY <1>6, ListenerTypes DEF Turn, TypeOK
    <3>. QED
      BY <1>6, <3>1, ListenerTypes DEF Turn, MoreTurns, TypeOK
  <2>3. seen' \in 0..(turns + 1)
    BY <1>6, ListenerTypes DEF Turn, TypeOK
  <2>. QED
    BY <1>6, <1>b, <2>1, <2>2, <2>3 DEF Turn, TypeOK
<1>7. CASE PollTimeout
  <2>1. Expected(current) \in 0..MaxBursts
    BY <1>7, ListenerTypes DEF PollTimeout, TypeOK
  <2>2. seen \in 0..Expected(current)
    BY <1>7, <2>1, ListenerTypes DEF PollTimeout, MoreTurns, TypeOK
  <2>. QED
    BY <1>7, <1>b, <2>1, <2>2 DEF PollTimeout, TypeOK
<1>8. ASSUME NEW gap \in 0..(MaxChunks + 1), Finish(gap)
      PROVE  TypeOK'
  <2>1. log' \in Seq(LogLines)
    BY <1>8, LogGrows
  <2>2. faults' \in 0..MaxFaults
    BY <1>8, ListenerTypes DEF Finish, Fault, TypeOK
  <2>3. missed' \in Nat
    BY <1>8 DEF Finish, TypeOK
  <2>4. /\ current' = NoTrial /\ turns' = 0 /\ seen' = 0
        /\ UNCHANGED <<senderVars, net, delivered>>
    BY <1>8 DEF Finish
  <2>. QED
    BY <1>b, <2>1, <2>2, <2>3, <2>4, ListenerTypes DEF TypeOK
<1>9. CASE TrialFails
  BY <1>9, <1>b, ListenerTypes DEF TrialFails, Fault, TypeOK
<1>10. CASE UNCHANGED listenerVars
  BY <1>10, <1>b DEF listenerVars, TypeOK
<1>. QED
  BY <1>1, <1>2, <1>3, <1>4, <1>5, <1>6, <1>7, <1>8, <1>9, <1>10, ListenerTypes
     DEF ListenerNext, DeviceStep

\* The types hold in every reachable state of the listener build, its sender and
\* its log.
THEOREM ListenerTypeCorrect == ListenerSpec => []TypeOK
BY TypeInit, TypeStep, PTL DEF ListenerSpec

------------------------------------------------------------------------------
(* How the queue changes. *)

\* A packet that is sent comes last in the queue and is counted, or it is missed.
LEMMA SentQueue ==
    ASSUME TypeOK, NEW type \in {"START", "BURST"}, NEW lost \in BOOLEAN, trial < Trials,
           Sent(type, lost)
    PROVE  \/ /\ net' = net /\ delivered' = delivered /\ missed' = missed + 1
              /\ \A t : Waiting(net', t) = Waiting(net, t)
           \/ /\ missed' = missed
              /\ delivered' = IF type = "BURST"
                              THEN [delivered EXCEPT ![<<session, trial>>] = @ + 1] ELSE delivered
              /\ Len(net) \in Nat /\ Len(net') = Len(net) + 1 /\ net'[Len(net) + 1] = Msg(type)
              /\ \A k \in 1..Len(net) : net'[k] = net[k] /\ k \in 1..Len(net')
              /\ \A k \in 1..Len(net') : k \in 1..Len(net) \/ k = Len(net) + 1
              /\ \A t : Waiting(net', t) = Waiting(net, t) + (IF type = "BURST" /\ t = trial THEN 1 ELSE 0)
<1>. DEFINE arrives == ~lost /\ Len(net) < QueueLength
<1>1. net \in Seq(Packets) /\ Msg(type) \in Packets /\ Len(net) \in Nat
  BY MessageTypes DEF TypeOK
<1>2. CASE ~arrives
  <2>1. net' = net /\ delivered' = delivered /\ missed' = missed + 1
    BY <1>2 DEF Sent
  <2>. QED
    BY <2>1 DEF Waiting
<1>3. CASE arrives
  <2>1. /\ net' = Append(net, Msg(type)) /\ missed' = missed
        /\ delivered' = IF type = "BURST"
                        THEN [delivered EXCEPT ![<<session, trial>>] = @ + 1] ELSE delivered
    BY <1>3 DEF Sent
  <2>2. /\ Len(net') = Len(net) + 1 /\ net'[Len(net) + 1] = Msg(type)
        /\ \A k \in 1..Len(net) : net'[k] = net[k]
    BY <1>1, <2>1, QueueAdded
  <2>3. ASSUME NEW t
        PROVE  Waiting(net', t) = Waiting(net, t) + (IF type = "BURST" /\ t = trial THEN 1 ELSE 0)
    <3>1. Msg(type) \in BurstsOf(t) <=> type = "BURST" /\ t = trial
      BY <1>1 DEF BurstsOf, Msg
    <3>2. Waiting(net', t) = Waiting(net, t) + (IF Msg(type) \in BurstsOf(t) THEN 1 ELSE 0)
      BY <1>1, <2>1, PlacesAdded DEF Waiting
    <3>. QED
      BY <3>1, <3>2
  <2>. QED
    BY <1>1, <2>1, <2>2, <2>3
<1>. QED
  BY <1>2, <1>3

\* The packet that the device receives was the first in the queue.
LEMMA ReadQueue ==
    ASSUME TypeOK, net # <<>>, net' = Tail(net)
    PROVE  /\ Len(net) \in Nat \ {0} /\ Len(net') = Len(net) - 1
           /\ Received = net[1] /\ Received \in Packets /\ 1 \in 1..Len(net)
           /\ \A k \in 1..Len(net') : k + 1 \in 1..Len(net) /\ 1 < k + 1 /\ net'[k] = net[k + 1]
           /\ \A k \in 1..Len(net) : k = 1 \/ (k - 1 \in 1..Len(net') /\ net'[k - 1] = net[k])
           /\ \A t : Waiting(net, t) = Waiting(net', t) + (IF Received.type = "BURST" /\ Received.trial = t
                                                 THEN 1 ELSE 0)
<1>1. net \in Seq(Packets)
  BY DEF TypeOK
<1>2. /\ Len(net) \in Nat \ {0} /\ Len(net') = Len(net) - 1
      /\ Received = net[1] /\ Received \in Packets
      /\ \A k \in 1..(Len(net) - 1) : net'[k] = net[k + 1]
  BY <1>1, QueueRead DEF Received
<1>3. ASSUME NEW t
      PROVE  Waiting(net, t) = Waiting(net', t) + (IF Received.type = "BURST" /\ Received.trial = t
                                         THEN 1 ELSE 0)
  <2>1. Waiting(net, t) = Waiting(net', t) + (IF Received \in BurstsOf(t) THEN 1 ELSE 0)
    BY <1>1, PlacesRead DEF Waiting, Received
  <2>2. Received \in BurstsOf(t) <=> Received.type = "BURST" /\ Received.trial = t
    BY <1>2 DEF BurstsOf
  <2>. QED
    BY <2>1, <2>2
<1>4. /\ \A k \in 1..Len(net') : k + 1 \in 1..Len(net) /\ 1 < k + 1 /\ net'[k] = net[k + 1]
      /\ \A k \in 1..Len(net) : k = 1 \/ (k - 1 \in 1..Len(net') /\ net'[k - 1] = net[k])
      /\ 1 \in 1..Len(net)
  BY <1>2
<1>. QED
  BY <1>2, <1>3, <1>4

\* The number of waiting bursts is a natural number, 0 if none is in the queue.
LEMMA WaitingType ==
    ASSUME TypeOK, NEW t
    PROVE  /\ Waiting(net, t) \in Nat
           /\ (\A k \in 1..Len(net) : ~ (net[k].type = "BURST" /\ net[k].trial = t)) => Waiting(net, t) = 0
<1>1. Waiting(net, t) \in Nat
  BY PlacesFinite DEF Waiting, TypeOK
<1>2. ASSUME \A k \in 1..Len(net) : ~ (net[k].type = "BURST" /\ net[k].trial = t)
      PROVE  Waiting(net, t) = 0
  <2>1. Places(net, BurstsOf(t)) = {}
    BY <1>2 DEF Places, BurstsOf
  <2>. QED
    BY <2>1, FS_EmptySet DEF Waiting
<1>. QED
  BY <1>1, <1>2

\* Every packet in the queue and the one the device works on have their types.
LEMMA PacketTypes ==
    ASSUME TypeOK
    PROVE  /\ \A k \in 1..Len(net) : /\ net[k] \in Packets /\ net[k].trial \in 0..(Trials - 1)
                                     /\ net[k].type \in {"START", "BURST"} /\ net[k].session \in Nat
           /\ current # NoTrial => /\ current \in Packets /\ current.trial \in 0..(Trials - 1)
                                   /\ current.session \in Nat
           /\ trial \in Nat /\ session \in Nat
<1>1. \A k \in 1..Len(net) : net[k] \in Packets
  BY DEF TypeOK
<1>2. current # NoTrial => current \in Packets
  BY DEF TypeOK
<1>3. \A p \in Packets : p.trial \in 0..(Trials - 1) /\ p.type \in {"START", "BURST"} /\ p.session \in Nat
  BY DEF Packets
<1>4. trial \in Nat /\ session \in Nat
  BY ListenerTypes DEF TypeOK
<1>. QED
  BY <1>1, <1>2, <1>3, <1>4

------------------------------------------------------------------------------
(* The order of the packets. *)

\* At first there are none.
LEMMA OrderInit == ListenerInit => OrderInv
BY DEF ListenerInit, OrderInv

\* Every step keeps the order.
LEMMA OrderStep == TypeOK /\ OrderInv /\ [ListenerNext]_listenerVars => OrderInv'
<1>. SUFFICES ASSUME TypeOK, OrderInv, [ListenerNext]_listenerVars
              PROVE  OrderInv'
  OBVIOUS
<1>. USE DEF senderVars, deviceVars
<1>b. /\ NotStarted = -1 /\ seq \in {NotStarted} \union Nat /\ trial \in Nat
      /\ seq # NotStarted => trial < Trials
      /\ session' = session => Bursts' = Bursts /\ Chunks' = Chunks
  BY ListenerTypes DEF NotStarted, Bursts, Chunks, TypeOK
<1>s. ASSUME NEW type \in {"START", "BURST"}, NEW lost \in BOOLEAN, trial < Trials, Sent(type, lost),
             UNCHANGED <<session, trial, current>>, seq' \in Nat,
             type = "START" => seq = NotStarted
      PROVE  OrderInv'
  <2>1. Msg(type).session = session /\ Msg(type).bursts = Bursts /\ Msg(type).chunks = Chunks
        /\ Msg(type).trial = trial /\ Msg(type).type = type
    BY DEF Msg
  <2>2. CASE net' = net
    BY <1>s, <1>b, <2>2 DEF OrderInv
  <2>3. CASE /\ Len(net) \in Nat /\ Len(net') = Len(net) + 1 /\ net'[Len(net) + 1] = Msg(type)
             /\ \A k \in 1..Len(net) : net'[k] = net[k] /\ k \in 1..Len(net')
             /\ \A k \in 1..Len(net') : k \in 1..Len(net) \/ k = Len(net) + 1
    <3>1. ASSUME NEW k \in 1..Len(net')
          PROVE  /\ net'[k].session = session /\ net'[k].bursts = Bursts /\ net'[k].chunks = Chunks
                 /\ net'[k].trial < trial \/ (net'[k].trial = trial /\ seq' # NotStarted)
      BY <1>s, <1>b, <2>1, <2>3 DEF OrderInv
    <3>2. ASSUME NEW i \in 1..Len(net'), NEW j \in 1..Len(net'), i < j
          PROVE  /\ net'[i].trial <= net'[j].trial
                 /\ net'[j].type = "START" => net'[i].trial < net'[j].trial
      <4>1. i \in 1..Len(net) /\ net'[i] = net[i]
        BY <2>3, <3>2
      <4>2. CASE j \in 1..Len(net)
        BY <2>3, <3>2, <4>1, <4>2 DEF OrderInv
      <4>3. CASE j = Len(net) + 1
        <5>1. net[i].trial < trial \/ (net[i].trial = trial /\ seq # NotStarted)
          BY <4>1 DEF OrderInv
        <5>2. net[i].trial \in Nat
          BY <4>1, PacketTypes
        <5>. QED
          BY <1>s, <1>b, <2>1, <2>3, <4>1, <4>3, <5>1, <5>2
      <4>. QED
        BY <2>3, <4>2, <4>3
    <3>3. ASSUME current # NoTrial
          PROVE  /\ current.session = session /\ current.bursts = Bursts /\ current.chunks = Chunks
                 /\ current.trial < trial \/ (current.trial = trial /\ seq' # NotStarted)
                 /\ \A k \in 1..Len(net') :
                       /\ current.trial <= net'[k].trial
                       /\ net'[k].type = "START" => current.trial < net'[k].trial
      <4>1. /\ current.session = session /\ current.bursts = Bursts /\ current.chunks = Chunks /\ current.trial \in Nat
            /\ current.trial < trial \/ (current.trial = trial /\ seq # NotStarted)
        BY <3>3, PacketTypes DEF OrderInv
      <4>2. ASSUME NEW k \in 1..Len(net')
            PROVE  /\ current.trial <= net'[k].trial
                   /\ net'[k].type = "START" => current.trial < net'[k].trial
        <5>1. CASE k \in 1..Len(net)
          BY <2>3, <3>3, <5>1 DEF OrderInv
        <5>2. CASE k = Len(net) + 1
          BY <1>s, <1>b, <2>1, <2>3, <4>1, <5>2
        <5>. QED
          BY <2>3, <5>1, <5>2
      <4>. QED
        BY <1>s, <1>b, <4>1, <4>2
    <3>. QED
      BY <1>s, <1>b, <3>1, <3>2, <3>3 DEF OrderInv
  <2>. QED
    BY <1>s, <2>2, <2>3, SentQueue
<1>r. ASSUME net # <<>>, net' = Tail(net), UNCHANGED senderVars,
             current' = current \/ current' = NoTrial
                \/ (current' = Received /\ Received.type = "START")
      PROVE  OrderInv'
  <2>. DEFINE q == net'
  <2>1. /\ \A k \in 1..Len(net') : k + 1 \in 1..Len(net) /\ 1 < k + 1 /\ net'[k] = net[k + 1]
        /\ Received = net[1] /\ 1 \in 1..Len(net)
    BY <1>r, ReadQueue
  <2>2. ASSUME NEW k \in 1..Len(net')
        PROVE  /\ net'[k].session = session /\ net'[k].bursts = Bursts /\ net'[k].chunks = Chunks
               /\ net'[k].trial < trial \/ (net'[k].trial = trial /\ seq # NotStarted)
    BY <2>1 DEF OrderInv
  <2>3. ASSUME NEW i \in 1..Len(net'), NEW j \in 1..Len(net'), i < j
        PROVE  /\ net'[i].trial <= net'[j].trial
               /\ net'[j].type = "START" => net'[i].trial < net'[j].trial
    <3>1. i + 1 \in 1..Len(net) /\ j + 1 \in 1..Len(net) /\ i + 1 < j + 1
      BY <2>1, <2>3
    <3>. QED
      BY <2>1, <3>1 DEF OrderInv
  <2>4. ASSUME current' # NoTrial
        PROVE  /\ current'.session = session /\ current'.bursts = Bursts /\ current'.chunks = Chunks
               /\ current'.trial < trial \/ (current'.trial = trial /\ seq # NotStarted)
               /\ \A k \in 1..Len(net') :
                     /\ current'.trial <= net'[k].trial
                     /\ net'[k].type = "START" => current'.trial < net'[k].trial
    <3>1. CASE current' = current
      BY <2>1, <2>4, <3>1 DEF OrderInv
    <3>2. CASE current' = Received
      BY <2>1, <2>4, <3>2 DEF OrderInv
    <3>. QED
      BY <1>r, <2>4, <3>1, <3>2
  <2>. QED
    BY <1>r, <1>b, <2>2, <2>3, <2>4 DEF OrderInv
<1>1. ASSUME NEW lost \in BOOLEAN, SendStart(lost)
      PROVE  OrderInv'
  BY <1>1, <1>s DEF SendStart
<1>2. ASSUME NEW lost \in BOOLEAN, SendBurst(lost)
      PROVE  OrderInv'
  <2>1. seq \in Nat /\ trial < Trials /\ seq' \in Nat
    BY <1>2, <1>b DEF SendBurst
  <2>. QED
    BY <1>2, <1>s, <2>1 DEF SendBurst
<1>3. CASE NextTrial
  <2>1. /\ trial' = trial + 1 /\ UNCHANGED <<session, net, current>>
    BY <1>3 DEF NextTrial
  <2>2. \A k \in 1..Len(net) : net[k].trial \in Nat
    BY PacketTypes
  <2>3. current # NoTrial => current.trial \in Nat
    BY PacketTypes
  <2>. QED
    BY <1>b, <2>1, <2>2, <2>3 DEF OrderInv
<1>4. CASE NextSession
  BY <1>4 DEF NextSession, OrderInv
<1>5. CASE Listen
  BY <1>5, <1>r DEF Listen
<1>6. CASE Turn
  BY <1>6, <1>r DEF Turn
<1>7. CASE PollTimeout
  BY <1>7, <1>b DEF PollTimeout, OrderInv
<1>8. ASSUME NEW gap \in 0..(MaxChunks + 1), Finish(gap)
      PROVE  OrderInv'
  <2>1. current' = NoTrial /\ UNCHANGED <<senderVars, net>>
    BY <1>8 DEF Finish
  <2>. QED
    BY <1>b, <2>1 DEF OrderInv
<1>9. CASE TrialFails
  BY <1>9, <1>b DEF TrialFails, OrderInv
<1>10. CASE UNCHANGED listenerVars
  BY <1>10, <1>b DEF listenerVars, OrderInv
<1>. QED
  BY <1>1, <1>2, <1>3, <1>4, <1>5, <1>6, <1>7, <1>8, <1>9, <1>10, ListenerTypes
     DEF ListenerNext, DeviceStep

------------------------------------------------------------------------------
(* What a trial has seen. *)

\* At first nothing was sent.
LEMMA CountInit == ListenerInit => CountInv
BY DEF ListenerInit, CountInv

\* Every step keeps the count of every trial before the device.
LEMMA CountStep ==
    TypeOK /\ OrderInv /\ CountInv /\ [ListenerNext]_listenerVars => CountInv'
<1>. SUFFICES ASSUME TypeOK, OrderInv, CountInv, [ListenerNext]_listenerVars
              PROVE  CountInv'
  OBVIOUS
<1>. USE DEF senderVars, deviceVars
<1>b. /\ NotStarted = -1 /\ seq \in {NotStarted} \union Nat /\ trial \in Nat /\ session \in Nat
      /\ seq # NotStarted => trial < Trials
      /\ turns \in Nat /\ seen \in 0..turns /\ delivered \in [Ids -> Nat]
      /\ current # NoTrial => Expected(current) \in Nat /\ current.trial \in Nat
  BY ListenerTypes, PacketTypes DEF NotStarted, TypeOK
<1>i. \A id \in Ids : id[1] \in Nat /\ id[2] \in Nat
  BY ListenerTypes DEF Ids
<1>w. \A t : Waiting(net, t) \in Nat
  BY WaitingType
<1>d. /\ \A k \in 1..Len(net) : <<session, net[k].trial>> \in Ids
      /\ current # NoTrial => <<session, current.trial>> \in Ids
  BY PacketTypes DEF TypeOK, Ids
<1>s. ASSUME NEW type \in {"START", "BURST"}, NEW lost \in BOOLEAN, trial < Trials, Sent(type, lost),
             UNCHANGED <<session, trial, current, turns, seen>>, seq' \in Nat,
             type = "START" <=> seq = NotStarted
      PROVE  CountInv'
  <2>1. Msg(type).trial = trial /\ Msg(type).type = type
    BY DEF Msg
  <2>2. \A id \in Ids : Begun(id) => Begun(id)'
    BY <1>s, <1>b, <1>i DEF Begun, Closed
  <2>3. CASE net' = net /\ delivered' = delivered /\ \A t : Waiting(net', t) = Waiting(net, t)
    BY <1>s, <2>2, <2>3 DEF CountInv
  <2>4. CASE /\ delivered' = IF type = "BURST"
                             THEN [delivered EXCEPT ![<<session, trial>>] = @ + 1] ELSE delivered
             /\ Len(net) \in Nat /\ Len(net') = Len(net) + 1 /\ net'[Len(net) + 1] = Msg(type)
             /\ \A k \in 1..Len(net) : net'[k] = net[k] /\ k \in 1..Len(net')
             /\ \A k \in 1..Len(net') : k \in 1..Len(net) \/ k = Len(net) + 1
             /\ \A t : Waiting(net', t) = Waiting(net, t) + (IF type = "BURST" /\ t = trial THEN 1 ELSE 0)
    <3>1. \A id \in Ids : delivered'[id] =
             delivered[id] + (IF type = "BURST" /\ id = <<session, trial>> THEN 1 ELSE 0)
      BY <1>b, <2>4
    <3>2. ASSUME NEW id \in Ids, ~Begun(id)'
          PROVE  delivered'[id] = 0
      <4>1. id # <<session, trial>>
        BY <1>s, <1>b, <3>2 DEF Begun
      <4>2. delivered[id] = 0
        BY <2>2, <3>2 DEF CountInv
      <4>. QED
        BY <3>1, <4>1, <4>2
    <3>3. ASSUME NEW t, <<session, t>> \in Ids, delivered[<<session, t>>] = Waiting(net, t)
          PROVE  delivered'[<<session, t>>] = Waiting(net', t)
      BY <1>w, <2>4, <3>1, <3>3
    <3>4. ASSUME NEW k \in 1..Len(net'), net'[k].type = "START"
          PROVE  delivered'[<<session, net'[k].trial>>] = Waiting(net', net'[k].trial)
      <4>1. CASE k \in 1..Len(net)
        <5>1. net'[k] = net[k] /\ delivered[<<session, net[k].trial>>] = Waiting(net, net[k].trial)
          BY <2>4, <3>4, <4>1 DEF CountInv
        <5>2. delivered'[<<session, net[k].trial>>] = Waiting(net', net[k].trial)
          BY <1>d, <3>3, <4>1, <5>1
        <5>. QED
          BY <5>1, <5>2
      <4>2. CASE k = Len(net) + 1
        <5>1. type = "START" /\ seq = NotStarted /\ net'[k].trial = trial
          BY <1>s, <2>1, <2>4, <3>4, <4>2
        <5>2. <<session, trial>> \in Ids
          BY <1>s, <1>b, ListenerTypes DEF Ids, TypeOK
        <5>3. delivered[<<session, trial>>] = 0
          BY <1>b, <5>1, <5>2 DEF CountInv, Begun, Closed
        <5>4. \A j \in 1..Len(net) : net[j].trial < trial /\ net[j].trial \in Nat
          BY <5>1, PacketTypes DEF OrderInv
        <5>5. Waiting(net, trial) = 0
          BY <1>b, <5>4, WaitingType
        <5>6. delivered'[<<session, trial>>] = Waiting(net', trial)
          BY <3>3, <5>2, <5>3, <5>5
        <5>. QED
          BY <5>1, <5>6
      <4>. QED
        BY <2>4, <4>1, <4>2
    <3>5. ASSUME current # NoTrial
          PROVE  /\ delivered'[<<session, current.trial>>] = seen + Waiting(net', current.trial)
                 /\ turns <= Expected(current)
                 /\ turns > seen => Waiting(net', current.trial) = 0 /\ current.trial < trial
      <4>1. /\ delivered[<<session, current.trial>>] = seen + Waiting(net, current.trial)
            /\ turns <= Expected(current)
            /\ turns > seen => Waiting(net, current.trial) = 0 /\ current.trial < trial
        BY <3>5 DEF CountInv
      <4>2. <<session, current.trial>> \in Ids
        BY <1>d, <3>5
      <4>. DEFINE n == IF type = "BURST" /\ current.trial = trial THEN 1 ELSE 0
      <4>3. delivered'[<<session, current.trial>>] = delivered[<<session, current.trial>>] + n
        BY <3>1, <4>2
      <4>4. Waiting(net', current.trial) = Waiting(net, current.trial) + n
        BY <2>4
      <4>5. current.trial < trial => n = 0
        BY <1>b, <3>5
      <4>6. n \in Nat /\ Waiting(net, current.trial) \in Nat
        BY <1>w
      <4>. HIDE DEF n
      <4>. QED
        BY <1>b, <4>1, <4>3, <4>4, <4>5, <4>6
    <3>. QED
      BY <1>s, <3>2, <3>4, <3>5 DEF CountInv
  <2>. QED
    BY <1>s, <2>3, <2>4, SentQueue
<1>1. ASSUME NEW lost \in BOOLEAN, SendStart(lost)
      PROVE  CountInv'
  BY <1>1, <1>s, <1>b DEF SendStart
<1>2. ASSUME NEW lost \in BOOLEAN, SendBurst(lost)
      PROVE  CountInv'
  <2>1. seq \in Nat /\ trial < Trials /\ seq' \in Nat /\ seq # NotStarted
    BY <1>2, <1>b DEF SendBurst
  <2>. QED
    BY <1>2, <1>s, <2>1 DEF SendBurst
<1>q. ASSUME UNCHANGED <<session, net, delivered>>
      PROVE  \A t : Waiting(net', t) = Waiting(net, t)
  BY <1>q DEF Waiting
<1>3. CASE NextTrial
  <2>1. /\ trial' = trial + 1 /\ UNCHANGED <<session, net, deviceVars, delivered>> /\ seq # NotStarted
    <3>1. seq = Bursts /\ Bursts \in Nat
      BY <1>3, ListenerTypes DEF NextTrial
    <3>. QED
      BY <1>3, <1>b, <3>1 DEF NextTrial
  <2>2. \A id \in Ids : Begun(id) => Begun(id)'
    BY <1>b, <1>i, <2>1 DEF Begun, Closed
  <2>3. current # NoTrial /\ current.trial < trial => current.trial < trial'
    BY <1>b, <2>1
  <2>. QED
    BY <2>1, <2>2, <2>3, <1>q DEF CountInv
<1>4. CASE NextSession
  <2>1. net = <<>> /\ current = NoTrial /\ session' = session + 1 /\ UNCHANGED <<net, current, delivered>>
    BY <1>4 DEF NextSession
  <2>2. \A id \in Ids : Begun(id) => Begun(id)'
    BY <1>b, <1>i, <2>1 DEF Begun, Closed
  <2>. QED
    BY <2>1, <2>2 DEF CountInv
<1>r. ASSUME net # <<>>, net' = Tail(net), UNCHANGED <<senderVars, delivered>>
      PROVE  /\ \A id \in Ids : ~Begun(id)' => delivered'[id] = 0
             /\ \A k \in 1..Len(net') : net'[k].type = "START" =>
                   delivered'[<<session', net'[k].trial>>] = Waiting(net', net'[k].trial)
  <2>1. ASSUME NEW k \in 1..Len(net'), net'[k].type = "START"
        PROVE  delivered[<<session, net'[k].trial>>] = Waiting(net', net'[k].trial)
    <3>1. k + 1 \in 1..Len(net) /\ net'[k] = net[k + 1] /\ Received = net[1] /\ 1 \in 1..Len(net) /\ 1 < k + 1
      BY <1>r, <2>1, ReadQueue
    <3>2. Received.trial < net'[k].trial /\ Received.trial \in Nat /\ net'[k].trial \in Nat
      BY <2>1, <3>1, PacketTypes DEF OrderInv
    <3>3. Waiting(net, net'[k].trial) = Waiting(net', net'[k].trial) + 0
      <4>1. Received.trial # net'[k].trial
        BY <3>2
      <4>. QED
        BY <1>r, <4>1, ReadQueue
    <3>4. delivered[<<session, net'[k].trial>>] = Waiting(net, net'[k].trial)
      BY <2>1, <3>1 DEF CountInv
    <3>5. Waiting(net', net'[k].trial) \in Nat
      <4>1. net' \in Seq(Packets)
        BY <1>r, QueueRead DEF TypeOK
      <4>. QED
        BY <4>1, PlacesFinite DEF Waiting
    <3>. QED
      BY <3>3, <3>4, <3>5
  <2>2. \A id \in Ids : Begun(id)' <=> Begun(id)
    BY <1>r DEF Begun, Closed
  <2>. QED
    BY <1>r, <2>1, <2>2 DEF CountInv
<1>v. ASSUME net # <<>>, net' = Tail(net)
      PROVE  \A t : Waiting(net', t) \in Nat
  <2>1. net' \in Seq(Packets)
    BY <1>v, QueueRead DEF TypeOK
  <2>. QED
    BY <2>1, PlacesFinite DEF Waiting
<1>5. CASE Listen
  <2>1. net # <<>> /\ net' = Tail(net) /\ UNCHANGED <<senderVars, delivered>> /\ turns' = 0 /\ seen' = 0
        /\ current' = IF Received.type = "START" THEN Received ELSE NoTrial
    BY <1>5 DEF Listen
  <2>2. ASSUME current' # NoTrial
        PROVE  /\ delivered[<<session, current'.trial>>] = Waiting(net', current'.trial)
               /\ Expected(current') \in Nat
    <3>1. Received.type = "START" /\ current' = Received /\ Received = net[1] /\ 1 \in 1..Len(net)
          /\ Received \in Packets
      BY <2>1, <2>2, ReadQueue
    <3>2. Waiting(net, Received.trial) = Waiting(net', Received.trial) + 0 /\ Waiting(net', Received.trial) \in Nat
      BY <1>v, <2>1, <3>1, ReadQueue
    <3>3. delivered[<<session, Received.trial>>] = Waiting(net, Received.trial)
      BY <3>1 DEF CountInv
    <3>4. delivered[<<session, Received.trial>>] = Waiting(net', Received.trial)
      BY <3>2, <3>3
    <3>5. Expected(Received) \in Nat
      BY <3>1, ListenerTypes
    <3>. QED
      BY <3>1, <3>4, <3>5
  <2>3. current' # NoTrial => Waiting(net', current'.trial) \in Nat
    BY <1>v, <2>1
  <2>. QED
    BY <1>r, <2>1, <2>2, <2>3 DEF CountInv
<1>6. CASE Turn
  <2>1. net # <<>> /\ net' = Tail(net) /\ UNCHANGED <<senderVars, current, delivered>>
        /\ current # NoTrial /\ turns < Expected(current)
        /\ turns' = turns + 1 /\ seen' = IF Counts(Received) THEN seen + 1 ELSE seen
    BY <1>6 DEF Turn, MoreTurns
  <2>. DEFINE t == current.trial
  <2>2. /\ delivered[<<session, t>>] = seen + Waiting(net, t)
        /\ turns > seen => Waiting(net, t) = 0 /\ t < trial
    BY <2>1 DEF CountInv
  <2>3. /\ Waiting(net, t) = Waiting(net', t) + (IF Counts(Received) THEN 1 ELSE 0)
        /\ Waiting(net, t) \in Nat /\ Waiting(net', t) \in Nat
    BY <1>v, <1>w, <2>1, ReadQueue DEF Counts
  <2>4. CASE Counts(Received)
    <3>1. turns = seen
      BY <1>b, <2>2, <2>3, <2>4
    <3>2. delivered[<<session, t>>] = seen' + Waiting(net', t) /\ turns' = seen' /\ turns' <= Expected(current)
      BY <1>b, <2>1, <2>2, <2>3, <2>4, <3>1
    <3>. QED
      BY <1>r, <1>b, <2>1, <3>2 DEF CountInv
  <2>5. CASE ~Counts(Received)
    <3>1. Received = net[1] /\ 1 \in 1..Len(net) /\ Received \in Packets /\ Received.trial \in Nat /\ t \in Nat
      BY <1>b, <2>1, ReadQueue, PacketTypes
    <3>2. t < Received.trial
      <4>1. /\ t <= Received.trial
            /\ Received.type = "START" => t < Received.trial
        BY <2>1, <3>1 DEF OrderInv
      <4>2. Received.type \in {"START", "BURST"}
        BY <3>1, PacketTypes
      <4>. QED
        BY <2>5, <3>1, <4>1, <4>2 DEF Counts
    <3>3. \A k \in 1..Len(net) : Received.trial <= net[k].trial /\ net[k].trial \in Nat
      <4>1. \A k \in 1..Len(net) : k = 1 \/ 1 < k
        BY <2>1, ReadQueue
      <4>. QED
        BY <3>1, <4>1, PacketTypes DEF OrderInv
    <3>4. Waiting(net, t) = 0
      <4>1. \A k \in 1..Len(net) : net[k].trial # t
        BY <3>1, <3>2, <3>3
      <4>. QED
        BY <4>1, WaitingType
    <3>5. t < trial
      <4>1. Received.trial <= trial
        BY <1>b, <3>1 DEF OrderInv
      <4>. QED
        BY <1>b, <3>1, <3>2, <4>1
    <3>6. delivered[<<session, t>>] = seen' + Waiting(net', t) /\ Waiting(net', t) = 0 /\ turns' <= Expected(current)
      BY <1>b, <2>1, <2>2, <2>3, <2>5, <3>4
    <3>. QED
      BY <1>r, <1>b, <2>1, <3>5, <3>6 DEF CountInv
  <2>. QED
    BY <2>4, <2>5
<1>7. CASE PollTimeout
  <2>1. /\ current # NoTrial /\ net = <<>> /\ trial = Trials /\ turns' = Expected(current)
        /\ UNCHANGED <<senderVars, net, current, seen, delivered>>
    BY <1>7 DEF PollTimeout, SenderRests
  <2>2. Waiting(net, current.trial) = 0
    <3>1. Len(net) = 0
      BY <2>1
    <3>. QED
      BY <3>1, WaitingType
  <2>3. current.trial < trial
    BY <2>1, PacketTypes, ListenerTypes
  <2>4. \A id \in Ids : Begun(id)' <=> Begun(id)
    BY <2>1 DEF Begun, Closed
  <2>. QED
    BY <1>b, <2>1, <2>2, <2>3, <2>4, <1>q DEF CountInv
<1>8. ASSUME UNCHANGED <<senderVars, net, delivered>>, current' = NoTrial
      PROVE  CountInv'
  <2>1. \A id \in Ids : Begun(id)' <=> Begun(id)
    BY <1>8 DEF Begun, Closed
  <2>. QED
    BY <1>8, <1>q, <2>1 DEF CountInv
<1>9. ASSUME NEW gap \in 0..(MaxChunks + 1), Finish(gap)
      PROVE  CountInv'
  BY <1>8, <1>9 DEF Finish
<1>10. CASE TrialFails
  BY <1>8, <1>10 DEF TrialFails
<1>11. CASE UNCHANGED listenerVars
  <2>1. \A id \in Ids : Begun(id)' <=> Begun(id)
    BY <1>11 DEF Begun, Closed, listenerVars
  <2>. QED
    BY <1>11, <1>q, <2>1 DEF CountInv, listenerVars
<1>. QED
  BY <1>1, <1>2, <1>3, <1>4, <1>5, <1>6, <1>7, <1>9, <1>10, <1>11, ListenerTypes
     DEF ListenerNext, DeviceStep

------------------------------------------------------------------------------
(* The rows. *)

\* What has reached the device stays counted, and nothing reaches it any more for
\* a trial that the sender has left behind.
LEMMA DeliveredGrows ==
    ASSUME TypeOK, [ListenerNext]_listenerVars, NEW id \in Ids
    PROVE  /\ delivered[id] \in Nat /\ delivered'[id] \in Nat /\ delivered[id] <= delivered'[id]
           /\ Closed(id) => Closed(id)' /\ delivered'[id] = delivered[id]
<1>. USE DEF senderVars, deviceVars
<1>b. /\ trial \in Nat /\ session \in Nat /\ delivered \in [Ids -> Nat]
      /\ id[1] \in Nat /\ id[2] \in Nat
  BY ListenerTypes DEF TypeOK, Ids
<1>s. ASSUME NEW type \in {"START", "BURST"}, NEW lost \in BOOLEAN, trial < Trials, Sent(type, lost),
             UNCHANGED <<session, trial>>
      PROVE  /\ delivered'[id] \in Nat /\ delivered[id] <= delivered'[id]
             /\ Closed(id) => Closed(id)' /\ delivered'[id] = delivered[id]
  <2>1. Closed(id)' <=> Closed(id)
    BY <1>s DEF Closed
  <2>2. Closed(id) => id # <<session, trial>>
    BY <1>b DEF Closed
  <2>3. delivered' = delivered \/ delivered' = [delivered EXCEPT ![<<session, trial>>] = @ + 1]
    BY <1>s, SentQueue
  <2>. QED
    BY <1>b, <2>1, <2>2, <2>3
<1>1. ASSUME NEW lost \in BOOLEAN, SendStart(lost) \/ SendBurst(lost)
      PROVE  /\ delivered'[id] \in Nat /\ delivered[id] <= delivered'[id]
             /\ Closed(id) => Closed(id)' /\ delivered'[id] = delivered[id]
  <2>1. trial < Trials
    BY <1>1, ListenerTypes DEF SendStart, SendBurst, NotStarted, TypeOK
  <2>. QED
    BY <1>1, <1>s, <2>1 DEF SendStart, SendBurst
<1>2. CASE NextTrial
  BY <1>2, <1>b DEF NextTrial, Closed
<1>3. CASE NextSession
  BY <1>3, <1>b DEF NextSession, Closed
<1>4. CASE UNCHANGED <<senderVars, delivered>>
  BY <1>4, <1>b DEF Closed
<1>5. ASSUME NEW gap \in 0..(MaxChunks + 1), Finish(gap)
      PROVE  UNCHANGED <<senderVars, delivered>>
  BY <1>5 DEF Finish
<1>6. Listen \/ Turn \/ PollTimeout \/ TrialFails \/ UNCHANGED listenerVars
      => UNCHANGED <<senderVars, delivered>>
  BY DEF Listen, Turn, PollTimeout, TrialFails, listenerVars
<1>. QED
  BY <1>b, <1>1, <1>2, <1>3, <1>4, <1>5, <1>6, ListenerTypes DEF ListenerNext, DeviceStep

\* The log changes only when a trial is finished.
LEMMA LogChanges ==
    ASSUME [ListenerNext]_listenerVars
    PROVE  log' = log \/ \E gap \in 0..(MaxChunks + 1) : Finish(gap)
<1>1. MaxChunks + 1 \in Nat /\ 0 \in 0..(MaxChunks + 1) /\ 1..(MaxChunks + 1) \subseteq 0..(MaxChunks + 1)
  BY ListenerTypes
<1>. QED
  BY <1>1 DEF ListenerNext, DeviceStep, SendStart, SendBurst, NextTrial, NextSession, Listen, Turn,
     PollTimeout, TrialFails, listenerVars, senderVars, deviceVars

\* A row in the log is about a trial.
LEMMA RowTypes ==
    ASSUME TypeOK, NEW i \in 1..Len(log)
    PROVE  /\ log[i] \in LogLines /\ <<log[i].session, log[i].trial>> \in Ids
           /\ log[i].seen \in Nat /\ log[i].expected \in Nat
           /\ log[i].session \in Nat /\ log[i].trial \in Nat /\ log[i].offset \in 0..MaxChunks
<1>1. log[i] \in LogLines
  BY DEF TypeOK
<1>. QED
  BY <1>1, ListenerTypes DEF LogLines, Ids

\* At first there are no rows.
LEMMA RowInit == ListenerInit => RowInv
BY DEF ListenerInit, RowInv, ParsedRows

\* Every step keeps the rows true.
LEMMA RowStep ==
    TypeOK /\ OrderInv /\ CountInv /\ RowInv /\ [ListenerNext]_listenerVars => RowInv'
<1>. SUFFICES ASSUME TypeOK, OrderInv, CountInv, RowInv, [ListenerNext]_listenerVars
              PROVE  RowInv'
  OBVIOUS
<1>. DEFINE Good(line) ==
        LET id == <<line.session, line.trial>>
        IN  \/ line.seen = line.expected /\ line.seen <= delivered[id]
            \/ line.seen = delivered[id] /\ Closed(id)
<1>1. ASSUME NEW i \in ParsedRows(log)
      PROVE  Good(log[i])'  \/ log'[i] # log[i]
  <2>. DEFINE id == <<log[i].session, log[i].trial>>
  <2>1. i \in 1..Len(log) /\ id \in Ids /\ log[i].seen \in Nat
    BY RowTypes DEF ParsedRows
  <2>2. \/ log[i].seen = log[i].expected /\ log[i].seen <= delivered[id]
        \/ log[i].seen = delivered[id] /\ Closed(id)
    BY DEF RowInv
  <2>3. /\ delivered[id] \in Nat /\ delivered'[id] \in Nat /\ delivered[id] <= delivered'[id]
    BY <2>1, DeliveredGrows
  <2>4. Closed(id) =>
           /\ id[1] < session' \/ (id[1] = session' /\ id[2] < trial')
           /\ delivered'[id] = delivered[id]
    <3>1. ASSUME NEW x \in Ids, Closed(x)
          PROVE  /\ x[1] < session' \/ (x[1] = session' /\ x[2] < trial')
                 /\ delivered'[x] = delivered[x]
      BY <3>1, DeliveredGrows DEF Closed
    <3>. QED
      BY <2>1, <3>1
  <2>. QED
    BY <2>1, <2>2, <2>3, <2>4 DEF Closed
<1>2. CASE log' = log
  BY <1>1, <1>2 DEF RowInv, ParsedRows
<1>3. ASSUME NEW gap \in 0..(MaxChunks + 1), Finish(gap)
      PROVE  RowInv'
  <2>1. /\ current # NoTrial /\ ~ (turns < Expected(current))
        /\ UNCHANGED <<senderVars, net, delivered>>
    BY <1>3 DEF Finish, MoreTurns
  <2>2. Good(ResultLine)
    <3>1. /\ delivered[<<session, current.trial>>] = seen + Waiting(net, current.trial)
          /\ turns <= Expected(current)
          /\ turns > seen => Waiting(net, current.trial) = 0 /\ current.trial < trial
          /\ current.session = session
      BY <2>1 DEF CountInv, OrderInv
    <3>2. Expected(current) \in Nat /\ turns \in Nat /\ seen \in 0..turns
          /\ Waiting(net, current.trial) \in Nat
      BY <2>1, ListenerTypes, WaitingType DEF TypeOK
    <3>3. turns = Expected(current)
      BY <2>1, <3>1, <3>2
    <3>4. CASE seen = turns
      BY <3>1, <3>2, <3>3, <3>4, LineFields
    <3>5. CASE seen # turns
      BY <3>1, <3>2, <3>5, LineFields DEF Closed
    <3>. QED
      BY <3>4, <3>5
  <2>3. ASSUME NEW i \in ParsedRows(log')
        PROVE  Good(log[i])'
    <3>1. CASE i \in 1..Len(log)
      <4>1. i \in ParsedRows(log) /\ log'[i] = log[i]
        BY <1>3, <2>3, <3>1, LogGrows DEF ParsedRows
      <4>. QED
        BY <1>1, <4>1
    <3>2. CASE i \notin 1..Len(log)
      <4>1. i \in 1..Len(log') /\ i > Len(log)
        BY <1>3, <2>3, <3>2, LogGrows DEF ParsedRows
      <4>2. log'[i] = ResultLine \/ \E o \in 1..Requested(current) : log'[i] = ChunkLine(o)
        BY <1>3, <4>1, LogGrows
      <4>3. log'[i] = ResultLine
        BY <2>3, <4>2, LineFields DEF ParsedRows
      <4>. QED
        BY <2>2, <2>1, <4>3 DEF Closed, senderVars
    <3>. QED
      BY <3>1, <3>2
  <2>. QED
    BY <2>3 DEF RowInv
<1>. QED
  BY <1>2, <1>3, LogChanges

\* The greater one of a number and 0.
LEMMA AtLeastZero ==
    ASSUME NEW a \in Int
    PROVE  Max({a, 0}) = IF a > 0 THEN a ELSE 0
<1>1. \A y \in {a, 0} : (IF a > 0 THEN a ELSE 0) >= y
  OBVIOUS
<1>2. (IF a > 0 THEN a ELSE 0) \in {a, 0}
  OBVIOUS
<1>3. Max({a, 0}) \in {a, 0} /\ \A y \in {a, 0} : Max({a, 0}) >= y
  BY <1>1, <1>2 DEF Max
<1>. QED
  BY <1>3

\* The packet loss that the summary reports of a trial is the number of bursts
\* that did not reach the device, whatever was lost before and after it
\* (build_summary on what run_trial and the sender do).
THEOREM LossIsWhatWasLost == ListenerSpec => []PacketLossIsTrue
<1>1. ListenerInit => TypeOK /\ OrderInv /\ CountInv /\ RowInv
  BY TypeInit, OrderInit, CountInit, RowInit
<1>2. TypeOK /\ OrderInv /\ CountInv /\ RowInv /\ [ListenerNext]_listenerVars
      => (TypeOK /\ OrderInv /\ CountInv /\ RowInv)'
  BY TypeStep, OrderStep, CountStep, RowStep
<1>3. TypeOK /\ RowInv => PacketLossIsTrue
  <2>. SUFFICES ASSUME TypeOK, RowInv, NEW i \in ParsedRows(log)
                PROVE  PacketLoss(log)[i] =
                          Max({log[i].expected - delivered[<<log[i].session, log[i].trial>>], 0})
    BY DEF PacketLossIsTrue
  <2>. DEFINE id == <<log[i].session, log[i].trial>>
  <2>1. /\ id \in Ids /\ log[i].seen \in Nat /\ log[i].expected \in Nat
    BY RowTypes DEF ParsedRows
  <2>2. delivered[id] \in Nat
    BY <2>1 DEF TypeOK
  <2>3. log[i].seen = delivered[id] \/ (log[i].seen = log[i].expected /\ log[i].seen <= delivered[id])
    BY DEF RowInv
  <2>4. PacketLoss(log)[i] = Max({log[i].expected - log[i].seen, 0})
    BY DEF PacketLoss
  <2>. HIDE DEF id
  <2>5. Max({log[i].expected - log[i].seen, 0}) = Max({log[i].expected - delivered[id], 0})
    <3>1. CASE log[i].seen = delivered[id]
      BY <3>1
    <3>2. CASE log[i].seen = log[i].expected /\ log[i].seen <= delivered[id]
      <4>1. /\ log[i].expected - log[i].seen \in Int /\ ~ (log[i].expected - log[i].seen > 0)
            /\ log[i].expected - delivered[id] \in Int /\ ~ (log[i].expected - delivered[id] > 0)
        BY <2>1, <2>2, <3>2
      <4>2. Max({log[i].expected - log[i].seen, 0}) = 0
        BY <4>1, AtLeastZero
      <4>3. Max({log[i].expected - delivered[id], 0}) = 0
        BY <4>1, AtLeastZero
      <4>. QED
        BY <4>2, <4>3
    <3>. QED
      BY <2>3, <3>1, <3>2
  <2>. QED
    BY <2>4, <2>5 DEF id
<1>. QED
  BY <1>1, <1>2, <1>3, PTL DEF ListenerSpec

------------------------------------------------------------------------------
(* The windows. *)

\* At first there are none.
LEMMA WindowInit == ListenerInit => WindowInv
BY DEF ListenerInit, WindowInv

\* Every step keeps the log in order and the windows as long as asked for.
LEMMA WindowStep ==
    TypeOK /\ OrderInv /\ WindowInv /\ [ListenerNext]_listenerVars => WindowInv'
<1>. SUFFICES ASSUME TypeOK, OrderInv, WindowInv, [ListenerNext]_listenerVars
              PROVE  WindowInv'
  OBVIOUS
<1>. USE DEF senderVars, deviceVars
<1>1. session \in Nat /\ (session' = session \/ session' = session + 1)
  <2>1. UNCHANGED session \/ NextSession
    BY DEF ListenerNext, DeviceStep, SendStart, SendBurst, NextTrial, Listen, Turn,
           PollTimeout, Finish, TrialFails, listenerVars
  <2>. QED
    BY <2>1, ListenerTypes DEF NextSession, TypeOK
<1>2. \A i \in 1..Len(log) : log[i].session \in Nat
  BY RowTypes
<1>3. CASE log' = log
  BY <1>1, <1>2, <1>3 DEF WindowInv
<1>4. ASSUME NEW gap \in 0..(MaxChunks + 1), Finish(gap)
      PROVE  WindowInv'
  <2>. DEFINE n == Len(log)
  <2>1. current.session = session /\ current.chunks = Chunks /\ session' = session
    BY <1>4 DEF Finish, OrderInv
  <2>2. /\ n \in Nat /\ Len(log') \in Nat
        /\ \A k \in 1..n : log'[k] = log[k] /\ k \in 1..Len(log')
        /\ \A k \in 1..Len(log') : k \in 1..n \/ k > n
        /\ \A k \in 1..Len(log') : k > n =>
              /\ log'[k].session = session
              /\ log'[k].kind = "chunk" => log'[k].offset \in 1..Requested(current)
    BY <1>4, <2>1, LogGrows, LineFields
  <2>. HIDE DEF n
  <2>3. /\ \A i \in 1..n : log[i].session <= session
        /\ \A i, j \in 1..n : i < j => log[i].session <= log[j].session
        /\ \A i \in 1..n : log[i].kind = "chunk" =>
              log[i].offset \in 1..Requested(Sessions[log[i].session])
    BY DEF WindowInv, n
  <2>4. Requested(current) = Requested(Sessions[session])
    BY <2>1, Zenon DEF Requested, Chunks
  <2>5. \A i \in 1..Len(log') : log'[i].session <= session
    BY <1>1, <2>2, <2>3
  <2>6. ASSUME NEW i \in 1..Len(log'), NEW j \in 1..Len(log'), i < j
        PROVE  log'[i].session <= log'[j].session
    <3>1. CASE j \in 1..n
      <4>1. i \in 1..n
        BY <2>2, <2>6, <3>1
      <4>. QED
        BY <2>2, <2>3, <2>6, <3>1, <4>1
    <3>2. CASE j > n
      BY <2>2, <2>5, <3>2
    <3>. QED
      BY <2>2, <3>1, <3>2
  <2>7. ASSUME NEW i \in 1..Len(log'), log'[i].kind = "chunk"
        PROVE  log'[i].offset \in 1..Requested(Sessions[log'[i].session])
    <3>1. CASE i \in 1..n
      <4>1. log'[i] = log[i] /\ log[i].kind = "chunk"
        BY <2>2, <2>7, <3>1
      <4>2. log[i].offset \in 1..Requested(Sessions[log[i].session])
        BY <2>3, <3>1, <4>1
      <4>. QED
        BY <4>1, <4>2, Zenon
    <3>2. CASE i > n
      <4>1. log'[i].session = session /\ log'[i].offset \in 1..Requested(current)
        BY <2>2, <2>7, <3>2
      <4>. QED
        BY <2>4, <4>1
    <3>. QED
      BY <2>2, <3>1, <3>2
  <2>. QED
    BY <2>1, <2>5, <2>6, <2>7 DEF WindowInv
<1>. QED
  BY <1>3, <1>4, LogChanges

\* A window that parse_log joins for a row's trial number is the row's own if
\* none of its lines was lost, no later session has the number and no earlier
\* one logged more for it, and is not in any other case.
THEOREM WindowsOfRows == ListenerSpec => []WindowIsTheRowsOwn
<1>1. ListenerInit => TypeOK /\ OrderInv /\ WindowInv
  BY TypeInit, OrderInit, WindowInit
<1>2. TypeOK /\ OrderInv /\ WindowInv /\ [ListenerNext]_listenerVars
      => (TypeOK /\ OrderInv /\ WindowInv)'
  BY TypeStep, OrderStep, WindowStep
<1>3. TypeOK /\ WindowInv => WindowIsTheRowsOwn
  <2>. SUFFICES ASSUME TypeOK, WindowInv, NEW i \in ParsedRows(log)
                PROVE  LET s == log[i].session
                           t == log[i].trial
                           own == 1..Requested(Sessions[s])
                       IN  RawWindow(log, t) = [o \in own |-> s] <=>
                              /\ Logged(s, t) = own
                              /\ \A r \in 1..Len(Sessions) :
                                    /\ r > s => Logged(r, t) = {}
                                    /\ r < s => Logged(r, t) \subseteq own
    BY DEF WindowIsTheRowsOwn
  <2>. DEFINE s == log[i].session
              t == log[i].trial
              own == 1..Requested(Sessions[s])
              there == {p \in 1..MaxChunks : ChunkPlaces(log, t, p) # {}}
  <2>1. /\ Len(log) \in Nat /\ s \in 1..Len(Sessions) /\ Len(Sessions) \in Nat
        /\ \A k \in 1..Len(log) :
              log[k].session \in 1..Len(Sessions) /\ log[k].offset \in 0..MaxChunks
    <3>1. log \in Seq(LogLines)
      BY DEF TypeOK
    <3>2. \A k \in 1..Len(log) : log[k] \in LogLines
      BY <3>1
    <3>3. i \in 1..Len(log)
      BY DEF ParsedRows
    <3>4. \A k \in 1..Len(log) :
             log[k].session \in 1..Len(Sessions) /\ log[k].offset \in 0..MaxChunks
      BY <3>2 DEF LogLines
    <3>. QED
      BY <3>1, <3>3, <3>4, ListenerTypes
  <2>. HIDE DEF s, t
  <2>2. ASSUME NEW r \in 1..Len(Sessions), NEW o \in Logged(r, t)
        PROVE  /\ o \in 1..Requested(Sessions[r]) /\ o \in there
               /\ RawChunk(log, t, o) \in 1..Len(Sessions) /\ r <= RawChunk(log, t, o)
    <3>. DEFINE at == ChunkPlaces(log, t, o)
    <3>1. PICK k \in 1..Len(log) : /\ log[k].kind = "chunk" /\ log[k].session = r
                                   /\ log[k].trial = t /\ log[k].offset = o
      BY <2>2 DEF Logged
    <3>2. k \in at /\ at \in SUBSET Nat /\ at \subseteq 1..Len(log) /\ \A x \in at : x <= Len(log)
      BY <2>1, <3>1 DEF ChunkPlaces
    <3>3. Max(at) \in at /\ k <= Max(at)
      <4>. HIDE DEF at
      <4>. QED
        BY <2>1, <3>2, MaxOfBounded
    <3>. HIDE DEF at
    <3>4. k = Max(at) \/ k < Max(at)
      <4>1. k \in Nat /\ Max(at) \in Nat
        BY <2>1, <3>2, <3>3
      <4>. QED
        BY <3>3, <4>1
    <3>5. /\ RawChunk(log, t, o) = log[Max(at)].session
          /\ r <= log[Max(at)].session /\ log[Max(at)].session \in 1..Len(Sessions)
      BY <2>1, <3>1, <3>2, <3>3, <3>4 DEF WindowInv, RawChunk, at
    <3>6. o \in 1..Requested(Sessions[r])
      BY <3>1 DEF WindowInv
    <3>7. o \in there
      BY <3>2, <3>6, <2>1, <3>1 DEF at
    <3>. QED
      BY <3>5, <3>6, <3>7
  <2>3. ASSUME NEW o \in there
        PROVE  RawChunk(log, t, o) \in 1..Len(Sessions) /\ o \in Logged(RawChunk(log, t, o), t)
    <3>. DEFINE at == ChunkPlaces(log, t, o)
    <3>1. at # {} /\ at \in SUBSET Nat /\ at \subseteq 1..Len(log) /\ \A x \in at : x <= Len(log)
      BY <2>1, <2>3 DEF ChunkPlaces
    <3>2. Max(at) \in at
      <4>. HIDE DEF at
      <4>. QED
        BY <2>1, <3>1, MaxOfBounded
    <3>. QED
      BY <2>1, <3>1, <3>2 DEF ChunkPlaces, RawChunk, Logged
  <2>4. RawWindow(log, t) = [o \in there |-> RawChunk(log, t, o)]
    BY DEF RawWindow
  <2>. HIDE DEF there, own
  <2>5. ASSUME RawWindow(log, t) = [o \in own |-> s]
        PROVE  /\ Logged(s, t) = own
               /\ \A r \in 1..Len(Sessions) :
                     /\ r > s => Logged(r, t) = {}
                     /\ r < s => Logged(r, t) \subseteq own
    <3>1. there = own
      BY <2>4, <2>5
    <3>2. \A o \in own : RawChunk(log, t, o) = s
      BY <2>4, <2>5, <3>1
    <3>3. own \subseteq Logged(s, t)
      BY <2>3, <3>1, <3>2
    <3>4. \A r \in 1..Len(Sessions) : \A o \in Logged(r, t) : o \in own /\ r <= s
      BY <2>2, <3>1, <3>2
    <3>5. Logged(s, t) \subseteq own
      BY <2>1, <3>4
    <3>6. ASSUME NEW r \in 1..Len(Sessions)
          PROVE  /\ r > s => Logged(r, t) = {}
                 /\ r < s => Logged(r, t) \subseteq own
      <4>1. r > s => ~ (r <= s)
        BY <2>1
      <4>. QED
        BY <3>4, <4>1, Zenon
    <3>. QED
      BY <3>3, <3>5, <3>6
  <2>6. ASSUME Logged(s, t) = own,
               \A r \in 1..Len(Sessions) :
                  /\ r > s => Logged(r, t) = {}
                  /\ r < s => Logged(r, t) \subseteq own
        PROVE  RawWindow(log, t) = [o \in own |-> s]
    <3>1. own \subseteq there
      BY <2>1, <2>2, <2>6
    <3>2. there \subseteq own
      <4>1. ASSUME NEW o \in there
            PROVE  o \in own
        <5>. DEFINE r == RawChunk(log, t, o)
        <5>1. r \in 1..Len(Sessions) /\ o \in Logged(r, t)
          BY <2>3
        <5>. HIDE DEF r
        <5>2. r > s \/ r < s \/ r = s
          BY <2>1, <5>1
        <5>. QED
          BY <2>6, <5>1, <5>2
      <4>. QED
        BY <4>1
    <3>3. ASSUME NEW o \in own
          PROVE  RawChunk(log, t, o) = s
      <4>. DEFINE r == RawChunk(log, t, o)
      <4>1. o \in there /\ o \in Logged(s, t)
        BY <2>6, <3>1
      <4>2. r \in 1..Len(Sessions) /\ o \in Logged(r, t) /\ s <= r
        BY <2>1, <2>2, <2>3, <4>1
      <4>. HIDE DEF r
      <4>3. ~ (r > s)
        BY <2>6, <4>2
      <4>4. r = s
        BY <2>1, <4>2, <4>3
      <4>. QED
        BY <4>4 DEF r
    <3>. QED
      BY <2>4, <3>1, <3>2, <3>3
  <2>. QED
    BY <2>5, <2>6 DEF s, t, own
<1>. QED
  BY <1>1, <1>2, <1>3, PTL DEF ListenerSpec

------------------------------------------------------------------------------
(* What a missed packet costs. *)

\* How many elements a set has when some are added and some taken away.
LEMMA Charges ==
    ASSUME NEW C, NEW D, IsFiniteSet(C), NEW m \in Nat, Cardinality(C) <= m
    PROVE  /\ D \subseteq C => Cardinality(D) <= m
           /\ \A x : D \subseteq C \union {x} => Cardinality(D) <= m + 1
           /\ \A x, y : y \in C /\ D \subseteq (C \ {y}) \union {x} => Cardinality(D) <= m
<1>1. Cardinality(C) \in Nat
  BY FS_CardinalityType
<1>2. ASSUME D \subseteq C
      PROVE  Cardinality(D) <= m
  <2>1. Cardinality(D) <= Cardinality(C) /\ Cardinality(D) \in Nat
    BY <1>2, FS_Subset, FS_CardinalityType
  <2>. QED
    BY <1>1, <2>1
<1>3. ASSUME NEW x, D \subseteq C \union {x}
      PROVE  Cardinality(D) <= m + 1
  <2>1. /\ IsFiniteSet(C \union {x})
        /\ Cardinality(C \union {x}) = IF x \in C THEN Cardinality(C) ELSE Cardinality(C) + 1
    BY FS_AddElement
  <2>2. Cardinality(D) <= Cardinality(C \union {x}) /\ Cardinality(D) \in Nat
    BY <1>3, <2>1, FS_Subset, FS_CardinalityType
  <2>. QED
    BY <1>1, <2>1, <2>2
<1>4. ASSUME NEW x, NEW y, y \in C, D \subseteq (C \ {y}) \union {x}
      PROVE  Cardinality(D) <= m
  <2>1. IsFiniteSet(C \ {y}) /\ Cardinality(C \ {y}) = Cardinality(C) - 1
    BY <1>4, FS_RemoveElement
  <2>. DEFINE B == C \ {y}
  <2>. HIDE DEF B
  <2>2. /\ IsFiniteSet(B \union {x})
        /\ Cardinality(B \union {x}) = IF x \in B THEN Cardinality(B) ELSE Cardinality(B) + 1
    BY <2>1, FS_AddElement DEF B
  <2>3. Cardinality(D) <= Cardinality(B \union {x}) /\ Cardinality(D) \in Nat
    BY <1>4, <2>2, FS_Subset, FS_CardinalityType DEF B
  <2>4. Cardinality(B) = Cardinality(C) - 1
    BY <2>1 DEF B
  <2>. QED
    BY <1>1, <2>2, <2>3, <2>4
<1>. QED
  BY <1>2, <1>3, <1>4

\* There are finitely many trials and claims.
LEMMA ClaimsFinite == IsFiniteSet(Ids) /\ IsFiniteSet(Claims)
<1>1. IsFiniteSet(1..Len(Sessions)) /\ IsFiniteSet(0..(Trials - 1)) /\ IsFiniteSet(0..MaxBursts)
  BY ListenerTypes, FS_Interval
<1>2. IsFiniteSet(Ids)
  BY <1>1, FS_Product DEF Ids
<1>3. IsFiniteSet(Ids \X (0..MaxBursts))
  BY <1>1, <1>2, FS_Product
<1>4. Claims \subseteq Ids \X (0..MaxBursts)
  BY DEF Claims
<1>. QED
  BY <1>2, <1>3, <1>4, FS_Subset

\* A trial before the device or in its queue has begun, and it is not both.
LEMMA PendingTrials ==
    ASSUME TypeOK, OrderInv, NEW t
    PROVE  /\ Coming(t) \/ Working(t) =>
                 t \in Nat /\ (t < trial \/ (t = trial /\ seq # NotStarted))
           /\ ~ (Coming(t) /\ Working(t))
<1>1. ASSUME Coming(t)
      PROVE  t \in Nat /\ (t < trial \/ (t = trial /\ seq # NotStarted)) /\ ~Working(t)
  <2>1. PICK k \in 1..Len(net) : net[k].type = "START" /\ net[k].trial = t
    BY <1>1 DEF Coming
  <2>2. t \in Nat /\ (t < trial \/ (t = trial /\ seq # NotStarted))
    BY <2>1, PacketTypes DEF OrderInv
  <2>3. current # NoTrial => current.trial < t /\ current.trial \in Nat
    BY <2>1, PacketTypes DEF OrderInv
  <2>. QED
    BY <2>2, <2>3 DEF Working
<1>2. ASSUME Working(t)
      PROVE  t \in Nat /\ (t < trial \/ (t = trial /\ seq # NotStarted))
  BY <1>2, PacketTypes DEF Working, OrderInv
<1>. QED
  BY <1>1, <1>2

\* The numbers that a claim is computed from.
LEMMA SpareTypes ==
    ASSUME TypeOK, NEW t
    PROVE  /\ Turns \in 0..MaxBursts /\ Turns <= Bursts /\ turns \in Nat /\ Bursts \in Nat
           /\ Waiting(net, t) \in Nat /\ Unsent(t) \in Int /\ Spare(t) \in Int
           /\ seq \in Int /\ NotStarted = -1 /\ trial \in Nat /\ session \in Nat
           /\ OrderInv /\ current # NoTrial => Expected(current) = Turns
<1>1. /\ Bursts \in Nat /\ MaxBursts \in Nat /\ turns \in Nat /\ seq \in Int /\ NotStarted = -1
      /\ trial \in Nat /\ session \in Nat
  BY ListenerTypes DEF TypeOK, NotStarted
<1>2. Turns \in 0..MaxBursts /\ Turns <= Bursts
  BY <1>1 DEF Turns, Expected
<1>3. Waiting(net, t) \in Nat /\ Unsent(t) \in Int
  BY <1>1, WaitingType DEF Unsent
<1>4. Spare(t) \in Int
  BY <1>1, <1>2, <1>3 DEF Spare
<1>5. OrderInv /\ current # NoTrial => Expected(current) = Turns
  BY DEF OrderInv, Turns, Expected
<1>. QED
  BY <1>1, <1>2, <1>3, <1>4, <1>5

\* At first no trial has begun.
LEMMA ChargeInit == ListenerInit => ChargeInv
<1>. SUFFICES ASSUME ListenerInit
              PROVE  ChargeInv
  OBVIOUS
<1>1. \A id \in Ids : id[1] >= 1 /\ id[1] \in Nat /\ id[2] >= 0 /\ id[2] \in Nat
  BY ListenerTypes DEF Ids
<1>2. ASSUME NEW id \in Ids, NEW n \in 0..MaxBursts
      PROVE  ~Owes(id, n)
  BY <1>1, <1>2 DEF ListenerInit, Owes, Lost, Begun, Closed, Coming, Working
<1>3. Claims = {}
  BY <1>2 DEF Claims
<1>. QED
  BY <1>3, FS_EmptySet DEF ListenerInit, ChargeInv

\* A START that is sent: it is in the queue or its trial is lost.
LEMMA StartCharge ==
    ASSUME TypeOK, OrderInv, NEW lost \in BOOLEAN, SendStart(lost),
           NEW id \in Ids, NEW n \in 0..MaxBursts, Owes(id, n)'
    PROVE  Owes(id, n) \/ (missed' = missed + 1 /\ <<id, n>> = <<<<session, trial>>, 0>>)
<1>1. /\ session' = session /\ trial' = trial /\ seq = NotStarted /\ seq' = 0 /\ trial < Trials
      /\ Sent("START", lost) /\ UNCHANGED <<current, turns, log>>
  BY DEF SendStart, deviceVars
<1>2. /\ Bursts' = Bursts /\ Turns' = Turns /\ Row(id)' = Row(id)
      /\ \A t : Working(t)' <=> Working(t)
  BY <1>1 DEF Bursts, Turns, Expected, Row, Working
<1>3. /\ \A t : Waiting(net', t) = Waiting(net, t)
      /\ \/ missed' = missed + 1 /\ \A t : Coming(t)' <=> Coming(t)
         \/ missed' = missed /\ \A t : Coming(t)' <=> Coming(t) \/ t = trial
  <2>1. CASE /\ net' = net /\ missed' = missed + 1
             /\ \A t : Waiting(net', t) = Waiting(net, t)
    BY <2>1 DEF Coming
  <2>2. CASE /\ missed' = missed
             /\ Len(net) \in Nat /\ Len(net') = Len(net) + 1 /\ net'[Len(net) + 1] = Msg("START")
             /\ \A k \in 1..Len(net) : net'[k] = net[k] /\ k \in 1..Len(net')
             /\ \A k \in 1..Len(net') : k \in 1..Len(net) \/ k = Len(net) + 1
             /\ \A t : Waiting(net', t) = Waiting(net, t) + 0
    <3>1. Msg("START").type = "START" /\ Msg("START").trial = trial
      BY DEF Msg
    <3>2. Len(net) + 1 \in 1..Len(net')
      BY <2>2
    <3>3. ASSUME NEW t
          PROVE  Coming(t)' <=> Coming(t) \/ t = trial
      BY <2>2, <3>1, <3>2 DEF Coming
    <3>4. \A t : Waiting(net', t) = Waiting(net, t)
      BY <2>2, WaitingType
    <3>. QED
      BY <2>2, <3>3, <3>4
  <2>. QED
    BY <1>1, <2>1, <2>2, SentQueue
<1>4. id = <<id[1], id[2]>> /\ id[1] \in Nat /\ id[2] \in Nat
  BY ListenerTypes DEF Ids
<1>5. CASE n = 0
  <2>1. Lost(id)'
    BY <1>5 DEF Owes
  <2>2. CASE id = <<session, trial>>
    BY <1>1, <1>3, <1>5, <2>1, <2>2 DEF Lost
  <2>3. CASE id # <<session, trial>>
    <3>1. id[1] # session \/ id[2] # trial
      BY <1>4, <2>3
    <3>2. Begun(id)
      BY <1>1, <2>1, <3>1 DEF Lost, Begun, Closed
    <3>3. Lost(id)
      BY <1>1, <1>2, <1>3, <2>1, <3>2 DEF Lost
    <3>. QED
      BY <1>5, <3>3 DEF Owes
  <2>. QED
    BY <2>2, <2>3
<1>6. CASE n # 0
  <2>. DEFINE t == id[2]
  <2>1. id[1] = session /\ (Coming(t)' \/ Working(t)') /\ n <= Spare(t)' /\ n \in Nat \ {0}
    BY <1>1, <1>6, ListenerTypes DEF Owes
  <2>2. /\ Turns \in Nat /\ Turns <= Bursts /\ turns \in Nat /\ Bursts \in Nat /\ Waiting(net, t) \in Nat
        /\ trial \in Nat
    BY SpareTypes
  <2>3. t # trial
    <3>. SUFFICES ASSUME t = trial
                  PROVE  FALSE
      OBVIOUS
    <3>1. ~Working(t)
      BY <1>1, <2>2, PendingTrials
    <3>2. Spare(t)' = (Turns - 0) - (Waiting(net, t) + (Bursts - 0))
      BY <1>1, <1>2, <1>3, <3>1 DEF Spare, Unsent
    <3>. QED
      BY <2>1, <2>2, <3>2
  <2>4. Coming(t) \/ Working(t)
    BY <1>2, <1>3, <2>1, <2>3
  <2>5. Spare(t)' = Spare(t)
    BY <1>1, <1>2, <1>3, <2>3 DEF Spare, Unsent
  <2>. QED
    BY <1>6, <2>1, <2>4, <2>5 DEF Owes
<1>. QED
  BY <1>5, <1>6

\* A burst that is sent: it waits, or a turn of its trial is left over.
LEMMA BurstCharge ==
    ASSUME TypeOK, OrderInv, NEW lost \in BOOLEAN, SendBurst(lost),
           NEW id \in Ids, NEW n \in 0..MaxBursts, Owes(id, n)'
    PROVE  \/ Owes(id, n)
           \/ missed' = missed + 1 /\ <<id, n>> = <<<<session, trial>>, Spare(trial) + 1>>
<1>1. /\ session' = session /\ trial' = trial /\ seq \in Nat /\ seq' = seq + 1 /\ seq' \in Nat
      /\ UNCHANGED <<current, turns, log>>
  <2>1. Bursts \in Nat
    BY ListenerTypes
  <2>. QED
    BY <2>1 DEF SendBurst, deviceVars
<1>0. trial < Trials /\ Sent("BURST", lost)
  BY <1>1 DEF SendBurst, TypeOK, NotStarted
<1>2. /\ Bursts' = Bursts /\ Turns' = Turns /\ Row(id)' = Row(id)
      /\ \A t : Working(t)' <=> Working(t)
  BY <1>1 DEF Bursts, Turns, Expected, Row, Working
<1>3. /\ \A t : Coming(t)' <=> Coming(t)
      /\ \/ missed' = missed + 1 /\ \A t : Waiting(net', t) = Waiting(net, t)
         \/ /\ missed' = missed
            /\ \A t : Waiting(net', t) = Waiting(net, t) + (IF t = trial THEN 1 ELSE 0)
  <2>1. CASE /\ net' = net /\ missed' = missed + 1
             /\ \A t : Waiting(net', t) = Waiting(net, t)
    BY <2>1 DEF Coming
  <2>2. CASE /\ missed' = missed
             /\ Len(net) \in Nat /\ Len(net') = Len(net) + 1 /\ net'[Len(net) + 1] = Msg("BURST")
             /\ \A k \in 1..Len(net) : net'[k] = net[k] /\ k \in 1..Len(net')
             /\ \A k \in 1..Len(net') : k \in 1..Len(net) \/ k = Len(net) + 1
             /\ \A t : Waiting(net', t) = Waiting(net, t) + (IF t = trial THEN 1 ELSE 0)
    <3>1. Msg("BURST").type = "BURST"
      BY DEF Msg
    <3>2. ASSUME NEW t
          PROVE  Coming(t)' <=> Coming(t)
      BY <2>2, <3>1 DEF Coming
    <3>. QED
      BY <2>2, <3>2
  <2>. QED
    BY <1>0, <2>1, <2>2, SentQueue
<1>4. Begun(id)' <=> Begun(id)
  BY <1>1 DEF Begun, Closed, NotStarted
<1>5. CASE n = 0
  <2>1. Lost(id)
    BY <1>1, <1>2, <1>3, <1>4, <1>5 DEF Owes, Lost
  <2>. QED
    BY <1>5, <2>1 DEF Owes
<1>6. CASE n # 0
  <2>. DEFINE t == id[2]
  <2>1. id[1] = session /\ (Coming(t) \/ Working(t)) /\ n <= Spare(t)' /\ n \in Nat \ {0}
    BY <1>1, <1>2, <1>3, <1>6, ListenerTypes DEF Owes
  <2>2. /\ Turns \in Nat /\ turns \in Nat /\ Bursts \in Nat /\ Waiting(net, t) \in Nat
        /\ Spare(t) \in Int
    BY SpareTypes
  <2>3. CASE t # trial
    <3>1. Spare(t)' = Spare(t)
      BY <1>1, <1>2, <1>3, <2>2, <2>3 DEF Spare, Unsent
    <3>. QED
      BY <1>6, <2>1, <3>1 DEF Owes
  <2>4. CASE t = trial
    <3>. DEFINE used == IF Working(t) THEN turns ELSE 0
    <3>1. /\ Spare(t) = (Turns - used) - (Waiting(net, t) + (Bursts - seq))
          /\ Spare(t)' = (Turns - used) - (Waiting(net', t) + (Bursts - (seq + 1)))
      BY <1>1, <1>2, <2>4 DEF Spare, Unsent
    <3>2. used \in Nat
      BY <2>2
    <3>. HIDE DEF used
    <3>3. CASE missed' = missed /\ Waiting(net', t) = Waiting(net, t) + 1
      <4>1. Spare(t)' = Spare(t)
        BY <1>1, <2>2, <3>1, <3>2, <3>3
      <4>. QED
        BY <1>6, <2>1, <4>1 DEF Owes
    <3>4. CASE missed' = missed + 1 /\ Waiting(net', t) = Waiting(net, t)
      <4>1. Spare(t)' = Spare(t) + 1
        BY <1>1, <2>2, <3>1, <3>2, <3>4
      <4>2. n <= Spare(t) \/ n = Spare(t) + 1
        BY <2>1, <2>2, <4>1
      <4>3. id = <<session, trial>>
        <5>1. id = <<id[1], id[2]>>
          BY DEF Ids
        <5>. QED
          BY <2>1, <2>4, <5>1
      <4>. QED
        BY <1>6, <2>1, <2>4, <3>4, <4>2, <4>3 DEF Owes
    <3>. QED
      BY <1>3, <2>4, <3>3, <3>4
  <2>. QED
    BY <2>3, <2>4
<1>. QED
  BY <1>5, <1>6

\* What the queue without its first packet holds of a trial: all but that packet.
\* A burst is not ahead of its START.
LEMMA ReadTrials ==
    ASSUME TypeOK, OrderInv, net # <<>>, net' = Tail(net), NEW t
    PROVE  /\ Coming(t)' => Coming(t)
           /\ Coming(t) /\ ~ (Received.type = "START" /\ Received.trial = t) => Coming(t)'
           /\ Coming(t) => Waiting(net', t) = Waiting(net, t)
           /\ Received.type = "START" => Coming(Received.trial)
           /\ Waiting(net', t) \in Nat /\ Waiting(net, t) \in Nat
           /\ Received.type \in {"START", "BURST"} /\ Received.trial \in Nat
           /\ Waiting(net, t) = Waiting(net', t) + (IF Received.type = "BURST" /\ Received.trial = t
                                                    THEN 1 ELSE 0)
<1>1. /\ Received = net[1] /\ Received \in Packets /\ 1 \in 1..Len(net)
      /\ \A k \in 1..Len(net') : k + 1 \in 1..Len(net) /\ 1 < k + 1 /\ net'[k] = net[k + 1]
      /\ \A k \in 1..Len(net) : k = 1 \/ (k - 1 \in 1..Len(net') /\ net'[k - 1] = net[k])
      /\ Waiting(net, t) = Waiting(net', t) + (IF Received.type = "BURST" /\ Received.trial = t
                                               THEN 1 ELSE 0)
  BY ReadQueue
<1>2. Waiting(net', t) \in Nat /\ Waiting(net, t) \in Nat
  <2>1. net' \in Seq(Packets)
    BY QueueRead DEF TypeOK
  <2>. QED
    BY <2>1, PlacesFinite, WaitingType DEF Waiting
<1>3. Coming(t)' => Coming(t)
  BY <1>1 DEF Coming
<1>4. Coming(t) /\ ~ (Received.type = "START" /\ Received.trial = t) => Coming(t)'
  BY <1>1 DEF Coming
<1>5. Received.type \in {"START", "BURST"} /\ Received.trial \in Nat
  BY <1>1, PacketTypes
<1>6. ASSUME Coming(t)
      PROVE  Waiting(net', t) = Waiting(net, t)
  <2>1. PICK k \in 1..Len(net) : net[k].type = "START" /\ net[k].trial = t
    BY <1>6 DEF Coming
  <2>2. k = 1 \/ 1 < k
    BY <1>1
  <2>3. ~ (Received.type = "BURST" /\ Received.trial = t)
    <3>1. CASE k = 1
      BY <1>1, <2>1, <3>1
    <3>2. CASE 1 < k
      <4>1. net[1].trial < net[k].trial /\ net[1].trial \in Nat /\ net[k].trial \in Nat
        BY <1>1, <2>1, <3>2, PacketTypes DEF OrderInv
      <4>. QED
        BY <1>1, <2>1, <4>1
    <3>. QED
      BY <2>2, <3>1, <3>2
  <2>. QED
    BY <1>1, <1>2, <2>3
<1>7. Received.type = "START" => Coming(Received.trial)
  BY <1>1 DEF Coming
<1>. QED
  BY <1>1, <1>2, <1>3, <1>4, <1>5, <1>6, <1>7

\* A packet that is looked at between two trials: a START is worked on, any other
\* was no longer needed.
LEMMA ListenCharge ==
    ASSUME TypeOK, OrderInv, Listen, NEW id \in Ids, NEW n \in 0..MaxBursts, Owes(id, n)'
    PROVE  Owes(id, n)
<1>1. /\ current = NoTrial /\ net # <<>> /\ net' = Tail(net) /\ turns' = 0
      /\ current' = IF Received.type = "START" THEN Received ELSE NoTrial
      /\ session' = session /\ trial' = trial /\ seq' = seq /\ log' = log
  BY DEF Listen, senderVars
<1>2. /\ Bursts' = Bursts /\ Turns' = Turns /\ Row(id)' = Row(id) /\ (Begun(id)' <=> Begun(id))
      /\ \A t : Unsent(t)' = Unsent(t)
  BY <1>1 DEF Bursts, Turns, Expected, Row, Begun, Closed, Unsent
<1>. DEFINE t == id[2]
<1>3. ~Working(t) /\ (Working(t)' <=> Received.type = "START" /\ Received.trial = t)
  <2>1. Received \in Packets /\ NoTrial \notin Packets
    BY <1>1, ReadQueue, ListenerTypes
  <2>. QED
    BY <1>1, <2>1 DEF Working
<1>4. Coming(t)' \/ Working(t)' <=> Coming(t) \/ Working(t)
  BY <1>1, <1>3, ReadTrials
<1>5. CASE n = 0
  <2>1. Lost(id)
    BY <1>1, <1>2, <1>4, <1>5 DEF Owes, Lost
  <2>. QED
    BY <1>5, <2>1 DEF Owes
<1>6. CASE n # 0
  <2>1. id[1] = session /\ Coming(t) /\ n <= Spare(t)'
    BY <1>1, <1>3, <1>4, <1>6 DEF Owes
  <2>2. Waiting(net', t) = Waiting(net, t)
    BY <1>1, <2>1, ReadTrials
  <2>3. Spare(t)' = Spare(t)
    BY <1>1, <1>2, <1>3, <2>2 DEF Spare
  <2>. QED
    BY <1>6, <2>1, <2>3 DEF Owes
<1>. QED
  BY <1>5, <1>6

\* A turn that takes a START was charged.
LEMMA SpareOfTurn ==
    ASSUME TypeOK, OrderInv, Turn, Received.type = "START"
    PROVE  /\ Spare(current.trial) \in Nat \ {0}
           /\ <<<<session, current.trial>>, Spare(current.trial)>> \in Claims
<1>. DEFINE c == current.trial
<1>1. current # NoTrial /\ net # <<>> /\ net' = Tail(net) /\ turns < Expected(current)
  BY DEF Turn, MoreTurns
<1>2. Working(c) /\ c \in 0..(Trials - 1) /\ c \in Nat /\ Trials \in Nat
  BY <1>1, PacketTypes, ListenerTypes DEF Working
<1>3. Turns \in 0..MaxBursts /\ turns \in Nat /\ turns < Turns /\ MaxBursts \in Nat
  BY <1>1, SpareTypes, ListenerTypes
<1>4. c < Received.trial /\ Received.trial \in Nat
  <2>1. c < Received.trial
    BY <1>1, ReadQueue DEF OrderInv
  <2>. QED
    BY <1>1, <2>1, ReadTrials
<1>5. \A k \in 1..Len(net) : net[k].trial # c
  <2>1. Received = net[1] /\ 1 \in 1..Len(net) /\ \A k \in 1..Len(net) : k = 1 \/ 1 < k
    BY <1>1, ReadQueue
  <2>2. \A k \in 1..Len(net) : Received.trial <= net[k].trial /\ net[k].trial \in Nat
    BY <1>4, <2>1, PacketTypes DEF OrderInv
  <2>. QED
    BY <1>2, <1>4, <2>2
<1>6. Waiting(net, c) = 0
  BY <1>5, WaitingType
<1>7. c # trial
  <2>1. Coming(Received.trial)
    BY <1>1, ReadTrials
  <2>2. Received.trial <= trial /\ trial \in Nat
    BY <1>4, <2>1, PendingTrials, PacketTypes
  <2>. QED
    BY <1>2, <1>4, <2>2
<1>8. Spare(c) = (Turns - turns) - (0 + 0)
  BY <1>2, <1>6, <1>7 DEF Spare, Unsent
<1>9. Spare(c) \in 1..MaxBursts
  BY <1>3, <1>8
<1>10. <<session, c>> \in Ids
  BY <1>2 DEF Ids, TypeOK
<1>11. Owes(<<session, c>>, Spare(c))
  BY <1>2, <1>9 DEF Owes
<1>. QED
  BY <1>3, <1>9, <1>10, <1>11 DEF Claims

\* A turn that is used up by something else than an own burst wastes one of the
\* turns that were charged, and may take one START.
LEMMA TurnCharge ==
    ASSUME TypeOK, OrderInv, Turn, NEW id \in Ids, NEW n \in 0..MaxBursts, Owes(id, n)'
    PROVE  \/ Owes(id, n) /\ (Received.type = "START" =>
                                 <<id, n>> # <<<<session, current.trial>>, Spare(current.trial)>>)
           \/ Received.type = "START" /\ <<id, n>> = <<<<session, Received.trial>>, 0>>
<1>1. /\ current # NoTrial /\ net # <<>> /\ net' = Tail(net) /\ turns' = turns + 1
      /\ current' = current /\ turns < Expected(current)
      /\ session' = session /\ trial' = trial /\ seq' = seq /\ log' = log
  BY DEF Turn, MoreTurns, senderVars
<1>2. /\ Bursts' = Bursts /\ Turns' = Turns /\ Row(id)' = Row(id) /\ (Begun(id)' <=> Begun(id))
      /\ \A t : Unsent(t)' = Unsent(t)
      /\ \A t : Working(t)' <=> Working(t)
  BY <1>1 DEF Bursts, Turns, Expected, Row, Begun, Closed, Unsent, Working
<1>. DEFINE t == id[2]
            c == current.trial
<1>3. Working(c) /\ (Working(t) <=> t = c) /\ c \in Nat
  BY <1>1, PacketTypes DEF Working
<1>4. Turns \in Nat /\ turns \in Nat /\ turns < Turns /\ Unsent(t) \in Int /\ Spare(t) \in Int
  BY <1>1, SpareTypes
<1>5. c <= Received.trial /\ (Received.type = "START" => c < Received.trial)
  BY <1>1, ReadQueue DEF OrderInv
<1>s. Received.type = "START" => Spare(c) \in Nat \ {0}
  BY SpareOfTurn
<1>6. CASE n = 0
  <2>1. Lost(id)'
    BY <1>6 DEF Owes
  <2>2. CASE Received.type = "START" /\ id = <<session, Received.trial>>
    BY <1>6, <2>2
  <2>3. CASE ~ (Received.type = "START" /\ id = <<session, Received.trial>>)
    <3>1. id = <<id[1], id[2]>>
      BY DEF Ids
    <3>2. id[1] = session => ~ (Received.type = "START" /\ Received.trial = t)
      BY <2>3, <3>1
    <3>3. id[1] = session => (Coming(t)' <=> Coming(t))
      BY <1>1, <3>2, ReadTrials
    <3>4. Lost(id)
      BY <1>1, <1>2, <2>1, <3>3 DEF Lost
    <3>5. Received.type = "START" => <<id, n>> # <<<<session, c>>, Spare(c)>>
      BY <1>6, <1>s
    <3>. QED
      BY <1>6, <3>4, <3>5 DEF Owes
  <2>. QED
    BY <2>2, <2>3
<1>7. CASE n # 0
  <2>1. id[1] = session /\ (Coming(t)' \/ Working(t)) /\ n <= Spare(t)'
    BY <1>1, <1>2, <1>7 DEF Owes
  <2>2. Coming(t) \/ Working(t)
    BY <1>1, <2>1, ReadTrials
  <2>3. CASE t = c
    <3>1. Spare(t) = (Turns - turns) - (Waiting(net, t) + Unsent(t))
      BY <1>3, <2>3 DEF Spare
    <3>2. Spare(t)' = (Turns - (turns + 1)) - (Waiting(net', t) + Unsent(t))
      BY <1>1, <1>2, <1>3, <2>3 DEF Spare
    <3>3. /\ Waiting(net, t) \in Nat /\ Waiting(net', t) \in Nat
          /\ Waiting(net, t) = Waiting(net', t) \/ (Received.type = "BURST" /\ Waiting(net, t) = Waiting(net', t) + 1)
      BY <1>1, ReadTrials
    <3>4. Spare(t)' <= Spare(t) /\ (Received.type = "START" => Spare(t)' < Spare(t)) /\ Spare(t)' \in Int
      BY <1>4, <3>1, <3>2, <3>3
    <3>5. n <= Spare(t) /\ (Received.type = "START" => n < Spare(t))
      BY <1>4, <2>1, <3>4
    <3>6. Received.type = "START" => n # Spare(c)
      BY <2>3, <3>5, <1>4
    <3>. QED
      BY <1>7, <2>1, <2>2, <3>5, <3>6 DEF Owes
  <2>4. CASE t # c
    <3>1. Coming(t)
      BY <1>3, <2>2, <2>4
    <3>2. Waiting(net', t) = Waiting(net, t)
      BY <1>1, <3>1, ReadTrials
    <3>3. Spare(t)' = Spare(t)
      BY <1>2, <1>3, <2>4, <3>2 DEF Spare
    <3>4. <<id, n>> # <<<<session, c>>, Spare(c)>>
      BY <2>4
    <3>. QED
      BY <1>7, <2>1, <3>1, <3>3, <3>4 DEF Owes
  <2>. QED
    BY <2>3, <2>4
<1>. QED
  BY <1>6, <1>7

\* The timeout of the burst loop wastes no packet.
LEMMA TimeoutCharge ==
    ASSUME TypeOK, OrderInv, PollTimeout, NEW id \in Ids, NEW n \in 0..MaxBursts, Owes(id, n)'
    PROVE  Owes(id, n)
<1>1. /\ current # NoTrial /\ turns < Expected(current) /\ turns' = Expected(current)
      /\ current' = current /\ net' = net
      /\ session' = session /\ trial' = trial /\ seq' = seq /\ log' = log
  BY DEF PollTimeout, MoreTurns, senderVars
<1>2. /\ Bursts' = Bursts /\ Turns' = Turns /\ Row(id)' = Row(id) /\ (Begun(id)' <=> Begun(id))
      /\ \A t : Unsent(t)' = Unsent(t)
      /\ \A t : (Working(t)' <=> Working(t)) /\ (Coming(t)' <=> Coming(t))
  BY <1>1 DEF Bursts, Turns, Expected, Row, Begun, Closed, Unsent, Working, Coming
<1>3. CASE n = 0
  BY <1>1, <1>2, <1>3 DEF Owes, Lost
<1>4. CASE n # 0
  <2>. DEFINE t == id[2]
  <2>1. /\ Turns \in Nat /\ turns \in Nat /\ turns < Turns /\ turns' = Turns /\ Unsent(t) \in Int
        /\ Waiting(net, t) \in Nat /\ Spare(t) \in Int
    BY <1>1, SpareTypes
  <2>2. Spare(t)' <= Spare(t) /\ Spare(t)' \in Int
    <3>1. CASE Working(t)
      <4>1. /\ Spare(t) = (Turns - turns) - (Waiting(net, t) + Unsent(t))
            /\ Spare(t)' = (Turns - Turns) - (Waiting(net, t) + Unsent(t))
        BY <1>1, <1>2, <2>1, <3>1 DEF Spare
      <4>. QED
        BY <2>1, <4>1
    <3>2. CASE ~Working(t)
      <4>1. Spare(t)' = Spare(t)
        BY <1>1, <1>2, <3>2 DEF Spare
      <4>. QED
        BY <2>1, <4>1
    <3>. QED
      BY <3>1, <3>2
  <2>3. id[1] = session /\ (Coming(t) \/ Working(t)) /\ n <= Spare(t)'
    BY <1>1, <1>2, <1>4 DEF Owes
  <2>4. n <= Spare(t)
    BY <2>1, <2>2, <2>3
  <2>. QED
    BY <1>4, <2>3, <2>4 DEF Owes
<1>. QED
  BY <1>3, <1>4

\* The sender goes on to the next trial: nothing is charged.
LEMMA NextTrialCharge ==
    ASSUME TypeOK, OrderInv, NextTrial, NEW id \in Ids, NEW n \in 0..MaxBursts, Owes(id, n)'
    PROVE  Owes(id, n)
<1>1. /\ session' = session /\ trial' = trial + 1 /\ seq = Bursts
      /\ net' = net /\ current' = current /\ turns' = turns /\ log' = log
  BY DEF NextTrial, deviceVars
<1>2. /\ Bursts' = Bursts /\ Turns' = Turns /\ Row(id)' = Row(id)
      /\ \A t : (Working(t)' <=> Working(t)) /\ (Coming(t)' <=> Coming(t))
  BY <1>1 DEF Bursts, Turns, Expected, Row, Working, Coming
<1>. DEFINE t == id[2]
<1>3. /\ Bursts \in Nat /\ NotStarted = -1 /\ trial \in Nat /\ session \in Nat
      /\ id[1] \in Nat /\ t \in Nat
  BY SpareTypes, ListenerTypes DEF Ids
<1>4. CASE n = 0
  <2>1. Lost(id)'
    BY <1>4 DEF Owes
  <2>2. id[1] < session \/ (id[1] = session /\ t <= trial)
    <3>1. seq' = NotStarted
      BY DEF NextTrial
    <3>. QED
      BY <1>1, <1>3, <2>1, <3>1 DEF Lost, Begun, Closed
  <2>3. Begun(id)
    BY <1>1, <1>3, <2>2 DEF Begun, Closed
  <2>4. Lost(id)
    BY <1>1, <1>2, <2>1, <2>3 DEF Lost
  <2>. QED
    BY <1>4, <2>4 DEF Owes
<1>5. CASE n # 0
  <2>1. id[1] = session /\ (Coming(t) \/ Working(t)) /\ n <= Spare(t)'
    BY <1>1, <1>2, <1>5 DEF Owes
  <2>2. t <= trial
    BY <1>3, <2>1, PendingTrials
  <2>3. Unsent(t)' = 0 /\ Unsent(t) = 0
    BY <1>1, <1>3, <2>2 DEF Unsent
  <2>4. Spare(t)' = Spare(t)
    BY <1>1, <1>2, <2>3 DEF Spare
  <2>. QED
    BY <1>5, <2>1, <2>4 DEF Owes
<1>. QED
  BY <1>4, <1>5

\* A new run of the sender finds nothing in the queue: nothing is charged.
LEMMA NextSessionCharge ==
    ASSUME TypeOK, NextSession, NEW id \in Ids, NEW n \in 0..MaxBursts, Owes(id, n)'
    PROVE  Owes(id, n)
<1>1. /\ trial = Trials /\ net = <<>> /\ current = NoTrial /\ session' = session + 1 /\ trial' = 0
      /\ seq' = seq /\ net' = net /\ current' = current /\ log' = log
  BY DEF NextSession, SenderRests, deviceVars
<1>2. \A t : ~Coming(t)' /\ ~Working(t)' /\ ~Coming(t) /\ ~Working(t)
  <2>1. Len(net) = 0
    BY <1>1
  <2>. QED
    BY <1>1, <2>1 DEF Coming, Working
<1>3. /\ session \in Nat /\ id[1] \in Nat /\ id[2] \in 0..(Trials - 1) /\ Trials \in Nat
      /\ seq = NotStarted
  BY <1>1, ListenerTypes DEF Ids, TypeOK
<1>4. n = 0 /\ Lost(id)'
  BY <1>2 DEF Owes
<1>5. Begun(id)
  <2>1. id[1] < session + 1
    BY <1>1, <1>3, <1>4 DEF Lost, Begun, Closed
  <2>. QED
    BY <1>1, <1>3, <2>1 DEF Begun, Closed
<1>6. Row(id) = {}
  BY <1>1, <1>4 DEF Lost, Row
<1>. QED
  BY <1>2, <1>4, <1>5, <1>6 DEF Owes, Lost

\* The end of run_trial: the trial has a row, or its loss is counted.
LEMMA EndCharge ==
    ASSUME TypeOK, OrderInv, current # NoTrial, current' = NoTrial, UNCHANGED <<senderVars, net>>,
           NEW id \in Ids, NEW n \in 0..MaxBursts, Owes(id, n)',
           Row(id)' = {} => Row(id) = {}
    PROVE  Owes(id, n) \/ (<<id, n>> = <<<<session, current.trial>>, 0>> /\ Row(id)' = {})
<1>1. session' = session /\ trial' = trial /\ seq' = seq /\ net' = net
  BY DEF senderVars
<1>2. /\ Bursts' = Bursts /\ Turns' = Turns /\ (Begun(id)' <=> Begun(id))
      /\ \A t : Unsent(t)' = Unsent(t)
      /\ \A t : ~Working(t)' /\ (Coming(t)' <=> Coming(t))
  BY <1>1 DEF Bursts, Turns, Expected, Begun, Closed, Unsent, Working, Coming
<1>. DEFINE t == id[2]
<1>3. CASE n = 0
  <2>1. Lost(id)'
    BY <1>3 DEF Owes
  <2>2. CASE id[1] = session /\ t = current.trial
    <3>1. id = <<session, current.trial>>
      BY <2>2 DEF Ids
    <3>. QED
      BY <1>3, <2>1, <3>1 DEF Lost
  <2>3. CASE ~ (id[1] = session /\ t = current.trial)
    <3>1. Lost(id)
      BY <1>1, <1>2, <2>1, <2>3 DEF Lost, Working
    <3>. QED
      BY <1>3, <3>1 DEF Owes
  <2>. QED
    BY <2>2, <2>3
<1>4. CASE n # 0
  <2>1. id[1] = session /\ Coming(t) /\ n <= Spare(t)'
    BY <1>1, <1>2, <1>4 DEF Owes
  <2>2. ~Working(t)
    BY <2>1, PendingTrials
  <2>3. Spare(t)' = Spare(t)
    BY <1>1, <1>2, <2>2 DEF Spare
  <2>. QED
    BY <1>4, <2>1, <2>3 DEF Owes
<1>. QED
  BY <1>3, <1>4

\* Every step keeps the charges covered by the missed packets.
LEMMA ChargeStep ==
    TypeOK /\ OrderInv /\ ChargeInv /\ [ListenerNext]_listenerVars => ChargeInv'
<1>. SUFFICES ASSUME TypeOK, OrderInv, ChargeInv, [ListenerNext]_listenerVars
              PROVE  ChargeInv'
  OBVIOUS
<1>c. /\ IsFiniteSet(Claims) /\ missed \in Nat /\ Cardinality(Claims) <= missed
  BY ClaimsFinite DEF ChargeInv, TypeOK
<1>d. /\ \A c \in Claims' : /\ c = <<c[1], c[2]>> /\ c[1] \in Ids /\ c[2] \in 0..MaxBursts
                            /\ Owes(c[1], c[2])'
      /\ \A id \in Ids, n \in 0..MaxBursts : Owes(id, n) => <<id, n>> \in Claims
  BY DEF Claims
<1>m. ASSUME Cardinality(Claims') <= missed'
      PROVE  ChargeInv'
  BY <1>m DEF ChargeInv
<1>g. ASSUME \A id \in Ids, n \in 0..MaxBursts : Owes(id, n)' => Owes(id, n),
             missed' = missed \/ missed' = missed + 1
      PROVE  ChargeInv'
  <2>1. Claims' \subseteq Claims
    BY <1>d, <1>g
  <2>2. Cardinality(Claims') <= missed
    BY <1>c, <2>1, Charges
  <2>3. Cardinality(Claims') \in Nat
    BY <1>c, <2>1, FS_Subset, FS_CardinalityType
  <2>4. Cardinality(Claims') <= missed'
    BY <1>c, <1>g, <2>2, <2>3
  <2>. QED
    BY <1>m, <2>4
<1>h. ASSUME NEW x, missed' = missed + 1,
             \A id \in Ids, n \in 0..MaxBursts : Owes(id, n)' => Owes(id, n) \/ <<id, n>> = x
      PROVE  ChargeInv'
  <2>1. Claims' \subseteq Claims \union {x}
    BY <1>d, <1>h
  <2>2. Cardinality(Claims') <= missed + 1
    BY <1>c, <2>1, Charges
  <2>. QED
    BY <1>h, <1>m, <2>2
<1>1. ASSUME NEW lost \in BOOLEAN, SendStart(lost) \/ SendBurst(lost)
      PROVE  ChargeInv'
  <2>. DEFINE x == IF SendStart(lost) THEN <<<<session, trial>>, 0>>
                                      ELSE <<<<session, trial>>, Spare(trial) + 1>>
  <2>1. ASSUME NEW id \in Ids, NEW n \in 0..MaxBursts, Owes(id, n)'
        PROVE  Owes(id, n) \/ (missed' = missed + 1 /\ <<id, n>> = x)
    BY <1>1, <2>1, StartCharge, BurstCharge
  <2>2. missed' = missed \/ missed' = missed + 1
    BY <1>1 DEF SendStart, SendBurst, Sent
  <2>. HIDE DEF x
  <2>3. CASE missed' = missed + 1
    BY <1>h, <2>1, <2>3
  <2>4. CASE missed' = missed
    <3>1. \A id \in Ids, n \in 0..MaxBursts : Owes(id, n)' => Owes(id, n)
      BY <1>c, <2>1, <2>4
    <3>. QED
      BY <1>g, <2>4, <3>1
  <2>. QED
    BY <2>2, <2>3, <2>4
<1>2. CASE NextTrial
  <2>1. missed' = missed
    BY <1>2 DEF NextTrial
  <2>. QED
    BY <1>2, <1>g, <2>1, NextTrialCharge
<1>3. CASE NextSession
  <2>1. missed' = missed
    BY <1>3 DEF NextSession
  <2>. QED
    BY <1>3, <1>g, <2>1, NextSessionCharge
<1>4. CASE Listen
  <2>1. missed' = missed
    BY <1>4 DEF Listen
  <2>. QED
    BY <1>4, <1>g, <2>1, ListenCharge
<1>5. CASE Turn
  <2>1. missed' = missed /\ current # NoTrial /\ net # <<>> /\ net' = Tail(net) /\ turns < Expected(current)
    BY <1>5 DEF Turn, MoreTurns
  <2>2. CASE Received.type # "START"
    BY <1>5, <1>g, <2>1, <2>2, TurnCharge
  <2>3. CASE Received.type = "START"
    <3>. DEFINE x == <<<<session, Received.trial>>, 0>>
                y == <<<<session, current.trial>>, Spare(current.trial)>>
    <3>1. ASSUME NEW id \in Ids, NEW n \in 0..MaxBursts, Owes(id, n)'
          PROVE  (Owes(id, n) /\ <<id, n>> # y) \/ <<id, n>> = x
      BY <1>5, <2>3, <3>1, TurnCharge
    <3>2. y \in Claims
      BY <1>5, <2>3, SpareOfTurn
    <3>. HIDE DEF x, y
    <3>3. Claims' \subseteq (Claims \ {y}) \union {x}
      BY <1>d, <3>1
    <3>4. Cardinality(Claims') <= missed
      BY <1>c, <3>2, <3>3, Charges
    <3>. QED
      BY <1>m, <2>1, <3>4
  <2>. QED
    BY <2>2, <2>3
<1>6. CASE PollTimeout
  <2>1. missed' = missed
    BY <1>6 DEF PollTimeout
  <2>. QED
    BY <1>6, <1>g, <2>1, TimeoutCharge
<1>e. ASSUME current # NoTrial, current' = NoTrial, UNCHANGED <<senderVars, net>>,
             \A id \in Ids : Row(id)' = {} => Row(id) = {},
             \/ missed' = missed + 1
             \/ missed' = missed /\ \A id \in Ids : id = <<session, current.trial>> => Row(id)' # {}
      PROVE  ChargeInv'
  <2>1. ASSUME NEW id \in Ids, NEW n \in 0..MaxBursts, Owes(id, n)'
        PROVE  Owes(id, n) \/ (<<id, n>> = <<<<session, current.trial>>, 0>> /\ Row(id)' = {})
    BY <1>e, <2>1, EndCharge
  <2>2. CASE missed' = missed + 1
    <3>1. \A id \in Ids, n \in 0..MaxBursts :
             Owes(id, n)' => Owes(id, n) \/ <<id, n>> = <<<<session, current.trial>>, 0>>
      BY <2>1
    <3>. QED
      BY <1>h, <2>2, <3>1
  <2>3. CASE missed' = missed /\ \A id \in Ids : id = <<session, current.trial>> => Row(id)' # {}
    <3>1. \A id \in Ids, n \in 0..MaxBursts : Owes(id, n)' => Owes(id, n)
      BY <2>1, <2>3
    <3>. QED
      BY <1>g, <2>3, <3>1
  <2>. QED
    BY <1>e, <2>2, <2>3
<1>7. ASSUME NEW gap \in 0..(MaxChunks + 1), Finish(gap)
      PROVE  ChargeInv'
  <2>1. /\ current # NoTrial /\ current' = NoTrial /\ UNCHANGED <<senderVars, net>>
        /\ missed' = IF gap = 1 THEN missed + 1 ELSE missed
    BY <1>7 DEF Finish
  <2>2. ASSUME NEW id \in Ids
        PROVE  Row(id)' = {} => Row(id) = {}
    <3>1. \A i \in 1..Len(log) : i \in 1..Len(log') /\ log'[i] = log[i]
      BY <1>7, LogGrows
    <3>. QED
      BY <3>1 DEF Row
  <2>3. ASSUME gap # 1, NEW id \in Ids, id = <<session, current.trial>>
        PROVE  Row(id)' # {}
    <3>1. Len(log) + 1 \in 1..Len(log') /\ log'[Len(log) + 1] = ResultLine
      BY <1>7, <2>3, LogGrows
    <3>2. ResultLine.kind = "result" /\ <<ResultLine.session, ResultLine.trial>> = id
      BY <2>1, <2>3, LineFields DEF OrderInv
    <3>3. Len(log) + 1 \in Row(id)'
      BY <3>1, <3>2 DEF Row
    <3>. QED
      BY <3>3
  <2>. QED
    BY <1>e, <2>1, <2>2, <2>3
<1>8. CASE TrialFails
  <2>1. /\ current # NoTrial /\ current' = NoTrial /\ UNCHANGED <<senderVars, net>>
        /\ missed' = missed + 1 /\ log' = log
    BY <1>8 DEF TrialFails
  <2>2. \A id \in Ids : Row(id)' = {} => Row(id) = {}
    BY <2>1 DEF Row
  <2>. QED
    BY <1>e, <2>1, <2>2
<1>9. CASE UNCHANGED listenerVars
  <2>1. /\ session' = session /\ trial' = trial /\ seq' = seq /\ net' = net /\ current' = current
        /\ turns' = turns /\ log' = log /\ missed' = missed
    BY <1>9 DEF listenerVars, senderVars, deviceVars
  <2>2. ASSUME NEW id \in Ids, NEW n \in 0..MaxBursts, Owes(id, n)'
        PROVE  Owes(id, n)
    BY <2>1, <2>2 DEF Owes, Lost, Begun, Closed, Row, Coming, Working, Spare, Unsent, Turns, Expected,
                      Bursts
  <2>. QED
    BY <1>g, <2>1, <2>2
<1>. QED
  BY <1>1, <1>2, <1>3, <1>4, <1>5, <1>6, <1>7, <1>8, <1>9, ListenerTypes
     DEF ListenerNext, DeviceStep

\* A missed packet costs at most one trial: its own, or the one whose START uses
\* up the turn of a burst that never came (run_trial counts turns, not bursts).
THEOREM OneLossOneTrial == ListenerSpec => []LossCostsOneTrial
<1>1. ListenerInit => TypeOK /\ OrderInv /\ ChargeInv
  BY TypeInit, OrderInit, ChargeInit
<1>2. TypeOK /\ OrderInv /\ ChargeInv /\ [ListenerNext]_listenerVars
      => (TypeOK /\ OrderInv /\ ChargeInv)'
  BY TypeStep, OrderStep, ChargeStep
<1>3. TypeOK /\ ChargeInv => LossCostsOneTrial
  <2>. DEFINE Rowless == {id \in Ids : id[1] <= session /\ Row(id) = {}}
  <2>. SUFFICES ASSUME TypeOK, ChargeInv, current = NoTrial, net = <<>>, trial = Trials
                PROVE  Cardinality(Rowless) <= missed
    BY DEF LossCostsOneTrial, SenderRests
  <2>1. ASSUME NEW id \in Rowless
        PROVE  <<id, 0>> \in Claims
    <3>1. /\ id \in Ids /\ id[1] <= session /\ Row(id) = {}
          /\ id[1] \in Nat /\ id[2] \in 0..(Trials - 1) /\ session \in Nat /\ Trials \in Nat
      BY ListenerTypes DEF Ids, TypeOK
    <3>2. Begun(id)
      BY <3>1 DEF Begun, Closed
    <3>3. \A t : ~Coming(t) /\ ~Working(t)
      <4>1. Len(net) = 0
        OBVIOUS
      <4>. QED
        BY <4>1 DEF Coming, Working
    <3>4. Owes(id, 0)
      BY <3>1, <3>2, <3>3 DEF Owes, Lost
    <3>. QED
      BY <3>1, <3>4, ListenerTypes DEF Claims
  <2>. HIDE DEF Rowless
  <2>. DEFINE f == [id \in Rowless |-> <<id, 0>>]
  <2>2. f \in Injection(Rowless, Claims)
    <3>1. f \in [Rowless -> Claims]
      BY <2>1
    <3>2. \A a, b \in Rowless : f[a] = f[b] => a = b
      OBVIOUS
    <3>. HIDE DEF f
    <3>. QED
      BY <3>1, <3>2 DEF Injection, IsInjective
  <2>3. IsFiniteSet(Rowless) /\ Cardinality(Rowless) <= Cardinality(Claims)
    <3>. HIDE DEF f
    <3>. QED
      BY <2>2, ClaimsFinite, FS_Injection
  <2>4. Cardinality(Rowless) \in Nat /\ Cardinality(Claims) \in Nat /\ missed \in Nat
        /\ Cardinality(Claims) <= missed
    BY <2>3, ClaimsFinite, FS_CardinalityType DEF ChargeInv, TypeOK
  <2>. QED
    BY <2>3, <2>4
<1>. QED
  BY <1>1, <1>2, <1>3, PTL DEF ListenerSpec
==============================================================================
