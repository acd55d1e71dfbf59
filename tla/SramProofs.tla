------------------------------ MODULE SramProofs ------------------------------
(***************************************************************************)
(* Proofs about SramExperiment: what a row of the results says about the   *)
(* SRAM, which conditions can abort an undisturbed experiment, and what    *)
(* the summary counts.                                                     *)
(***************************************************************************)
EXTENDS SramExperiment, SequenceFacts, FiniteSetTheorems

------------------------------------------------------------------------------
(* The serial line. *)

\* The oldest line is read, the others move up.
LEMMA LineRead ==
    ASSUME NEW S, NEW s \in Seq(S), s # <<>>
    PROVE  /\ Tail(s) \in Seq(S) /\ Head(s) = s[1] /\ Head(s) \in S
           /\ Len(s) \in Nat \ {0} /\ Len(Tail(s)) = Len(s) - 1
           /\ \A k \in 1..(Len(s) - 1) : Tail(s)[k] = s[k + 1]
OBVIOUS

\* A new line comes last.
LEMMA LineAdded ==
    ASSUME NEW S, NEW s \in Seq(S), NEW e \in S
    PROVE  /\ Append(s, e) \in Seq(S) /\ Len(s) \in Nat /\ Len(Append(s, e)) = Len(s) + 1
           /\ \A k \in 1..Len(s) : Append(s, e)[k] = s[k]
           /\ Append(s, e)[Len(s) + 1] = e
OBVIOUS

\* Every line that is printed is a line.
LEMMA LineTypes ==
    ASSUME TypeOK
    PROVE  /\ \A i \in 1..ReadyLine : CaptureLine(i) \in Lines
           /\ \A p \in Values, ok \in BOOLEAN : Armed(p, ok) \in Lines
           /\ [kind |-> "torn"] \in Lines
<1>1. DataLines \in Nat \ {0} /\ ReadyLine \in Nat /\ shot \in Copies
  BY SramAssumption DEF ReadyLine, TypeOK
<1>2. ASSUME NEW i \in 1..ReadyLine
      PROVE  CaptureLine(i) \in Lines
  <2>1. CASE i \in {1, DataLines + 2, ReadyLine}
    BY <1>1, <2>1 DEF CaptureLine, Lines, ReadyLine
  <2>2. CASE i \notin {1, DataLines + 2, ReadyLine}
    <3>1. i - 1 \in Offsets
      BY <1>1, <2>2 DEF Offsets, ReadyLine
    <3>2. CaptureLine(i) = [kind |-> "data", offset |-> i - 1, copy |-> shot]
      BY <2>2 DEF CaptureLine
    <3>. QED
      BY <1>1, <3>1, <3>2 DEF Lines
  <2>. QED
    BY <2>1, <2>2
<1>. QED
  BY <1>2 DEF Armed, Lines

\* The patterns are values of the region, and the experiment has a number of
\* captures.
LEMMA ExperimentType ==
    /\ Captures \in Nat
    /\ \A i \in Nat : Pattern(i) \in Values
    /\ \A i \in Nat : Pattern(i) # None
<1>1. Len(Conditions) \in Nat /\ Repetitions \in Nat /\ Len(Patterns) \in Nat \ {0}
  BY SramAssumption
<1>2. Captures \in Nat
  BY <1>1 DEF Captures
<1>3. ASSUME NEW i \in Nat
      PROVE  Pattern(i) \in Values /\ Pattern(i) # None
  <2>1. (i - 1) % Len(Patterns) \in 0..(Len(Patterns) - 1)
    BY <1>1
  <2>2. 1 + ((i - 1) % Len(Patterns)) \in 1..Len(Patterns)
    BY <1>1, <2>1
  <2>. QED
    BY <2>2, SramAssumption DEF Pattern, Values, None
<1>. QED
  BY <1>2, <1>3

\* What the lines of a capture are.
LEMMA CaptureLines ==
    ASSUME NEW i \in 1..ReadyLine
    PROVE  /\ CaptureLine(i).kind \in {"begin", "data", "end", "ready"}
           /\ CaptureLine(i).kind = "begin" <=> i = 1
           /\ CaptureLine(i).kind = "data" <=> i \in 2..(DataLines + 1)
           /\ CaptureLine(i).kind = "end" <=> i = DataLines + 2
           /\ CaptureLine(i).kind = "ready" <=> i = ReadyLine
           /\ CaptureLine(i).kind = "data" =>
                 CaptureLine(i).copy = shot /\ CaptureLine(i).offset = i - 1
<1>1. DataLines \in Nat \ {0} /\ ReadyLine = DataLines + 3
  BY SramAssumption DEF ReadyLine
<1>2. CASE i = 1
  BY <1>1, <1>2 DEF CaptureLine
<1>3. CASE i = DataLines + 2
  BY <1>1, <1>3 DEF CaptureLine
<1>4. CASE i = ReadyLine
  BY <1>1, <1>4 DEF CaptureLine
<1>5. CASE i \notin {1, DataLines + 2, ReadyLine}
  <2>1. CaptureLine(i) = [kind |-> "data", offset |-> i - 1, copy |-> shot]
    BY <1>5 DEF CaptureLine
  <2>2. i \in 2..(DataLines + 1)
    BY <1>1, <1>5
  <2>. QED
    BY <1>1, <1>5, <2>1, <2>2
<1>. QED
  BY <1>2, <1>3, <1>4, <1>5

\* A line that the board emits is added behind the others, or nobody hears it.
LEMMA Emitted ==
    ASSUME TypeOK, NEW l \in Lines, Emit(l)
    PROVE  /\ Len(line) \in Nat /\ Len(line') \in Nat
           /\ ~portOpen => line' = line
           /\ portOpen => Len(line') = Len(line) + 1 /\ line'[Len(line) + 1] = l
           /\ \A k \in 1..Len(line) : line'[k] = line[k]
           /\ \A k \in 1..Len(line') : k \in 1..Len(line) \/ (k = Len(line) + 1 /\ line'[k] = l)
<1>1. line \in Seq(Lines) /\ Len(line) \in Nat
  BY DEF TypeOK
<1>2. CASE portOpen
  BY <1>1, <1>2, LineAdded DEF Emit
<1>3. CASE ~portOpen
  BY <1>1, <1>3 DEF Emit
<1>. QED
  BY <1>2, <1>3

\* The host reads a line.
LEMMA HostReads ==
    ASSUME TypeOK, line # <<>>, line' = Tail(line)
    PROVE  /\ Len(line) \in Nat \ {0} /\ Len(line') = Len(line) - 1
           /\ Head(line) = line[1] /\ Head(line) \in Lines
           /\ \A k \in 1..Len(line') : k + 1 \in 1..Len(line) /\ line'[k] = line[k + 1]
BY LineRead DEF TypeOK

------------------------------------------------------------------------------
(* Type correctness. *)

\* The initial values have their types.
LEMMA TypeInit == SramInit => TypeOK
<1>. SUFFICES ASSUME SramInit
              PROVE  TypeOK
  OBVIOUS
<1>1. Zeros \in Copies /\ Other \in Values /\ None \in Values
  BY DEF Zeros, Copies, Values
<1>2. shot \in Copies
  BY <1>1 DEF SramInit, Copies
<1>3. captured \in [Offsets -> Copies]
  BY <1>1 DEF SramInit
<1>4. <<>> \in Seq(Lines) /\ <<>> \in Seq(Rows) /\ Len(<<>>) = 0
  OBVIOUS
<1>5. printed \in 0..ReadyLine /\ faults \in 0..MaxFaults
  BY SramAssumption DEF SramInit, ReadyLine
<1>6. index \in 0..(Captures + 1) /\ index <= Captures
  BY ExperimentType DEF SramInit
<1>7. boot \in Nat /\ powered \in BOOLEAN /\ host \in Hosts /\ portOpen \in BOOLEAN
      /\ began \in BOOLEAN /\ ended \in BOOLEAN /\ received \subseteq Offsets
      /\ beginLost \in BOOLEAN
  BY DEF SramInit, Hosts
<1>8. /\ region \in Values /\ filled \in Values /\ command \in Values
      /\ line \in Seq(Lines) /\ rows \in Seq(Rows) /\ index = 0 /\ Len(rows) = 0
  BY <1>1, <1>4 DEF SramInit
<1>. QED
  BY <1>2, <1>3, <1>5, <1>6, <1>7, <1>8 DEF TypeOK

\* A boot leaves the board's variables with their types.
LEMMA BootType ==
    ASSUME TypeOK, NEW kept \in BOOLEAN, Boot(kept)
    PROVE  /\ boot' \in Nat /\ powered' \in BOOLEAN /\ printed' \in 0..ReadyLine
           /\ region' \in Values /\ filled' \in Values /\ command' \in Values
           /\ shot' \in Copies
<1>1. Other \in Values /\ None \in Values
  BY DEF Values
<1>2. ReadyLine \in Nat
  BY SramAssumption DEF ReadyLine
<1>3. region' \in Values /\ filled' = filled /\ shot' = [boot |-> boot + 1, after |-> filled, value |-> region']
  BY <1>1 DEF Boot, TypeOK
<1>. QED
  BY <1>1, <1>2, <1>3 DEF Boot, TypeOK, Copies

\* An aborted script has let go of the port.
LEMMA AbortType ==
    ASSUME TypeOK, Abort
    PROVE  host' = "error" /\ portOpen' = FALSE /\ line' = <<>> /\ line' \in Seq(Lines)
BY DEF Abort

\* read_capture begins with nothing received.
LEMMA ReadingType ==
    ASSUME BeginReading
    PROVE  /\ host' = "read" /\ began' = FALSE /\ ended' = FALSE /\ received' = {}
           /\ captured' \in [Offsets -> Copies]
<1>1. Zeros \in Copies
  BY DEF Zeros, Copies, Values
<1>. QED
  BY <1>1 DEF BeginReading

\* Every step keeps the types.
LEMMA TypeStep == TypeOK /\ [SramNext]_sramVars => TypeOK'
<1>. SUFFICES ASSUME TypeOK, [SramNext]_sramVars
              PROVE  TypeOK'
  OBVIOUS
<1>. USE DEF boardVars, readVars, resultVars
<1>c. ReadyLine \in Nat /\ MaxFaults \in Nat /\ Captures \in Nat
  BY SramAssumption, ExperimentType DEF ReadyLine
<1>f. UNCHANGED faults \/ Fault => faults' \in 0..MaxFaults
  BY <1>c DEF Fault, TypeOK
<1>e. ASSUME NEW l \in Lines
      PROVE  Emit(l) => line' \in Seq(Lines)
  BY LineAdded DEF Emit, TypeOK
<1>n. <<>> \in Seq(Lines)
  OBVIOUS
<1>t. line # <<>> => Tail(line) \in Seq(Lines) /\ Head(line) \in Lines
  BY LineRead DEF TypeOK
<1>1. ASSUME NEW lost \in BOOLEAN, PrintLine(lost)
      PROVE  TypeOK'
  <2>1. printed + 1 \in 1..ReadyLine
    BY <1>1, <1>c DEF PrintLine, TypeOK
  <2>2. CaptureLine(printed + 1) \in Lines
    BY <2>1, LineTypes
  <2>3. line' \in Seq(Lines) /\ faults' \in 0..MaxFaults
    BY <1>1, <2>2, <1>e, <1>f DEF PrintLine, TypeOK
  <2>. QED
    BY <1>1, <1>c, <2>1, <2>3 DEF PrintLine, TypeOK
<1>2. ASSUME NEW ok \in BOOLEAN, FillAndVerify(ok)
      PROVE  TypeOK'
  <2>1. Armed(command, ok) \in Lines
    BY LineTypes DEF TypeOK
  <2>2. line' \in Seq(Lines) /\ faults' \in 0..MaxFaults
    BY <1>2, <2>1, <1>e, <1>f DEF FillAndVerify
  <2>3. Other \in Values /\ None \in Values
    BY DEF Values
  <2>. QED
    BY <1>2, <2>2, <2>3 DEF FillAndVerify, TypeOK
<1>3. ASSUME NEW kept \in BOOLEAN, Brownout(kept)
      PROVE  TypeOK'
  <2>1. line' \in Seq(Lines)
    BY <1>3, LineTypes, <1>e DEF Brownout, TypeOK
  <2>. QED
    BY <1>3, <2>1, <1>f, BootType DEF Brownout, TypeOK
<1>4. CASE Setup
  BY <1>4, BootType, ReadingType, <1>c DEF Setup, TypeOK, Hosts
<1>5. CASE CommandFails \/ DeviceMissing \/ Deadline
  BY <1>5, AbortType, <1>f DEF CommandFails, DeviceMissing, Deadline, TypeOK, Hosts
<1>6. CASE ReadBegin
  BY <1>6, <1>t DEF ReadBegin, NextIs, TypeOK
<1>7. CASE ReadData
  <2>1. Head(line) \in Lines /\ Head(line).kind = "data" /\ line' = Tail(line) /\ line' \in Seq(Lines)
    BY <1>7, <1>t DEF ReadData, NextIs
  <2>2. Head(line).offset \in Offsets /\ Head(line).copy \in Copies
    BY <2>1 DEF Lines
  <2>3. received' \subseteq Offsets /\ captured' \in [Offsets -> Copies]
    BY <1>7, <2>2 DEF ReadData, TypeOK
  <2>. QED
    BY <1>7, <2>1, <2>3 DEF ReadData, TypeOK
<1>8. CASE ReadEnd
  BY <1>8, <1>t DEF ReadEnd, NextIs, TypeOK
<1>9. CASE ReadReady
  <2>1. CASE ended /\ received # Offsets
    BY <1>9, <2>1, AbortType DEF ReadReady, TypeOK, Hosts
  <2>2. CASE ~(ended /\ received # Offsets)
    <3>0. line # <<>> /\ line' = Tail(line) /\ host = "read"
      BY <1>9, <2>2 DEF ReadReady
    <3>1. line' = Tail(line) /\ line' \in Seq(Lines) /\ host = "read" /\ index \in 0..Captures
      BY <3>0, <1>t, <1>c DEF TypeOK
    <3>2. CASE ended
      <4>1. Recorded
        BY <1>9, <2>2, <3>2 DEF ReadReady
      <4>2. /\ rows' \in Seq(Rows)
            /\ Len(rows') = IF index = 0 THEN 0 ELSE index
        <5>1. CASE index = 0
          BY <4>1, <5>1 DEF Recorded, TypeOK
        <5>2. CASE index # 0
          <6>1. index \in 1..Captures
            BY <3>1, <5>2, <1>c
          <6>2. Pattern(index) \in Values
            BY <6>1, <1>c, ExperimentType
          <6>. DEFINE row == [condition |-> Condition(index), pattern |-> Pattern(index),
                              data |-> captured]
          <6>3. row \in Rows
            BY <6>1, <6>2 DEF Rows, TypeOK
          <6>4. rows' = Append(rows, row)
            BY <4>1, <5>2 DEF Recorded
          <6>. HIDE DEF row
          <6>. QED
            BY <6>1, <6>3, <6>4, <5>2, <1>c DEF TypeOK
        <5>. QED
          BY <5>1, <5>2
      <4>3. /\ index' = index + 1 /\ host' = IF index = Captures THEN "write" ELSE "arm"
        BY <4>1 DEF Recorded
      <4>4. index' \in 0..(Captures + 1) /\ (host' \notin {"write", "done"} => index' <= Captures)
        BY <3>1, <4>3, <1>c
      <4>5. Len(rows') = IF index' = 0 THEN 0 ELSE index' - 1
        BY <3>1, <4>2, <4>3, <1>c
      <4>. QED
        BY <1>9, <2>2, <3>1, <4>2, <4>3, <4>4, <4>5 DEF ReadReady, TypeOK, Hosts
    <3>3. CASE ~ended
      BY <1>9, <2>2, <3>1, <3>3 DEF ReadReady, TypeOK
    <3>. QED
      BY <3>2, <3>3
  <2>. QED
    BY <2>1, <2>2
<1>10. CASE ReadOther
  BY <1>10, <1>t, AbortType DEF ReadOther, TypeOK, Hosts
<1>11. CASE WriteFill
  <2>1. Pattern(index) \in Values
    BY ExperimentType, <1>c DEF TypeOK
  <2>. QED
    BY <1>11, <2>1 DEF WriteFill, TypeOK, Hosts
<1>12. CASE ReadArmed
  BY <1>12, <1>t, AbortType DEF ReadArmed, TypeOK, Hosts
<1>13. CASE PulseEn
  BY <1>13, BootType, ReadingType DEF PulseEn, TypeOK, Hosts
<1>14. CASE ClosePort
  BY <1>14, <1>n DEF ClosePort, TypeOK, Hosts
<1>15. CASE PowerOff
  BY <1>15 DEF PowerOff, TypeOK, Hosts, Values
<1>16. CASE PowerOn
  BY <1>16, BootType DEF PowerOn, TypeOK, Hosts
<1>17. CASE OpenPort
  BY <1>17, ReadingType DEF OpenPort, TypeOK, Hosts
<1>18. CASE WriteResults
  BY <1>18, <1>n DEF WriteResults, TypeOK, Hosts
<1>19. CASE UNCHANGED sramVars
  BY <1>19 DEF sramVars, TypeOK
<1>. QED
  BY <1>1, <1>2, <1>3, <1>4, <1>5, <1>6, <1>7, <1>8, <1>9, <1>10, <1>11, <1>12, <1>13, <1>14,
     <1>15, <1>16, <1>17, <1>18, <1>19 DEF SramNext, BoardNext, HostStep

\* The types hold in every reachable state; one row per capture returned.
THEOREM SramTypeCorrect == SramSpec => []TypeOK
BY TypeInit, TypeStep, PTL DEF SramSpec
------------------------------------------------------------------------------
(* Which fill a row is about.                                              *)
(*                                                                         *)
(* Between arming and reading nothing is thrown away, so the argument is   *)
(* about the whole queue: behind the ARMED line that the host waits for,   *)
(* or anywhere once it has been read, only copies taken after that fill    *)
(* can follow.                                                             *)

NoArmedLine == \A k \in 1..Len(line) : line[k].kind # "armed"

\* Every data line behind the first k lines holds a copy taken after the fill
\* of the current capture.
FilledBehind(k) ==
    \A j \in 1..Len(line) :
        j > k /\ line[j].kind = "data" => line[j].copy.after = Pattern(index)

\* The pattern of the current capture is in the region, and so it is in the
\* copy that is still being printed.
FillDone ==
    /\ filled = Pattern(index)
    /\ command = None
    /\ printed < ReadyLine => shot.after = Pattern(index)

\* The ARMED line of the current capture is the k-th of the queue.
ArmedAt(k) ==
    /\ line[k].kind = "armed"
    /\ \A j \in 1..Len(line) : line[j].kind = "armed" => j = k
    /\ FilledBehind(k)

\* The capture after the fill is being prepared or read.
AfterFill ==
    \/ host \in {"transition", "poweroff", "poweron", "opening"}
    \/ host = "read" /\ index > 0

\* The port is open while the host talks to the board, and nothing waits in a
\* closed one.
PortInv ==
    /\ host \in {"read", "arm", "arming", "transition", "write"} => portOpen
    /\ ~portOpen => line = <<>>
    /\ host \in {"setup", "poweroff", "poweron", "opening"} => ~portOpen

\* The inductive invariant behind RowFollowsItsFill.
FillInv ==
    /\ PortInv
    /\ host = "setup" => index = 0
    /\ host \in {"arm", "arming"} => index > 0
    /\ host \notin {"arming", "error"} => command = None /\ NoArmedLine
    /\ AfterFill => index > 0 /\ FillDone /\ FilledBehind(0)
    /\ host = "arming" =>
        \/ command \in {Pattern(index), None} /\ NoArmedLine
        \/ FillDone /\ \E k \in 1..Len(line) : ArmedAt(k)
    /\ host = "read" /\ index > 0 => \A o \in received : captured[o].after = Pattern(index)
    /\ RowFollowsItsFill

\* The pattern does not change while the host works on one capture.
LEMMA FilledBehindKept ==
    ASSUME TypeOK, index' = index, FilledBehind(0)
    PROVE  /\ line # <<>> /\ line' = Tail(line) => FilledBehind(0)'
           /\ \A l \in Lines : Emit(l) /\ (l.kind = "data" => l.copy.after = Pattern(index))
                                => FilledBehind(0)'
           /\ line' = line \/ line' = <<>> => FilledBehind(0)'
<1>1. Pattern(index)' = Pattern(index)
  BY DEF Pattern
<1>2. line # <<>> /\ line' = Tail(line) => FilledBehind(0)'
  BY <1>1, HostReads DEF FilledBehind
<1>3. ASSUME NEW l \in Lines, Emit(l), l.kind = "data" => l.copy.after = Pattern(index)
      PROVE  FilledBehind(0)'
  BY <1>1, <1>3, Emitted DEF FilledBehind
<1>4. line' = line \/ line' = <<>> => FilledBehind(0)'
  BY <1>1 DEF FilledBehind
<1>. QED
  BY <1>2, <1>3, <1>4

\* No ARMED line comes from anywhere but fill_and_verify.
LEMMA NoArmedKept ==
    ASSUME TypeOK, NoArmedLine
    PROVE  /\ line # <<>> /\ line' = Tail(line) => NoArmedLine'
           /\ \A l \in Lines : Emit(l) /\ l.kind # "armed" => NoArmedLine'
           /\ line' = line \/ line' = <<>> => NoArmedLine'
<1>1. line # <<>> /\ line' = Tail(line) => NoArmedLine'
  BY HostReads DEF NoArmedLine
<1>2. ASSUME NEW l \in Lines, Emit(l), l.kind # "armed"
      PROVE  NoArmedLine'
  BY <1>2, Emitted DEF NoArmedLine
<1>3. line' = line \/ line' = <<>> => NoArmedLine'
  BY DEF NoArmedLine
<1>. QED
  BY <1>1, <1>2, <1>3

\* The ARMED line stays the only one while the board prints behind it copies
\* taken after the fill.
LEMMA ArmedKept ==
    ASSUME TypeOK, index' = index, NEW l \in Lines,
           line' = line \/ (Emit(l) /\ l.kind # "armed" /\ (l.kind = "data" => l.copy.after = Pattern(index))),
           NEW k \in 1..Len(line), ArmedAt(k)
    PROVE  k \in 1..Len(line') /\ ArmedAt(k)'
<1>1. Pattern(index)' = Pattern(index)
  BY DEF Pattern
<1>2. CASE line' = line
  BY <1>1, <1>2 DEF ArmedAt, FilledBehind
<1>3. CASE Emit(l) /\ l.kind # "armed" /\ (l.kind = "data" => l.copy.after = Pattern(index))
  <2>1. k \in 1..Len(line') /\ line'[k] = line[k]
    BY <1>3, Emitted
  <2>2. \A j \in 1..Len(line') : line'[j].kind = "armed" => j = k
    BY <1>3, Emitted DEF ArmedAt
  <2>3. FilledBehind(k)'
    BY <1>1, <1>3, Emitted DEF ArmedAt, FilledBehind
  <2>. QED
    BY <2>1, <2>2, <2>3 DEF ArmedAt
<1>. QED
  BY <1>2, <1>3

\* Nothing is armed at first.
LEMMA FillInit == SramInit => FillInv
<1>. SUFFICES ASSUME SramInit
              PROVE  FillInv
  OBVIOUS
<1>1. line = <<>> /\ Len(line) = 0 /\ rows = <<>> /\ Len(rows) = 0
  BY DEF SramInit
<1>. QED
  BY <1>1 DEF SramInit, FillInv, PortInv, NoArmedLine, AfterFill, RowFollowsItsFill

\* An aborted script has nothing left to say but its rows.
LEMMA FillAbort ==
    ASSUME FillInv, Abort, UNCHANGED rows
    PROVE  FillInv'
BY DEF FillInv, Abort, PortInv, AfterFill, RowFollowsItsFill

\* A reset keeps the fill: the boot copies the region after it.
LEMMA FillBoot ==
    ASSUME TypeOK, NEW kept \in BOOLEAN, Boot(kept), index' = index, filled = Pattern(index)
    PROVE  FillDone'
<1>1. Pattern(index)' = Pattern(index)
  BY DEF Pattern
<1>2. filled' = filled /\ command' = None /\ shot'.after = filled
  BY DEF Boot
<1>. QED
  BY <1>1, <1>2 DEF FillDone

\* Every step keeps the invariant of the fill.
LEMMA FillStep == TypeOK /\ FillInv /\ [SramNext]_sramVars => FillInv'
<1>. SUFFICES ASSUME TypeOK, FillInv, [SramNext]_sramVars
              PROVE  FillInv'
  OBVIOUS
<1>. USE DEF boardVars, readVars, resultVars
<1>r. rows' = rows => RowFollowsItsFill'
  BY DEF FillInv, RowFollowsItsFill
<1>p. index' = index => Pattern(index)' = Pattern(index)
  BY DEF Pattern
<1>n. index \in Nat /\ Pattern(index) \in Values /\ Pattern(index) # None
  BY ExperimentType DEF TypeOK
<1>1. ASSUME NEW lost \in BOOLEAN, PrintLine(lost)
      PROVE  FillInv'
  <2>. DEFINE l == CaptureLine(printed + 1)
  <2>1. /\ printed + 1 \in 1..ReadyLine /\ printed < ReadyLine
        /\ printed' = printed + 1 /\ index' = index
        /\ line' = line \/ Emit(l)
        /\ UNCHANGED <<filled, shot, command, host, portOpen, received, captured, rows>>
    BY <1>1, SramAssumption DEF PrintLine, TypeOK, ReadyLine
  <2>2. l \in Lines /\ l.kind # "armed" /\ (l.kind = "data" => l.copy = shot)
    BY <2>1, LineTypes, CaptureLines
  <2>3. FillDone => FillDone' /\ (l.kind = "data" => l.copy.after = Pattern(index))
    BY <2>1, <2>2, <1>p DEF FillDone
  <2>. HIDE DEF l
  <2>4. PortInv'
    BY <2>1, <2>2, Emitted DEF FillInv, PortInv
  <2>5. NoArmedLine => NoArmedLine'
    BY <2>1, <2>2, NoArmedKept
  <2>6. AfterFill' => index' > 0 /\ FillDone' /\ FilledBehind(0)'
    BY <2>1, <2>2, <2>3, FilledBehindKept DEF FillInv, AfterFill
  <2>7. FillDone /\ (\E k \in 1..Len(line) : ArmedAt(k))
        => FillDone' /\ (\E k \in 1..Len(line') : ArmedAt(k)')
    BY <2>1, <2>2, <2>3, ArmedKept
  <2>. QED
    BY <2>1, <2>4, <2>5, <2>6, <2>7, <1>r, <1>p DEF FillInv
<1>2. ASSUME NEW ok \in BOOLEAN, FillAndVerify(ok)
      PROVE  FillInv'
  <2>. DEFINE l == Armed(command, ok)
  <2>1. /\ printed = ReadyLine /\ printed' = printed /\ command # None
        /\ filled' = command /\ command' = None /\ Emit(l) /\ index' = index
        /\ UNCHANGED <<host, portOpen, received, captured, rows>>
    BY <1>2 DEF FillAndVerify
  <2>2. host \in {"arming", "error"}
    BY <2>1 DEF FillInv
  <2>3. l \in Lines /\ l.kind = "armed"
    BY LineTypes DEF Armed, TypeOK
  <2>. HIDE DEF l
  <2>4. PortInv'
    BY <2>1, <2>3, Emitted DEF FillInv, PortInv
  <2>5. ASSUME host = "arming"
        PROVE  FillDone' /\ \E k \in 1..Len(line') : ArmedAt(k)'
    <3>1. command = Pattern(index) /\ NoArmedLine /\ portOpen
      BY <2>1, <2>5 DEF FillInv, FillDone, PortInv
    <3>2. FillDone'
      BY <2>1, <3>1, <1>p, SramAssumption DEF FillDone, ReadyLine
    <3>3. PICK k : k = Len(line) + 1
      OBVIOUS
    <3>4. k \in 1..Len(line') /\ line'[k] = l
      BY <2>1, <2>3, <3>1, <3>3, Emitted
    <3>5. ArmedAt(k)'
      <4>1. \A j \in 1..Len(line') : j \in 1..Len(line) \/ j = k
        BY <2>1, <2>3, <3>3, Emitted
      <4>2. \A j \in 1..Len(line) : line'[j].kind # "armed"
        BY <2>1, <2>3, <3>1, Emitted DEF NoArmedLine
      <4>3. FilledBehind(k)'
        BY <4>1, <2>1, <2>3, <3>3, Emitted DEF FilledBehind
      <4>. QED
        BY <2>3, <3>4, <4>1, <4>2, <4>3 DEF ArmedAt
    <3>. QED
      BY <3>2, <3>4, <3>5
  <2>. QED
    BY <2>1, <2>2, <2>4, <2>5, <1>r DEF FillInv, AfterFill
<1>3. ASSUME NEW kept \in BOOLEAN, Brownout(kept)
      PROVE  FillInv'
  <2>. DEFINE l == [kind |-> "torn"]
  <2>1. /\ Boot(kept) /\ index' = index
        /\ line' = line \/ Emit(l)
        /\ UNCHANGED <<host, portOpen, received, captured, rows>>
    BY <1>3 DEF Brownout
  <2>2. l \in Lines /\ l.kind # "armed" /\ l.kind # "data"
    BY LineTypes
  <2>. HIDE DEF l
  <2>3. FillDone => FillDone'
    BY <2>1, FillBoot DEF FillDone
  <2>4. PortInv'
    BY <2>1, <2>2, Emitted DEF FillInv, PortInv
  <2>5. NoArmedLine => NoArmedLine'
    BY <2>1, <2>2, NoArmedKept
  <2>6. AfterFill' => index' > 0 /\ FillDone' /\ FilledBehind(0)'
    BY <2>1, <2>2, <2>3, FilledBehindKept DEF FillInv, AfterFill
  <2>7. FillDone /\ (\E k \in 1..Len(line) : ArmedAt(k))
        => FillDone' /\ (\E k \in 1..Len(line') : ArmedAt(k)')
    BY <2>1, <2>2, <2>3, ArmedKept
  <2>8. command' = None
    BY <2>1 DEF Boot
  <2>. QED
    BY <2>1, <2>4, <2>5, <2>6, <2>7, <2>8, <1>r, <1>p DEF FillInv
<1>4. CASE Setup
  <2>1. PortInv' /\ host' = "read" /\ index' = index /\ rows' = rows /\ line' = line
        /\ line = <<>> /\ command' = None /\ received' = {}
    BY <1>4 DEF Setup, FillInv, PortInv, Boot, BeginReading
  <2>2. NoArmedLine'
    BY <2>1 DEF NoArmedLine
  <2>3. index' = 0
    BY <1>4 DEF Setup, FillInv
  <2>. QED
    BY <2>1, <2>2, <2>3, <1>r DEF FillInv, AfterFill
<1>5. CASE CommandFails \/ DeviceMissing \/ Deadline
  BY <1>5, FillAbort DEF CommandFails, DeviceMissing, Deadline
<1>6. CASE ReadBegin
  <2>1. line # <<>> /\ line' = Tail(line) /\ received' = {}
        /\ UNCHANGED <<boardVars, host, portOpen, index, captured, rows>>
    BY <1>6 DEF ReadBegin, NextIs
  <2>. QED
    BY <2>1, <1>6, <1>r, <1>p, NoArmedKept, FilledBehindKept
    DEF FillInv, PortInv, AfterFill, FillDone, ReadBegin
<1>7. CASE ReadData
  <2>1. /\ line # <<>> /\ line' = Tail(line) /\ Head(line).kind = "data" /\ host = "read"
        /\ UNCHANGED <<boardVars, host, portOpen, index, rows>>
    BY <1>7 DEF ReadData, NextIs
  <2>2. ASSUME index > 0, NEW o \in received'
        PROVE  captured'[o].after = Pattern(index)
    <3>. DEFINE p == Head(line).offset
    <3>1. Head(line).copy.after = Pattern(index)
      BY <2>1, <2>2, HostReads DEF FillInv, AfterFill, FilledBehind
    <3>2. \A q \in received : captured[q].after = Pattern(index) /\ q \in Offsets
      BY <2>1, <2>2 DEF FillInv, TypeOK
    <3>3. Head(line) \in Lines /\ p \in Offsets
      BY <2>1, HostReads DEF Lines
    <3>4. CASE ~began
      BY <1>7, <3>2, <3>4, <2>2 DEF ReadData
    <3>5. CASE began
      BY <1>7, <3>1, <3>2, <3>3, <3>5, <2>2 DEF ReadData, TypeOK
    <3>. QED
      BY <3>4, <3>5
  <2>. QED
    BY <2>1, <2>2, <1>r, <1>p, NoArmedKept, FilledBehindKept
    DEF FillInv, PortInv, AfterFill, FillDone
<1>8. CASE ReadEnd
  <2>1. line # <<>> /\ line' = Tail(line)
        /\ UNCHANGED <<boardVars, host, portOpen, index, received, captured, rows>>
    BY <1>8 DEF ReadEnd, NextIs
  <2>. QED
    BY <2>1, <1>8, <1>r, <1>p, NoArmedKept, FilledBehindKept
    DEF FillInv, PortInv, AfterFill, FillDone, ReadEnd
<1>9. CASE ReadReady
  <2>1. CASE ended /\ received # Offsets
    BY <1>9, <2>1, FillAbort DEF ReadReady
  <2>2. CASE ~ended
    <3>1. line # <<>> /\ line' = Tail(line)
          /\ UNCHANGED <<boardVars, host, portOpen, index, received, captured, rows>>
      BY <1>9, <2>2 DEF ReadReady
    <3>. QED
      BY <3>1, <1>9, <1>r, <1>p, NoArmedKept, FilledBehindKept
      DEF FillInv, PortInv, AfterFill, FillDone, ReadReady
  <2>3. CASE ended /\ received = Offsets
    <3>1. /\ line # <<>> /\ line' = Tail(line) /\ Recorded /\ host = "read"
          /\ UNCHANGED <<boardVars, portOpen, received, captured>>
      BY <1>9, <2>3 DEF ReadReady
    <3>2. index' > 0 /\ host' \in {"arm", "write"}
      BY <3>1, <1>n DEF Recorded
    <3>3. PortInv'
      BY <3>1, <3>2 DEF FillInv, PortInv
    <3>4. command' = None /\ NoArmedLine'
      BY <3>1, NoArmedKept DEF FillInv
    <3>5. RowFollowsItsFill'
      <4>1. CASE index = 0
        BY <3>1, <4>1, <1>r DEF Recorded
      <4>2. CASE index # 0
        <5>. DEFINE row == [condition |-> Condition(index), pattern |-> Pattern(index), data |-> captured]
        <5>1. rows' = Append(rows, row) /\ index > 0
          BY <3>1, <4>2, <1>n DEF Recorded
        <5>2. \A o \in Offsets : row.data[o].after = row.pattern
          BY <2>3, <3>1, <5>1 DEF FillInv
        <5>. HIDE DEF row
        <5>3. \A i \in 1..Len(rows') : rows'[i] = row \/ (i \in 1..Len(rows) /\ rows'[i] = rows[i])
          BY <5>1 DEF TypeOK
        <5>. QED
          BY <5>2, <5>3 DEF FillInv, RowFollowsItsFill
      <4>. QED
        BY <4>1, <4>2
    <3>. QED
      BY <3>1, <3>2, <3>3, <3>4, <3>5 DEF FillInv, AfterFill
  <2>. QED
    BY <2>1, <2>2, <2>3
<1>10. CASE ReadOther
  <2>1. CASE Abort
    BY <1>10, <2>1, FillAbort DEF ReadOther
  <2>2. CASE ~Abort
    <3>1. line # <<>> /\ line' = Tail(line)
          /\ UNCHANGED <<boardVars, host, portOpen, index, received, captured, rows>>
      BY <1>10, <2>2 DEF ReadOther
    <3>. QED
      BY <3>1, <1>10, <1>r, <1>p, NoArmedKept, FilledBehindKept
      DEF FillInv, PortInv, AfterFill, FillDone, ReadOther
  <2>. QED
    BY <2>1, <2>2
<1>11. CASE WriteFill
  <2>1. /\ host = "arm" /\ host' = "arming" /\ command' = Pattern(index)
        /\ UNCHANGED <<line, portOpen, index, received, captured, rows>>
    BY <1>11 DEF WriteFill
  <2>. QED
    BY <2>1, <1>r, <1>p, NoArmedKept DEF FillInv, PortInv, AfterFill
<1>12. CASE ReadArmed
  <2>0. UNCHANGED <<boardVars, index, received, captured, rows>> /\ host = "arming" /\ line # <<>>
    BY <1>12 DEF ReadArmed
  <2>1. CASE Abort
    BY <1>12, <2>1, FillAbort DEF ReadArmed
  <2>2. CASE Head(line).kind # "armed"
    <3>1. line' = Tail(line) /\ host' = "arming" /\ portOpen' = portOpen
      BY <1>12, <2>2 DEF ReadArmed
    <3>2. ASSUME NEW k \in 1..Len(line), ArmedAt(k)
          PROVE  k - 1 \in 1..Len(line') /\ ArmedAt(k - 1)'
      <4>1. k # 1 /\ Len(line) \in Nat
        BY <2>0, <2>2, <3>1, <3>2, HostReads DEF ArmedAt
      <4>2. k - 1 \in 1..Len(line') /\ line'[k - 1] = line[k]
        BY <2>0, <3>1, <4>1, HostReads
      <4>3. \A j \in 1..Len(line') : line'[j].kind = "armed" => j = k - 1
        BY <2>0, <3>1, <3>2, HostReads DEF ArmedAt
      <4>4. FilledBehind(k - 1)'
        BY <2>0, <3>1, <3>2, <1>p, HostReads DEF ArmedAt, FilledBehind
      <4>. QED
        BY <3>2, <4>2, <4>3, <4>4 DEF ArmedAt
    <3>3. FillDone => FillDone'
      BY <2>0, <1>p DEF FillDone
    <3>. QED
      BY <2>0, <3>1, <3>2, <3>3, <1>r, <1>p, NoArmedKept DEF FillInv, PortInv, AfterFill
  <2>3. CASE ~Abort /\ Head(line).kind = "armed"
    <3>1. line' = Tail(line) /\ host' = "transition" /\ portOpen' = portOpen
      BY <1>12, <2>3 DEF ReadArmed
    <3>2. line[1].kind = "armed" /\ 1 \in 1..Len(line)
      BY <2>0, <2>3, <3>1, HostReads
    <3>3. ~NoArmedLine /\ ArmedAt(1) /\ FillDone
      BY <2>0, <3>2 DEF FillInv, NoArmedLine, ArmedAt
    <3>4. FillDone'
      BY <2>0, <3>3, <1>p DEF FillDone
    <3>5. NoArmedLine'
      BY <2>0, <3>1, <3>3, HostReads DEF ArmedAt, NoArmedLine
    <3>6. FilledBehind(0)'
      BY <2>0, <3>1, <3>3, <1>p, HostReads DEF ArmedAt, FilledBehind
    <3>. QED
      BY <2>0, <3>1, <3>4, <3>5, <3>6, <1>r DEF FillInv, PortInv, AfterFill, FillDone
  <2>. QED
    BY <2>1, <2>2, <2>3
<1>13. CASE PulseEn
  <2>1. PICK kept \in BOOLEAN : Boot(kept)
    BY <1>13 DEF PulseEn
  <2>2. /\ host = "transition" /\ host' = "read" /\ received' = {}
        /\ UNCHANGED <<line, portOpen, index, rows>>
    BY <1>13 DEF PulseEn, BeginReading
  <2>3. FillDone'
    BY <2>1, <2>2, FillBoot DEF FillInv, AfterFill, FillDone
  <2>4. NoArmedLine' /\ FilledBehind(0)' /\ PortInv'
    BY <2>2, NoArmedKept, FilledBehindKept DEF FillInv, AfterFill, PortInv
  <2>. QED
    BY <2>2, <2>3, <2>4, <1>r DEF FillInv, AfterFill, FillDone
<1>14. CASE ClosePort
  <2>1. /\ host = "transition" /\ host' = "poweroff" /\ line' = <<>> /\ portOpen' = FALSE
        /\ UNCHANGED <<boardVars, index, rows>>
    BY <1>14 DEF ClosePort
  <2>2. NoArmedLine' /\ FilledBehind(0)' /\ PortInv'
    BY <2>1, NoArmedKept, FilledBehindKept DEF FillInv, AfterFill, PortInv
  <2>. QED
    BY <2>1, <2>2, <1>r, <1>p DEF FillInv, AfterFill, FillDone
<1>15. CASE PowerOff
  <2>1. /\ host = "poweroff" /\ host' = "poweron" /\ command' = None
        /\ UNCHANGED <<printed, filled, shot, line, portOpen, index, rows>>
    BY <1>15 DEF PowerOff
  <2>2. NoArmedLine' /\ FilledBehind(0)' /\ PortInv'
    BY <2>1, NoArmedKept, FilledBehindKept DEF FillInv, AfterFill, PortInv
  <2>. QED
    BY <2>1, <2>2, <1>r, <1>p DEF FillInv, AfterFill, FillDone
<1>16. CASE PowerOn
  <2>1. PICK kept \in BOOLEAN : Boot(kept)
    BY <1>16 DEF PowerOn
  <2>2. /\ host = "poweron" /\ host' = "opening" /\ UNCHANGED <<line, portOpen, index, rows>>
    BY <1>16 DEF PowerOn
  <2>3. FillDone'
    BY <2>1, <2>2, FillBoot DEF FillInv, AfterFill, FillDone
  <2>4. NoArmedLine' /\ FilledBehind(0)' /\ PortInv'
    BY <2>2, NoArmedKept, FilledBehindKept DEF FillInv, AfterFill, PortInv
  <2>. QED
    BY <2>2, <2>3, <2>4, <1>r DEF FillInv, AfterFill, FillDone
<1>17. CASE OpenPort
  <2>1. /\ host = "opening" /\ host' = "read" /\ portOpen' = TRUE /\ received' = {}
        /\ UNCHANGED <<boardVars, line, index, rows>>
    BY <1>17 DEF OpenPort, BeginReading
  <2>2. NoArmedLine' /\ FilledBehind(0)' /\ PortInv'
    BY <2>1, NoArmedKept, FilledBehindKept DEF FillInv, AfterFill, PortInv
  <2>. QED
    BY <2>1, <2>2, <1>r, <1>p DEF FillInv, AfterFill, FillDone
<1>18. CASE WriteResults
  <2>1. /\ host = "write" /\ host' = "done" /\ portOpen' = FALSE /\ line' = <<>>
        /\ UNCHANGED <<boardVars, index, rows>>
    BY <1>18 DEF WriteResults
  <2>. QED
    BY <2>1, <1>r, NoArmedKept DEF FillInv, PortInv, AfterFill
<1>19. CASE UNCHANGED sramVars
  <2>1. UNCHANGED <<printed, filled, shot, command, line, host, portOpen, index, received, captured, rows>>
    BY <1>19 DEF sramVars
  <2>2. FillDone' = FillDone /\ NoArmedLine' = NoArmedLine /\ FilledBehind(0)' = FilledBehind(0)
        /\ PortInv' = PortInv
    BY <2>1, <1>p DEF FillDone, NoArmedLine, FilledBehind, PortInv
  <2>3. \A k \in 1..Len(line) : ArmedAt(k) => ArmedAt(k)'
    BY <2>1, <1>p DEF ArmedAt, FilledBehind
  <2>. QED
    BY <2>1, <2>2, <2>3, <1>r, <1>p DEF FillInv, AfterFill
<1>. QED
  BY <1>1, <1>2, <1>3, <1>4, <1>5, <1>6, <1>7, <1>8, <1>9, <1>10, <1>11, <1>12, <1>13, <1>14,
     <1>15, <1>16, <1>17, <1>18, <1>19 DEF SramNext, BoardNext, HostStep

------------------------------------------------------------------------------
(* Which boot a row is of. *)

BeginIn(a, b) == \E m \in a..b : line[m].kind = "begin"

\* A BEGIN stands between any two data lines of different boots.
BeginsBetween ==
    \A a, b \in 1..Len(line) :
        /\ a < b
        /\ line[a].kind = "data" /\ line[b].kind = "data"
        /\ line[a].copy # line[b].copy
        => BeginIn(a, b)

\* So does one between the data of an earlier boot and what is printed next.
BeginsBeforeNow ==
    \A a \in 1..Len(line) :
        printed > 0 /\ line[a].kind = "data" /\ line[a].copy # shot => BeginIn(a, Len(line))

\* And one before any line, waiting or still to be printed, that does not belong
\* to what read_capture has collected.
ReadsOneBoot ==
    host = "read" =>
        \A o \in received :
            /\ \A p \in received : captured[o] = captured[p]
            /\ \A b \in 1..Len(line) :
                  line[b].kind = "data" /\ line[b].copy # captured[o] => BeginIn(1, b)
            /\ printed > 0 /\ captured[o] # shot => BeginIn(1, Len(line))

\* The inductive invariant behind RowIsOneBoot.
BootInv == ~beginLost => BeginsBetween /\ BeginsBeforeNow /\ ReadsOneBoot /\ RowIsOneBoot

\* Where the BEGIN lines are after a line was read, or one was added.
LEMMA BeginMoves ==
    ASSUME TypeOK
    PROVE  /\ line # <<>> /\ line' = Tail(line) =>
                 /\ \A a, b \in 1..Len(line') : BeginIn(a + 1, b + 1) => BeginIn(a, b)'
                 /\ Head(line).kind # "begin" =>
                       \A b \in 0..Len(line') : BeginIn(1, b + 1) => BeginIn(1, b)'
           /\ \A l \in Lines : Emit(l) \/ line' = line =>
                 \A a \in 1..Len(line), b \in 0..Len(line), c \in 0..Len(line') :
                     b <= c /\ BeginIn(a, b) => BeginIn(a, c)'
<1>0. Len(line) \in Nat
  BY DEF TypeOK
<1>1. ASSUME line # <<>>, line' = Tail(line), NEW a \in 1..Len(line'), NEW b \in 1..Len(line'),
             BeginIn(a + 1, b + 1)
      PROVE  BeginIn(a, b)'
  <2>1. PICK m \in (a + 1)..(b + 1) : line[m].kind = "begin"
    BY <1>1 DEF BeginIn
  <2>2. m - 1 \in a..b /\ m - 1 \in 1..Len(line') /\ (m - 1) + 1 = m
    BY <1>1, HostReads
  <2>3. line'[m - 1] = line[m]
    BY <1>1, <2>2, HostReads
  <2>. QED
    BY <2>1, <2>2, <2>3 DEF BeginIn
<1>2. ASSUME line # <<>>, line' = Tail(line), Head(line).kind # "begin",
             NEW b \in 0..Len(line'), BeginIn(1, b + 1)
      PROVE  BeginIn(1, b)'
  <2>1. PICK m \in 1..(b + 1) : line[m].kind = "begin"
    BY <1>2 DEF BeginIn
  <2>2. m # 1
    BY <1>2, <2>1, HostReads
  <2>3. m - 1 \in 1..b /\ m - 1 \in 1..Len(line') /\ (m - 1) + 1 = m
    BY <1>2, <2>2, HostReads
  <2>4. line'[m - 1] = line[m]
    BY <1>2, <2>3, HostReads
  <2>. QED
    BY <2>1, <2>3, <2>4 DEF BeginIn
<1>3. ASSUME NEW l \in Lines, Emit(l) \/ line' = line, NEW a \in 1..Len(line), NEW b \in 0..Len(line),
             NEW c \in 0..Len(line'), b <= c, BeginIn(a, b)
      PROVE  BeginIn(a, c)'
  <2>1. PICK m \in a..b : line[m].kind = "begin"
    BY <1>3 DEF BeginIn
  <2>2. m \in 1..Len(line) /\ m \in a..c /\ Len(line') \in Nat
    BY <1>0, <1>3, Emitted
  <2>3. line'[m] = line[m]
    BY <1>3, <2>2, Emitted
  <2>. QED
    BY <2>1, <2>2, <2>3 DEF BeginIn
<1>. QED
  BY <1>1, <1>2, <1>3

\* The board prints, or boots: a data line belongs to the present boot, and the
\* first line of a boot is its BEGIN.
LEMMA BoardKeepsBoots ==
    ASSUME TypeOK, PortInv, BeginsBetween, BeginsBeforeNow, ReadsOneBoot,
           NEW l \in Lines, Emit(l) \/ line' = line,
           l.kind = "data" => l.copy = shot /\ printed > 0,
           UNCHANGED <<host, received, captured>>,
           \/ printed' = 0
           \/ shot' = shot /\ (printed > 0 \/ (Emit(l) /\ l.kind = "begin"))
    PROVE  (BeginsBetween /\ BeginsBeforeNow /\ ReadsOneBoot)'
<1>0. PICK n, n2 : n = Len(line) /\ n2 = Len(line')
  OBVIOUS
<1>1. /\ n \in Nat /\ n2 \in Nat /\ n <= n2
      /\ \A k \in 1..n : k \in 1..n2 /\ line'[k] = line[k]
      /\ \A k \in 1..n2 : k \in 1..n \/ (k = n + 1 /\ line'[k] = l /\ n2 = n + 1)
      /\ Emit(l) /\ portOpen => n2 = n + 1 /\ line'[n2] = l
      /\ ~portOpen => n = 0
  <2>0. ~portOpen => n = 0
    BY <1>0 DEF PortInv
  <2>1. CASE Emit(l)
    BY <1>0, <2>0, <2>1, Emitted
  <2>2. CASE line' = line /\ ~Emit(l)
    BY <1>0, <2>0, <2>2 DEF TypeOK
  <2>. QED
    BY <2>1, <2>2
<1>2. \A a \in 1..n, b \in 0..n, c \in 0..n2 : b <= c /\ BeginIn(a, b) => BeginIn(a, c)'
  BY <1>0, BeginMoves
<1>3. \A a \in 1..n2 : n2 = n + 1 /\ line'[n2].kind = "begin" => BeginIn(a, n2)'
  <2>1. ASSUME NEW a \in 1..n2, n2 = n + 1, line'[n2].kind = "begin"
        PROVE  BeginIn(a, n2)'
    <3>1. n2 \in a..n2
      BY <1>1, <2>1
    <3>. QED
      BY <3>1, <2>1 DEF BeginIn
  <2>. QED
    BY <2>1
<1>4. BeginsBetween'
  <2>1. ASSUME NEW a \in 1..n2, NEW b \in 1..n2, a < b,
               line'[a].kind = "data", line'[b].kind = "data", line'[a].copy # line'[b].copy
        PROVE  BeginIn(a, b)'
    <3>1. a \in 1..n /\ line'[a] = line[a]
      BY <1>1, <2>1
    <3>2. CASE b \in 1..n
      BY <1>0, <1>1, <1>2, <2>1, <3>1, <3>2 DEF BeginsBetween
    <3>3. CASE b = n + 1 /\ line'[b] = l
      <4>1. BeginIn(a, n)
        BY <1>0, <2>1, <3>1, <3>3 DEF BeginsBeforeNow
      <4>2. n \in 0..n /\ b \in 0..n2 /\ n <= b
        BY <1>1, <3>3
      <4>. QED
        BY <1>2, <3>1, <4>1, <4>2
    <3>. QED
      BY <1>1, <3>2, <3>3
  <2>. QED
    BY <1>0, <2>1 DEF BeginsBetween
<1>5. BeginsBeforeNow'
  <2>1. ASSUME NEW a \in 1..n2, printed' > 0, line'[a].kind = "data", line'[a].copy # shot'
        PROVE  BeginIn(a, n2)'
    <3>1. shot' = shot /\ (printed > 0 \/ (Emit(l) /\ l.kind = "begin"))
      BY <2>1
    <3>2. a \in 1..n /\ line'[a] = line[a]
      BY <1>1, <2>1, <3>1
    <3>3. CASE printed > 0
      <4>1. BeginIn(a, n)
        BY <1>0, <2>1, <3>1, <3>2, <3>3 DEF BeginsBeforeNow
      <4>2. n \in 0..n /\ n2 \in 0..n2 /\ n <= n2
        BY <1>1
      <4>. QED
        BY <1>2, <3>2, <4>1, <4>2
    <3>4. CASE Emit(l) /\ l.kind = "begin"
      BY <1>1, <1>3, <3>2, <3>4
    <3>. QED
      BY <3>1, <3>3, <3>4
  <2>. QED
    BY <1>0, <2>1 DEF BeginsBeforeNow
<1>6. ReadsOneBoot'
  <2>1. ASSUME host = "read", NEW o \in received
        PROVE  /\ \A p \in received : captured[o] = captured[p]
               /\ \A b \in 1..n2 :
                     line'[b].kind = "data" /\ line'[b].copy # captured[o] => BeginIn(1, b)'
               /\ printed' > 0 /\ captured[o] # shot' => BeginIn(1, n2)'
    <3>1. /\ \A p \in received : captured[o] = captured[p]
          /\ \A b \in 1..n :
                     line[b].kind = "data" /\ line[b].copy # captured[o] => BeginIn(1, b)
          /\ printed > 0 /\ captured[o] # shot => BeginIn(1, n)
      BY <1>0, <2>1 DEF ReadsOneBoot
    <3>2. BeginIn(1, n) => n >= 1
      BY <1>1 DEF BeginIn
    <3>3. ASSUME NEW b \in 1..n2, line'[b].kind = "data", line'[b].copy # captured[o]
          PROVE  BeginIn(1, b)'
      <4>1. CASE b \in 1..n
        BY <1>1, <1>2, <3>1, <3>3, <4>1
      <4>2. CASE b = n + 1 /\ line'[b] = l
        BY <1>1, <1>2, <3>1, <3>2, <3>3, <4>2
      <4>. QED
        BY <1>1, <4>1, <4>2
    <3>4. ASSUME printed' > 0, captured[o] # shot'
          PROVE  BeginIn(1, n2)'
      <4>1. CASE printed > 0
        <5>1. BeginIn(1, n) /\ n >= 1
          BY <2>1, <3>1, <3>2, <3>4, <4>1
        <5>2. 1 \in 1..n /\ n \in 0..n /\ n2 \in 0..n2 /\ n <= n2
          BY <1>1, <5>1
        <5>. QED
          BY <1>2, <5>1, <5>2
      <4>2. CASE ~(printed > 0)
        <5>1. Emit(l) /\ l.kind = "begin" /\ portOpen
          BY <3>4, <4>2, <2>1 DEF PortInv
        <5>2. n2 = n + 1 /\ line'[n2] = l
          BY <1>1, <5>1
        <5>. QED
          BY <1>1, <1>3, <5>1, <5>2
      <4>. QED
        BY <4>1, <4>2
    <3>. QED
      BY <3>1, <3>3, <3>4
  <2>. QED
    BY <1>0, <2>1 DEF ReadsOneBoot
<1>. QED
  BY <1>4, <1>5, <1>6

\* Reading a line, or throwing all of them away, keeps the BEGIN lines in place.
LEMMA ReadingKeepsBoots ==
    ASSUME TypeOK, BeginsBetween, BeginsBeforeNow, UNCHANGED <<printed, shot>>,
           (line # <<>> /\ line' = Tail(line)) \/ line' = <<>> \/ line' = line
    PROVE  (BeginsBetween /\ BeginsBeforeNow)'
<1>1. CASE line # <<>> /\ line' = Tail(line)
  <2>0. /\ Len(line) \in Nat \ {0} /\ Len(line') = Len(line) - 1
        /\ \A k \in 1..Len(line') : k + 1 \in 1..Len(line) /\ line'[k] = line[k + 1]
    BY <1>1, HostReads
  <2>1. ASSUME NEW a \in 1..Len(line'), NEW b \in 1..Len(line'), a < b,
               line'[a].kind = "data", line'[b].kind = "data", line'[a].copy # line'[b].copy
        PROVE  BeginIn(a, b)'
    <3>1. /\ a + 1 \in 1..Len(line) /\ b + 1 \in 1..Len(line) /\ a + 1 < b + 1
          /\ line'[a] = line[a + 1] /\ line'[b] = line[b + 1]
      BY <2>0, <2>1
    <3>2. BeginIn(a + 1, b + 1)
      BY <2>1, <3>1 DEF BeginsBetween
    <3>. QED
      BY <1>1, <3>2, BeginMoves
  <2>2. ASSUME NEW a \in 1..Len(line'), printed' > 0, line'[a].kind = "data", line'[a].copy # shot'
        PROVE  BeginIn(a, Len(line))'
    <3>1. PICK n : n = Len(line')
      OBVIOUS
    <3>2. /\ a + 1 \in 1..Len(line) /\ n + 1 = Len(line) /\ line'[a] = line[a + 1]
          /\ n \in 1..Len(line')
      BY <2>0, <2>2, <3>1
    <3>3. BeginIn(a + 1, n + 1)
      BY <2>2, <3>2 DEF BeginsBeforeNow
    <3>4. BeginIn(a, n)'
      BY <1>1, <3>2, <3>3, BeginMoves
    <3>. QED
      BY <3>1, <3>4 DEF BeginIn
  <2>. QED
    BY <2>1, <2>2 DEF BeginsBetween, BeginsBeforeNow
<1>2. CASE line' = <<>>
  BY <1>2 DEF BeginsBetween, BeginsBeforeNow
<1>3. CASE line' = line
  BY <1>3 DEF BeginsBetween, BeginsBeforeNow, BeginIn
<1>. QED
  BY <1>1, <1>2, <1>3

\* Nor does read_capture lose its boot while the line it reads is not a BEGIN.
LEMMA CollectingOneBoot ==
    ASSUME TypeOK, ReadsOneBoot, host = "read", line # <<>>, line' = Tail(line),
           Head(line).kind # "begin", UNCHANGED <<printed, shot>>,
           NEW o \in received
    PROVE  /\ \A b \in 1..Len(line') :
                 line'[b].kind = "data" /\ line'[b].copy # captured[o] => BeginIn(1, b)'
           /\ printed' > 0 /\ captured[o] # shot' => BeginIn(1, Len(line))'
<1>1. ASSUME NEW b \in 1..Len(line'), line'[b].kind = "data", line'[b].copy # captured[o]
      PROVE  BeginIn(1, b)'
  <2>1. b + 1 \in 1..Len(line) /\ line'[b] = line[b + 1] /\ b \in 0..Len(line')
    BY <1>1, HostReads
  <2>2. BeginIn(1, b + 1)
    BY <1>1, <2>1 DEF ReadsOneBoot
  <2>. QED
    BY <2>1, <2>2, BeginMoves
<1>2. ASSUME printed' > 0, captured[o] # shot'
      PROVE  BeginIn(1, Len(line))'
  <2>1. PICK n : n = Len(line')
    OBVIOUS
  <2>2. n + 1 = Len(line) /\ n \in 0..Len(line')
    BY <2>1, HostReads
  <2>3. BeginIn(1, n + 1)
    BY <1>2, <2>2 DEF ReadsOneBoot
  <2>4. BeginIn(1, n)'
    BY <2>2, <2>3, BeginMoves
  <2>. QED
    BY <2>1, <2>4 DEF BeginIn
<1>. QED
  BY <1>1, <1>2

\* The first boot has printed nothing.
LEMMA BootInit == SramInit => BootInv
<1>. SUFFICES ASSUME SramInit
              PROVE  BootInv
  OBVIOUS
<1>1. line = <<>> /\ Len(line) = 0 /\ rows = <<>> /\ Len(rows) = 0 /\ host = "setup"
  BY DEF SramInit
<1>. QED
  BY <1>1 DEF BootInv, BeginsBetween, BeginsBeforeNow, ReadsOneBoot, RowIsOneBoot

\* Every step keeps the invariant of the boots.
LEMMA BootStep == TypeOK /\ PortInv /\ BootInv /\ [SramNext]_sramVars => BootInv'
<1>. SUFFICES ASSUME TypeOK, PortInv, BootInv, [SramNext]_sramVars, ~beginLost'
              PROVE  (BeginsBetween /\ BeginsBeforeNow /\ ReadsOneBoot /\ RowIsOneBoot)'
  BY DEF BootInv
<1>. USE DEF boardVars, readVars, resultVars
<1>0. /\ ~beginLost
      /\ BeginsBetween /\ BeginsBeforeNow /\ ReadsOneBoot /\ RowIsOneBoot
  <2>1. beginLost => beginLost'
    BY DEF SramNext, BoardNext, HostStep, PrintLine, FillAndVerify, Brownout, Setup, ReadBegin,
           ReadData, ReadEnd, ReadReady, ReadOther, WriteFill, ReadArmed, Deadline, PulseEn, ClosePort,
           PowerOff, PowerOn, OpenPort, WriteResults, CommandFails, DeviceMissing, sramVars
  <2>. QED
    BY <2>1 DEF BootInv
<1>r. rows' = rows => RowIsOneBoot'
  BY <1>0 DEF RowIsOneBoot
<1>h. host' # "read" => ReadsOneBoot'
  BY DEF ReadsOneBoot
<1>b. BeginReading => ReadsOneBoot'
  BY DEF BeginReading, ReadsOneBoot
<1>s. ASSUME printed' = 0, line' = line
      PROVE  (BeginsBetween /\ BeginsBeforeNow)'
  BY <1>0, <1>s DEF BeginsBetween, BeginsBeforeNow, BeginIn
<1>1. ASSUME NEW lost \in BOOLEAN, PrintLine(lost)
      PROVE  (BeginsBetween /\ BeginsBeforeNow /\ ReadsOneBoot /\ RowIsOneBoot)'
  <2>. DEFINE l == CaptureLine(printed + 1)
  <2>1. /\ printed \in Nat /\ printed + 1 \in 1..ReadyLine
        /\ UNCHANGED <<shot, host, received, captured, rows>>
    BY <1>1, SramAssumption DEF PrintLine, TypeOK, ReadyLine
  <2>2. /\ l \in Lines /\ (l.kind = "data" => l.copy = shot /\ printed > 0)
        /\ (printed = 0 => l.kind = "begin")
    BY <2>1, LineTypes, CaptureLines
  <2>3. IF lost THEN line' = line /\ printed > 0 ELSE Emit(l)
    BY <1>1, <2>1 DEF PrintLine
  <2>. HIDE DEF l
  <2>4. shot' = shot /\ (printed > 0 \/ (Emit(l) /\ l.kind = "begin"))
    BY <2>1, <2>2, <2>3
  <2>5. Emit(l) \/ line' = line
    BY <2>3
  <2>6. (BeginsBetween /\ BeginsBeforeNow /\ ReadsOneBoot)'
    BY <1>0, <2>1, <2>2, <2>4, <2>5, BoardKeepsBoots
  <2>. QED
    BY <2>1, <2>6, <1>r
<1>2. ASSUME NEW ok \in BOOLEAN, FillAndVerify(ok)
      PROVE  (BeginsBetween /\ BeginsBeforeNow /\ ReadsOneBoot /\ RowIsOneBoot)'
  <2>. DEFINE l == Armed(command, ok)
  <2>1. /\ printed > 0 /\ Emit(l) /\ UNCHANGED <<printed, shot, host, received, captured, rows>>
    BY <1>2, SramAssumption DEF FillAndVerify, ReadyLine
  <2>2. l \in Lines /\ l.kind = "armed"
    BY LineTypes DEF Armed, TypeOK
  <2>. HIDE DEF l
  <2>. QED
    BY <1>0, <2>1, <2>2, <1>r, BoardKeepsBoots
<1>3. ASSUME NEW kept \in BOOLEAN, Brownout(kept)
      PROVE  (BeginsBetween /\ BeginsBeforeNow /\ ReadsOneBoot /\ RowIsOneBoot)'
  <2>. DEFINE l == [kind |-> "torn"]
  <2>1. /\ printed' = 0 /\ UNCHANGED <<host, received, captured, rows>>
        /\ Emit(l) \/ line' = line
    BY <1>3 DEF Brownout, Boot
  <2>2. l \in Lines /\ l.kind # "data"
    BY LineTypes
  <2>. HIDE DEF l
  <2>. QED
    BY <1>0, <2>1, <2>2, <1>r, BoardKeepsBoots
<1>4. CASE Setup \/ PulseEn \/ PowerOn
  <2>1. printed' = 0 /\ line' = line /\ rows' = rows /\ (host' # "read" \/ BeginReading)
    BY <1>4 DEF Setup, PulseEn, PowerOn, Boot
  <2>. QED
    BY <2>1, <1>s, <1>h, <1>b, <1>r
<1>5. CASE CommandFails \/ DeviceMissing \/ Deadline \/ WriteFill \/ ReadArmed \/ ClosePort
           \/ PowerOff \/ OpenPort \/ WriteResults
  <2>1. /\ UNCHANGED <<printed, shot, rows>> /\ (host' # "read" \/ BeginReading)
        /\ (line # <<>> /\ line' = Tail(line)) \/ line' = <<>> \/ line' = line
    BY <1>5 DEF CommandFails, DeviceMissing, Deadline, WriteFill, ReadArmed, ClosePort, PowerOff,
                OpenPort, WriteResults, Abort
  <2>. QED
    BY <1>0, <2>1, <1>h, <1>b, <1>r, ReadingKeepsBoots
<1>6. CASE ReadBegin
  <2>1. /\ UNCHANGED <<printed, shot, rows>> /\ received' = {}
        /\ line # <<>> /\ line' = Tail(line)
    BY <1>6 DEF ReadBegin, NextIs
  <2>2. ReadsOneBoot'
    BY <2>1 DEF ReadsOneBoot
  <2>. QED
    BY <1>0, <2>1, <2>2, <1>r, ReadingKeepsBoots
<1>7. CASE ReadData
  <2>1. /\ UNCHANGED <<printed, shot, rows>> /\ host = "read"
        /\ line # <<>> /\ line' = Tail(line) /\ Head(line).kind = "data"
    BY <1>7 DEF ReadData, NextIs
  <2>2. CASE ~began
    <3>1. UNCHANGED <<received, captured>>
      BY <1>7, <2>2 DEF ReadData
    <3>2. ReadsOneBoot'
      BY <1>0, <2>1, <3>1, CollectingOneBoot DEF ReadsOneBoot
    <3>. QED
      BY <1>0, <2>1, <3>2, <1>r, ReadingKeepsBoots
  <2>3. CASE began
    <3>. DEFINE p == Head(line).offset
                c == Head(line).copy
    <3>1. p \in Offsets /\ Head(line) = line[1] /\ Len(line) \in Nat \ {0}
      BY <2>1, HostReads DEF Lines
    <3>2. captured' = [captured EXCEPT ![p] = c] /\ received' = received \union {p}
      BY <1>7, <2>3 DEF ReadData
    <3>3. \A o \in received : captured[o] = c
      <4>1. ASSUME NEW o \in received, captured[o] # c
            PROVE  FALSE
        <5>1. BeginIn(1, 1)
          BY <1>0, <2>1, <3>1, <4>1 DEF ReadsOneBoot
        <5>2. line[1].kind = "begin"
          BY <5>1 DEF BeginIn
        <5>. QED
          BY <2>1, <3>1, <5>2
      <4>. QED
        BY <4>1
    <3>4. \A o \in received' : captured'[o] = c
      BY <3>1, <3>2, <3>3 DEF TypeOK
    <3>5. ASSUME NEW b \in 1..Len(line'), line'[b].kind = "data", line'[b].copy # c
          PROVE  BeginIn(1, b)'
      <4>1. b + 1 \in 1..Len(line) /\ line'[b] = line[b + 1] /\ b \in 0..Len(line') /\ 1 < b + 1
            /\ 1 \in 1..Len(line)
        BY <2>1, HostReads
      <4>2. BeginIn(1, b + 1)
        BY <1>0, <2>1, <3>1, <3>5, <4>1 DEF BeginsBetween
      <4>. QED
        BY <2>1, <4>1, <4>2, BeginMoves
    <3>6. ASSUME printed' > 0, c # shot'
          PROVE  BeginIn(1, Len(line))'
      <4>1. PICK n : n = Len(line')
        OBVIOUS
      <4>2. n + 1 = Len(line) /\ n \in 0..Len(line') /\ 1 \in 1..Len(line)
        BY <2>1, <4>1, HostReads
      <4>3. BeginIn(1, n + 1)
        BY <1>0, <2>1, <3>1, <3>6, <4>2 DEF BeginsBeforeNow
      <4>4. BeginIn(1, n)'
        BY <2>1, <4>2, <4>3, BeginMoves
      <4>. QED
        BY <4>1, <4>4 DEF BeginIn
    <3>. HIDE DEF p, c
    <3>7. ReadsOneBoot'
      BY <3>4, <3>5, <3>6 DEF ReadsOneBoot
    <3>. QED
      BY <1>0, <2>1, <3>7, <1>r, ReadingKeepsBoots
  <2>. QED
    BY <2>2, <2>3
<1>8. CASE ReadEnd
  <2>1. /\ UNCHANGED <<printed, shot, rows, received, captured>> /\ host = "read"
        /\ line # <<>> /\ line' = Tail(line) /\ Head(line).kind # "begin"
    BY <1>8 DEF ReadEnd, NextIs
  <2>2. ReadsOneBoot'
    BY <1>0, <2>1, CollectingOneBoot DEF ReadsOneBoot
  <2>. QED
    BY <1>0, <2>1, <2>2, <1>r, ReadingKeepsBoots
<1>9. CASE ReadReady
  <2>1. CASE ended /\ received # Offsets
    <3>1. UNCHANGED <<printed, shot, rows>> /\ line' = <<>> /\ host' # "read"
      BY <1>9, <2>1 DEF ReadReady, Abort
    <3>. QED
      BY <1>0, <3>1, <1>h, <1>r, ReadingKeepsBoots
  <2>2. CASE ~ended
    <3>1. /\ UNCHANGED <<printed, shot, rows, received, captured>> /\ host = "read"
          /\ line # <<>> /\ line' = Tail(line) /\ Head(line).kind # "begin"
      BY <1>9, <2>2 DEF ReadReady
    <3>2. ReadsOneBoot'
      BY <1>0, <3>1, CollectingOneBoot DEF ReadsOneBoot
    <3>. QED
      BY <1>0, <3>1, <3>2, <1>r, ReadingKeepsBoots
  <2>3. CASE ended /\ received = Offsets
    <3>1. /\ line # <<>> /\ line' = Tail(line) /\ Recorded /\ host = "read"
          /\ UNCHANGED <<printed, shot>>
      BY <1>9, <2>3 DEF ReadReady
    <3>2. host' # "read"
      BY <3>1 DEF Recorded
    <3>3. RowIsOneBoot'
      <4>1. CASE index = 0
        BY <3>1, <4>1, <1>r DEF Recorded
      <4>2. CASE index # 0
        <5>. DEFINE row == [condition |-> Condition(index), pattern |-> Pattern(index), data |-> captured]
        <5>1. rows' = Append(rows, row)
          BY <3>1, <4>2 DEF Recorded
        <5>2. \A o, p \in Offsets : row.data[o] = row.data[p]
          BY <1>0, <2>3, <3>1 DEF ReadsOneBoot
        <5>. HIDE DEF row
        <5>3. \A i \in 1..Len(rows') : rows'[i] = row \/ (i \in 1..Len(rows) /\ rows'[i] = rows[i])
          BY <5>1 DEF TypeOK
        <5>. QED
          BY <1>0, <5>2, <5>3 DEF RowIsOneBoot
      <4>. QED
        BY <4>1, <4>2
    <3>. QED
      BY <1>0, <3>1, <3>2, <3>3, <1>h, ReadingKeepsBoots
  <2>. QED
    BY <2>1, <2>2, <2>3
<1>10. CASE ReadOther
  <2>1. CASE Abort
    <3>1. UNCHANGED <<printed, shot, rows>> /\ line' = <<>> /\ host' # "read"
      BY <1>10, <2>1 DEF ReadOther, Abort
    <3>. QED
      BY <1>0, <3>1, <1>h, <1>r, ReadingKeepsBoots
  <2>2. CASE ~Abort
    <3>1. /\ UNCHANGED <<printed, shot, rows, received, captured>> /\ host = "read"
          /\ line # <<>> /\ line' = Tail(line) /\ Head(line).kind # "begin"
      BY <1>10, <2>2 DEF ReadOther
    <3>2. ReadsOneBoot'
      BY <1>0, <3>1, CollectingOneBoot DEF ReadsOneBoot
    <3>. QED
      BY <1>0, <3>1, <3>2, <1>r, ReadingKeepsBoots
  <2>. QED
    BY <2>1, <2>2
<1>11. CASE UNCHANGED sramVars
  BY <1>0, <1>11 DEF sramVars, BeginsBetween, BeginsBeforeNow, BeginIn, ReadsOneBoot, RowIsOneBoot
<1>. QED
  BY <1>1, <1>2, <1>3, <1>4, <1>5, <1>6, <1>7, <1>8, <1>9, <1>10, <1>11
  DEF SramNext, BoardNext, HostStep

\* A row is the copy that one boot took of the region as the row's fill had left
\* it (arm_pattern, perform_transition and read_capture of run_experiment.py).
THEOREM RowsAreTheFill == SramSpec => []RowsAreTrue
<1>1. SramInit => TypeOK /\ FillInv /\ BootInv
  BY TypeInit, FillInit, BootInit
<1>2. TypeOK /\ FillInv /\ BootInv /\ [SramNext]_sramVars => (TypeOK /\ FillInv /\ BootInv)'
  BY TypeStep, FillStep, BootStep DEF FillInv
<1>3. FillInv /\ BootInv => RowsAreTrue
  BY DEF FillInv, BootInv, RowsAreTrue, RowIsOneBoot
<1>. QED
  BY <1>1, <1>2, <1>3, PTL DEF SramSpec

------------------------------------------------------------------------------
(* What can abort an undisturbed experiment. *)

\* How many lines of this boot's capture have been read or were missed.
Consumed == printed - Len(line)

\* read_capture has seen exactly the lines of this boot that were printed.
ReadsThisBoot ==
    /\ Consumed < ReadyLine
    /\ began <=> Consumed >= 1
    /\ received = {o \in Offsets : o < Consumed}
    /\ ended <=> Consumed >= DataLines + 2

\* The lines that wait are the last ones this boot printed.
WaitingLines ==
    /\ Len(line) <= printed
    /\ \A k \in 1..Len(line) : line[k] = CaptureLine(Consumed + k)

\* The inductive invariant behind OnlyPowerRacesAbort: without a fault the
\* protocol is in lock-step, except that nobody hears what the board prints while
\* the port is closed.
Undisturbed ==
    /\ host \notin {"poweron", "error"} => powered
    /\ host = "read" => /\ WaitingLines
                        /\ ReadsThisBoot \/ (index > 0 /\ TakesPower(Condition(index)))
    /\ host \in {"arm", "arming", "transition"} => printed = ReadyLine
    /\ host \in {"arm", "transition"} => line = <<>>
    /\ host = "arming" => \/ command = Pattern(index) /\ line = <<>>
                          \/ command = None /\ line = <<Armed(Pattern(index), TRUE)>>
    /\ host \in {"poweroff", "poweron", "opening", "error"} =>
          index > 0 /\ TakesPower(Condition(index))

\* It holds as long as no fault has happened.
UndisturbedInv == faults = 0 => Undisturbed

\* The next line that read_capture finds is the one behind those it has consumed.
LEMMA NextOfThisBoot ==
    ASSUME TypeOK, WaitingLines, line # <<>>
    PROVE  /\ Consumed \in Nat /\ Consumed + 1 \in 1..ReadyLine
           /\ Head(line) = CaptureLine(Consumed + 1)
           /\ line' = Tail(line) /\ UNCHANGED <<printed, shot>> =>
                 WaitingLines' /\ Consumed' = Consumed + 1
<1>1. /\ Len(line) \in Nat \ {0} /\ Head(line) = line[1] /\ printed \in 0..ReadyLine
      /\ ReadyLine \in Nat /\ Len(line) <= printed
  BY SramAssumption, LineRead DEF TypeOK, ReadyLine, WaitingLines
<1>2. Consumed \in Nat /\ Consumed + 1 \in 1..ReadyLine
  BY <1>1 DEF Consumed
<1>3. Head(line) = CaptureLine(Consumed + 1)
  BY <1>1 DEF WaitingLines
<1>4. ASSUME line' = Tail(line), UNCHANGED <<printed, shot>>
      PROVE  WaitingLines' /\ Consumed' = Consumed + 1
  <2>1. Len(line') = Len(line) - 1 /\ Consumed' = Consumed + 1 /\ Len(line') <= printed'
    BY <1>1, <1>4, HostReads DEF Consumed
  <2>2. ASSUME NEW k \in 1..Len(line')
        PROVE  line'[k] = CaptureLine(Consumed + 1 + k)
    <3>1. k + 1 \in 1..Len(line) /\ line'[k] = line[k + 1]
      BY <1>4, <2>2, HostReads
    <3>2. line[k + 1] = CaptureLine(Consumed + (k + 1)) /\ Consumed + (k + 1) = Consumed + 1 + k
      BY <1>2, <2>1, <3>1 DEF WaitingLines
    <3>. QED
      BY <3>1, <3>2
  <2>3. \A n : CaptureLine(n)' = CaptureLine(n)
    BY <1>4 DEF CaptureLine
  <2>4. \A k \in 1..Len(line') : line'[k] = CaptureLine(Consumed + k)'
    BY <2>1, <2>2, <2>3
  <2>. QED
    BY <2>1, <2>4 DEF WaitingLines
<1>. QED
  BY <1>2, <1>3, <1>4

\* At first everything is as the code left it.
LEMMA UndisturbedInit == SramInit => UndisturbedInv
BY DEF SramInit, UndisturbedInv, Undisturbed

\* Every step that is no fault keeps the experiment undisturbed.
LEMMA UndisturbedStep ==
    TypeOK /\ FillInv /\ UndisturbedInv /\ [SramNext]_sramVars => UndisturbedInv'
<1>. SUFFICES ASSUME TypeOK, FillInv, UndisturbedInv, [SramNext]_sramVars, faults' = 0
              PROVE  Undisturbed'
  BY DEF UndisturbedInv
<1>. USE DEF boardVars, readVars, resultVars
<1>0. Undisturbed /\ ~Fault
  <2>1. faults' = faults \/ Fault
    BY DEF SramNext, BoardNext, HostStep, PrintLine, FillAndVerify, Brownout, Setup, ReadBegin,
           ReadData, ReadEnd, ReadReady, ReadOther, WriteFill, ReadArmed, Deadline, PulseEn, ClosePort,
           PowerOff, PowerOn, OpenPort, WriteResults, CommandFails, DeviceMissing, sramVars
  <2>2. ~Fault
    BY DEF Fault, TypeOK
  <2>. QED
    BY <2>1, <2>2 DEF UndisturbedInv
<1>c. /\ DataLines \in Nat \ {0} /\ ReadyLine = DataLines + 3 /\ index \in Nat
      /\ printed \in 0..ReadyLine /\ Len(line) \in Nat
      /\ Pattern(index) # None
  BY SramAssumption, ExperimentType DEF TypeOK, ReadyLine
<1>i. index' = index => Pattern(index)' = Pattern(index) /\ Condition(index)' = Condition(index)
  BY DEF Pattern, Condition
<1>b. ASSUME printed' = 0, BeginReading, line' = <<>>
      PROVE  WaitingLines' /\ ReadsThisBoot'
  <2>0. Len(<<>>) = 0
    OBVIOUS
  <2>a. printed' = 0 /\ Len(line') = 0
    BY <1>b, <2>0
  <2>1. Len(line') = 0 /\ Consumed' = 0
    BY <2>a DEF Consumed
  <2>2. received' = {o \in Offsets : o < 0}
    BY <1>b, <1>c DEF BeginReading, Offsets
  <2>. QED
    BY <1>b, <1>c, <2>1, <2>2 DEF BeginReading, WaitingLines, ReadsThisBoot
<1>1. ASSUME NEW lost \in BOOLEAN, PrintLine(lost)
      PROVE  Undisturbed'
  <2>1. /\ ~lost /\ Emit(CaptureLine(printed + 1)) /\ printed < ReadyLine /\ printed' = printed + 1
        /\ UNCHANGED <<powered, shot, command, host, portOpen, index, readVars>>
    BY <1>0, <1>1 DEF PrintLine
  <2>2. ASSUME host = "read"
        PROVE  WaitingLines' /\ Consumed' = Consumed
    <3>1. portOpen /\ WaitingLines /\ CaptureLine(printed + 1) \in Lines
      BY <1>0, <1>c, <2>1, <2>2, LineTypes DEF FillInv, PortInv, Undisturbed
    <3>2. /\ Len(line') = Len(line) + 1 /\ line'[Len(line) + 1] = CaptureLine(printed + 1)
          /\ \A k \in 1..Len(line) : line'[k] = line[k]
      BY <2>1, <3>1, Emitted
    <3>3. Consumed' = Consumed /\ Len(line') <= printed' /\ Consumed \in Int
      BY <1>c, <2>1, <3>1, <3>2 DEF Consumed, WaitingLines
    <3>4. ASSUME NEW k \in 1..Len(line')
          PROVE  line'[k] = CaptureLine(Consumed + k)
      <4>1. CASE k \in 1..Len(line)
        BY <3>1, <3>2, <4>1 DEF WaitingLines
      <4>2. CASE k = Len(line) + 1
        <5>1. Consumed + k = printed + 1
          BY <1>c, <4>2 DEF Consumed
        <5>. QED
          BY <3>2, <4>2, <5>1
      <4>. QED
        BY <1>c, <3>2, <4>1, <4>2
    <3>5. \A n : CaptureLine(n)' = CaptureLine(n)
      BY <2>1 DEF CaptureLine
    <3>6. \A k \in 1..Len(line') : line'[k] = CaptureLine(Consumed + k)'
      BY <3>3, <3>4, <3>5
    <3>. QED
      BY <3>3, <3>6 DEF WaitingLines
  <2>3. host = "read" /\ ReadsThisBoot => ReadsThisBoot'
    BY <2>1, <2>2 DEF ReadsThisBoot
  <2>4. host \notin {"arm", "arming", "transition"}
    BY <1>0, <1>c, <2>1 DEF Undisturbed
  <2>. QED
    BY <1>0, <1>i, <2>1, <2>2, <2>3, <2>4 DEF Undisturbed
<1>2. ASSUME NEW ok \in BOOLEAN, FillAndVerify(ok)
      PROVE  Undisturbed'
  <2>1. /\ ok /\ command # None /\ command' = None /\ Emit(Armed(command, TRUE))
        /\ UNCHANGED <<powered, printed, host, portOpen, index>>
    BY <1>0, <1>2 DEF FillAndVerify
  <2>2. host \in {"arming", "error"}
    BY <2>1 DEF FillInv
  <2>3. ASSUME host = "arming"
        PROVE  line' = <<Armed(Pattern(index), TRUE)>>
    <3>1. command = Pattern(index) /\ line = <<>> /\ portOpen
      BY <1>0, <2>1, <2>3 DEF FillInv, PortInv, Undisturbed
    <3>2. \A x : Append(<<>>, x) = <<x>>
      OBVIOUS
    <3>. QED
      BY <2>1, <3>1, <3>2 DEF Emit
  <2>. QED
    BY <1>0, <1>i, <2>1, <2>2, <2>3 DEF Undisturbed, Armed
<1>3. ASSUME NEW kept \in BOOLEAN, Brownout(kept)
      PROVE  Undisturbed'
  BY <1>0, <1>3 DEF Brownout
<1>4. CASE CommandFails \/ DeviceMissing
  BY <1>0, <1>4 DEF CommandFails, DeviceMissing
<1>5. CASE Setup
  <2>1. line' = <<>> /\ printed' = 0 /\ BeginReading /\ powered' = TRUE
    BY <1>5 DEF Setup, Boot, FillInv, PortInv
  <2>. QED
    BY <1>b, <2>1 DEF Undisturbed, BeginReading
<1>6. ASSUME host = "read", WaitingLines, line # <<>>, line' = Tail(line), UNCHANGED <<boardVars, host, index>>,
             ReadsThisBoot => ReadsThisBoot'
      PROVE  Undisturbed'
  BY <1>0, <1>6, <1>i, NextOfThisBoot DEF Undisturbed
<1>r. ASSUME host = "read"
      PROVE  WaitingLines
  BY <1>0, <1>r DEF Undisturbed
<1>7. CASE ReadBegin
  <2>1. host = "read" /\ line # <<>> /\ line' = Tail(line) /\ Head(line).kind = "begin"
        /\ UNCHANGED <<boardVars, host, index>> /\ began' = TRUE /\ ended' = FALSE /\ received' = {}
    BY <1>7 DEF ReadBegin, NextIs
  <2>2. Consumed + 1 = 1 /\ Consumed' = Consumed + 1 /\ Consumed \in Nat
    BY <2>1, <1>r, NextOfThisBoot, CaptureLines
  <2>3. {o \in Offsets : o < 1} = {}
    BY <1>c DEF Offsets
  <2>4. ReadsThisBoot'
    BY <1>c, <2>1, <2>2, <2>3 DEF ReadsThisBoot
  <2>. QED
    BY <1>r, <1>6, <2>1, <2>4
<1>8. CASE ReadData
  <2>1. host = "read" /\ line # <<>> /\ line' = Tail(line) /\ Head(line).kind = "data"
        /\ UNCHANGED <<boardVars, host, index, began, ended>>
    BY <1>8 DEF ReadData, NextIs
  <2>2. /\ Consumed + 1 \in 2..(DataLines + 1) /\ Consumed' = Consumed + 1 /\ Consumed \in Nat
        /\ Head(line).offset = Consumed + 1 - 1
    BY <2>1, <1>r, NextOfThisBoot, CaptureLines
  <2>3. ASSUME ReadsThisBoot
        PROVE  ReadsThisBoot'
    <3>1. began /\ received' = received \union {Consumed}
      BY <1>8, <1>c, <2>2, <2>3 DEF ReadData, ReadsThisBoot
    <3>2. Consumed \in Offsets
      BY <1>c, <2>2 DEF Offsets
    <3>3. received' = {o \in Offsets : o < Consumed + 1}
      BY <1>c, <2>2, <2>3, <3>1, <3>2 DEF ReadsThisBoot, Offsets
    <3>. QED
      BY <1>c, <2>1, <2>2, <2>3, <3>3 DEF ReadsThisBoot
  <2>. QED
    BY <1>r, <1>6, <2>1, <2>3
<1>9. CASE ReadEnd
  <2>1. host = "read" /\ line # <<>> /\ line' = Tail(line) /\ Head(line).kind = "end"
        /\ UNCHANGED <<boardVars, host, index, began, received>> /\ ended' = (ended \/ began)
    BY <1>9 DEF ReadEnd, NextIs
  <2>2. Consumed + 1 = DataLines + 2 /\ Consumed' = Consumed + 1 /\ Consumed \in Nat
    BY <2>1, <1>r, NextOfThisBoot, CaptureLines
  <2>3. {o \in Offsets : o < Consumed + 1} = {o \in Offsets : o < Consumed}
    BY <1>c, <2>2 DEF Offsets
  <2>4. ReadsThisBoot => ReadsThisBoot'
    BY <1>c, <2>1, <2>2, <2>3 DEF ReadsThisBoot, TypeOK
  <2>. QED
    BY <1>r, <1>6, <2>1, <2>4
<1>10. CASE ReadReady
  <2>1. host = "read" /\ line # <<>> /\ Head(line).kind = "ready" /\ UNCHANGED <<boardVars, readVars>>
    BY <1>10 DEF ReadReady
  <2>2. Consumed + 1 = ReadyLine /\ WaitingLines
    BY <2>1, <1>r, NextOfThisBoot, CaptureLines
  <2>3. ReadsThisBoot => ended /\ received = Offsets
    BY <1>c, <2>2 DEF ReadsThisBoot, Offsets, Consumed
  <2>4. CASE ended /\ received # Offsets
    <3>1. host' = "error" /\ index' = index
      BY <1>10, <2>4 DEF ReadReady, Abort
    <3>. QED
      BY <1>0, <1>i, <2>1, <2>3, <2>4, <3>1 DEF Undisturbed
  <2>5. CASE ~ended
    <3>1. line' = Tail(line) /\ UNCHANGED <<host, index>>
      BY <1>10, <2>5 DEF ReadReady
    <3>. QED
      BY <1>6, <2>1, <2>2, <2>3, <2>5, <3>1
  <2>6. CASE ended /\ received = Offsets
    <3>1. line' = Tail(line) /\ host' \in {"arm", "write"}
      BY <1>10, <2>6 DEF ReadReady, Recorded
    <3>0. Len(line) # 0
      BY <2>1, <3>1, HostReads
    <3>a. /\ printed \in Nat /\ printed <= ReadyLine /\ Len(line) \in Nat /\ Len(line) >= 1
          /\ ReadyLine \in Nat
      BY <1>c, <3>0
    <3>b. (printed - Len(line)) + 1 = ReadyLine
      BY <2>2 DEF Consumed
    <3>c. \A p, n, r \in Nat : p <= r /\ n >= 1 /\ (p - n) + 1 = r => n = 1 /\ p = r
      OBVIOUS
    <3>2. Len(line) = 1 /\ printed = ReadyLine
      BY <3>a, <3>b, <3>c
    <3>3. line' = <<>>
      BY <2>1, <3>1, <3>2, HostReads DEF TypeOK
    <3>. QED
      BY <1>0, <2>1, <3>1, <3>2, <3>3 DEF Undisturbed
  <2>. QED
    BY <2>4, <2>5, <2>6
<1>11. CASE ReadOther
  BY <1>11, <1>r, NextOfThisBoot, CaptureLines DEF ReadOther
<1>12. CASE WriteFill
  BY <1>0, <1>12, <1>i DEF WriteFill, Undisturbed
<1>13. CASE ReadArmed
  <2>1. host = "arming" /\ line # <<>> /\ UNCHANGED <<boardVars, index>>
    BY <1>13 DEF ReadArmed
  <2>2. line = <<Armed(Pattern(index), TRUE)>>
    BY <1>0, <2>1 DEF Undisturbed
  <2>3. Head(line) = Armed(Pattern(index), TRUE) /\ Tail(line) = <<>>
    BY <2>2
  <2>4. Head(line).kind = "armed" /\ Head(line).pattern = Pattern(index) /\ Head(line).ok
    BY <2>3 DEF Armed
  <2>5. host' = "transition" /\ line' = <<>>
    BY <1>13, <2>3, <2>4 DEF ReadArmed
  <2>. QED
    BY <1>0, <2>1, <2>5 DEF Undisturbed
<1>14. CASE Deadline
  <2>1. /\ host \in {"read", "arming"} /\ line = <<>> /\ host' = "error" /\ index' = index
        /\ powered => printed = ReadyLine /\ command = None
    BY <1>14 DEF Deadline, Quiet, Abort
  <2>2. host # "arming"
    BY <1>0, <1>c, <2>1 DEF Undisturbed
  <2>3. ~ReadsThisBoot
    BY <1>0, <1>c, <2>1, <2>2 DEF Undisturbed, ReadsThisBoot, Consumed
  <2>. QED
    BY <1>0, <1>i, <2>1, <2>2, <2>3 DEF Undisturbed
<1>15. CASE PulseEn
  <2>1. line' = <<>> /\ printed' = 0 /\ BeginReading /\ powered' = TRUE
    BY <1>0, <1>15 DEF PulseEn, Boot, Undisturbed
  <2>. QED
    BY <1>b, <2>1 DEF Undisturbed, BeginReading
<1>16. CASE ClosePort
  BY <1>0, <1>16, <1>i DEF ClosePort, Undisturbed, FillInv, AfterFill
<1>17. CASE PowerOff \/ PowerOn
  BY <1>0, <1>17, <1>i DEF PowerOff, PowerOn, Boot, Undisturbed
<1>18. CASE OpenPort
  <2>1. host = "opening" /\ host' = "read" /\ line' = <<>> /\ UNCHANGED <<boardVars, index>>
    BY <1>18 DEF OpenPort, BeginReading, FillInv, PortInv
  <2>2. WaitingLines'
    BY <1>c, <2>1 DEF WaitingLines
  <2>. QED
    BY <1>0, <1>i, <2>1, <2>2 DEF Undisturbed
<1>19. CASE WriteResults
  BY <1>0, <1>19 DEF WriteResults, Undisturbed
<1>20. CASE UNCHANGED sramVars
  <2>1. \A n : CaptureLine(n)' = CaptureLine(n)
    BY <1>20 DEF sramVars, CaptureLine
  <2>2. WaitingLines => WaitingLines'
    BY <1>20, <2>1 DEF sramVars, WaitingLines, Consumed
  <2>3. ReadsThisBoot => ReadsThisBoot'
    BY <1>20 DEF sramVars, ReadsThisBoot, Consumed
  <2>. QED
    BY <1>0, <1>20, <1>i, <2>2, <2>3 DEF sramVars, Undisturbed, Armed
<1>. QED
  BY <1>1, <1>2, <1>3, <1>4, <1>5, <1>7, <1>8, <1>9, <1>10, <1>11, <1>12, <1>13, <1>14,
     <1>15, <1>16, <1>17, <1>18, <1>19, <1>20 DEF SramNext, BoardNext, HostStep

\* Without a fault run_experiment.py can be aborted only in a power condition,
\* where the board prints before the port is open again.
THEOREM OnlyPowerAborts == SramSpec => []OnlyPowerRacesAbort
<1>1. SramInit => TypeOK /\ FillInv /\ UndisturbedInv
  BY TypeInit, FillInit, UndisturbedInit
<1>2. TypeOK /\ FillInv /\ UndisturbedInv /\ [SramNext]_sramVars
      => (TypeOK /\ FillInv /\ UndisturbedInv)'
  BY TypeStep, FillStep, UndisturbedStep
<1>3. UndisturbedInv => OnlyPowerRacesAbort
  BY DEF UndisturbedInv, Undisturbed, OnlyPowerRacesAbort
<1>. QED
  BY <1>1, <1>2, <1>3, PTL DEF SramSpec

------------------------------------------------------------------------------
(* Sums over finite sets, and numbers. *)

\* A sum of terms that are a or 0 is a times the number of those that are a.
LEMMA SumOfTwoValues ==
    ASSUME NEW S, IsFiniteSet(S), NEW a \in Nat \ {0}, NEW F \in [S -> {0, a}],
           NEW g, AddsUp(g, F, S)
    PROVE  g[S] = a * Cardinality({x \in S : F[x] = a})
<1>. DEFINE Those(s) == {x \in s : F[x] = a}
            T == {n \in Nat : \A s \in SUBSET S :
                     Cardinality(s) = n => g[s] = a * Cardinality(Those(s))}
<1>g. \A s \in SUBSET S : g[s] = IF s = {} THEN 0 ELSE F[Taken(s)] + g[s \ {Taken(s)}]
  <2>. DEFINE Step(s) == IF s = {} THEN 0 ELSE F[Taken(s)] + g[s \ {Taken(s)}]
  <2>1. g = [s \in SUBSET S |-> Step(s)]
    BY DEF AddsUp
  <2>. HIDE DEF Step
  <2>2. \A s \in SUBSET S : g[s] = Step(s)
    BY <2>1
  <2>. QED
    BY <2>2 DEF Step
<1>1. T = Nat
  <2>1. 0 \in T
    <3>1. ASSUME NEW s \in SUBSET S, Cardinality(s) = 0
          PROVE  g[s] = a * Cardinality(Those(s))
      <4>1. s = {}
        BY <3>1, FS_Subset, FS_EmptySet
      <4>2. Those(s) = {}
        BY <4>1
      <4>3. g[s] = 0 /\ Cardinality(Those(s)) = 0
        BY <1>g, <4>1, <4>2, FS_EmptySet
      <4>. HIDE DEF Those
      <4>. QED
        BY <4>3
    <3>. HIDE DEF Those
    <3>. QED
      BY <3>1
  <2>2. ASSUME NEW n \in T
        PROVE  n + 1 \in T
    <3>1. n \in Nat
      OBVIOUS
    <3>2. ASSUME NEW s \in SUBSET S, Cardinality(s) = n + 1
          PROVE  g[s] = a * Cardinality(Those(s))
      <4>. DEFINE x == Taken(s)
                  r == s \ {x}
      <4>1. IsFiniteSet(s) /\ s # {}
        <5>1. IsFiniteSet(s)
          BY FS_Subset
        <5>. QED
          BY <3>1, <3>2, <5>1, FS_EmptySet
      <4>2. x \in s
        BY <4>1 DEF Taken
      <4>3. r \in SUBSET S /\ IsFiniteSet(r) /\ Cardinality(r) = n
        <5>1. r \in SUBSET S
          OBVIOUS
        <5>. HIDE DEF x
        <5>2. IsFiniteSet(r) /\ Cardinality(r) = Cardinality(s) - 1
          BY <4>1, <4>2, FS_RemoveElement
        <5>. QED
          BY <3>1, <3>2, <5>1, <5>2
      <4>4. g[s] = F[x] + g[r]
        BY <1>g, <4>1
      <4>5. g[r] = a * Cardinality(Those(r))
        <5>. HIDE DEF Those, r
        <5>. QED
          BY <4>3
      <4>. DEFINE c == Cardinality(Those(r))
      <4>6. IsFiniteSet(Those(r)) /\ c \in Nat
        <5>1. Those(r) \subseteq r
          OBVIOUS
        <5>. HIDE DEF Those, r
        <5>. QED
          BY <4>3, <5>1, FS_Subset, FS_CardinalityType
      <4>7. CASE F[x] = a
        <5>1. Those(s) = Those(r) \cup {x} /\ x \notin Those(r)
          BY <4>2, <4>7
        <5>2. Cardinality(Those(s)) = c + 1
          <6>. HIDE DEF Those, r, x
          <6>. QED
            BY <4>6, <5>1, FS_AddElement
        <5>3. a * (c + 1) = a + a * c
          <6>. HIDE DEF c
          <6>. QED
            BY <4>6
        <5>. HIDE DEF Those, r, x
        <5>. QED
          BY <4>4, <4>5, <4>7, <5>2, <5>3
      <4>8. CASE F[x] # a
        <5>1. Those(s) = Those(r)
          BY <4>2, <4>8
        <5>2. F[x] = 0
          BY <4>2, <4>8
        <5>3. a * c \in Nat
          <6>. HIDE DEF c
          <6>. QED
            BY <4>6
        <5>. HIDE DEF Those, r, x
        <5>. QED
          BY <4>4, <4>5, <5>1, <5>2, <5>3
      <4>. QED
        BY <4>7, <4>8
    <3>. HIDE DEF Those
    <3>. QED
      BY <3>1, <3>2
  <2>3. T \in SUBSET Nat
    OBVIOUS
  <2>. HIDE DEF T
  <2>. QED
    BY <2>1, <2>2, <2>3, SetInduction
<1>2. Cardinality(S) \in T
  BY <1>1, FS_CardinalityType
<1>. HIDE DEF Those
<1>3. g[S] = a * Cardinality(Those(S))
  BY <1>2
<1>. QED
  BY <1>3 DEF Those

\* Division with remainder is unique.
LEMMA Divided ==
    ASSUME NEW n \in Nat \ {0}, NEW q \in Nat, NEW r \in 0..(n - 1)
    PROVE  (q * n + r) \div n = q /\ (q * n + r) % n = r
<1>. DEFINE x == q * n + r
            d == x \div n
            m == x % n
<1>1. x \in Nat
  OBVIOUS
<1>. HIDE DEF x
<1>2. d \in Nat /\ m \in 0..(n - 1) /\ x = n * d + m
  BY <1>1
<1>. HIDE DEF d, m
<1>3. n * d + m = n * q + r
  BY <1>2 DEF x
<1>4. ~(d < q)
  <2>. SUFFICES ASSUME d < q
                PROVE  FALSE
    OBVIOUS
  <2>1. n * q >= n * (d + 1)
    BY <1>2
  <2>2. n * (d + 1) = n * d + n
    BY <1>2
  <2>. QED
    BY <1>2, <1>3, <2>1, <2>2
<1>5. ~(d > q)
  <2>. SUFFICES ASSUME d > q
                PROVE  FALSE
    OBVIOUS
  <2>1. n * d >= n * (q + 1)
    BY <1>2
  <2>2. n * (q + 1) = n * q + n
    BY <1>2
  <2>. QED
    BY <1>2, <1>3, <2>1, <2>2
<1>6. d = q
  BY <1>2, <1>4, <1>5
<1>. QED
  BY <1>2, <1>3, <1>6 DEF d, m, x

------------------------------------------------------------------------------
(* The order of the captures. *)

PerCondition == Repetitions * Len(Patterns)

\* The places of capture i in the lists of conditions and patterns.
ConditionOf(i) == 1 + ((i - 1) \div PerCondition)

PatternOf(i) == 1 + ((i - 1) % Len(Patterns))

\* The number of the capture of condition c and pattern p in repetition r.
Place(c, r, p) == (c - 1) * PerCondition + ((r - 1) * Len(Patterns) + p)

\* The loops number their captures one after the other, ...
LEMMA PlaceIs ==
    ASSUME NEW c \in 1..Len(Conditions), NEW r \in 1..Repetitions, NEW p \in 1..Len(Patterns)
    PROVE  /\ Place(c, r, p) \in 1..Captures
           /\ ConditionOf(Place(c, r, p)) = c
           /\ PatternOf(Place(c, r, p)) = p
<1>. DEFINE C == Len(Conditions)
            P == Len(Patterns)
            R == Repetitions
            B == PerCondition
            i == Place(c, r, p)
            k == (r - 1) * P + (p - 1)
<1>1. C \in Nat /\ P \in Nat \ {0} /\ R \in Nat \ {0} /\ c \in 1..C /\ r \in 1..R /\ p \in 1..P
  BY SramAssumption
<1>2. B = R * P
  BY DEF PerCondition
<1>3. i = (c - 1) * B + ((r - 1) * P + p)
  BY DEF Place
<1>4. Captures = C * R * P
  BY DEF Captures
<1>. HIDE DEF C, P, R, B, i
<1>5. (r - 1) * P \in Nat /\ (r - 1) * P + P = r * P /\ r * P <= R * P
  BY <1>1
<1>6. k \in 0..(B - 1) /\ B \in Nat \ {0}
  <2>1. k = (r - 1) * P + (p - 1)
    OBVIOUS
  <2>. HIDE DEF k
  <2>2. k >= 0 /\ k <= R * P - 1 /\ k \in Int /\ R * P \in Int
    BY <1>1, <1>5, <2>1
  <2>. QED
    BY <1>2, <2>2
<1>7. (c - 1) * B \in Nat /\ (c - 1) * B + B = c * B /\ c * B <= C * B
  BY <1>1, <1>6
<1>8. i - 1 = (c - 1) * B + k /\ (i - 1) \div B = c - 1
  <2>1. i - 1 = (c - 1) * B + k
    BY <1>1, <1>3, <1>5, <1>7
  <2>. HIDE DEF k
  <2>2. c - 1 \in Nat
    BY <1>1
  <2>3. ((c - 1) * B + k) \div B = c - 1
    BY <1>6, <2>2, Divided
  <2>. QED
    BY <2>1, <2>3
<1>9. (i - 1) % P = p - 1
  <2>. DEFINE q == (c - 1) * R + (r - 1)
  <2>1. q \in Nat
    BY <1>1
  <2>2. i - 1 = q * P + (p - 1)
    <3>1. q * P = ((c - 1) * R) * P + (r - 1) * P
      <4>1. (c - 1) * R \in Int /\ r - 1 \in Int /\ P \in Int
        BY <1>1
      <4>. QED
        BY <4>1
    <3>2. ((c - 1) * R) * P = (c - 1) * B
      BY <1>1, <1>2
    <3>3. q * P \in Int
      BY <1>1, <2>1
    <3>. HIDE DEF q
    <3>. QED
      BY <1>1, <1>3, <1>5, <1>7, <3>1, <3>2, <3>3
  <2>. HIDE DEF q
  <2>3. p - 1 \in 0..(P - 1)
    BY <1>1
  <2>. QED
    BY <1>1, <2>1, <2>2, <2>3, Divided
<1>10. i \in 1..Captures
  <2>1. C * R * P = C * B
    BY <1>1, <1>2
  <2>2. i - 1 >= 0 /\ i - 1 <= C * B - 1
    <3>1. (c - 1) * B \in Nat /\ (c - 1) * B + B <= C * B /\ C * B \in Int
      BY <1>1, <1>6, <1>7
    <3>. HIDE DEF k
    <3>. QED
      BY <1>6, <1>8, <3>1
  <2>3. C * B \in Nat /\ i \in Int
    BY <1>1, <1>3, <1>5, <1>6, <1>7
  <2>. QED
    BY <1>4, <2>1, <2>2, <2>3
<1>. QED
  BY <1>1, <1>8, <1>9, <1>10 DEF ConditionOf, PatternOf, B, P, i

\* ... and leave no number out.
LEMMA PlaceOf ==
    ASSUME NEW i \in 1..Captures
    PROVE  /\ ConditionOf(i) \in 1..Len(Conditions)
           /\ PatternOf(i) \in 1..Len(Patterns)
           /\ \E r \in 1..Repetitions : i = Place(ConditionOf(i), r, PatternOf(i))
<1>. DEFINE C == Len(Conditions)
            P == Len(Patterns)
            R == Repetitions
            B == PerCondition
            d == (i - 1) \div B
            m == (i - 1) % B
            q == m \div P
            t == m % P
<1>1. C \in Nat /\ P \in Nat \ {0} /\ R \in Nat \ {0}
  BY SramAssumption
<1>2. B = R * P
  BY DEF PerCondition
<1>3. Captures = C * R * P
  BY DEF Captures
<1>. HIDE DEF C, P, R, B
<1>4. B \in Nat \ {0} /\ C * R * P = C * B
  BY <1>1, <1>2
<1>5. i \in Nat \ {0} /\ i - 1 < C * B
  BY <1>1, <1>3, <1>4
<1>6. d \in Nat /\ m \in 0..(B - 1) /\ i - 1 = B * d + m
  BY <1>4, <1>5
<1>7. q \in Nat /\ t \in 0..(P - 1) /\ m = P * q + t
  <2>1. m \in Nat
    BY <1>4, <1>6
  <2>. HIDE DEF m
  <2>. QED
    BY <1>1, <2>1
<1>. HIDE DEF d, m, q, t
<1>8. d < C
  <2>. SUFFICES ASSUME d >= C
                PROVE  FALSE
    BY <1>1, <1>6
  <2>1. B * d >= B * C
    BY <1>1, <1>4, <1>6
  <2>. QED
    BY <1>1, <1>4, <1>5, <1>6, <2>1
<1>9. q < R
  <2>. SUFFICES ASSUME q >= R
                PROVE  FALSE
    BY <1>1, <1>7
  <2>1. P * q >= P * R
    BY <1>1, <1>7
  <2>2. m < P * R
    BY <1>1, <1>2, <1>6
  <2>. QED
    BY <1>1, <1>7, <2>1, <2>2
<1>10. (i - 1) % P = t
  <2>. DEFINE e == d * R + q
  <2>1. e \in Nat
    BY <1>1, <1>6, <1>7
  <2>2. i - 1 = e * P + t
    <3>1. e * P = (d * R) * P + q * P /\ (d * R) * P = B * d /\ q * P = P * q
      <4>1. (d * R) * P = B * d /\ q * P = P * q
        BY <1>1, <1>2, <1>6, <1>7
      <4>2. e * P = (d * R) * P + q * P
        <5>1. d * R \in Int /\ q \in Int /\ P \in Int
          BY <1>1, <1>6, <1>7
        <5>. QED
          BY <5>1
      <4>. QED
        BY <4>1, <4>2
    <3>2. B * d \in Int /\ P * q \in Int
      BY <1>1, <1>4, <1>6, <1>7
    <3>. HIDE DEF e
    <3>. QED
      BY <1>6, <1>7, <3>1, <3>2
  <2>. HIDE DEF e
  <2>. QED
    BY <1>1, <1>7, <2>1, <2>2, Divided
<1>11. i = Place(d + 1, q + 1, t + 1)
  <2>1. (d + 1 - 1) * PerCondition = B * d /\ (q + 1 - 1) * Len(Patterns) = P * q
    BY <1>1, <1>4, <1>6, <1>7 DEF B, P
  <2>2. B * d \in Int /\ P * q \in Int
    BY <1>1, <1>4, <1>6, <1>7
  <2>. QED
    BY <1>5, <1>6, <1>7, <2>1, <2>2 DEF Place
<1>12. ConditionOf(i) = d + 1 /\ PatternOf(i) = t + 1
  BY <1>6, <1>7, <1>10 DEF ConditionOf, PatternOf, d, B, P
<1>13. d + 1 \in 1..C /\ t + 1 \in 1..P /\ q + 1 \in 1..R
  BY <1>1, <1>6, <1>7, <1>8, <1>9
<1>. QED
  BY <1>11, <1>12, <1>13 DEF C, P, R

------------------------------------------------------------------------------
(* The groups of summary.csv. *)

\* The lists name nothing twice.
NoRepeats ==
    /\ \A i, j \in 1..Len(Conditions) : Conditions[i] = Conditions[j] => i = j
    /\ \A i, j \in 1..Len(Patterns) : Patterns[i] = Patterns[j] => i = j

\* Row i is of capture i, and the results are written when all captures are in.
RowsPlaced ==
    /\ \A i \in 1..Len(rows) : /\ rows[i].condition = Condition(i)
                               /\ rows[i].pattern = Pattern(i)
    /\ host = "write" => index = Captures + 1

\* The groups that summarize forms, and what it says of one.
Groups == {GroupOf(rows[i]) : i \in 1..Len(rows)}

MembersOf(g) == {i \in 1..Len(rows) : GroupOf(rows[i]) = g}

AgreementOf(i) == Cardinality({o \in Offsets : rows[i].data[o].value = rows[i].pattern})

AgreementSum(g) == MapThenSumSet(AgreementOf, MembersOf(g))

StableLines(g) ==
    Cardinality({o \in Offsets :
        \A i, j \in MembersOf(g) : rows[i].data[o].value = rows[j].data[o].value})

GroupLine(g) ==
    [group |-> g, captures |-> Cardinality(MembersOf(g)), agreement |-> AgreementSum(g),
     stable |-> StableLines(g)]

\* summarize is a set of such lines.
LEMMA SummaryLines == Summarize = {GroupLine(g) : g \in Groups}
BY Zenon DEF Summarize, Groups, MembersOf, AgreementOf, AgreementSum, StableLines, GroupLine

\* A group has one capture per repetition.
LEMMA GroupMembers ==
    ASSUME NoRepeats, RowsPlaced, Len(rows) = Captures,
           NEW c \in 1..Len(Conditions), NEW p \in 1..Len(Patterns)
    PROVE  /\ IsFiniteSet(MembersOf(<<Conditions[c], Patterns[p]>>))
           /\ Cardinality(MembersOf(<<Conditions[c], Patterns[p]>>)) = Repetitions
           /\ <<Conditions[c], Patterns[p]>> \in Groups
<1>. DEFINE g == <<Conditions[c], Patterns[p]>>
            M == MembersOf(g)
            f == [r \in 1..Repetitions |-> Place(c, r, p)]
<1>1. Repetitions \in Nat \ {0} /\ Len(Patterns) \in Nat \ {0}
  BY SramAssumption
<1>2. ASSUME NEW i \in 1..Captures
      PROVE  GroupOf(rows[i]) = <<Conditions[ConditionOf(i)], Patterns[PatternOf(i)]>>
  BY DEF RowsPlaced, GroupOf, Condition, Pattern, ConditionOf, PatternOf, PerCondition
<1>3. ASSUME NEW r \in 1..Repetitions
      PROVE  Place(c, r, p) \in M
  BY <1>2, PlaceIs DEF MembersOf
<1>4. ASSUME NEW i \in M
      PROVE  \E r \in 1..Repetitions : Place(c, r, p) = i
  <2>1. i \in 1..Captures /\ GroupOf(rows[i]) = g
    BY DEF MembersOf
  <2>2. /\ ConditionOf(i) \in 1..Len(Conditions) /\ PatternOf(i) \in 1..Len(Patterns)
        /\ \E r \in 1..Repetitions : i = Place(ConditionOf(i), r, PatternOf(i))
    BY <2>1, PlaceOf
  <2>3. Conditions[ConditionOf(i)] = Conditions[c] /\ Patterns[PatternOf(i)] = Patterns[p]
    BY <1>2, <2>1
  <2>4. ConditionOf(i) = c /\ PatternOf(i) = p
    BY <2>2, <2>3 DEF NoRepeats
  <2>. QED
    BY <2>2, <2>4
<1>5. ASSUME NEW r \in 1..Repetitions, NEW s \in 1..Repetitions,
             Place(c, r, p) = Place(c, s, p)
      PROVE  r = s
  <2>. DEFINE P == Len(Patterns)
              b == (c - 1) * PerCondition
  <2>1. P \in Nat \ {0} /\ b \in Int /\ p \in Int
    BY <1>1 DEF PerCondition
  <2>2. b + ((r - 1) * P + p) = b + ((s - 1) * P + p)
    BY <1>5 DEF Place
  <2>. HIDE DEF P, b
  <2>3. (r - 1) * P = (s - 1) * P
    <3>1. (r - 1) * P \in Int /\ (s - 1) * P \in Int
      BY <2>1
    <3>. QED
      BY <2>1, <2>2, <3>1
  <2>4. \A u, v \in Nat : u < v => u * P < v * P
    <3>. SUFFICES ASSUME NEW u \in Nat, NEW v \in Nat, u < v
                  PROVE  u * P < v * P
      OBVIOUS
    <3>1. (u + 1) * P <= v * P /\ (u + 1) * P = u * P + P /\ u * P \in Int /\ v * P \in Int
      BY <2>1
    <3>. QED
      BY <2>1, <3>1
  <2>5. r - 1 \in Nat /\ s - 1 \in Nat
    BY <1>1
  <2>6. ~(r - 1 < s - 1) /\ ~(s - 1 < r - 1)
    <3>1. (r - 1) * P \in Int /\ (s - 1) * P \in Int
      BY <2>1
    <3>. QED
      BY <2>3, <2>4, <2>5, <3>1
  <2>. QED
    BY <2>5, <2>6
<1>6. f \in [1..Repetitions -> M]
  BY <1>3
<1>7. IsFiniteSet(1..Repetitions) /\ Cardinality(1..Repetitions) = Repetitions
  BY <1>1, CountUp
<1>8. /\ \A a, b \in 1..Repetitions : f[a] = f[b] => a = b
      /\ \A i \in M : \E a \in 1..Repetitions : f[a] = i
  <2>1. \A a \in 1..Repetitions : f[a] = Place(c, a, p)
    OBVIOUS
  <2>. HIDE DEF f
  <2>. QED
    BY <1>4, <1>5, <2>1
<1>9. g \in Groups
  <2>1. 1 \in 1..Repetitions
    BY <1>1
  <2>2. Place(c, 1, p) \in M
    BY <1>3, <2>1
  <2>. QED
    BY <2>2 DEF MembersOf, Groups
<1>10. IsFiniteSet(M) /\ Cardinality(M) = Repetitions
  <2>. HIDE DEF f, M
  <2>. QED
    BY <1>6, <1>7, <1>8, OneToOne
<1>. QED
  BY <1>9, <1>10

\* The groups are the pairs of a condition and a pattern.
LEMMA GroupsArePairs ==
    ASSUME NoRepeats, RowsPlaced, Len(rows) = Captures
    PROVE  /\ \A g \in Groups : \E c \in 1..Len(Conditions), p \in 1..Len(Patterns) :
                                    g = <<Conditions[c], Patterns[p]>>
           /\ Cardinality(Summarize) = Len(Conditions) * Len(Patterns)
<1>. DEFINE D == (1..Len(Conditions)) \X (1..Len(Patterns))
            f == [d \in D |-> GroupLine(<<Conditions[d[1]], Patterns[d[2]]>>)]
<1>1. ASSUME NEW g \in Groups
      PROVE  \E c \in 1..Len(Conditions), p \in 1..Len(Patterns) : g = <<Conditions[c], Patterns[p]>>
  <2>1. PICK i \in 1..Captures : g = GroupOf(rows[i])
    BY DEF Groups
  <2>2. g = <<Conditions[ConditionOf(i)], Patterns[PatternOf(i)]>>
    BY <2>1 DEF RowsPlaced, GroupOf, Condition, Pattern, ConditionOf, PatternOf, PerCondition
  <2>. QED
    BY <2>2, PlaceOf
<1>2. Len(Conditions) \in Nat /\ Len(Patterns) \in Nat
  BY SramAssumption
<1>3. IsFiniteSet(D) /\ Cardinality(D) = Len(Conditions) * Len(Patterns)
  <2>1. /\ IsFiniteSet(1..Len(Conditions)) /\ Cardinality(1..Len(Conditions)) = Len(Conditions)
        /\ IsFiniteSet(1..Len(Patterns)) /\ Cardinality(1..Len(Patterns)) = Len(Patterns)
    BY <1>2, CountUp
  <2>. QED
    BY <2>1, FS_Product
<1>4. \A d \in D : f[d] \in Summarize
  <2>. SUFFICES ASSUME NEW d \in D
                PROVE  f[d] \in Summarize
    OBVIOUS
  <2>1. d[1] \in 1..Len(Conditions) /\ d[2] \in 1..Len(Patterns)
    OBVIOUS
  <2>2. <<Conditions[d[1]], Patterns[d[2]]>> \in Groups
    BY <2>1, GroupMembers
  <2>. QED
    BY <2>2, SummaryLines
<1>5. ASSUME NEW d \in D, NEW e \in D, f[d] = f[e]
      PROVE  d = e
  <2>1. f[d].group = <<Conditions[d[1]], Patterns[d[2]]>>
        /\ f[e].group = <<Conditions[e[1]], Patterns[e[2]]>>
    BY DEF GroupLine
  <2>. HIDE DEF f
  <2>2. Conditions[d[1]] = Conditions[e[1]] /\ Patterns[d[2]] = Patterns[e[2]]
    BY <1>5, <2>1
  <2>3. d[1] = e[1] /\ d[2] = e[2]
    BY <2>2 DEF NoRepeats
  <2>. QED
    BY <2>3
<1>6. ASSUME NEW s \in Summarize
      PROVE  \E d \in D : f[d] = s
  <2>1. PICK g \in Groups : s = GroupLine(g)
    BY SummaryLines
  <2>2. PICK c \in 1..Len(Conditions), p \in 1..Len(Patterns) : g = <<Conditions[c], Patterns[p]>>
    BY <1>1
  <2>3. <<c, p>> \in D /\ f[<<c, p>>] = s
    BY <2>1, <2>2
  <2>. HIDE DEF f, D
  <2>. QED
    BY <2>3
<1>7. f \in [D -> Summarize]
  <2>1. f = [d \in D |-> f[d]]
    OBVIOUS
  <2>. HIDE DEF f, D
  <2>. QED
    BY <1>4, <2>1
<1>8. Cardinality(Summarize) = Cardinality(D)
  <2>. HIDE DEF f, D
  <2>. QED
    BY <1>3, <1>5, <1>6, <1>7, OneToOne
<1>. QED
  BY <1>1, <1>3, <1>8

\* A capture of one boot agrees with its pattern on all its lines or on none.
LEMMA AgreementAllOrNone ==
    ASSUME RowIsOneBoot, NEW i \in 1..Len(rows), ~beginLost
    PROVE  AgreementOf(i) = IF rows[i].data[1].value = rows[i].pattern THEN DataLines ELSE 0
<1>. DEFINE A == {o \in Offsets : rows[i].data[o].value = rows[i].pattern}
<1>1. 1 \in Offsets /\ IsFiniteSet(Offsets) /\ Cardinality(Offsets) = DataLines
  BY SramAssumption, CountUp DEF Offsets
<1>2. \A o \in Offsets : rows[i].data[o] = rows[i].data[1]
  BY <1>1 DEF RowIsOneBoot
<1>3. CASE rows[i].data[1].value = rows[i].pattern
  <2>1. A = Offsets
    BY <1>2, <1>3
  <2>. QED
    BY <1>1, <1>3, <2>1 DEF AgreementOf
<1>4. CASE rows[i].data[1].value # rows[i].pattern
  <2>1. A = {}
    BY <1>2, <1>4
  <2>. QED
    BY <1>4, <2>1, FS_EmptySet DEF AgreementOf
<1>. QED
  BY <1>3, <1>4

\* What summarize sums over a group.
LEMMA GroupAgreement ==
    ASSUME RowIsOneBoot, ~beginLost, NEW g, IsFiniteSet(MembersOf(g))
    PROVE  AgreementSum(g) =
               DataLines * Cardinality({i \in MembersOf(g) :
                               rows[i].data[1].value = rows[i].pattern})
<1>. DEFINE M == MembersOf(g)
            F == [i \in M |-> AgreementOf(i)]
<1>1. M \subseteq 1..Len(rows)
  BY DEF MembersOf
<1>2. DataLines \in Nat \ {0}
  BY SramAssumption
<1>3. \A i \in M : F[i] = IF rows[i].data[1].value = rows[i].pattern THEN DataLines ELSE 0
  BY <1>1, AgreementAllOrNone
<1>4. F \in [M -> {0, DataLines}]
  <2>1. \A i \in M : F[i] \in {0, DataLines}
    <3>. HIDE DEF M, F
    <3>. QED
      BY <1>3
  <2>2. F = [i \in M |-> F[i]]
    OBVIOUS
  <2>. HIDE DEF F, M
  <2>. QED
    BY <2>1, <2>2
<1>5. \E k : AddsUp(k, F, M) /\ AgreementSum(g) = k[M]
  <2>1. PICK h0 : AddsUp(h0, F, M)
    <3>. HIDE DEF F, M
    <3>. QED
      BY SumExists DEF M
  <2>2. \A h : AddsUp(h, F, M) <=>
          h = [s \in SUBSET M |-> IF s = {} THEN 0
                                  ELSE AgreementOf(CHOOSE x \in s : TRUE)
                                       + h[s \ {CHOOSE x \in s : TRUE}]]
    <3>1. ASSUME NEW s \in SUBSET M, s # {}
          PROVE  F[Taken(s)] = AgreementOf(Taken(s))
      <4>1. Taken(s) \in s
        BY <3>1 DEF Taken
      <4>. QED
        BY <4>1
    <3>. HIDE DEF F, M
    <3>2. ASSUME NEW h
          PROVE  [s \in SUBSET M |-> IF s = {} THEN 0 ELSE F[Taken(s)] + h[s \ {Taken(s)}]]
                 = [s \in SUBSET M |-> IF s = {} THEN 0
                                       ELSE AgreementOf(Taken(s)) + h[s \ {Taken(s)}]]
      BY <3>1
    <3>3. \A h : AddsUp(h, F, M) <=>
            h = [s \in SUBSET M |-> IF s = {} THEN 0
                                    ELSE AgreementOf(Taken(s)) + h[s \ {Taken(s)}]]
      BY <3>2 DEF AddsUp
    <3>. QED
      BY <3>3 DEF Taken
  <2>. HIDE DEF F
  <2>3. AgreementSum(g) =
          (CHOOSE h : h = [s \in SUBSET M |-> IF s = {} THEN 0
                                  ELSE AgreementOf(CHOOSE x \in s : TRUE)
                                       + h[s \ {CHOOSE x \in s : TRUE}]])[M]
    BY DEF AgreementSum, MapThenSumSet, MapThenFoldSet
  <2>. DEFINE sum == CHOOSE h : h = [s \in SUBSET M |-> IF s = {} THEN 0
                                  ELSE AgreementOf(CHOOSE x \in s : TRUE)
                                       + h[s \ {CHOOSE x \in s : TRUE}]]
  <2>4. AddsUp(sum, F, M)
    BY <2>1, <2>2
  <2>. QED
    BY <2>3, <2>4
<1>6. PICK k : AddsUp(k, F, M) /\ AgreementSum(g) = k[M]
  BY <1>5
<1>7. k[M] = DataLines * Cardinality({i \in M : F[i] = DataLines})
  <2>. HIDE DEF F, M
  <2>. QED
    BY <1>2, <1>4, <1>6, SumOfTwoValues DEF M
<1>8. {i \in M : F[i] = DataLines} = {i \in M : rows[i].data[1].value = rows[i].pattern}
  <2>. HIDE DEF F, M
  <2>. QED
    BY <1>2, <1>3
<1>. QED
  BY <1>6, <1>7, <1>8

\* At first there are no rows.
LEMMA PlacedInit == SramInit => RowsPlaced
BY DEF SramInit, RowsPlaced

\* Only Recorded adds a row, and the last one ends the loops.
LEMMA PlacedStep == TypeOK /\ RowsPlaced /\ [SramNext]_sramVars => RowsPlaced'
<1>. SUFFICES ASSUME TypeOK, RowsPlaced, [SramNext]_sramVars
              PROVE  RowsPlaced'
  OBVIOUS
<1>1. CASE ReadReady /\ rows' # rows
  <2>1. /\ index' = index + 1
        /\ rows' = Append(rows, [condition |-> Condition(index), pattern |-> Pattern(index),
                                 data |-> captured])
    BY <1>1 DEF ReadReady, Recorded
  <2>2. index # 0
    BY <1>1 DEF ReadReady, Recorded
  <2>3. rows \in Seq(Rows) /\ index \in Nat /\ Len(rows) = index - 1
    BY <2>2 DEF TypeOK
  <2>4. /\ Len(rows') = index
        /\ \A i \in 1..index : rows'[i] = IF i = index
                                          THEN [condition |-> Condition(index),
                                                pattern |-> Pattern(index), data |-> captured]
                                          ELSE rows[i]
    BY <2>1, <2>3
  <2>5. host' = "write" => index = Captures
    BY <1>1 DEF ReadReady, Recorded, Abort
  <2>6. \A i \in 1..index : rows'[i].condition = Condition(i) /\ rows'[i].pattern = Pattern(i)
    BY <2>3, <2>4 DEF RowsPlaced
  <2>. QED
    BY <2>1, <2>4, <2>5, <2>6 DEF RowsPlaced
<1>2. CASE ReadReady /\ rows' = rows
  <2>1. host' = "write" => index' = Captures + 1
    <3>1. host = "read"
      BY <1>2 DEF ReadReady
    <3>. QED
      BY <1>2, <3>1 DEF ReadReady, Recorded, Abort
  <2>. QED
    BY <1>2, <2>1 DEF RowsPlaced
<1>3. CASE rows' = rows /\ (host' = "write" => host = "write" /\ index' = index)
  BY <1>3 DEF RowsPlaced
<1>4. CASE BoardNext
  <2>1. rows' = rows /\ host' = host /\ index' = index
    BY <1>4 DEF BoardNext, PrintLine, FillAndVerify, Brownout, resultVars
  <2>. QED
    BY <1>3, <2>1
<1>5. CASE HostStep /\ ~ReadReady
  <2>1. rows' = rows /\ (host' = "write" => host = "write" /\ index' = index)
    BY <1>5 DEF HostStep, Setup, BeginReading, ReadBegin, ReadData, ReadEnd, ReadOther, Abort,
       WriteFill, ReadArmed, Deadline, PulseEn, ClosePort, PowerOff, PowerOn, OpenPort,
       WriteResults, resultVars
  <2>. QED
    BY <1>3, <2>1
<1>6. CASE CommandFails \/ DeviceMissing \/ UNCHANGED sramVars
  <2>1. rows' = rows /\ (host' = "write" => host = "write" /\ index' = index)
    BY <1>6 DEF CommandFails, DeviceMissing, Abort, sramVars, resultVars
  <2>. QED
    BY <1>3, <2>1
<1>. QED
  BY <1>1, <1>2, <1>4, <1>5, <1>6 DEF SramNext

\* What summarize writes is so of the rows.
LEMMA SummaryIsTrue ==
    ASSUME NoRepeats, RowsPlaced, Len(rows) = Captures, ~beginLost => RowIsOneBoot
    PROVE  /\ Cardinality(Summarize) = Len(Conditions) * Len(Patterns)
           /\ \A s \in Summarize : s.captures = Repetitions
           /\ ~beginLost => \A s \in Summarize :
                  s.agreement = DataLines * Cardinality({i \in 1..Len(rows) :
                      /\ <<rows[i].condition, rows[i].pattern>> = s.group
                      /\ rows[i].data[1].value = s.group[2]})
<1>1. ASSUME NEW s \in Summarize
      PROVE  /\ s.captures = Repetitions
             /\ ~beginLost =>
                  s.agreement = DataLines * Cardinality({i \in 1..Len(rows) :
                      /\ <<rows[i].condition, rows[i].pattern>> = s.group
                      /\ rows[i].data[1].value = s.group[2]})
  <2>1. PICK g \in Groups : s = GroupLine(g)
    BY SummaryLines
  <2>2. PICK c \in 1..Len(Conditions), p \in 1..Len(Patterns) : g = <<Conditions[c], Patterns[p]>>
    BY GroupsArePairs
  <2>3. IsFiniteSet(MembersOf(g)) /\ Cardinality(MembersOf(g)) = Repetitions
    BY <2>2, GroupMembers
  <2>4. s.group = g /\ s.captures = Repetitions /\ s.agreement = AgreementSum(g)
    BY <2>1, <2>3 DEF GroupLine
  <2>5. {i \in MembersOf(g) : rows[i].data[1].value = rows[i].pattern}
        = {i \in 1..Len(rows) : /\ <<rows[i].condition, rows[i].pattern>> = g
                                /\ rows[i].data[1].value = g[2]}
    BY <2>2 DEF MembersOf, GroupOf
  <2>6. ASSUME ~beginLost
        PROVE  AgreementSum(g) =
                 DataLines * Cardinality({i \in 1..Len(rows) :
                      /\ <<rows[i].condition, rows[i].pattern>> = g
                      /\ rows[i].data[1].value = g[2]})
    BY <2>3, <2>5, <2>6, GroupAgreement
  <2>. QED
    BY <2>4, <2>6
<1>. QED
  BY <1>1, GroupsArePairs

\* When the experiment is done, what it summarized is so.
LEMMA SummaryStep ==
    ASSUME NoRepeats, TypeOK, RowsPlaced, ~beginLost => RowIsOneBoot, SummaryAddsUp,
           [SramNext]_sramVars
    PROVE  SummaryAddsUp'
<1>1. CASE WriteResults
  <2>1. summary' = Summarize /\ rows' = rows /\ beginLost' = beginLost /\ host = "write"
    BY <1>1 DEF WriteResults
  <2>2. Len(rows) = Captures
    <3>1. index = Captures + 1 /\ Len(rows) = IF index = 0 THEN 0 ELSE index - 1
      BY <2>1 DEF RowsPlaced, TypeOK
    <3>2. Captures \in Nat
      BY SramAssumption DEF Captures
    <3>. QED
      BY <3>1, <3>2
  <2>. QED
    BY <2>1, <2>2, SummaryIsTrue DEF SummaryAddsUp
<1>2. CASE host' # "done"
  BY <1>2 DEF SummaryAddsUp
<1>3. CASE host = "done" /\ rows' = rows /\ summary' = summary /\ (beginLost => beginLost')
  BY <1>3 DEF SummaryAddsUp
<1>4. CASE BoardNext
  <2>1. rows' = rows /\ host' = host /\ summary' = summary
    BY <1>4 DEF BoardNext, PrintLine, FillAndVerify, Brownout, resultVars
  <2>2. beginLost => beginLost'
    <3>1. CASE \E lost \in BOOLEAN : PrintLine(lost)
      BY <3>1, Zenon DEF PrintLine
    <3>2. CASE (\E ok \in BOOLEAN : FillAndVerify(ok)) \/ (\E kept \in BOOLEAN : Brownout(kept))
      BY <3>2, Zenon DEF FillAndVerify, Brownout
    <3>. QED
      BY <1>4, <3>1, <3>2 DEF BoardNext
  <2>. QED
    BY <1>2, <1>3, <2>1, <2>2
<1>5. CASE HostStep /\ ~WriteResults
  <2>1. host' # "done"
    BY <1>5 DEF HostStep, Setup, BeginReading, ReadBegin, ReadData, ReadEnd, ReadReady, Recorded,
       ReadOther, Abort, WriteFill, ReadArmed, Deadline, PulseEn, ClosePort, PowerOff, PowerOn,
       OpenPort
  <2>. QED
    BY <1>2, <2>1
<1>6. CASE CommandFails \/ DeviceMissing
  BY <1>2, <1>6 DEF CommandFails, DeviceMissing, Abort
<1>7. CASE UNCHANGED sramVars
  BY <1>2, <1>3, <1>7 DEF sramVars, resultVars
<1>. QED
  BY <1>1, <1>4, <1>5, <1>6, <1>7 DEF SramNext

\* summary.csv counts every capture of run_experiment.py once, in the group of
\* its condition and pattern, and agrees with the rows, if no condition is
\* listed twice.
THEOREM SummaryIsOfTheRows == NoRepeats /\ SramSpec => []SummaryAddsUp
<1>. DEFINE Inv == TypeOK /\ FillInv /\ BootInv /\ RowsPlaced
<1>1. SramInit => Inv /\ SummaryAddsUp
  BY TypeInit, FillInit, BootInit, PlacedInit DEF SramInit, SummaryAddsUp
<1>2. Inv /\ [SramNext]_sramVars => Inv'
  BY TypeStep, FillStep, BootStep, PlacedStep DEF FillInv
<1>3. NoRepeats /\ Inv /\ SummaryAddsUp /\ [SramNext]_sramVars => SummaryAddsUp'
  <2>1. BootInv => (~beginLost => RowIsOneBoot)
    BY DEF BootInv
  <2>. QED
    BY <2>1, SummaryStep
<1>. HIDE DEF Inv
<1>4. (NoRepeats => NoRepeats')
  BY DEF NoRepeats
<1>. QED
  BY <1>1, <1>2, <1>3, <1>4, PTL DEF SramSpec
==============================================================================
