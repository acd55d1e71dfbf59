---------------------------- MODULE SramExperiment ----------------------------
(***************************************************************************)
(* The SRAM start-up state experiment: the board (src/main.c), which       *)
(* copies a region of SRAM when it boots, prints the copy and then fills   *)
(* the region on command, and the host (scripts/run_experiment.py), which  *)
(* fills the region with a pattern, resets the board or takes its power    *)
(* away, and records what the next boot found there.                       *)
(*                                                                         *)
(* The content of the region is one value: a pattern, or Other when it was *)
(* not retained.  A copy also says, as history, which boot took it and     *)
(* which pattern was last written before it.                               *)
(***************************************************************************)
EXTENDS Naturals, Sequences, FiniteSets, FiniteSetsExt

CONSTANTS
    Patterns,     \* PATTERNS, in order
    Conditions,   \* --conditions, in order: "rts", or a time without power
    Repetitions,  \* --repetitions
    DataLines,    \* how many lines a capture is printed on
    MaxFaults     \* bound: resets, lost lines and failing commands

ASSUME SramAssumption ==
    /\ Len(Patterns) \in Nat \ {0}
    /\ \A i \in 1..Len(Patterns) : Patterns[i] \notin {"none", "other"}
    /\ Len(Conditions) \in Nat \ {0}
    /\ Repetitions \in Nat \ {0}
    /\ DataLines \in Nat \ {0}
    /\ MaxFaults \in Nat

VARIABLES
    boot,      \* how many times the board has booted
    powered,   \* the board has power
    printed,   \* lines of its capture this boot has printed
    region,    \* what sram_startup_region holds
    filled,    \* history: the pattern last written to it
    shot,      \* captured_region, with its history
    command,   \* the pattern of a FILL command in the board's UART, or None
    line,      \* lines the host has not read
    host,      \* where run_experiment.py is
    portOpen,  \* the host has the serial port open
    index,     \* capture_index, 0 during the discarded first capture
    began, ended, received, captured,  \* local to read_capture
    rows,      \* the raw files and their rows
    beginLost, \* history: a BEGIN line got lost
    summary,   \* the groups of summary.csv
    faults     \* faults so far

boardVars == <<boot, powered, printed, region, filled, shot, command>>

readVars == <<began, ended, received, captured>>

resultVars == <<rows, summary>>

sramVars == <<boardVars, line, host, portOpen, index, readVars, resultVars, beginLost, faults>>

None == "none"

Other == "other"

\* What bytearray(REGION_BYTES) holds before anything is received.
Zeros == [boot |-> 0, after |-> None, value |-> None]

Fault == faults < MaxFaults /\ faults' = faults + 1

Offsets == 1..DataLines

\* The lines of a capture: BEGIN, one per offset, END and READY.
ReadyLine == DataLines + 3

\* The i-th line that print_capture and main print.
CaptureLine(i) ==
    CASE i = 1 -> [kind |-> "begin"]
      [] i = DataLines + 2 -> [kind |-> "end"]
      [] i = ReadyLine -> [kind |-> "ready"]
      [] OTHER -> [kind |-> "data", offset |-> i - 1, copy |-> shot]

Armed(pattern, ok) == [kind |-> "armed", pattern |-> pattern, ok |-> ok]

\* A line reaches the host only if it has the port open.
Emit(l) == line' = IF portOpen THEN Append(line, l) ELSE line

SramInit ==
    /\ boot = 1
    /\ powered = TRUE
    /\ printed = 0
    /\ region = Other
    /\ filled = None
    /\ shot = [boot |-> 1, after |-> None, value |-> Other]
    /\ command = None
    /\ line = <<>>
    /\ host = "setup"
    /\ portOpen = FALSE
    /\ index = 0
    /\ began = FALSE
    /\ ended = FALSE
    /\ received = {}
    /\ captured = [o \in Offsets |-> Zeros]
    /\ rows = <<>>
    /\ summary = {}
    /\ beginLost = FALSE
    /\ faults = 0

------------------------------------------------------------------------------
\* The board.

\* capture_startup_region at EARLY; the command buffer is empty.  `kept` is
\* what the experiment is about: whether the region survived.
Boot(kept) ==
    LET value == IF kept THEN region ELSE Other
    IN  /\ boot' = boot + 1
        /\ powered' = TRUE
        /\ printed' = 0
        /\ region' = value
        /\ shot' = [boot |-> boot + 1, after |-> filled, value |-> value]
        /\ command' = None
        /\ UNCHANGED filled

\* print_capture and the READY line; the line may get lost on the cable.
PrintLine(lost) ==
    /\ powered
    /\ printed < ReadyLine
    /\ printed' = printed + 1
    /\ IF lost
       THEN Fault /\ UNCHANGED line
       ELSE Emit(CaptureLine(printed + 1)) /\ UNCHANGED faults
    /\ beginLost' = (beginLost \/ (lost /\ printed = 0))
    /\ UNCHANGED <<boot, powered, region, filled, shot, command, host, portOpen, index, readVars,
                   resultVars>>

\* fill_and_verify, when main has read a whole FILL command.  Verification
\* fails only if the SRAM is defective.
FillAndVerify(ok) ==
    /\ printed = ReadyLine
    /\ command # None
    /\ region' = IF ok THEN command ELSE Other
    /\ filled' = command
    /\ command' = None
    /\ Emit(Armed(command, ok))
    /\ IF ok THEN UNCHANGED faults ELSE Fault
    /\ UNCHANGED <<boot, powered, printed, shot, host, portOpen, index, readVars, resultVars, beginLost>>

\* A reset nobody asked for.  A data line it cuts short is joined with the
\* boot loader's next output.
Brownout(kept) ==
    /\ Fault
    /\ powered
    /\ Boot(kept)
    /\ \/ UNCHANGED line
       \/ printed \in 1..DataLines /\ Emit([kind |-> "torn"])
    /\ UNCHANGED <<host, portOpen, index, readVars, resultVars, beginLost>>

\* Nothing will come from the board unless the host does something.
Quiet == line = <<>> /\ (powered => printed = ReadyLine /\ command = None)

BoardNext ==
    \/ \E lost \in BOOLEAN : PrintLine(lost)
    \/ \E ok \in BOOLEAN : FillAndVerify(ok)
    \/ \E kept \in BOOLEAN : Brownout(kept)

------------------------------------------------------------------------------
\* The host.

\* The nested loops of main, in the order their bodies run.
Captures == Len(Conditions) * Repetitions * Len(Patterns)

Condition(i) == Conditions[1 + ((i - 1) \div (Repetitions * Len(Patterns)))]

\* power_duration: any condition but "rts" takes the board's power away, for
\* the time its name gives ("power-10"); main refuses other names.
TakesPower(condition) == condition # "rts"

Pattern(i) == Patterns[1 + ((i - 1) % Len(Patterns))]

Abort == host' = "error" /\ portOpen' = FALSE /\ line' = <<>>

\* A local of read_capture is set anew by every call.
BeginReading ==
    /\ host' = "read"
    /\ began' = FALSE
    /\ ended' = FALSE
    /\ received' = {}
    /\ captured' = [o \in Offsets |-> Zeros]

\* main up to the first capture: build, flash (which resets the board), open
\* the port, pulse EN.
Setup ==
    /\ host = "setup"
    /\ portOpen' = TRUE
    /\ \E kept \in BOOLEAN : Boot(kept)
    /\ BeginReading
    /\ UNCHANGED <<line, index, resultVars, faults, beginLost>>

\* west, or a power command, fails: CalledProcessError ends the script.
CommandFails ==
    /\ Fault
    /\ host \in {"setup", "poweroff", "poweron"}
    /\ Abort
    /\ UNCHANGED <<boardVars, index, readVars, resultVars, beginLost>>

NextIs(kind) == line # <<>> /\ Head(line).kind = kind /\ line' = Tail(line)

\* [SRAM_CAPTURE_BEGIN]: whatever was received before is forgotten.
ReadBegin ==
    /\ host = "read"
    /\ NextIs("begin")
    /\ received' = {}
    /\ began' = TRUE
    /\ ended' = FALSE
    /\ UNCHANGED <<boardVars, host, portOpen, index, captured, resultVars, faults, beginLost>>

\* [SRAM_DATA], ignored before a BEGIN.
ReadData ==
    /\ host = "read"
    /\ NextIs("data")
    /\ IF began
       THEN LET o == Head(line).offset
            IN  /\ captured' = [captured EXCEPT ![o] = Head(line).copy]
                /\ received' = received \union {o}
       ELSE UNCHANGED <<captured, received>>
    /\ UNCHANGED <<boardVars, host, portOpen, index, began, ended, resultVars, faults, beginLost>>

\* [SRAM_CAPTURE_END], ignored before a BEGIN.
ReadEnd ==
    /\ host = "read"
    /\ NextIs("end")
    /\ ended' = (ended \/ began)
    /\ UNCHANGED <<boardVars, host, portOpen, index, began, received, captured, resultVars,
                   faults, beginLost>>

\* The capture is returned: the first one is dropped, any other is a raw file
\* and a row; the loops go on, or the results are written.
Recorded ==
    /\ rows' = IF index = 0 THEN rows
               ELSE Append(rows, [condition |-> Condition(index), pattern |-> Pattern(index),
                                  data |-> captured])
    /\ index' = index + 1
    /\ host' = IF index = Captures THEN "write" ELSE "arm"

\* [SRAM_READY] after an END returns the capture if it is complete and raises
\* RuntimeError if not; before an END it is ignored.
ReadReady ==
    /\ host = "read"
    /\ line # <<>> /\ Head(line).kind = "ready"
    /\ IF ended /\ received # Offsets
       THEN Abort /\ UNCHANGED <<rows, index>>
       ELSE /\ line' = Tail(line)
            /\ IF ended THEN Recorded ELSE UNCHANGED <<rows, index, host>>
            /\ UNCHANGED portOpen
    /\ UNCHANGED <<boardVars, readVars, summary, faults, beginLost>>

\* A data line that a reset cut short does not parse (ValueError), if it is
\* looked at; an ARMED line means nothing to read_capture.
ReadOther ==
    /\ host = "read"
    /\ line # <<>> /\ Head(line).kind \in {"torn", "armed"}
    /\ IF began /\ Head(line).kind = "torn"
       THEN Abort
       ELSE line' = Tail(line) /\ UNCHANGED <<host, portOpen>>
    /\ UNCHANGED <<boardVars, index, readVars, resultVars, faults, beginLost>>

\* Mutant: the command is sent, its effect is not waited for.
WriteFillOnly ==
    /\ host = "arm"
    /\ command' = Pattern(index)
    /\ host' = "transition"
    /\ UNCHANGED <<boot, powered, printed, region, filled, shot, line, portOpen, index, readVars,
                   resultVars, faults, beginLost>>

\* arm_pattern writes the command.
WriteFill ==
    /\ host = "arm"
    /\ command' = Pattern(index)
    /\ host' = "arming"
    /\ UNCHANGED <<boot, powered, printed, region, filled, shot, line, portOpen, index, readVars,
                   resultVars, faults, beginLost>>

\* arm_pattern reads up to the ARMED line, which must be about this pattern and
\* report success; every other line is skipped.
ReadArmed ==
    /\ host = "arming"
    /\ line # <<>>
    /\ IF Head(line).kind = "armed" /\ ~(Head(line).pattern = Pattern(index) /\ Head(line).ok)
       THEN Abort
       ELSE /\ line' = Tail(line)
            /\ host' = IF Head(line).kind = "armed" THEN "transition" ELSE "arming"
            /\ UNCHANGED portOpen
    /\ UNCHANGED <<boardVars, index, readVars, resultVars, faults, beginLost>>

\* Mutant: read_capture and arm_pattern have no deadline.
DeadlineNever ==
    /\ host \in {"read", "arming"}
    /\ FALSE
    /\ UNCHANGED sramVars

\* The deadline of read_capture or arm_pattern passes; both are longer than
\* the board is ever silent on its own.
Deadline ==
    /\ host \in {"read", "arming"}
    /\ Quiet
    /\ Abort
    /\ UNCHANGED <<boardVars, index, readVars, resultVars, faults, beginLost>>

\* Mutant: the port is closed for the pulse and opened again after it.
PulseEnReopens ==
    /\ host = "transition"
    /\ ~TakesPower(Condition(index))
    /\ \E kept \in BOOLEAN : Boot(kept)
    /\ host' = "opening"
    /\ portOpen' = FALSE
    /\ line' = <<>>
    /\ UNCHANGED <<index, readVars, resultVars, faults, beginLost>>

\* perform_transition, rts: EN is pulsed with the port open and nothing that
\* waits in it thrown away.
PulseEn ==
    /\ host = "transition"
    /\ ~TakesPower(Condition(index))
    /\ \E kept \in BOOLEAN : Boot(kept)
    /\ BeginReading
    /\ UNCHANGED <<line, portOpen, index, resultVars, faults, beginLost>>

\* perform_transition, power: the port is closed, ...
ClosePort ==
    /\ host = "transition"
    /\ TakesPower(Condition(index))
    /\ host' = "poweroff"
    /\ portOpen' = FALSE
    /\ line' = <<>>
    /\ UNCHANGED <<boardVars, index, readVars, resultVars, faults, beginLost>>

\* ... the power is cut, ...
PowerOff ==
    /\ host = "poweroff"
    /\ host' = "poweron"
    /\ powered' = FALSE
    /\ command' = None
    /\ UNCHANGED <<boot, printed, region, filled, shot, line, portOpen, index, readVars,
                   resultVars, faults, beginLost>>

\* ... and comes back, so that the board boots, ...
PowerOn ==
    /\ host = "poweron"
    /\ host' = "opening"
    /\ \E kept \in BOOLEAN : Boot(kept)
    /\ UNCHANGED <<line, portOpen, index, readVars, resultVars, faults, beginLost>>

\* ... and only when wait_for_device has seen the device the port is opened.
OpenPort ==
    /\ host = "opening"
    /\ portOpen' = TRUE
    /\ BeginReading
    /\ UNCHANGED <<boardVars, line, index, resultVars, faults, beginLost>>

\* wait_for_device gives up.
DeviceMissing ==
    /\ Fault
    /\ host = "opening"
    /\ Abort
    /\ UNCHANGED <<boardVars, index, readVars, resultVars, beginLost>>

\* Mutant: captures are grouped by the kind of transition, whatever the time
\* without power.
GroupOfKind(row) == <<IF TakesPower(row.condition) THEN "power" ELSE "rts", row.pattern>>

\* The key of a row in summarize: the condition with its time without power.
GroupOf(row) == <<row.condition, row.pattern>>

\* summarize: one group for each condition and pattern, with the number of its
\* captures, the lines that agree with the pattern, and the lines on which all
\* captures of the group agree (stable_bit_fraction).
Summarize ==
    LET Members(g) == {i \in 1..Len(rows) : GroupOf(rows[i]) = g}
        Value(i, o) == rows[i].data[o].value
        Agreement(i) == Cardinality({o \in Offsets : Value(i, o) = rows[i].pattern})
        Stable(g) == Cardinality({o \in Offsets :
                         \A i, j \in Members(g) : Value(i, o) = Value(j, o)})
    IN  {[group |-> g,
          captures |-> Cardinality(Members(g)),
          agreement |-> MapThenSumSet(Agreement, Members(g)),
          stable |-> Stable(g)] :
             g \in {GroupOf(rows[i]) : i \in 1..Len(rows)}}

WriteResults ==
    /\ host = "write"
    /\ summary' = Summarize
    /\ host' = "done"
    /\ portOpen' = FALSE
    /\ line' = <<>>
    /\ UNCHANGED <<boardVars, index, readVars, rows, faults, beginLost>>

HostStep ==
    \/ Setup
    \/ ReadBegin \/ ReadData \/ ReadEnd \/ ReadReady \/ ReadOther
    \/ WriteFill \/ ReadArmed
    \/ Deadline
    \/ PulseEn \/ ClosePort \/ PowerOff \/ PowerOn \/ OpenPort
    \/ WriteResults

SramNext == BoardNext \/ HostStep \/ CommandFails \/ DeviceMissing

\* The board and the script keep running.
SramSpec ==
    /\ SramInit
    /\ [][SramNext]_sramVars
    /\ WF_sramVars(PrintLine(FALSE) \/ FillAndVerify(TRUE))
    /\ WF_sramVars(HostStep)

------------------------------------------------------------------------------
Values == {Patterns[i] : i \in 1..Len(Patterns)} \union {None, Other}

Copies == [boot : Nat, after : Values, value : Values]

Lines == [kind : {"begin", "end", "ready", "torn"}]
         \union [kind : {"data"}, offset : Offsets, copy : Copies]
         \union [kind : {"armed"}, pattern : Values, ok : BOOLEAN]

Rows == [condition : {Condition(i) : i \in 1..Captures}, pattern : Values,
         data : [Offsets -> Copies]]

Hosts == {"setup", "read", "arm", "arming", "transition", "poweroff", "poweron", "opening",
          "write", "done", "error"}

\* Types of the variables; there is one row per capture that has been returned.
TypeOK ==
    /\ boot \in Nat /\ powered \in BOOLEAN /\ printed \in 0..ReadyLine
    /\ region \in Values /\ filled \in Values /\ command \in Values
    /\ shot \in Copies
    /\ line \in Seq(Lines)
    /\ host \in Hosts /\ portOpen \in BOOLEAN
    /\ index \in 0..(Captures + 1)
    /\ host \notin {"write", "done"} => index <= Captures
    /\ began \in BOOLEAN /\ ended \in BOOLEAN
    /\ received \subseteq Offsets
    /\ captured \in [Offsets -> Copies]
    /\ rows \in Seq(Rows)
    /\ Len(rows) = IF index = 0 THEN 0 ELSE index - 1
    /\ beginLost \in BOOLEAN
    /\ faults \in 0..MaxFaults

\* The pattern of a row is the one last written into the region before the
\* boot whose copy the row holds, although resets may come at any time and the
\* input is not thrown away between arming and reading: README.md speaks of
\* the "contents before reset or power removal".
RowFollowsItsFill ==
    \A i \in 1..Len(rows) : \A o \in Offsets :
        rows[i].data[o].after = rows[i].pattern

\* A row holds the copy of one boot, whichever resets cut captures short and
\* whichever other lines get lost: only a lost BEGIN line can join two boots.
RowIsOneBoot ==
    ~beginLost =>
        \A i \in 1..Len(rows) : \A o, p \in Offsets : rows[i].data[o] = rows[i].data[p]

\* A row is what the experiment says it is: the copy one boot took of the region
\* as the row's fill had left it.
RowsAreTrue == RowFollowsItsFill /\ RowIsOneBoot

\* Without a fault an experiment is aborted only in a power condition, where
\* the board may print before the host has opened the port again.
OnlyPowerRacesAbort ==
    host = "error" /\ faults = 0 => TakesPower(Condition(index))

\* summary.csv counts each capture once: one group for each condition and
\* pattern, each with one capture per repetition and, unless a row is torn,
\* all lines of a capture in agreement with the pattern or none.
SummaryAddsUp ==
    host = "done" =>
        /\ Cardinality(summary) = Len(Conditions) * Len(Patterns)
        /\ \A s \in summary : s.captures = Repetitions
        /\ ~beginLost => \A s \in summary :
               s.agreement = DataLines * Cardinality({i \in 1..Len(rows) :
                   /\ <<rows[i].condition, rows[i].pattern>> = s.group
                   /\ rows[i].data[1].value = s.group[2]})

\* The script ends: with its results or with an error.
ExperimentEnds == <>(host \in {"done", "error"})
==============================================================================
