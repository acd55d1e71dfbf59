------------------------------ MODULE RawCapture ------------------------------
(***************************************************************************)
(* One raw capture over the console UART: the dump phase of the RF RNG     *)
(* state firmware (src/trng_bench.c) and the process that records it       *)
(* (scripts/capture_binary.py).                                            *)
(*                                                                         *)
(* The unit of the UART, and of the recorded file, is a token: one byte of *)
(* the dump, or a piece of console text.  A dump byte is named by the boot *)
(* and the offset at which it was drawn; `nl` tells whether the host would *)
(* take the token for a newline character.  Console text before the armed  *)
(* marker, which the host only prints, is left out.                        *)
(***************************************************************************)
EXTENDS Naturals, Sequences, SequencesExt

CONSTANTS
    Runs,         \* --runs, how many files there are
    DumpBytes,    \* TRNG_RAW_DUMP_BYTES, what the firmware dumps
    TargetBytes,  \* --bytes, what the host wants
    MaxLead,      \* bound: newline bytes at the beginning of a dump
    MaxFaults,    \* bound: faults of board, cable and user
    NoFile        \* stands for a file that does not exist

\* What is sent over the UART, one token at a time.
Tokens == [kind : {"armed", "start", "eol", "raw", "text", "end"}, boot : Nat, i : Nat, nl : BOOLEAN]

ASSUME CaptureAssumption ==
    /\ Runs \in Nat \ {0}
    /\ DumpBytes \in Nat \ {0}
    /\ TargetBytes \in Nat \ {0}
    /\ MaxLead \in 0..DumpBytes
    /\ MaxFaults \in Nat
    /\ NoFile \notin Seq(Tokens)

VARIABLES
    boot,    \* how many times the board has booted
    at,      \* where this boot is: "boot", "armed", "dump" or "over"
    sent,    \* bytes of the dump in progress written to the UART
    lead,    \* how many bytes at the beginning of this dump are newlines
    rx,      \* a trigger byte is in the board's UART
    line,    \* what the board has written and no process has read
    disk,    \* the file of each run: its tokens, or NoFile
    slot,    \* the run whose file --output names
    host,    \* the capture process: "none", "open", "scan", "collect", "exit0", "exit1"
    triggered, \* trigger_sent; without --udp-burst it is set as soon as raw_armed is
    since,   \* history: the boot that this process's reset_esp32 began
    faults   \* faults so far

boardVars == <<boot, at, sent, lead, rx>>

hostVars == <<disk, slot, host, triggered, since>>

captureVars == <<boardVars, line, hostVars, faults>>

Text(kind) == [kind |-> kind, boot |-> boot, i |-> 0, nl |-> kind = "eol"]

RawByte(i) == [kind |-> "raw", boot |-> boot, i |-> i, nl |-> i <= lead]

IsRaw(t) == t.kind = "raw"

Emit(tokens) == line' = line \o tokens

HasKind(s, kind) == \E j \in 1..Len(s) : s[j].kind = kind

Fault == faults < MaxFaults /\ faults' = faults + 1

\* A marker that a boot left running prints in the 50 ms between
\* reset_input_buffer and the EN pulse will be taken for the new boot's; it is
\* bounded as a fault is.
Coincidence == IF host = "open" THEN Fault ELSE UNCHANGED faults

\* The board's sleep after a marker (TRNG_RAW_START_DELAY_MS, then 100 ms)
\* outlasts those 50 ms.
Sleeps(marker) == host = "open" /\ HasKind(line, marker)

CaptureInit ==
    /\ boot = 1
    /\ at = "boot"
    /\ sent = 0
    /\ lead = 0
    /\ rx = FALSE
    /\ line = <<>>
    /\ disk = [r \in 1..Runs |-> NoFile]
    /\ slot = 1
    /\ host = "none"
    /\ triggered = FALSE
    /\ since = 0
    /\ faults = 0

------------------------------------------------------------------------------
\* The board.

\* A reset by the EN line, by flashing or by itself: the dump is cut where it
\* is, and the UART is reset with the chip; a trigger byte survives (kept) only
\* if it was still on the way.
Restart(kept) ==
    /\ boot' = boot + 1
    /\ at' = "boot"
    /\ sent' = 0
    /\ lead' = 0
    /\ rx' = (rx /\ kept)

\* main and trng_bench_run_all up to the dump: Wi-Fi, the benchmark phases, and
\* trng_bench_raw_dump says it is armed.  A trigger byte that came before may or
\* may not be kept: the console driver sets up the UART during the boot.
Arm(kept) ==
    /\ at = "boot"
    /\ at' = "armed"
    /\ rx' = (rx /\ kept)
    /\ Emit(<<Text("armed")>>)
    /\ Coincidence
    /\ UNCHANGED <<boot, sent, lead, hostVars>>

\* setup_wifi fails or the entropy device is not ready: main returns.
BootFails ==
    /\ Fault
    /\ at = "boot"
    /\ at' = "over"
    /\ UNCHANGED <<boot, sent, lead, rx, line, hostVars>>

\* The trigger byte is read: the start marker and its line end.  What the
\* hardware RNG will deliver is unknown; `n` of its first bytes are newlines.
StartDump(n) ==
    /\ at = "armed"
    /\ rx
    /\ ~Sleeps("armed")
    /\ rx' = FALSE
    /\ at' = "dump"
    /\ lead' = n
    /\ Emit(<<Text("start"), Text("eol")>>)
    /\ Coincidence
    /\ UNCHANGED <<boot, sent, hostVars>>

DumpByte ==
    /\ at = "dump"
    /\ ~Sleeps("start")
    /\ sent < DumpBytes
    /\ sent' = sent + 1
    /\ Emit(<<RawByte(sent + 1)>>)
    /\ UNCHANGED <<boot, at, lead, rx, hostVars, faults>>

\* The end marker is a line of its own, so it begins with a line end.
EndDump ==
    /\ at = "dump"
    /\ sent = DumpBytes
    /\ at' = "over"
    /\ sent' = 0
    /\ lead' = 0
    /\ Emit(<<Text("eol"), Text("end")>>)
    /\ UNCHANGED <<boot, rx, hostVars, faults>>

\* entropy_get_entropy fails: an error line, and the dump is over.
DumpError ==
    /\ Fault
    /\ at = "dump"
    /\ ~Sleeps("start")
    /\ sent < DumpBytes
    /\ at' = "over"
    /\ sent' = 0
    /\ lead' = 0
    /\ Emit(<<Text("text"), Text("eol"), Text("end")>>)
    /\ UNCHANGED <<boot, rx, hostVars>>

\* A brown-out or a crash.
Crash(kept) ==
    /\ Fault
    /\ Restart(kept)
    /\ UNCHANGED <<line, hostVars>>

\* Nothing will come from the board unless the host does something.
Quiet == line = <<>> /\ (at = "over" \/ (at = "armed" /\ ~rx))

BoardNext ==
    \/ \E kept \in BOOLEAN : Arm(kept)
    \/ BootFails
    \/ \E n \in 0..MaxLead : StartDump(n)
    \/ DumpByte
    \/ EndDump
    \/ DumpError
    \/ \E kept \in BOOLEAN : Crash(kept)

------------------------------------------------------------------------------
\* The capture process.

\* Mutant: what waits in the serial driver is kept.
OpenPortDirty(r) ==
    /\ host = "none"
    /\ host' = "open"
    /\ slot' = r
    /\ UNCHANGED <<boardVars, line, disk, triggered, faults, since>>

\* The port is opened and its input thrown away (reset_input_buffer, then
\* drain_input and the reset_input_buffer of reset_esp32).
OpenPort(r) ==
    /\ host = "none"
    /\ host' = "open"
    /\ slot' = r
    /\ line' = <<>>
    /\ UNCHANGED <<boardVars, disk, triggered, faults, since>>

\* reset_esp32 pulses EN, 50 ms after the input was thrown away: the boot that
\* an earlier process left running can still print, but not be read, until then.
PulseEn ==
    /\ host = "open"
    /\ host' = "scan"
    /\ triggered' = FALSE
    /\ Restart(FALSE)
    /\ since' = boot'
    /\ UNCHANGED <<line, disk, slot, faults>>

\* A read returns what is there, in pieces of any size: read(256) ends at 256
\* bytes or after 5 s.
Read(n) ==
    /\ n \in 1..Len(line)
    /\ line' = SubSeq(line, n + 1, Len(line))

\* The tokens behind the newline characters at the beginning of s.
SkipNewlines(s) ==
    LET skipped == {k \in 0..Len(s) : \A j \in 1..k : s[j].nl}
    IN  SubSeq(s, 1 + Max(skipped), Len(s))

\* The first n tokens of s, or all of them.
Take(s, n) == SubSeq(s, 1, IF Len(s) < n THEN Len(s) ELSE n)

FirstStart(s) ==
    CHOOSE j \in 1..Len(s) : s[j].kind = "start" /\ \A k \in 1..(j - 1) : s[k].kind # "start"

\* The marker is in what was read: the newlines after it are dropped, the file
\* is opened ("wb") and the rest of the read is its beginning.
ScanFindsStart(n) ==
    /\ host = "scan"
    /\ Read(n)
    /\ LET data == SubSeq(line, 1, n)
       IN  /\ HasKind(data, "start")
           /\ disk' = [disk EXCEPT ![slot] =
                  Take(SkipNewlines(SubSeq(data, FirstStart(data) + 1, n)), TargetBytes)]
    /\ host' = "collect"
    /\ UNCHANGED <<boardVars, slot, triggered, faults, since>>

\* No marker yet.  The first read after which the board is known to be armed
\* sends the trigger byte, once; the cable may lose it.
ScanReadsOn(n, lost) ==
    /\ host = "scan"
    /\ Read(n)
    /\ LET data == SubSeq(line, 1, n)
           send == HasKind(data, "armed") /\ ~triggered
       IN  /\ ~HasKind(data, "start")
           /\ triggered' = (triggered \/ send)
           /\ lost => send
           /\ rx' = (rx \/ (send /\ ~lost))
    /\ IF lost THEN Fault ELSE UNCHANGED faults
    /\ UNCHANGED <<boot, at, sent, lead, disk, slot, host, since>>

\* An empty read after --startup-timeout: sys.exit(1), no file is touched.
\* (Timeouts are longer than the board is ever silent on its own.)
ScanTimeout ==
    /\ host = "scan"
    /\ Quiet
    /\ host' = "exit1"
    /\ UNCHANGED <<boardVars, line, disk, slot, triggered, faults, since>>

CollectRead(n) ==
    /\ host = "collect"
    /\ Len(disk[slot]) < TargetBytes
    /\ n <= TargetBytes - Len(disk[slot])
    /\ Read(n)
    /\ disk' = [disk EXCEPT ![slot] = @ \o SubSeq(line, 1, n)]
    /\ UNCHANGED <<boardVars, slot, host, triggered, faults, since>>

\* All bytes are there; drain_post_capture_logs reads what follows.
CollectDone ==
    /\ host = "collect"
    /\ Len(disk[slot]) = TargetBytes
    /\ host' = "exit0"
    /\ line' = <<>>
    /\ UNCHANGED <<boardVars, disk, slot, triggered, faults, since>>

\* Mutant: an empty read is always retried.
CollectTimeoutRetries ==
    /\ host = "collect"
    /\ FALSE
    /\ UNCHANGED captureVars

\* Three empty reads in a row: the TimeoutError is printed and swallowed, and
\* the process ends with status 0 and a partial file.
CollectTimeout ==
    /\ host = "collect"
    /\ Len(disk[slot]) < TargetBytes
    /\ Quiet
    /\ host' = "exit0"
    /\ UNCHANGED <<boardVars, line, disk, slot, triggered, faults, since>>

\* The serial device disappears: an uncaught exception while scanning, a
\* swallowed one while collecting.
SerialFails ==
    /\ Fault
    /\ host \in {"open", "scan", "collect"}
    /\ host' = IF host = "collect" THEN "exit0" ELSE "exit1"
    /\ UNCHANGED <<boardVars, line, disk, slot, triggered, since>>

CaptureNext ==
    \/ PulseEn
    \/ \E n \in 1..Len(line) : \/ ScanFindsStart(n)
                               \/ \E lost \in BOOLEAN : ScanReadsOn(n, lost)
                               \/ CollectRead(n)
    \/ ScanTimeout
    \/ CollectDone
    \/ CollectTimeout
    \/ SerialFails

\* The steps the board and the process take by themselves.
CaptureFairness ==
    /\ WF_captureVars((\E kept \in BOOLEAN : Arm(kept)) \/ DumpByte \/ EndDump \/ \E n \in 0..MaxLead : StartDump(n))
    /\ WF_captureVars(PulseEn \/ ScanTimeout \/ CollectDone \/ CollectTimeout
                      \/ \E n \in 1..Len(line) : ScanFindsStart(n) \/ ScanReadsOn(n, FALSE)
                                                 \/ CollectRead(n))
==============================================================================
