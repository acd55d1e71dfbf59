# TLA+ models of wireless-boot-entropy-zephyr

This directory models the parts of the repository in which several processes,
an unreliable network or serial line, interrupts and resets meet: the RF-actuated
boot-entropy artifact (`rf-actuated-boot-entropy`, AEB) with its restart experiment
and its listener build, the entropy-capsule bootstrap (`entropy-capsule-bootstrap`,
TEB) with its benchmark, the raw captures of `esp32-rf-rng-state` with their analysis,
the SRAM start-up experiment (`sram-startup-state`) and the entropy-renewal benchmark
(`entropy-renewal`). The modules are checked by TLC on small instances and, for the
properties that matter most, proved with TLAPS for every value of the constants.
`PROJECT.json` lists the components, the runs, the source lines behind each
definition, the hazards and the theorems.

## 1. Inventory

| Component | State | Operations | Interacts by | What is hard | What makes it correct |
|---|---|---|---|---|---|
| AEB firmware, client-initiated, `src/main.c` | trial loop, START parameters, `raw_buf`, `jitter_us`, upload position | join Wi-Fi, HELLO and resend, wait for START, burst loop, hashes and result line, upload | UDP with the collector | resends racing answers, stale bursts, timeouts, errors between two sends, resets | no store outside the buffers; the report tells which bytes followed a burst; a fault costs one trial |
| AEB collector, `aeb_collector.py` | dict of open trials by (peer, trial), counters, files | HELLO -> START and bursts, collect result/chunks/deltas, write out at RAW_END, idle stop | UDP; `aeb_trials.csv` | no acknowledgement, duplicates, keys that repeat after a reset | a file is one trial; a matching digest vouches for it; captures stay distinct |
| Restart runner, `run_restart_experiment.py` | completed count, attempt, deadline, `restart_trials.csv`, `status.json` | start/stop the collector, pulse EN, poll the CSV, record | process exit status, CSV, EN line | deadline against a late upload, collector exit against polling | the log maps a reset to its own capture; it always ends |
| AEB firmware, listener build (`stimulus_loop`), `stimulus_sender.py`, `parse_aeb_log.py` | current trial, turns, bursts seen; sender's trial and burst; serial log | listen, burst loop, result line, raw window; send START and bursts; parse | UDP one way, serial log | no answer to the sender, lost bursts, trial numbers that repeat with other sample sizes | reported packet loss is the real one; a loss costs one trial; when a row's raw window is its own |
| TEB firmware, `src/main.c`, `teb_*.c` | retained counter, SRAM area, HELLO, pool credit | count the boot, discard credit, capture, HELLO, check capsule, derive and add the seed | UDP with the server | reset between stores, wrap, late or damaged capsule, every error return | seeds are bound to the boot's HELLO; capsules are not reused; credit only from a capsule |
| TEB servers, `teb_pq_beacon_server.c`, `teb_beacon_server.py` | sequence number | answer HELLO | UDP | duplicated HELLOs, other profile | - |
| TEB benchmark, `collect_teb_boot.py`, `parse_teb_boot_log.py` | serial input, log, run number | reset, log until a result line or the limit, cut the log into boots, count the server's log | UART, EN line | a result after the limit, partial lines, boots without result, two logs nothing synchronises | parsed runs are boots with their true result; the logs agree; it stays in step and ends |
| RF RNG-state dump, `trng_bench.c`, and `capture_binary.py` | dump position, UART; scan buffer, file | arm, wait for the trigger, dump; reset, scan, trigger, collect | UART, EN line | markers in a stream of raw bytes, lost trigger, crash in the dump | a file is from after its own reset; every capture ends |
| Slice collection, `collect_reboot_slices.py` | run entries, slices, aggregate, manifest | build and flash or not, capture each run, resume, concatenate, write the manifest | processes, files | exit status 0 with a partial file, interrupt and resume, a board left running | only whole datasets are published; no boot delivers two slices |
| Slice analysis, `analyze_reboot_slices.py` | running sums, rows | read in chunks, windows, compare, trends, repeats | files | chunk borders, short last window | results do not depend on chunk borders; repeats and trends show |
| SRAM experiment, `main.c`, `run_experiment.py` | SRAM area, capture; capture index, rows | copy, print, fill; read, arm, EN pulse or power cycle, record, summarize | UART, EN line, power | unasked resets, torn captures, enumeration against boot text | a row is one boot's copy, after its own fill |
| Renewal benchmark, `main.c`, `renewal_rng_wrap.c`, the driver patch, `parse_renewal_log.py` | pool credit, trace counters, lock, iteration, log | draw, refill, interrupts; session, injection, snapshots, row; parse, add up | mutex, ISR, work queue, DTLS, console | counters changed beside the benchmark, sessions that fail early, rows cut anywhere | a row is its session's window and balances; failures are told |
| Wi-Fi managers, `wifi.c` | `wifi_connected`, attempt | connect, wait for events, retry | callbacks | an event of an attempt already given up | - |
| Statistics, plots, builds, key generation | none, or files | pure functions over files | files | - | - |

The last two rows are not modelled (section 5).

## 2. Modules

```
AebProtocol -> AebClient ----\
            -> AebCollector --> AebSystem -> AebRestart -> AebProofs, MCAebRestart
                                   |
                               MCAebSystem

AebListener -> ListenerProofs, MCAebListener

TebBootstrap -> TebBench -> TebProofs, MCTebBench
     |
 MCTebBootstrap

RawCapture -> RebootSlices -> MCRebootSlices         RebootAnalysis -> RebootProofs, MCRebootAnalysis
                  |    \
       SliceDataset     SlicesProofs
  (implemented by RebootSlices)

SramExperiment -> SramProofs, MCSramExperiment
EntropyRenewal -> RenewalProofs, MCEntropyRenewal

SequenceFacts (used by AebProofs, TebProofs, SlicesProofs, ListenerProofs, SramProofs, RebootProofs)
```

* **AebProtocol**: datagrams and the two UDP directions. A WDEV byte is named
  `<<boot, trial, offset>>`, so that a digest can be modelled by what it digests
  and "whose bytes are in this file" can be asked.
* **AebClient**: the client-initiated firmware, one action per step of the main
  thread. `pc` is the place in `client_hello_loop`, `wait_for_start`, `run_trial`
  or `send_raw_stream`; the other variables have the names of the C variables.
  `after_burst` is a history variable: the bytes read right after a burst.
* **AebCollector**: the receive loop of the collector, one action per kind of
  datagram. `send_stimulus` blocks the loop, so it is a place (`kpc = "stim"`).
  `Finalized` is the decision part of `finalize_trial`.
* **AebSystem**: the composition with UDP. Losing, duplicating or delaying a
  datagram, an error return, and a timeout that fires although an answer is on its
  way, each use one of `MaxFaults` faults. Time is not modelled: a timeout needs no
  fault only if nothing is coming.
* **AebRestart**: adds the runner, the collector's process exit and the attempt
  deadline; the board is reset only by the runner.
* **AebListener**: the open-loop sender, the socket's bounded queue, `stimulus_loop`
  with `run_trial`, the serial log, and the parser's rows and raw windows as operators
  on the log. Every session of the sender starts again at trial 0, with bursts and sample
  bytes of its own (`Sessions`); a raw window is one log line per chunk.
* **TebBootstrap**: board, memory, server and network of the capsule exchange. The
  three stores of the retained counter are separate actions, since a reset may fall
  between them; so are the read and the overwriting of the SRAM area. Cryptography
  is ideal: a digest is injective, a signature verifies only for the body that was
  signed, the secret of a capsule is its sequence number. The two servers are one
  server with a profile. `origin`, `earlier`, `torn` and `power` are history
  variables that only properties read.
* **TebBench**: the host's benchmark over TebBootstrap. Serial lines carry the boot
  that printed them. `readline` may return a part of a line (`ReadPart`): if the part has
  the prefix `capture_run` looks for, it ends the run and the host's own line is joined to
  it (`EndBehindPart`), else the rest completes it (`ReadRest`). `CutOff` says what
  `parse_log` takes such a line for. `ParseLine` is a line of `parse_log`,
  `ServerCapsulesServed` counts the server's log, `Summary` holds the counts of `summarize`.
* **RawCapture**: the dump phase of the firmware and one process of
  `capture_binary.py`. The UART carries tokens: a dump byte with its boot and offset,
  or a piece of console text; `nl` says that the host would take it for a newline. A
  marker and its line end are two tokens, so a read may end between them. Between
  `reset_input_buffer` and the EN pulse lie 50 ms, in which a boot that an earlier process
  left running may still print a marker (`Coincidence`, bounded as a fault is), but nothing
  that comes only after the sleep behind one (`Sleeps`).
* **RebootSlices**: `collect_reboot_slices.py` over RawCapture: the loop over runs,
  `--resume`, the size check, the aggregate, the manifest; the user may interrupt and
  start again, with flashing or (`--skip-build`, `--no-flash`) without, which leaves the
  board as it is. The firmware on it was built for slices of this size (`SlicesAssumption`). **SliceDataset** is what it promises: a slice is completed by a boot
  later than that of every slice there is, a dataset is published only when all of its
  slices are complete. The refinement mapping reads the boot of a slice from the disk,
  and what is published from the aggregate where the manifest's digest agrees with it.
* **RebootAnalysis**: `analyze_reboot_slices.py` as a machine that reads chunks. A
  metric stands as the integers it is computed from, a digest for the file.
* **SramExperiment**: board and host. A condition is a name; any but `rts` takes the power
  away for a time (`TakesPower`), and the summary groups by the name. The region holds one value with its history (the
  boot that copied it, the fill before it); lines may be lost, the board may reset on its
  own, commands of the host may fail.
* **EntropyRenewal**: the benchmark thread beside another thread, the pool's refill work
  and nested interrupts. The driver is modelled as far as the patch shows it: what each
  path draws, counts, and in which order with the lock. A draw is of one byte; the credit is in bits,
  as in the code. `Start` is the beginning of `main` and `run_benchmark` with their early
  returns. A row is logged whole or cut (`TornRows`): in its tag, somewhere, behind or inside
  the 17th field, which makes it look like one of the first log format, or behind the comma
  before the 17th or the last, which ends the parser (`ParseFails`). `truth` is history: what
  really happened between the snapshots. `ParsedRows`, `AddDerivedFields` and `Summarize`
  are the parser.
* **...Proofs**: theorems about the module they extend; **SequenceFacts**: what the operators
  taken from the community modules yield. **MC...**: ports, samples, patterns and sessions for
  TLC.

Definitions called "Mutant" in a comment are deliberately wrong variants of the
definition that follows; nothing uses them in the specifications. They show that a
property would notice the bug.

## 3. Runs

| Run | States | Question |
|---|---|---|
| `aeb_faults` | 5.3 M | one boot, two trials, any two faults, a START asking for too much: buffers, burst accounting, whole files, no cascade |
| `aeb_resets` | 801 k | reset anywhere, same source port or another, two faults: captures distinct, matching digest sound, another port keeps boots apart; client and collector end |
| `restart` | 255 k | runner with losses, errors, idle stops: the log is true, reports are whole; the runner ends and leaves no collector |
| `listener` | 209 k | three sessions of three trials with bursts and sample sizes of their own, two lost packets, lines or failing reads: packet loss, cost of a loss, which raw window a row gets |
| `teb_boots` | 446 k | three boots, resets and power cycles anywhere, two faults, server of either profile: binding, freshness, credit, cause of failure, every boot decides |
| `teb_bench` | 1.1 M | four benchmark runs, two faults (a line read in parts is one), a counter of width 2 that wraps: parsed log true but for torn lines, both logs agree, slow boots do not cascade, the benchmark ends |
| `slices` | 519 k | two slices, two faults of board, cable, host or user, resume, flashing or not: own reset, no knock-on failure, refinement of SliceDataset, every collection ends |
| `analysis` | 689 k | every dataset of three slices of three bytes over three values: metrics, windows, comparisons, repeats and trends against definitions on whole files |
| `sram` | 1.3 M | two patterns under reset and two power-off times, two faults: rows true, only power races abort, summary adds up, the script ends |
| `renewal` | 2.5 M | a start that may fail, a warm-up and two sessions, two draws by others, two faults, a cut row among them: rows are windows, balance, accepted bytes, failures told, the benchmark ends |

Bounds. AEB: two trials, two bursts and two chunks are the least with which packets of
one trial can meet another and a chunk can be missing while others are there; two faults
the least with which one can prepare the case and the other hit it (a reset is not a
fault). `aeb_faults` asks for 9 bytes of a 3-byte buffer cut in chunks of 2 and for 3
bursts with 2 slots, so that both clamps and the last short chunk happen. Listener: three
trials let a loss reach the next trial and show that it does not reach the one after;
the second and third session send no bursts, the second with a smaller sample size, the
third with 0, which means the greatest: windows of every length follow one another. TEB: three boots let a capsule of one boot arrive in the next but
one; four benchmark runs let a run be out of step twice. Slices: two runs are the least
with which one boot could deliver both; without a flash the second invocation meets the
board as the first left it. No dump begins with a newline here (`MaxLead` 0), since what
that does is the subject of `slices_newline`; the proof allows two. Analysis: slices of 3 bytes read by 2 have a
chunk and a window that end inside and a short last one; three runs are the least with
two equal ones that are not neighbours. SRAM: two patterns under each condition let a row
be taken for the fill before it, two conditions of one kind let the summary mix them. Renewal: the injection period 2 makes one session inject
and one not; a pool of 2 with threshold 1 empties, refills and clips. `CHECK_DEADLOCK` is off where
the system ends: the trials, attempts, boots or files are used up.

Fairness (runs with a temporal property): each thread or process that can take its next step
without a fault takes it (`main` on the board, the server loop, the collector loop, the
runners and scripts), and `poll`, `recvfrom`, serial reads, attempt and run time limits pass
when nothing is coming. HELLO resends are fair because `wait_for_start` sends them by the
clock. In `renewal` the benchmark thread, the holder of the mutex and an interrupt handler
run on; the other thread's draws and the refill work are not required. In `slices` the script
runs on once started; nobody has to start it. Resets, faults, late arrivals, power cycles
and interrupts are never required. Nothing in the code gives up one of these threads, and
all waits have limits, which is what the mutants of the liveness properties remove.

### Disagreements between code and documentation

Two runs are expected to be violated; each states what a README says.

* `restart_late`: the runner is said to pulse only after the preceding upload; after a
  timeout it does not wait, and records the late row for the next reset. Without late
  arrivals the mapping is right (`restart`).
* `slices_newline`: a slice is said to be raw WDEV bytes. `capture_binary.py` skips the
  newlines behind the start marker only in what the same read returned. If the read ends
  right behind the marker, as in the trace TLC finds, the marker's line end becomes the first byte of
  the slice and the last byte of the dump is missing; the size is right and the slice is
  accepted. The other way round, with a dump that begins with newline bytes (`MaxLead` 1),
  these are dropped too and text of the end marker fills the file up; that takes a longer
  behaviour.

### What else the models showed

These follow from the modelled code and have no run of their own.

* The README of AEB says the seed comes only from bytes sampled after burst packets; after
  a lost burst `run_trial` reads the rest of the buffer without one (`FinishSampling`).
* If the source port is the same after a reset, chunks of the old boot's upload can fill
  the gaps of the new one: this is why `PortsTellBootsApart` has its condition.
  `raw_sha256_match` shows it (`MatchedRawIsOneTrial`), but the file is appended to
  `aeb_all.bin` whatever the digest says.
* With three duplicated datagrams a trial can be written to two files: a resent HELLO
  read late reopens it, and duplicates of the upload complete it a second time.
* `build.sh --allow-local-refill` passes "0", which CMake's `if(NOT ...)` treats as unset:
  the option has no effect (`DisableLocalRefill`).
* `parse_aeb_log.py` keeps raw chunks by trial number and offset alone: with two sessions in
  one log, the rows of the first are paired with windows of the second; and if the second asks
  for fewer sample bytes, its own windows get the ends of the first's, with no line lost.
* A serial line that `readline` returns in part and that begins with `[TEB_RESULT]` ends the
  benchmark run; the host's own line is written behind the part, so `parse_log` finds no result
  in it, or one that is not `seeded`, and a seeded boot is counted as failed.
* Between throwing its input away and the EN pulse `capture_binary.py` sleeps 50 ms with the old
  boot still running (after an aborted collection, without flashing). A marker it prints then is
  taken for one of the new boot: the trigger is sent too early, or boot text is collected.
* A row of the renewal log that is cut inside its 17th field is read as one of the first log format with
  a shortened pool credit, and one cut behind the comma before it, or before the last field,
  stops `parse_renewal_log.py` with a ValueError.
* `parse_teb_boot_log.py:248` takes the first seeded run although there may be none, and
  the parser stops with an exception (`Summary.made`).
* A board that crashes in its dump and boots again leaves boot text in the stream; the
  capture takes it for raw bytes, since it never looks for the end marker.
* With `--append` the collector numbers captures from 0 again, so raw files of the earlier
  session are overwritten while its CSV rows stay.
* `parse_renewal_log.py` totals only sessions that ended well, but its
  `pool_credit_delta_bits` runs from the first to the last of them, failed sessions and
  pauses included; `iterations_failed` misses sessions that fail before their row, which
  only the warnings tell (`FailuresAreTold`).
* Interrupts that nest lose updates of the ISR counter of the renewal patch;
  `RowsAreWindows` says how far a row can be off.

## 4. Proofs

The theorems hold for every value of the constants that satisfies the ASSUMEs of the modules
(sizes positive, constants of their types; `NoFile`, which stands for a file that does not
exist, is not a sequence of tokens; a slice is as long as the firmware's dump). Five theorems
have hypotheses of their own, named below.
Each argument is an inductive invariant; TLC has checked it on the runs before it was proved.

**AebProofs.** `CoreInv` is the type invariant with `SampleInv`: while `run_trial` is in its
loop, `packets_seen <= loop < Expected(start)` and the bytes used are inside the requested
ones. It is needed because `BuffersInBounds` alone does not tell that a slot of `jitter_us`
is left. From it:

* `TypeCorrect`, `BuffersSafe`: for every buffer size, burst limit and START.
* `CapturesDistinct`: `CaptureInv` adds that every open or written capture id is below
  `captures` (below `captures - 1` while the stimulus of the last one is being sent).
* `MatchIsSound`: `MatchInv` adds that every result line in the network or in an open trial
  reports the bytes of one trial of a boot so far. A file that matches the reported digest is
  then the buffer of one trial, even when the new boot has the port of the old one.
* `SeenIsTrue`: `SeenInv` adds the burst loop itself: there, all bytes used were read after
  a burst, and `FilledNext` says that one more slice, cut at the end of the buffer, keeps
  them `packets_seen` times `per_packet` as far as the buffer goes.

Without a digest, a complete file is trusted for its keys alone.
`UploadInv` says what the keys carry: all STARTs of a run of the collector ask for one size
(`Asked`), so every buffer is cut into the same `Pieces`; a datagram with source port p comes
from a boot that may have had p (`CameFrom`); a chunk on its way or in a dict is the piece its
number names, of the trial its key names, of such a boot; RAW_BEGIN and RAW_END tell the
right size and number of pieces. If no two boots can have had the same port (`Apart`), all
pieces under a key are of one boot, and `ChunksJoin` (from `PiecesJoin`) says that all pieces
in order are the buffer. `PortsTellApart` follows, and `OneBootOneTrial` for a board that is
not reset (`MaxBoots = 1`, as in `aeb_faults`), where the condition on the ports is empty.

`FaultCosts` counts trials of the first boot. A trial is *alive* when it
will be complete unless a fault hits it: it has not begun; or a HELLO or START of it is on its
way; or it is being sampled; or every chunk it has sent is *kept*, that is, held by the dict
with nothing coming that would replace the TrialState, or on its way behind every HELLO and
ahead of every RAW_END of the trial; or all its chunks are kept and its RAW_END is on its way.
Only the order among datagrams of one trial matters (`SameFor`), so losing, doubling or
delaying a datagram can end only its own trial. `Ordered` keeps client and collector in step:
nothing on its way is ahead of the client, and once START was sent the collector has, or is
about to make, a TrialState. `CountInv` is `completed + faults + ` the number of trials alive
`>= ClientTrials`; a step ends at most one trial, and then either RAW_END completes it
(`EndCompletes`) or a fault is counted (`LosesAtMostOne`). When everything is at rest no trial
is alive. Hypotheses: `ClientTrials <= Trials`, since a collector that has what it wants stops
listening (the README of the artifact gives both sides the same `--trials`); and no stop for
idleness while the client is still running ("idle" not in `FaultKinds`), which would end all
later trials at once. A reset is outside the property itself.

The last part of AebProofs is about AebRestart. A step of the experiment is a step of AebSystem, only a fault, or the end
of the collector's loop (`RestartParts`), so `CoreInv` and `CaptureInv` hold here too.

* `RunnerReports` needs no hypothesis: `CompletedInv` says that `completed` is the number of complete
  rows and never more than wanted, `ReportInv` that the rows the runner has counted are the first
  complete ones of the file (`InitialPart`), and that its log names only their captures. A larger
  initial part ends later (`LargerEndsLater`), so the row the runner records is always a new one.
* `ResetsAreMapped`: `BootInv` says that boots do not overlap. What is on its way to the
  collector is of the boot going on, RAW_END is the last of it, and the TrialState of the board's
  key holds nothing older, or is replaced before the next datagram is read (`Fresh`). So a
  complete row begins with a byte of that boot, a boot completes one row at most, and after it
  board and collector rest (`RowInv`). `MapInv` says that EN is pulsed only then: after a new row, and
  also after a deadline, which passes on time only at rest. The hypotheses are those of the
  experiment: one trial per boot, and a board at rest when it begins. That nothing comes late
  ("delay" not in `FaultKinds`) is needed, as `restart_late` shows; that nothing is doubled too: three
  doubled datagrams complete a trial twice (section 3). Losses, errors and idle stops are allowed.

**ListenerProofs.** No theorem here has a hypothesis of its own: any sessions, any queue, any
losses on the air, in a full queue or by failing reads.

* `ListenerTypeCorrect`: types; `packets_seen` and the turns stay within those of `run_trial`.
* `LossIsWhatWasLost`: `OrderInv` says that the packets wait in the order of the sender, and
  none is of an earlier trial than the device works on. `CountInv` says that the bursts of
  the trial at work that reached the socket are those seen and those waiting, and that a turn
  is used up by anything else only when no more will come: so `packets_seen` stops at what was
  delivered or at what was expected (`RowInv`), although the device may be trials behind.
* `OneLossOneTrial`: a loss is charged once. `Claims` are the trials that are certainly
  without a row and the turns that will be wasted, each of which can take the START of a later
  trial; `ChargeInv` says that there are no more claims than losses. A packet that is lost
  makes one claim. A wasted turn that eats a START passes its claim on to the trial of that
  START, whose turns are then never begun.
* `WindowsOfRows`: `WindowInv` says that the log is in the order of the sessions and that no
  window is longer than its session asked for. So the last line logged for an offset is of the
  last session that has it, and the window is the row's own exactly if that is its session at
  every offset it asked for, and no session has another.

**TebProofs.** Of the bootstrap:

* `TebTypeCorrect`: types; the counter stays below `CounterMod`.
* `SeedsBound`: `BindInv` says that every capsule on its way or received carries a signature
  of a body the server has built; damage cannot make a body that verifies.
* `CapsulesFresh`: `FreshInv` and `CounterInv` relate a boot's counter to those of earlier
  boots of its power cycle: as long as no reset tore the stores and the counter has not
  wrapped, it is larger, so an old capsule fails the HELLO check.
* `CreditIsTrue`: `CreditInv` follows the credit through `main`, place by place: discarded
  before the capture, untouched until a seed is added, then exactly one capsule's.
* `OnlyFaultsFail`: `QuietInv` is what a boot without a fault of its own may rely on at each
  place of `main`, whatever is left of earlier boots in memory and in the network.

Of the benchmark: what the host has logged and what still waits on the serial line are
together (`Output`) the lines of the boots.

* `ParsedRunsAreBoots`: `LogInv` says that the output is one boot after the other, each beginning
  with its banner, whole or torn, and ending with its result line if it has one, and that every
  line that is known is true of its boot. It holds whatever the host does, since a reset keeps
  what was printed, and a line read in parts becomes two that are known to nobody or say no more
  than the whole did (`TornAt`). `ParseOK` follows `parse_log` through the log: the open run is
  the boot of the line just read, with boots before it only if their lines were torn, and every run
  before it is of earlier boots. `ParseUnfolds` gives the state of `parse_log` after every
  line; `FoldLeft` is a recursive function, so this is an induction over sets of numbers again.
* `SlowBootsCost`: `CutInv` counts the lines waiting that can end a run, and one for a boot still
  going on. A run takes one such line, or is given up on, and starts a boot that prints at most
  one; a reset cuts only a boot whose line has not come.
* `LogsDoAgree`: two logs that nothing synchronises are compared through what both come from.
  `ToldInv`: every seeded boot has printed its result line, so, unless the host tore it, it is in the host's log, where
  `ParseKeeps` finds its run again, or in what the host has not read. `CountInv` counts the
  messages between server and board (`Balanced`): seeded boots and capsules on their way or in
  `main`'s hands are no more than the capsules built, since each seed took one capsule off the
  network; and capsules built and HELLOs on their way are no more than seeded boots, boots reset
  early and `Allowance`, one for each fault before this boot and one for its own exchange. A boot
  that fails spends its allowance on the fault that `QuietInv` says it had. Hypothesis: no
  datagram is doubled ("dup" not in `FaultKinds`); lost, late and damaged ones are allowed. It is needed: TLC finds
  that a doubled answer which comes late can seed a second boot when two resets have torn the
  retained counter, so that both boots have the same one, and then the host's log has two seeded
  runs and the server's one capsule. While the counter is neither torn nor wrapped,
  `CapsulesFresh` excludes that. Without doubled datagrams it may be both: two boots with one
  counter still need two capsules.

**SequenceFacts.** The community modules define `FlattenSeq` and the sum of a function by recursive
functions. What they yield is proved by induction over *sets* of natural numbers (`SetInduction`, from the
well-foundedness of `<`), which needs no operator as a parameter: `FlattenUnfolds` is one step,
`PiecesJoin` says that the pieces of a sequence, joined, are the sequence, `FlattenBlocks` that
of files of one length the n-th is at its place. `SumUnfolds` takes any one value out of a sum,
whatever the order in which the fold takes them; `SumSplit`, `SumBoth`, `SumTimes` and `SumLess` follow.
`GroupsAddUp` counts the members of disjoint groups.

**SramProofs.** `SramTypeCorrect`; `RowsAreTheFill` from `FillInv` and `BootInv`: which fill the
region holds, which fill the lines on the wire were copied after, and that the lines of two
boots in one capture are separated by a BEGIN line unless one was lost. `OnlyPowerAborts` from
`UndisturbedInv`: without a fault board and host are in lock-step but for what the board prints
while the port is closed. `SummaryIsOfTheRows` adds `RowsPlaced`: row i is of capture i, in the
order of the three loops. `PlaceIs` and `PlaceOf` say that condition, repetition and pattern number
the captures one to one, so every pair of a condition and a pattern is one group with one capture per
repetition. `SumOfTwoValues` is about the community modules' sum over a set, again by induction over
a set of numbers: a capture of one boot agrees with its pattern on all lines or on none. Hypothesis
(`NoRepeats`): no pattern is listed twice, as in `PATTERNS`, and no condition. `--conditions rts,rts`
is accepted by the script and makes one group with twice the captures.

**SlicesProofs.** `SlicesTypeCorrect` needs `PhaseInv`: a capture process runs only for the
slice whose turn it is. `SlicesAreFresh` adds `AgeInv`: what is on the line or on the disk was
sent by boots so far, and the random bytes of a file being written are from its process's reset or
later, all other files older. Without flashing, an aborted process may leave a dump going or a trigger
byte on its way. `MarkerInv` says of every start marker a process may still read that no byte of an
earlier dump follows it: such bytes come only after the sleep behind the marker, and by then EN was
pulsed. `TriggersSpent` says that a trigger byte left over can only start a dump that is younger
than every file there is. `SlicesImplementDataset`
is the refinement of SliceDataset: initial states map to initial states and every step to an
abstract step or a stutter; `FlattenBlocks` finds the slices in the aggregate.
`FaultsPayForFailures` needs `CleanInv`, what an invocation that has met no fault yet may rely
on, and `SlicesAssumption`, the only condition on the sizes: `collect_reboot_slices.py` builds the
firmware with `--raw-bytes` equal to the slice (lines 192-193), so dump and slice are of one size. What
a file loses when newlines at the beginning of the dump are dropped must then be made up for by what
follows the dump; the two tokens of the end marker do so for at most two newlines (`LongDump`). Without
the flash, the board is assumed to hold a firmware built for the same size.

**RenewalProofs.** `RowsTellTheirWindow`: between the two snapshots `WindowInv` relates the driver's
counters to the history, but for the draw that is taken from the credit and not yet counted, which
the mutex covers (`Held`), and for the ISR counter, which nested interrupts may set back, but never
below one for all of them. `RowsTrue` carries that over to every row of the log that can be
read, cut ones included, but for the credit of a row cut inside its 17th field. `CreditBalances` and
`AcceptedBytesAreMixed` follow from the same invariant; the balance is that of credit in bits and eight times
the bytes. `EverySessionIsTold` counts lines of the log (`ToldOnce`): a session that failed after
its row is one row and one warning, one that failed before it a warning alone, and a cut line that
is not read still counts, as malformed or as one without its tag. The totals of the
parser are compared as numbers of lines, not as sums.

**RebootProofs.** No theorem here has a hypothesis of its own: any dataset, any chunk, window and
prefix sizes.

* `AnalysisTypeCorrect`: types, with the facts that run numbers and offsets stay inside.
* `ChunksAddUp`: `StateOf(f, k)` is what the running sums are after k bytes of f, whatever the
  chunks were. A chunk leads from `StateOf(f, k)` to `StateOf(f, k + size)`: the pairs it adds
  are those that follow (`PairsFollow`), the one with the byte before it included. `ReadInv` says that
  the program's sums are `StateOf` at its offset.
* `WindowsCover`: `WindowInv` gives the place of every row: each run's rows begin at 0, follow one
  another and are numbered from 0, so the first is the one numbered 0 and the last the one with
  the largest number.
* `PairsAreCompared`: `CompareInv` says that the counts of a pair are those of its first `offset`
  bytes. A byte equals another exactly if they differ in no bit, and differing bits obey the triangle
  inequality; summed over the bytes and over the slices in between, that bounds the change from the
  first slice to the last.
* `WeaknessIsReported`: `SummaryInv` says what the summary was computed from. The groups of equal
  slices are disjoint and each has one distinct slice (`GroupsAddUp`). For the trend:
  the numerator of the slope grows with every value that is larger than all before it
  (`SlopeGrows`, `SlopeRises`), by induction over the number of runs.

### Only model-checked

* Liveness: every property with fairness, and with it that the systems end.
* `LogsAgree` with doubled datagrams, and only where no reset tears the counter (false otherwise).
* `CompleteRawIsOneTrial` for boards that reset: it is false when ports repeat (section 3).

## 5. Not modelled

* Wi-Fi and DHCP: joining is one step, `JoinWifi`. What `wifi.c` does depends on the order of
  events of Zephyr's Wi-Fi stack, which is not in the repository.
* Clock values: only the order of timeouts and messages is modelled.
* CSV, JSON and log layout, beyond the rows the properties are about.
* The jitter residuals and heap reports of AEB; floating-point statistics, p-values and plots
  of all artifacts; key generation, builds and flashing.
* The firmware benchmarks of `esp32-rf-rng-state` other than the raw dump, its traffic threads,
  and the UDP-burst mode of `capture_binary.py`, which the slice collection does not use.
* Serial bytes lost in a reset; the toggling of DTR and RTS when a port is opened, and the few
  milliseconds between that and the first EN pulse of the SRAM experiment.
* Console text of a boot before its armed marker, and of the raw capture collections with slices of
  different sizes on one board.
* Lines of the renewal log that lost their line end and are joined with the next; a board reset in the
  middle of a serial line; a third part of a line that was read in two.
* Power conditions without the power commands, which end the SRAM script at once.
* The BLAKE2s pool driver itself: only the paths the patch touches, as it shows them.

## 6. Plan

1. `TebPromise`: what the bootstrap promises (a boot is unseeded, then seeded or failed; a
   capsule is spent once per power cycle), refined by TebBootstrap.
2. `LogsAgree` with doubled datagrams while no reset tears the retained counter: `CapsulesFresh`
   then gives each seeded boot a capsule of its own.
3. The UDP-burst mode of `capture_binary.py` with `udp_flood.c`: start, stop and join of its threads.
