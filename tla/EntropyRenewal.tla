--------------------------- MODULE EntropyRenewal ---------------------------
(***************************************************************************)
(* The entropy-renewal benchmark: main.c runs DTLS sessions one after the  *)
(* other and prints one row per session with what the BLAKE2s pool lost    *)
(* and gained between two snapshots; parse_renewal_log.py adds the rows    *)
(* up.  The pool itself is Zephyr's driver; its counters are those of      *)
(* zephyr-028d194-blake2s-renewal-trace.patch.  Around the benchmark       *)
(* thread run another thread that draws entropy, the refill work of the    *)
(* pool, and interrupts, which may nest and which hold off all threads.    *)
(* A draw is of one byte; counters are in bytes, the credit is in bits.    *)
(***************************************************************************)
EXTENDS Integers, Sequences, FiniteSets, SequencesExt, FiniteSetsExt, TLC

CONSTANTS
  Warmup,         \* RENEWAL_WARMUP
  Iterations,     \* RENEWAL_ITERATIONS
  InjectEvery,    \* RENEWAL_NETWORK_INJECT_EVERY; 0: injection is compiled out
  EntropyBytes,   \* DTLS_ENTROPY_BYTES
  MaxResponse,    \* RESPONSE_BUFFER_SIZE: what a reply can have at most
  PoolMax,        \* what the pool can be credited with, in bytes
  Threshold,      \* POOL_REFILL_THRESHOLD, in bytes
  MaxRequests,    \* bound: draws from the pool and interrupts that ask for entropy
  MaxFaults       \* bound: calls that fail, and torn console lines

ASSUME RenewalAssumption ==
  /\ {Warmup, Iterations, InjectEvery, MaxRequests, MaxFaults} \subseteq Nat
  /\ {EntropyBytes, MaxResponse, PoolMax, Threshold} \subseteq Nat \ {0}
  /\ EntropyBytes <= MaxResponse

VARIABLES
  pool,     \* [credit, refilling, enabled]: struct entropy_blake2s_data
  count,    \* the patch's counters
  lock,     \* who holds blake2s_data.lock, and what is left to count
  isr,      \* the counter as an interrupted interrupt handler read it
  rng,      \* rng_stats of the wolfSSL wrapper
  app,      \* the benchmark thread
  log,      \* lines on the console
  truth,    \* history: what really happened between the snapshots
  requests, \* history: draws and interrupts so far
  faults    \* history: faults so far

vars == <<pool, count, lock, isr, rng, app, log, truth, requests, faults>>

Fault == faults < MaxFaults /\ faults' = faults + 1
NoFault == UNCHANGED faults

BitsPerByte == 8
PoolBits == BitsPerByte * PoolMax

Free == [owner |-> "none", kind |-> "none"]
NoIsr == -1
ZeroCount == [hw |-> 0, ext |-> 0, debit |-> 0, thread |-> 0, isr |-> 0, fast |-> 0]
ZeroRng == [bytes |-> 0, errors |-> 0]
Counters == [hw: Nat, ext: Nat, debit: Nat, thread: Nat, isr: Nat, fast: Nat]
Truths == [hw: Nat, ext: Nat, debit: Nat, isr: Nat, rng: Nat, clamped: BOOLEAN]
ZeroTruth == [hw |-> 0, ext |-> 0, debit |-> 0, isr |-> 0, rng |-> 0, clamped |-> FALSE]

\* The loop of the measured iterations may have none.
FirstMeasured == IF Iterations > 0 THEN "create" ELSE "end"

RenewalInit ==
  /\ pool \in [credit: {BitsPerByte * n : n \in 0..PoolMax}, refilling: {FALSE}, enabled: BOOLEAN]
  /\ count = ZeroCount
  /\ lock = Free
  /\ isr = NoIsr
  /\ rng = ZeroRng
  /\ app = [pc |-> "start", i |-> 0, measured |-> Warmup = 0, pre |-> ZeroCount,
            preCredit |-> 0, response |-> 0, accepted |-> 0, ret |-> 0]
  /\ log = << >>
  /\ truth = ZeroTruth
  /\ requests = 0
  /\ faults = 0

\* The history is that of the window between the two snapshots.
Window == app.pc \in {"connect", "read", "inject", "post"}
Noted(t) == IF Window THEN t ELSE truth

(***************************************************************************)
(* Threads run while no interrupt does; k_mutex_lock waits for the owner.  *)
(***************************************************************************)
Running == isr = NoIsr
LockFree == Running /\ lock = Free

AtLeastZero(n) == IF n < 0 THEN 0 ELSE n
AtMostFull(n) == IF n > PoolBits THEN PoolBits ELSE n

\* extract_entropy, under the lock: the credit is taken first, and counted
\* before the lock is released.
Credited(p, d) == [p EXCEPT !.credit = AtLeastZero(AtMostFull(@ + d))]

Extract(owner, kind) ==
  /\ LockFree
  /\ requests < MaxRequests
  /\ requests' = requests + 1
  /\ pool' = Credited(pool, -BitsPerByte)
  /\ truth' = Noted([truth EXCEPT !.debit = @ + 1, !.clamped = @ \/ pool.credit < BitsPerByte])
  /\ lock' = [owner |-> owner, kind |-> kind]

\* total_pool_debit_bytes, then total_thread_get_bytes or
\* total_fast_refill_bytes, check_and_trigger_refill, unlock.
CountExtract(owner) ==
  /\ Running
  /\ lock.owner = owner
  /\ count' = [count EXCEPT !.debit = @ + 1, ![lock.kind] = @ + 1]
  /\ pool' = [pool EXCEPT !.refilling = @ \/ /\ pool.enabled
                                             /\ pool.credit \div BitsPerByte < Threshold
                                             /\ lock.kind = "thread"]
  /\ lock' = Free

\* Another thread of the system draws from the pool.
OtherDraws ==
  /\ \E kind \in {"thread", "fast"} : Extract("other", kind)
  /\ UNCHANGED <<count, isr, rng, app, log, faults>>

OtherCounts ==
  /\ CountExtract("other")
  /\ UNCHANGED <<isr, rng, app, log, truth, requests, faults>>

\* hw_refill_work_handler: the hardware source may fail.  Work is submitted
\* only while refills are enabled, and nothing disables them after that.
RefillWork ==
  /\ pool.refilling
  /\ LockFree
  /\ \/ /\ pool' = [pool EXCEPT !.refilling = FALSE]
        /\ Fault
        /\ UNCHANGED <<count, truth>>
     \/ /\ NoFault
        /\ pool.enabled
        /\ pool' = [Credited(pool, BitsPerByte) EXCEPT !.refilling = FALSE]
        /\ count' = [count EXCEPT !.hw = @ + 1]
        /\ truth' = Noted([truth EXCEPT !.hw = @ + 1,
                                        !.clamped = @ \/ pool.credit + BitsPerByte > PoolBits])
  /\ UNCHANGED <<lock, isr, rng, app, log, requests>>

(***************************************************************************)
(* get_entropy_isr counts after irq_unlock: the sum is read, and written   *)
(* back; an interrupt of a higher level may come in between.               *)
(***************************************************************************)
IsrReads ==
  /\ Running
  /\ requests < MaxRequests
  /\ isr' = count.isr
  /\ requests' = requests + 1
  /\ truth' = Noted([truth EXCEPT !.isr = @ + 1])
  /\ UNCHANGED <<pool, count, lock, rng, app, log, faults>>

IsrNested ==
  /\ ~Running
  /\ requests < MaxRequests
  /\ count' = [count EXCEPT !.isr = @ + 1]
  /\ requests' = requests + 1
  /\ truth' = Noted([truth EXCEPT !.isr = @ + 1])
  /\ UNCHANGED <<pool, lock, isr, rng, app, log, faults>>

IsrWrites ==
  /\ ~Running
  /\ count' = [count EXCEPT !.isr = isr + 1]
  /\ isr' = NoIsr
  /\ UNCHANGED <<pool, lock, rng, app, log, truth, requests, faults>>

(***************************************************************************)
(* The start of main and of run_benchmark, and run_one_iteration.          *)
(***************************************************************************)
At(pc) == app.pc = pc /\ Running /\ lock.owner # "app"

\* Without an entropy device main returns at once; when wolfSSL_Init, the
\* server's address or Wi-Fi fails, run_benchmark does, and main ends.
Start ==
  /\ At("start")
  /\ \/ app' = [app EXCEPT !.pc = IF Warmup > 0 THEN "create" ELSE FirstMeasured] /\ NoFault
     \/ \E pc \in {"exit", "end"} : app' = [app EXCEPT !.pc = pc] /\ Fault
  /\ UNCHANGED <<pool, count, lock, isr, rng, log, truth, requests>>

\* create_dtls_ctx, create_connected_udp_socket, wolfSSL_new, configure:
\* a failure here leaves the iteration without a row.
CreateSession ==
  /\ At("create")
  /\ \/ app' = [app EXCEPT !.pc = "reset", !.ret = 0] /\ NoFault
     \/ app' = [app EXCEPT !.pc = "out", !.ret = -1] /\ Fault
  /\ UNCHANGED <<pool, count, lock, isr, rng, log, truth, requests>>

\* wolfSSL draws from the pool, seeding its DRBG, while the session is made
\* and during the handshake.
SessionDraws ==
  /\ app.pc \in {"create", "connect"}
  /\ Extract("app", "thread")
  /\ UNCHANGED <<count, isr, rng, app, log, faults>>

SessionCounts ==
  /\ CountExtract("app")
  /\ UNCHANGED <<isr, rng, app, log, truth, requests, faults>>

\* Mutant: the snapshot does not take the lock.
SnapshotUnlocked == Running

\* The snapshot waits for the lock, so no draw is half counted in it.
Snapshot == LockFree

\* Mutant: the wrapper's statistics run on.
ResetRngKeeps ==
  /\ At("reset")
  /\ rng' = rng
  /\ app' = [app EXCEPT !.pc = "pre", !.response = 0, !.accepted = 0]
  /\ UNCHANGED <<pool, count, lock, isr, log, truth, requests, faults>>

ResetRng ==
  /\ At("reset")
  /\ rng' = ZeroRng
  /\ app' = [app EXCEPT !.pc = "pre", !.response = 0, !.accepted = 0]
  /\ UNCHANGED <<pool, count, lock, isr, log, truth, requests, faults>>

TakePre ==
  /\ At("pre")
  /\ Snapshot
  /\ app' = [app EXCEPT !.pc = "connect", !.pre = count, !.preCredit = pool.credit]
  /\ truth' = ZeroTruth
  /\ UNCHANGED <<pool, count, lock, isr, rng, log, requests, faults>>

\* wc_RNG_GenerateBlock and wc_RNG_GenerateByte through their wrappers; one
\* call between two resets of the statistics is let through.
RngCall ==
  /\ At("create") \/ At("connect")
  /\ rng.bytes + rng.errors < 1
  /\ \/ /\ rng' = [rng EXCEPT !.bytes = @ + 1]
        /\ truth' = Noted([truth EXCEPT !.rng = @ + 1])
        /\ NoFault
     \/ /\ rng' = [rng EXCEPT !.errors = @ + 1]
        /\ UNCHANGED truth
        /\ Fault
  /\ UNCHANGED <<pool, count, lock, isr, app, log, requests>>

\* wolfSSL_connect and wolfSSL_write, each of which may fail.
Connect ==
  /\ At("connect")
  /\ \/ app' = [app EXCEPT !.pc = "read"] /\ NoFault
     \/ app' = [app EXCEPT !.pc = "post", !.ret = -1] /\ Fault
  /\ UNCHANGED <<pool, count, lock, isr, rng, log, truth, requests>>

\* Mutant: the session is tried again after an error.
ReadResponseAgain ==
  /\ At("read")
  /\ app.response < EntropyBytes
  /\ \/ \E n \in 1..(MaxResponse - app.response) :
          app' = [app EXCEPT !.response = @ + n] /\ NoFault
     \/ app' = [app EXCEPT !.pc = "connect", !.response = 0] /\ NoFault
  /\ UNCHANGED <<pool, count, lock, isr, rng, log, truth, requests>>

\* wolfSSL_read until the request is served; an error after the first byte
\* counts as success.
ReadResponse ==
  /\ At("read")
  /\ app.response < EntropyBytes
  /\ \/ \E n \in 1..(MaxResponse - app.response) :
          app' = [app EXCEPT !.response = @ + n] /\ NoFault
     \/ /\ Fault
        /\ app' = IF app.response > 0 THEN [app EXCEPT !.pc = "inject"]
                                      ELSE [app EXCEPT !.pc = "post", !.ret = -1]
  /\ UNCHANGED <<pool, count, lock, isr, rng, log, truth, requests>>

ResponseComplete ==
  /\ At("read")
  /\ app.response >= EntropyBytes
  /\ app' = [app EXCEPT !.pc = "inject"]
  /\ UNCHANGED <<pool, count, lock, isr, rng, log, truth, requests, faults>>

Injects == InjectEvery > 0 /\ app.i % InjectEvery = 0

\* maybe_mix_network_entropy: not in this iteration.
NotInjected ==
  /\ At("inject")
  /\ ~Injects
  /\ app' = [app EXCEPT !.pc = "post"]
  /\ UNCHANGED <<pool, count, lock, isr, rng, log, truth, requests, faults>>

\* The reply may be longer than what was asked for; the rest is not mixed.
Payload(n) == IF n > EntropyBytes THEN EntropyBytes ELSE n

\* Mutant: the bytes count as accepted whatever the driver returned.
AcceptAlways(n, ok) == [app EXCEPT !.pc = "post", !.accepted = n,
                                   !.ret = IF ok THEN 0 ELSE -1]

\* entropy_add_entropy credits the pool and counts under the lock, or fails.
Accept(n, ok) == [app EXCEPT !.pc = "post", !.accepted = IF ok THEN n ELSE 0,
                             !.ret = IF ok THEN 0 ELSE -1]

Inject ==
  /\ At("inject")
  /\ Injects
  /\ LockFree
  /\ LET n == Payload(app.response) IN
     \/ /\ pool' = Credited(pool, BitsPerByte * n)
        /\ count' = [count EXCEPT !.ext = @ + n]
        /\ truth' = Noted([truth EXCEPT !.ext = @ + n,
                                        !.clamped = @ \/ pool.credit + BitsPerByte * n > PoolBits])
        /\ app' = Accept(n, TRUE)
        /\ NoFault
     \/ /\ app' = Accept(n, FALSE)
        /\ Fault
        /\ UNCHANGED <<pool, count, truth>>
  /\ UNCHANGED <<lock, isr, rng, log, requests>>

\* A row as the monitor file has it: whole or cut, with what is left of
\* pool_credit_bits_post.  stamp is pool_timestamp_us_pre, positive by now.
Row(cut, post) ==
  [kind |-> "iter", cut |-> cut, iter |-> app.i, ret |-> app.ret,
   accepted |-> app.accepted, rng |-> rng.bytes, errors |-> rng.errors,
   hw |-> count.hw - app.pre.hw, ext |-> count.ext - app.pre.ext,
   debit |-> count.debit - app.pre.debit, isr |-> count.isr - app.pre.isr,
   pre |-> app.preCredit, post |-> post, stamp |-> 1, truth |-> truth]

\* What the first digits of a credit of up to four digits read as.
FirstDigits(n) == {n \div 10, n \div 100, n \div 1000} \ {0}

\* Where a row can be cut: behind the last field of the first log format, or
\* inside it; and, with nothing left that is read, in the tag, behind the comma
\* in front of that field or of the very last one, or elsewhere.
TornRows ==
  {Row("base", pool.credit)}
  \cup {Row("field", post) : post \in FirstDigits(pool.credit)}
  \cup [kind: {"iter"}, cut: {"tag", "empty", "short"}, ret: {app.ret}]

\* The post snapshot, the wrapper's snapshot and the row of a measured
\* iteration.
TakePost ==
  /\ At("post")
  /\ Snapshot
  /\ app' = [app EXCEPT !.pc = "out", !.pre = ZeroCount, !.preCredit = 0]
  /\ truth' = ZeroTruth
  /\ \/ ~app.measured /\ NoFault /\ UNCHANGED log
     \/ app.measured /\ NoFault /\ log' = Append(log, Row("whole", pool.credit))
     \/ app.measured /\ Fault /\ \E row \in TornRows : log' = Append(log, row)
  /\ UNCHANGED <<pool, count, lock, isr, rng, requests>>

(***************************************************************************)
(* run_benchmark's loops and the end of main.                              *)
(***************************************************************************)
Warning(cut) == [kind |-> "warn", cut |-> cut, iter |-> app.i]

\* Mutant: only an iteration that printed a row is warned about.
WarnOfRow(ret, cut) ==
  IF /\ ret # 0 /\ Len(log) > 0
     /\ Last(log).kind = "iter" /\ Last(log).cut = "whole" /\ Last(log).iter = app.i
    THEN <<Warning(cut)>> ELSE << >>

WarnOf(ret, cut) == IF ret # 0 THEN <<Warning(cut)>> ELSE << >>

After(i, n) == IF i + 1 < n THEN i + 1 ELSE 0

NextWarmup ==
  /\ At("out")
  /\ ~app.measured
  /\ app' = [app EXCEPT !.pc = IF app.i + 1 < Warmup THEN "create" ELSE FirstMeasured,
                        !.i = After(app.i, Warmup), !.measured = app.i + 1 >= Warmup]
  /\ UNCHANGED <<pool, count, lock, isr, rng, log, truth, requests, faults>>

\* A warning may be cut in its tag.  Without Wi-Fi, and when wifi_reconnect
\* fails, the loop is left.
NextIteration ==
  /\ At("out")
  /\ app.measured
  /\ \/ /\ \/ log' = log \o WarnOf(app.ret, "whole") /\ NoFault
           \/ app.ret # 0 /\ log' = log \o WarnOf(app.ret, "tag") /\ Fault
        /\ app' = [app EXCEPT !.pc = IF app.i + 1 < Iterations THEN "create" ELSE "end",
                              !.i = @ + 1]
     \/ /\ log' = log \o WarnOf(app.ret, "whole") \o <<[kind |-> "err", iter |-> app.i]>>
        /\ app' = [app EXCEPT !.pc = "end", !.i = @ + 1]
        /\ Fault
  /\ UNCHANGED <<pool, count, lock, isr, rng, truth, requests>>

AppStep == \/ Start \/ CreateSession \/ SessionCounts \/ ResetRng \/ TakePre \/ Connect
           \/ ReadResponse \/ ResponseComplete \/ NotInjected \/ Inject
           \/ TakePost \/ NextWarmup \/ NextIteration

\* [RENEWAL_END] is the last thing the firmware prints, if it had its device.
Done == (At("end") \/ At("exit")) /\ UNCHANGED vars

Next == \/ AppStep \/ SessionDraws \/ RngCall
        \/ OtherDraws \/ OtherCounts \/ RefillWork
        \/ IsrReads \/ IsrNested \/ IsrWrites
        \/ Done

\* The scheduler runs the benchmark thread and the holder of the mutex; an
\* interrupt handler ends.  Network calls return within the socket timeout.
Fairness == WF_vars(AppStep) /\ WF_vars(OtherCounts) /\ WF_vars(IsrWrites)

Spec == RenewalInit /\ [][Next]_vars
FairSpec == Spec /\ Fairness

(***************************************************************************)
(* parse_renewal_log.py.  Its lists are in the order of the file: here     *)
(* their entries keep the numbers of their lines.                          *)
(***************************************************************************)

\* int('') is a ValueError that nothing catches: there is no output at all.
ParseFails(lines) == \E k \in DOMAIN lines : lines[k].kind = "iter" /\ lines[k].cut = "empty"

\* A row with the fields of either format.
Readable(l) == l.kind = "iter" /\ l.cut \in {"whole", "base", "field"}

\* A row of the first format gets 0 for the fields it lacks.
RowOf(l) == IF l.cut = "whole" THEN l ELSE [l EXCEPT !.errors = 0, !.stamp = 0]

ParsedRows(lines) ==
  [k \in {j \in DOMAIN lines : Readable(lines[j]) /\ ~ParseFails(lines)} |-> RowOf(lines[k])]

Malformed(lines) == {k \in DOMAIN lines : lines[k].kind = "iter" /\ lines[k].cut = "short"}
Warnings(lines) == {k \in DOMAIN lines : lines[k].kind = "warn" /\ lines[k].cut = "whole"}

\* What add_derived_fields adds to each row, supply and debit in bytes and the
\* credit in bits; the times are left out.
AddDerivedFields(rows) ==
  [k \in DOMAIN rows |-> [supply |-> rows[k].hw + rows[k].ext,
                          creditDelta |-> rows[k].post - rows[k].pre,
                          outMinusSupply |-> rows[k].debit - (rows[k].hw + rows[k].ext)]]

Total(rows, field) == SumFunction([k \in DOMAIN rows |-> rows[k][field]])

\* summarize: totals over the rows that ended well.
OkRows(rows) == Restrict(rows, {k \in DOMAIN rows : rows[k].ret = 0})

Summarize(lines) ==
  LET rows == ParsedRows(lines)
      ok == OkRows(rows)
      n == Cardinality(DOMAIN ok)
  IN [logged |-> Cardinality(DOMAIN rows), ok |-> n, failed |-> Cardinality(DOMAIN rows) - n,
      debit |-> Total(ok, "debit"), hw |-> Total(ok, "hw"), ext |-> Total(ok, "ext"),
      accepted |-> Total(ok, "accepted"), rng |-> Total(ok, "rng"), errors |-> Total(ok, "errors"),
      delta |-> IF n = 0 THEN 0 ELSE ok[Max(DOMAIN ok)].post - ok[Min(DOMAIN ok)].pre]

-----------------------------------------------------------------------------
(***************************************************************************)
(* Properties.                                                             *)
(***************************************************************************)

\* The benchmark thread: where it is, its loop, its first snapshot, and what
\* its session got.
AppStates ==
  [pc: {"start", "exit", "create", "reset", "pre", "connect", "read", "inject", "post", "out", "end"},
   i: Nat, measured: BOOLEAN, pre: Counters, preCredit: 0..PoolBits,
   response: 0..MaxResponse, accepted: 0..EntropyBytes, ret: {0, -1}]

\* The lines of the console.
Lines ==
  [kind: {"iter"}, cut: {"whole", "field", "base"}, iter: Nat, ret: {0, -1},
   accepted: Nat, rng: Nat, errors: Nat, hw: Int, ext: Int, debit: Int, isr: Int,
   pre: 0..PoolBits, post: 0..PoolBits, stamp: {0, 1}, truth: Truths]
  \cup [kind: {"iter"}, cut: {"tag", "empty", "short"}, ret: {0, -1}]
  \cup [kind: {"warn"}, cut: {"whole", "tag"}, iter: Nat]
  \cup [kind: {"err"}, iter: Nat]

\* The pool's credit stays within the pool, the counters count, only a
\* thread that is at it holds the lock (driver, patch lines 31-36), and no
\* more than what was asked for is accepted from the network.
TypeOK ==
  /\ pool \in [credit: 0..PoolBits, refilling: BOOLEAN, enabled: BOOLEAN]
  /\ count \in Counters
  /\ lock \in [owner: {"none", "app", "other"}, kind: {"none", "thread", "fast"}]
  /\ lock.owner = "none" <=> lock.kind = "none"
  /\ isr \in Nat \cup {NoIsr}
  /\ rng \in [bytes: Nat, errors: Nat]
  /\ app \in AppStates
  /\ log \in Seq(Lines)
  /\ truth \in Truths
  /\ requests \in 0..MaxRequests
  /\ faults \in 0..MaxFaults

\* Whatever warm-up, failed sessions and other threads do in between, a row
\* the parser reads holds the supply, the debit and the RNG output of its own
\* session (main.c:368-408).  Interrupts that nest lose updates of the ISR
\* counter (patch line 84): the row has at most the truth, and not none of it.
RowsAreWindows ==
  \A k \in DOMAIN ParsedRows(log) :
    LET r == ParsedRows(log)[k] IN
    /\ <<r.hw, r.ext, r.debit, r.rng>> =
         <<r.truth.hw, r.truth.ext, r.truth.debit, r.truth.rng>>
    /\ r.isr \in 0..r.truth.isr
    /\ (r.isr = 0) <=> (r.truth.isr = 0)

\* parse_renewal_log.py:111-114 gives a row's credit change, in bits, and debit
\* minus supply, in bytes: while the pool was neither empty nor full they are
\* the same amount, because no draw is half done in a snapshot.  A row cut in
\* its 17th field passes for one of the first format (line 76), with a wrong
\* credit: what tells such rows is the timestamp 0 they get.
RowsBalance ==
  LET rows == ParsedRows(log)
      derived == AddDerivedFields(rows)
  IN \A k \in DOMAIN rows :
       ~rows[k].truth.clamped /\ rows[k].stamp # 0 =>
         derived[k].creditDelta = -(BitsPerByte * derived[k].outMinusSupply)

\* README.md:35,39-40: the driver's count of external bytes and the
\* firmware's count of accepted ones agree, in each row and in the summary,
\* whether the call succeeded, failed or did not happen.
AcceptedIsMixed ==
  /\ \A k \in DOMAIN ParsedRows(log) : ParsedRows(log)[k].accepted = ParsedRows(log)[k].ext
  /\ Summarize(log).accepted = Summarize(log).ext

\* Lines that lost their tag, and with it what they told of their session.
TagsLost(lines) ==
  {k \in DOMAIN lines : /\ lines[k].kind \in {"iter", "warn"}
                        /\ lines[k].cut = "tag"
                        /\ lines[k].kind = "iter" => lines[k].ret = 0}

\* A session that fails early has no row, and a torn row is not read
\* (parse_renewal_log.py:82, main.c:461): if the parser survives the log, every
\* measured session so far is an ok row, a warning of its failure, a malformed
\* row, or a line without its tag, exactly once.
FailuresAreTold ==
  app.measured /\ app.pc \in {"create", "end"} /\ ~ParseFails(log) =>
    /\ app.i = Summarize(log).ok + Cardinality(Warnings(log))
               + Cardinality({k \in Malformed(log) : log[k].ret = 0})
               + Cardinality(TagsLost(log))
    /\ Summarize(log).failed <= Cardinality(Warnings(log)) + Cardinality(TagsLost(log))

\* main always reaches [RENEWAL_END] (main.c:420-476), unless it has returned
\* for want of an entropy device (main.c:488): no failure of a session, of the
\* network or of the pool's hardware source holds it up.
BenchEnds == <>(app.pc \in {"end", "exit"})
=============================================================================
