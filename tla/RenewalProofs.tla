---------------------------- MODULE RenewalProofs -----------------------------
(***************************************************************************)
(* Proofs about EntropyRenewal: a row of the console holds what the pool   *)
(* lost and gained in the window of its own session, and every measured    *)
(* session is told exactly once.                                           *)
(***************************************************************************)
EXTENDS EntropyRenewal, FiniteSetTheorems, TLAPS

------------------------------------------------------------------------------
(* The inductive invariants. *)

\* The draw that is taken from the credit and not yet counted.
Held == IF lock.owner = "none" THEN 0 ELSE 1

\* Since the first snapshot, the counters moved as the history did, but for
\* the draw that is being made.
WindowCounts ==
  Window =>
    /\ count.hw - app.pre.hw = truth.hw
    /\ count.ext - app.pre.ext = truth.ext
    /\ count.debit - app.pre.debit + Held = truth.debit
    /\ rng.bytes = truth.rng

\* Since the first snapshot, the credit moved by what came in and went out,
\* unless the pool ran empty or full.
WindowCredit ==
  Window /\ ~truth.clamped =>
    pool.credit - app.preCredit = BitsPerByte * (truth.hw + truth.ext - truth.debit)

\* The ISR counter may lose interrupts that nest, and at most the nested
\* ones: what the outermost handler writes back counts at least itself.
WindowIsr ==
  Window =>
    /\ Running => /\ count.isr - app.pre.isr \in 0..truth.isr
                  /\ (count.isr - app.pre.isr = 0) <=> (truth.isr = 0)
    /\ ~Running => isr - app.pre.isr \in 0..(truth.isr - 1)

\* The wrapper's statistics start at 0, and nothing is accepted before it is
\* mixed into the pool.
SessionStarts ==
  /\ app.pc = "pre" => rng.bytes = 0 /\ app.accepted = 0
  /\ app.pc \in {"connect", "read", "inject"} => app.accepted = 0 /\ truth.ext = 0
  /\ app.pc = "post" => app.accepted = truth.ext
  /\ app.pc \in {"reset", "pre", "connect", "read", "inject"} => app.ret = 0

\* What a row says about its session.
RowIsTrue(r) ==
  /\ r.hw = r.truth.hw /\ r.ext = r.truth.ext
  /\ r.debit = r.truth.debit /\ r.rng = r.truth.rng
  /\ r.isr \in 0..r.truth.isr
  /\ (r.isr = 0) <=> (r.truth.isr = 0)
  /\ r.accepted = r.ext
  /\ ~r.truth.clamped /\ r.cut # "field" =>
       r.post - r.pre = BitsPerByte * (r.hw + r.ext - r.debit)

\* Every row that can be read is true of its window.
RowsTrue == \A k \in DOMAIN log : Readable(log[k]) => RowIsTrue(log[k])

\* Which loop the benchmark is in.
LoopInv ==
  /\ ~app.measured => log = <<>> /\ (app.pc \notin {"end", "exit"} => app.i < Warmup)
  /\ app.measured =>
       /\ app.i <= Iterations
       /\ app.pc \notin {"start", "end", "exit"} => app.i < Iterations
  /\ app.pc = "start" => app.i = 0 /\ (app.measured <=> Warmup = 0)

\* The lines of sessions that ended well, that are read and that are not, of
\* the read ones of sessions that failed, and the warnings.
OkLines == {l \in Lines : l.kind = "iter" /\ Readable(l) /\ l.ret = 0}
FailedLines == {l \in Lines : l.kind = "iter" /\ Readable(l) /\ l.ret # 0}
TornLines == {l \in Lines : l.kind = "iter" /\ ~Readable(l) /\ l.ret = 0}
WarnLines == {l \in Lines : l.kind = "warn"}

\* How many lines of a log are in S.
Places(lines, S) == {k \in DOMAIN lines : lines[k] \in S}
Many(lines, S) == Cardinality(Places(lines, S))

\* How many sessions the log told of.
Told == Many(log, OkLines) + Many(log, WarnLines) + Many(log, TornLines)

\* Every session so far is told once; between its row and its warning a
\* session that failed has a row already.
ToldOnce ==
  app.measured =>
    /\ app.pc # "out" => /\ app.i = Told
                         /\ Many(log, FailedLines) <= Many(log, WarnLines)
    /\ app.pc = "out" /\ app.ret = 0 =>
         /\ Told = app.i + 1
         /\ Many(log, FailedLines) <= Many(log, WarnLines)
    /\ app.pc = "out" /\ app.ret # 0 =>
         /\ Told = app.i
         /\ Many(log, FailedLines) <= Many(log, WarnLines) + 1
------------------------------------------------------------------------------
(* Type correctness. *)

\* What the constants are.
LEMMA Constants ==
    /\ Warmup \in Nat /\ Iterations \in Nat /\ InjectEvery \in Nat
    /\ MaxRequests \in Nat /\ MaxFaults \in Nat
    /\ EntropyBytes \in Nat \ {0} /\ MaxResponse \in Nat \ {0}
    /\ PoolMax \in Nat \ {0} /\ Threshold \in Nat \ {0}
    /\ EntropyBytes <= MaxResponse
    /\ PoolBits \in Nat \ {0} /\ BitsPerByte \in Nat \ {0} /\ BitsPerByte = 8
    /\ \A n \in 0..PoolMax : BitsPerByte * n \in 0..PoolBits
BY RenewalAssumption DEF PoolBits, BitsPerByte

\* The credit stays within the pool, and moves by what it is given unless
\* that would run it empty or full.
LEMMA CreditMoves ==
    ASSUME TypeOK, NEW d \in Int
    PROVE  /\ Credited(pool, d) \in [credit: 0..PoolBits, refilling: BOOLEAN, enabled: BOOLEAN]
           /\ Credited(pool, d).enabled = pool.enabled
           /\ Credited(pool, d).refilling = pool.refilling
           /\ pool.credit + d \in 0..PoolBits =>
                 Credited(pool, d).credit = pool.credit + d
<1>. DEFINE c == AtLeastZero(AtMostFull(pool.credit + d))
<1>1. pool \in [credit: 0..PoolBits, refilling: BOOLEAN, enabled: BOOLEAN]
  BY DEF TypeOK
<1>2. c \in 0..PoolBits /\ (pool.credit + d \in 0..PoolBits => c = pool.credit + d)
  BY <1>1, Constants DEF AtLeastZero, AtMostFull
<1>3. Credited(pool, d) = [pool EXCEPT !.credit = c]
  BY DEF Credited
<1>. HIDE DEF c
<1>. QED
  BY <1>1, <1>2, <1>3

\* The initial values have their types.
LEMMA TypeInit == RenewalInit => TypeOK
<1>. SUFFICES ASSUME RenewalInit
              PROVE  TypeOK
  OBVIOUS
<1>1. ZeroCount \in Counters /\ ZeroTruth \in Truths
  BY DEF ZeroCount, Counters, ZeroTruth, Truths
<1>2. <<>> \in Seq(Lines)
  OBVIOUS
<1>3. app \in AppStates
  <2>1. (Warmup = 0) \in BOOLEAN /\ 0 \in 0..PoolBits /\ 0 \in 0..MaxResponse /\ 0 \in 0..EntropyBytes
    BY Constants
  <2>. QED
    BY <1>1, <2>1 DEF RenewalInit, AppStates
<1>4. pool \in [credit: 0..PoolBits, refilling: BOOLEAN, enabled: BOOLEAN]
  BY Constants DEF RenewalInit
<1>5. /\ lock \in [owner: {"none", "app", "other"}, kind: {"none", "thread", "fast"}]
      /\ lock.owner = "none" <=> lock.kind = "none"
      /\ isr \in Nat \cup {NoIsr}
      /\ rng \in [bytes: Nat, errors: Nat]
      /\ requests \in 0..MaxRequests /\ faults \in 0..MaxFaults
  BY Constants DEF RenewalInit, Free, ZeroRng
<1>. QED
  BY <1>1, <1>2, <1>3, <1>4, <1>5 DEF RenewalInit, TypeOK

\* The parts of the state, by their types.
LEMMA Types ==
    ASSUME TypeOK
    PROVE  /\ pool \in [credit: 0..PoolBits, refilling: BOOLEAN, enabled: BOOLEAN]
           /\ count \in Counters /\ truth \in Truths /\ isr \in Nat \cup {-1}
           /\ lock \in [owner: {"none", "app", "other"}, kind: {"none", "thread", "fast"}]
           /\ rng \in [bytes: Nat, errors: Nat] /\ log \in Seq(Lines)
           /\ requests \in 0..MaxRequests /\ faults \in 0..MaxFaults
           /\ app.i \in Nat /\ app.measured \in BOOLEAN /\ app.pre \in Counters
           /\ app.preCredit \in 0..PoolBits /\ app.response \in 0..MaxResponse
           /\ app.accepted \in 0..EntropyBytes /\ app.ret \in {0, -1}
BY DEF TypeOK, NoIsr, AppStates

\* A fault is counted, up to their number.
LEMMA FaultType ==
    ASSUME TypeOK, Fault \/ NoFault
    PROVE  faults' \in 0..MaxFaults
<1>1. faults \in 0..MaxFaults /\ MaxFaults \in Nat
  BY Types, Constants
<1>. QED
  BY <1>1 DEF Fault, NoFault

\* A request is counted, up to their number.
LEMMA RequestType ==
    ASSUME TypeOK, requests < MaxRequests
    PROVE  requests + 1 \in 0..MaxRequests
<1>1. requests \in 0..MaxRequests /\ MaxRequests \in Nat
  BY Types, Constants
<1>. QED
  BY <1>1

\* The history of a draw, of a refill, of an injection, of an interrupt and
\* of a byte of the DRBG is one.
LEMMA TruthType ==
    ASSUME NEW t \in Truths, NEW n \in Nat, NEW P
    PROVE  /\ [t EXCEPT !.debit = @ + 1, !.clamped = @ \/ P] \in Truths
           /\ [t EXCEPT !.hw = @ + 1, !.clamped = @ \/ P] \in Truths
           /\ [t EXCEPT !.ext = @ + n, !.clamped = @ \/ P] \in Truths
           /\ [t EXCEPT !.isr = @ + 1] \in Truths
           /\ [t EXCEPT !.rng = @ + 1] \in Truths
<1>1. ASSUME NEW c \in BOOLEAN
      PROVE  /\ [t EXCEPT !.debit = @ + 1, !.clamped = c] \in Truths
             /\ [t EXCEPT !.hw = @ + 1, !.clamped = c] \in Truths
             /\ [t EXCEPT !.ext = @ + n, !.clamped = c] \in Truths
             /\ [t EXCEPT !.isr = @ + 1] \in Truths
             /\ [t EXCEPT !.rng = @ + 1] \in Truths
  <2>1. /\ t.debit + 1 \in Nat /\ t.hw + 1 \in Nat /\ t.ext + n \in Nat
        /\ t.isr + 1 \in Nat /\ t.rng + 1 \in Nat
    BY DEF Truths
  <2>2. ASSUME NEW m \in Nat
        PROVE  /\ [t EXCEPT !.debit = m, !.clamped = c] \in Truths
               /\ [t EXCEPT !.hw = m, !.clamped = c] \in Truths
               /\ [t EXCEPT !.ext = m, !.clamped = c] \in Truths
    BY DEF Truths
  <2>3. ASSUME NEW m \in Nat
        PROVE  [t EXCEPT !.isr = m] \in Truths /\ [t EXCEPT !.rng = m] \in Truths
    BY DEF Truths
  <2>. QED
    BY <2>1, <2>2, <2>3
<1>2. (t.clamped \/ P) \in BOOLEAN
  BY Zenon
<1>3. PICK c \in BOOLEAN : c = (t.clamped \/ P)
  BY <1>2, Zenon
<1>. QED
  BY <1>1, <1>3, Zenon

\* A note in the history keeps it one.
LEMMA NotedType ==
    ASSUME NEW t \in Truths, TypeOK
    PROVE  Noted(t) \in Truths
BY DEF Noted, TypeOK

\* A draw takes the lock and its credit.
LEMMA TypeExtract ==
    ASSUME TypeOK, NEW owner \in {"app", "other"}, NEW kind \in {"thread", "fast"},
           Extract(owner, kind), UNCHANGED <<count, isr, rng, app, log, faults>>
    PROVE  TypeOK'
<1>1. pool' \in [credit: 0..PoolBits, refilling: BOOLEAN, enabled: BOOLEAN]
  <2>1. -BitsPerByte \in Int
    BY Constants
  <2>. QED
    BY <2>1, CreditMoves DEF Extract
<1>2. truth' \in Truths
  <2>1. truth \in Truths /\ 0 \in Nat
    BY Types
  <2>2. [truth EXCEPT !.debit = @ + 1, !.clamped = @ \/ pool.credit < BitsPerByte] \in Truths
    BY <2>1, TruthType
  <2>. QED
    BY <2>2, NotedType DEF Extract
<1>3. lock' \in [owner: {"none", "app", "other"}, kind: {"none", "thread", "fast"}]
      /\ (lock.owner = "none" <=> lock.kind = "none")'
  BY DEF Extract
<1>4. requests' \in 0..MaxRequests
  BY RequestType DEF Extract
<1>. QED
  BY <1>1, <1>2, <1>3, <1>4 DEF TypeOK

\* What is counted of a draw.
LEMMA CountsOfDraw ==
    ASSUME TypeOK, NEW owner \in {"app", "other"}, CountExtract(owner)
    PROVE  /\ count' \in Counters
           /\ count'.debit = count.debit + 1
           /\ count'.hw = count.hw /\ count'.ext = count.ext /\ count'.isr = count.isr
<1>1. count \in Counters /\ lock.kind \in {"thread", "fast"}
  BY DEF TypeOK, CountExtract
<1>2. CASE lock.kind = "thread"
  <2>1. count' = [count EXCEPT !.debit = @ + 1, !["thread"] = @ + 1]
    BY <1>2 DEF CountExtract
  <2>2. count' = [count EXCEPT !.debit = @ + 1, !.thread = @ + 1]
    BY <2>1
  <2>3. count.debit + 1 \in Nat /\ count.thread + 1 \in Nat
    BY <1>1 DEF Counters
  <2>. QED
    BY <1>1, <2>2, <2>3 DEF Counters
<1>3. CASE lock.kind = "fast"
  <2>1. count' = [count EXCEPT !.debit = @ + 1, !["fast"] = @ + 1]
    BY <1>3 DEF CountExtract
  <2>2. count' = [count EXCEPT !.debit = @ + 1, !.fast = @ + 1]
    BY <2>1
  <2>3. count.debit + 1 \in Nat /\ count.fast + 1 \in Nat
    BY <1>1 DEF Counters
  <2>. QED
    BY <1>1, <2>2, <2>3 DEF Counters
<1>. QED
  BY <1>1, <1>2, <1>3

\* An extraction keeps the types.
LEMMA TypeCountExtract ==
    ASSUME TypeOK, NEW owner \in {"app", "other"}, CountExtract(owner),
           UNCHANGED <<isr, rng, app, log, truth, requests, faults>>
    PROVE  TypeOK'
<1>1. count' \in Counters
  BY CountsOfDraw
<1>2. pool' \in [credit: 0..PoolBits, refilling: BOOLEAN, enabled: BOOLEAN]
  <2>1. pool \in [credit: 0..PoolBits, refilling: BOOLEAN, enabled: BOOLEAN]
    BY DEF TypeOK
  <2>2. PICK b \in BOOLEAN : pool' = [pool EXCEPT !.refilling = b]
    BY DEF CountExtract
  <2>. QED
    BY <2>1, <2>2
<1>3. lock' = Free
  BY DEF CountExtract
<1>. QED
  BY <1>1, <1>2, <1>3 DEF TypeOK, Free

\* A refill by the work queue keeps the types.
LEMMA TypeRefill == TypeOK /\ RefillWork => TypeOK'
<1>. SUFFICES ASSUME TypeOK, RefillWork
              PROVE  TypeOK'
  OBVIOUS
<1>1. /\ pool \in [credit: 0..PoolBits, refilling: BOOLEAN, enabled: BOOLEAN]
      /\ count \in Counters /\ truth \in Truths
  BY DEF TypeOK
<1>2. pool' \in [credit: 0..PoolBits, refilling: BOOLEAN, enabled: BOOLEAN]
  <2>1. pool' = [pool EXCEPT !.refilling = FALSE]
        \/ pool' = [Credited(pool, BitsPerByte) EXCEPT !.refilling = FALSE]
    BY DEF RefillWork
  <2>2. Credited(pool, BitsPerByte) \in [credit: 0..PoolBits, refilling: BOOLEAN, enabled: BOOLEAN]
    BY CreditMoves, Constants
  <2>. QED
    BY <1>1, <2>1, <2>2
<1>3. count' \in Counters
  BY <1>1 DEF RefillWork, Counters
<1>4. truth' \in Truths
  <2>1. [truth EXCEPT !.hw = @ + 1,
                      !.clamped = @ \/ pool.credit + BitsPerByte > PoolBits] \in Truths
    BY <1>1, TruthType
  <2>. QED
    BY <1>1, <2>1, NotedType DEF RefillWork
<1>5. faults' \in 0..MaxFaults
  BY FaultType DEF RefillWork
<1>. QED
  BY <1>2, <1>3, <1>4, <1>5 DEF TypeOK, RefillWork

\* So do reads and writes of the counter in the interrupt handler, nested or not.
LEMMA TypeIsr == TypeOK /\ (IsrReads \/ IsrNested \/ IsrWrites) => TypeOK'
<1>. SUFFICES ASSUME TypeOK, IsrReads \/ IsrNested \/ IsrWrites
              PROVE  TypeOK'
  OBVIOUS
<1>1. count \in Counters /\ truth \in Truths /\ isr \in Nat \cup {-1}
  BY DEF TypeOK, NoIsr
<1>2. [truth EXCEPT !.isr = @ + 1] \in Truths
  BY <1>1 DEF Truths
<1>3. truth' \in Truths
  BY <1>1, <1>2, NotedType DEF IsrReads, IsrNested, IsrWrites
<1>4. count' \in Counters
  BY <1>1 DEF IsrReads, IsrNested, IsrWrites, Counters, Running, NoIsr
<1>5. isr' \in Nat \cup {NoIsr}
  BY <1>1 DEF IsrReads, IsrNested, IsrWrites, Counters, Running, NoIsr
<1>6. requests' \in 0..MaxRequests
  BY RequestType, Types DEF IsrReads, IsrNested, IsrWrites
<1>. QED
  BY <1>3, <1>4, <1>5, <1>6 DEF TypeOK, IsrReads, IsrNested, IsrWrites

\* So do the steps of a session before and after the injection.
LEMMA TypeSession ==
    ASSUME TypeOK,
           Start \/ CreateSession \/ ResetRng \/ Connect \/ ReadResponse \/ ResponseComplete \/ NotInjected
    PROVE  TypeOK'
<1>1. /\ app \in AppStates /\ rng \in [bytes: Nat, errors: Nat]
      /\ 0 \in 0..MaxResponse /\ 0 \in 0..EntropyBytes /\ MaxResponse \in Nat
  BY Constants DEF TypeOK
<1>2. app' \in AppStates
  <2>1. CASE Start \/ CreateSession
    BY <1>1, <2>1 DEF AppStates, Start, FirstMeasured, CreateSession
  <2>3. CASE ResetRng
    BY <1>1, <2>3 DEF AppStates, ResetRng
  <2>4. CASE Connect
    BY <1>1, <2>4 DEF AppStates, Connect
  <2>5. CASE ResponseComplete \/ NotInjected
    BY <1>1, <2>5 DEF AppStates, ResponseComplete, NotInjected
  <2>2. CASE ReadResponse
    <3>1. \A n \in 1..(MaxResponse - app.response) : app.response + n \in 0..MaxResponse
      BY <1>1 DEF AppStates
    <3>. QED
      BY <1>1, <2>2, <3>1 DEF AppStates, ReadResponse
  <2>. QED
    BY <2>1, <2>2, <2>3, <2>4, <2>5
<1>3. faults' \in 0..MaxFaults
  <2>1. Fault \/ NoFault
    BY DEF Start, CreateSession, ResetRng, Connect, ReadResponse, ResponseComplete, NotInjected, NoFault
  <2>. QED
    BY <2>1, FaultType
<1>4. rng' \in [bytes: Nat, errors: Nat]
  BY <1>1 DEF Start, CreateSession, ResetRng, Connect, ReadResponse, ResponseComplete, NotInjected, ZeroRng
<1>5. UNCHANGED <<pool, count, lock, isr, log, truth, requests>>
  BY DEF Start, CreateSession, ResetRng, Connect, ReadResponse, ResponseComplete, NotInjected
<1>. QED
  BY <1>2, <1>3, <1>4, <1>5 DEF TypeOK

\* So does the snapshot before the call.
LEMMA TypeTakePre == TypeOK /\ TakePre => TypeOK'
<1>. SUFFICES ASSUME TypeOK, TakePre
              PROVE  TypeOK'
  OBVIOUS
<1>1. app \in AppStates /\ count \in Counters /\ pool.credit \in 0..PoolBits
  BY DEF TypeOK
<1>2. app' \in AppStates
  BY <1>1 DEF AppStates, TakePre
<1>3. truth' \in Truths
  BY DEF TakePre, ZeroTruth, Truths
<1>. QED
  BY <1>2, <1>3 DEF TypeOK, TakePre

\* So does the call for random bytes.
LEMMA TypeRng == TypeOK /\ RngCall => TypeOK'
<1>. SUFFICES ASSUME TypeOK, RngCall
              PROVE  TypeOK'
  OBVIOUS
<1>1. truth \in Truths /\ rng \in [bytes: Nat, errors: Nat]
  BY DEF TypeOK
<1>2. truth' \in Truths
  BY <1>1, TruthType, NotedType DEF RngCall
<1>3. rng' \in [bytes: Nat, errors: Nat]
  BY <1>1 DEF RngCall
<1>4. faults' \in 0..MaxFaults
  BY FaultType DEF RngCall
<1>. QED
  BY <1>2, <1>3, <1>4 DEF TypeOK, RngCall

\* What is mixed is no more than what was asked for.
LEMMA PayloadType ==
    ASSUME TypeOK
    PROVE  Payload(app.response) \in 0..EntropyBytes
<1>1. app.response \in 0..MaxResponse /\ EntropyBytes \in Nat /\ MaxResponse \in Nat
  BY Types, Constants
<1>. QED
  BY <1>1 DEF Payload

\* So does the injection.
LEMMA TypeInject == TypeOK /\ Inject => TypeOK'
<1>. SUFFICES ASSUME TypeOK, Inject
              PROVE  TypeOK'
  OBVIOUS
<1>1. PICK n \in 0..EntropyBytes : n = Payload(app.response)
  BY PayloadType
<1>2. n \in Nat /\ n \in Int /\ app \in AppStates /\ count \in Counters /\ truth \in Truths
  BY <1>1, Constants DEF TypeOK
<1>3. app' \in AppStates
  <2>1. 0 \in 0..EntropyBytes
    BY Constants
  <2>2. app' = Accept(n, TRUE) \/ app' = Accept(n, FALSE)
    BY <1>1 DEF Inject
  <2>. QED
    BY <1>1, <1>2, <2>1, <2>2 DEF AppStates, Accept
<1>4. truth' \in Truths
  BY <1>1, <1>2, TruthType, NotedType DEF Inject
<1>5. count' \in Counters
  <2>1. count' = count \/ count' = [count EXCEPT !.ext = @ + n]
    BY <1>1 DEF Inject
  <2>2. count.ext + n \in Nat
    BY <1>2 DEF Counters
  <2>. QED
    BY <1>2, <2>1, <2>2 DEF Counters
<1>6. pool' \in [credit: 0..PoolBits, refilling: BOOLEAN, enabled: BOOLEAN]
  <2>1. BitsPerByte * n \in Int
    BY <1>2, Constants
  <2>2. Credited(pool, BitsPerByte * n) \in [credit: 0..PoolBits, refilling: BOOLEAN,
                                             enabled: BOOLEAN]
    BY <2>1, CreditMoves
  <2>. QED
    BY <1>1, <2>2, Types DEF Inject
<1>7. faults' \in 0..MaxFaults
  BY FaultType DEF Inject
<1>. QED
  BY <1>3, <1>4, <1>5, <1>6, <1>7 DEF TypeOK, Inject

\* What is left of a credit is one.
LEMMA FirstDigitsType ==
    ASSUME NEW n \in 0..PoolBits
    PROVE  FirstDigits(n) \subseteq 0..PoolBits
<1>1. PoolBits \in Nat
  BY Constants
<1>2. /\ n \div 10 \in 0..PoolBits /\ n \div 100 \in 0..PoolBits /\ n \div 1000 \in 0..PoolBits
  BY <1>1
<1>. QED
  BY <1>2 DEF FirstDigits

\* A row with its fields is a line.
LEMMA RowType ==
    ASSUME TypeOK, NEW cut \in {"whole", "field", "base"}, NEW post \in 0..PoolBits
    PROVE  /\ Row(cut, post) \in Lines
           /\ Row(cut, post).kind = "iter" /\ Row(cut, post).cut = cut
           /\ Row(cut, post).ret = app.ret
<1>1. /\ app.i \in Nat /\ app.ret \in {0, -1} /\ app.accepted \in Nat
      /\ rng.bytes \in Nat /\ rng.errors \in Nat
      /\ count.hw - app.pre.hw \in Int /\ count.ext - app.pre.ext \in Int
      /\ count.debit - app.pre.debit \in Int /\ count.isr - app.pre.isr \in Int
      /\ app.preCredit \in 0..PoolBits /\ truth \in Truths
  <2>1. count \in Counters /\ app.pre \in Counters
    BY Types
  <2>2. /\ count.hw - app.pre.hw \in Int /\ count.ext - app.pre.ext \in Int
        /\ count.debit - app.pre.debit \in Int /\ count.isr - app.pre.isr \in Int
    BY <2>1 DEF Counters
  <2>3. app.accepted \in Nat
    BY Types, Constants
  <2>. QED
    BY <2>2, <2>3, Types
<1>. QED
  BY <1>1 DEF Row, Lines

\* The lines that a row can become: with its fields, its last one whole or not,
\* or with nothing that is read.
LoggedRow(l) ==
  \/ \E cut \in {"whole", "base"} : l = Row(cut, pool.credit)
  \/ \E post \in 0..PoolBits : l = Row("field", post)
  \/ l \in [kind: {"iter"}, cut: {"tag", "empty", "short"}, ret: {app.ret}]

\* Each of them is a line of its session.
LEMMA LoggedRowType ==
    ASSUME TypeOK, NEW l, LoggedRow(l)
    PROVE  l \in Lines /\ l.kind = "iter" /\ l.ret = app.ret
<1>1. pool.credit \in 0..PoolBits /\ app.ret \in {0, -1}
  BY Types
<1>2. CASE l \in [kind: {"iter"}, cut: {"tag", "empty", "short"}, ret: {app.ret}]
  BY <1>1, <1>2 DEF Lines
<1>. QED
  BY <1>1, <1>2, RowType DEF LoggedRow

\* What the end of a session does to the log and to the thread.
LEMMA PostSteps ==
    ASSUME TypeOK, TakePost
    PROVE  /\ faults' \in 0..MaxFaults
           /\ \/ ~app.measured /\ log' = log
              \/ app.measured /\ \E l : LoggedRow(l) /\ log' = Append(log, l)
<1>1. faults' \in 0..MaxFaults
  BY FaultType DEF TakePost
<1>2. ASSUME NEW l \in TornRows
      PROVE  LoggedRow(l)
  <2>1. FirstDigits(pool.credit) \subseteq 0..PoolBits
    BY FirstDigitsType, Types
  <2>. QED
    BY <1>2, <2>1 DEF TornRows, LoggedRow
<1>3. LoggedRow(Row("whole", pool.credit))
  BY DEF LoggedRow
<1>. QED
  BY <1>1, <1>2, <1>3 DEF TakePost

\* So does the snapshot after it, which writes the row.
LEMMA TypeTakePost == TypeOK /\ TakePost => TypeOK'
<1>. SUFFICES ASSUME TypeOK, TakePost
              PROVE  TypeOK'
  OBVIOUS
<1>1. app \in AppStates /\ log \in Seq(Lines)
  BY DEF TypeOK
<1>2. ZeroCount \in Counters /\ ZeroTruth \in Truths /\ 0 \in 0..PoolBits
  BY Constants DEF ZeroCount, Counters, ZeroTruth, Truths
<1>3. app' \in AppStates
  BY <1>1, <1>2 DEF AppStates, TakePost
<1>4. log' \in Seq(Lines)
  BY <1>1, PostSteps, LoggedRowType
<1>. QED
  BY <1>2, <1>3, <1>4, PostSteps DEF TypeOK, TakePost

\* What the loop of the measured iterations adds to the log: a warning of a
\* session that failed, and an error when Wi-Fi does not come back.
LEMMA LoopLines ==
    ASSUME TypeOK, NextIteration
    PROVE  \E w \in Lines, e \in Lines :
             /\ w.kind = "warn" /\ e.kind = "err"
             /\ \/ app.ret = 0 /\ log' \in {log, Append(log, e)}
                \/ app.ret # 0 /\ log' \in {Append(log, w), Append(Append(log, w), e)}
<1>. DEFINE e == [kind |-> "err", iter |-> app.i]
<1>1. app.i \in Nat /\ log \in Seq(Lines)
  BY Types
<1>2. /\ e \in Lines /\ e.kind = "err"
      /\ \A cut \in {"whole", "tag"} : Warning(cut) \in Lines /\ Warning(cut).kind = "warn"
  BY <1>1 DEF Warning, Lines
<1>3. \A l \in Lines, s \in Seq(Lines) : s \o <<l>> = Append(s, l) /\ s \o <<>> = s
  OBVIOUS
<1>4. PICK cut \in {"whole", "tag"} :
         log' \in {log \o WarnOf(app.ret, cut), (log \o WarnOf(app.ret, cut)) \o <<e>>}
  BY DEF NextIteration
<1>5. CASE app.ret = 0
  <2>1. WarnOf(app.ret, cut) = <<>>
    BY <1>5 DEF WarnOf
  <2>. HIDE DEF e
  <2>2. log' \in {log, Append(log, e)}
    BY <1>1, <1>2, <1>3, <1>4, <2>1
  <2>. QED
    BY <1>2, <1>5, <2>2
<1>6. CASE app.ret # 0
  <2>1. WarnOf(app.ret, cut) = <<Warning(cut)>>
    BY <1>6 DEF WarnOf
  <2>. HIDE DEF e
  <2>2. Append(log, Warning(cut)) \in Seq(Lines)
    BY <1>1, <1>2
  <2>3. log \o <<Warning(cut)>> = Append(log, Warning(cut))
    BY <1>1, <1>2, <1>3
  <2>4. Append(log, Warning(cut)) \o <<e>> = Append(Append(log, Warning(cut)), e)
    BY <1>2, <1>3, <2>2
  <2>. QED
    BY <1>2, <1>4, <1>6, <2>1, <2>3, <2>4
<1>. QED
  BY <1>5, <1>6

\* So do the two loops.
LEMMA TypeLoops == TypeOK /\ (NextWarmup \/ NextIteration) => TypeOK'
<1>. SUFFICES ASSUME TypeOK, NextWarmup \/ NextIteration
              PROVE  TypeOK'
  OBVIOUS
<1>1. app \in AppStates /\ log \in Seq(Lines) /\ Warmup \in Nat
  BY Constants DEF TypeOK
<1>2. app' \in AppStates
  <2>1. CASE NextWarmup
    <3>1. (app.i + 1 >= Warmup) \in BOOLEAN
      BY <1>1 DEF AppStates
    <3>2. PICK b \in BOOLEAN : b = (app.i + 1 >= Warmup)
      BY <3>1, Zenon
    <3>3. After(app.i, Warmup) \in Nat
      BY <1>1 DEF AppStates, After
    <3>4. PICK n \in Nat : n = After(app.i, Warmup)
      BY <3>3
    <3>5. PICK pc \in {"create", "end"} :
             app' = [app EXCEPT !.pc = pc, !.i = After(app.i, Warmup), !.measured = app.i + 1 >= Warmup]
      BY <2>1 DEF NextWarmup, FirstMeasured
    <3>6. app' = [app EXCEPT !.pc = pc, !.i = n, !.measured = b]
      BY <3>2, <3>4, <3>5, Zenon
    <3>. QED
      BY <1>1, <3>6 DEF AppStates
  <2>2. CASE NextIteration
    <3>1. app.i + 1 \in Nat
      BY <1>1 DEF AppStates
    <3>2. PICK n \in Nat : n = app.i + 1
      BY <3>1
    <3>3. PICK pc \in {"create", "end"} : app' = [app EXCEPT !.pc = pc, !.i = n]
      BY <2>2, <3>2 DEF NextIteration
    <3>. QED
      BY <1>1, <3>3 DEF AppStates
  <2>. QED
    BY <2>1, <2>2
<1>3. log' \in Seq(Lines)
  <2>1. CASE NextWarmup
    BY <1>1, <2>1 DEF NextWarmup
  <2>2. CASE NextIteration
    <3>1. \A l \in Lines, s \in Seq(Lines) : Append(s, l) \in Seq(Lines)
      OBVIOUS
    <3>. QED
      BY <1>1, <2>2, <3>1, LoopLines
  <2>. QED
    BY <2>1, <2>2
<1>4. faults' \in 0..MaxFaults
  BY FaultType DEF NextWarmup, NextIteration, NoFault
<1>. QED
  BY <1>2, <1>3, <1>4 DEF TypeOK, NextWarmup, NextIteration

\* Every step keeps the types.
LEMMA TypeStep == TypeOK /\ [Next]_vars => TypeOK'
<1>. SUFFICES ASSUME TypeOK, [Next]_vars
              PROVE  TypeOK'
  OBVIOUS
<1>1. CASE AppStep
  BY <1>1, TypeSession, TypeCountExtract, TypeTakePre, TypeInject, TypeTakePost, TypeLoops
     DEF AppStep, SessionCounts
<1>2. CASE SessionDraws \/ OtherDraws
  BY <1>2, TypeExtract DEF SessionDraws, OtherDraws
<1>3. CASE OtherCounts
  BY <1>3, TypeCountExtract DEF OtherCounts
<1>4. CASE RngCall \/ RefillWork \/ IsrReads \/ IsrNested \/ IsrWrites
  BY <1>4, TypeRng, TypeRefill, TypeIsr
<1>5. CASE UNCHANGED vars
  BY <1>5 DEF vars, TypeOK
<1>. QED
  BY <1>1, <1>2, <1>3, <1>4, <1>5 DEF Next, Done

\* Every variable keeps its type: the credit stays within the pool, and no
\* more than what was asked for is accepted from the network.
THEOREM RenewalTypeCorrect == Spec => []TypeOK
<1>1. RenewalInit => TypeOK
  BY TypeInit
<1>2. TypeOK /\ [Next]_vars => TypeOK'
  BY TypeStep
<1>. QED
  BY <1>1, <1>2, PTL DEF Spec
------------------------------------------------------------------------------
(* The window between the two snapshots. *)

\* The inductive invariant of the window between the two snapshots.
WindowInv == WindowCounts /\ WindowCredit /\ WindowIsr /\ SessionStarts

\* Before the first session nothing was counted.
LEMMA WindowInit == RenewalInit => WindowInv
<1>. SUFFICES ASSUME RenewalInit
              PROVE  WindowInv
  OBVIOUS
<1>1. app.pc = "start"
  BY DEF RenewalInit
<1>2. ~Window
  BY <1>1 DEF Window
<1>. QED
  BY <1>1, <1>2 DEF WindowInv, WindowCounts, WindowCredit, WindowIsr, SessionStarts

\* What a note of the history does to it.
LEMMA NotedFields ==
    ASSUME TypeOK, NEW t \in Truths, truth' = Noted(t)
    PROVE  /\ Window => truth' = t
           /\ ~Window => truth' = truth
BY DEF Noted

\* The numbers that the windows speak of.
LEMMA Numbers ==
    ASSUME TypeOK
    PROVE  /\ count.hw \in Nat /\ count.ext \in Nat /\ count.debit \in Nat /\ count.isr \in Nat
           /\ app.pre.hw \in Nat /\ app.pre.ext \in Nat /\ app.pre.debit \in Nat
           /\ app.pre.isr \in Nat
           /\ truth.hw \in Nat /\ truth.ext \in Nat /\ truth.debit \in Nat
           /\ truth.isr \in Nat /\ truth.rng \in Nat /\ truth.clamped \in BOOLEAN
           /\ pool.credit \in 0..PoolBits /\ app.preCredit \in 0..PoolBits
           /\ rng.bytes \in Nat /\ isr \in Nat \cup {-1}
           /\ PoolBits \in Nat /\ BitsPerByte = 8
<1>1. count \in Counters /\ app.pre \in Counters /\ truth \in Truths
  BY Types
<1>. QED
  BY <1>1, Types, Constants DEF Counters, Truths

\* A draw: the credit is taken, the counting is still to come.
LEMMA WindowExtract ==
    ASSUME TypeOK, WindowInv, NEW owner \in {"app", "other"}, NEW kind \in {"thread", "fast"},
           Extract(owner, kind), UNCHANGED <<count, isr, rng, app, log, faults>>
    PROVE  WindowInv'
<1>1. /\ truth \in Truths /\ Window' = Window /\ Running' = Running
  BY Types DEF Window, Running
<1>2. Held = 0 /\ Held' = 1
  BY DEF Held, Extract, LockFree, Free
<1>3. /\ truth'.hw = truth.hw /\ truth'.ext = truth.ext
      /\ truth'.isr = truth.isr /\ truth'.rng = truth.rng
      /\ Window => /\ truth'.debit = truth.debit + 1
                   /\ ~truth'.clamped => ~truth.clamped /\ ~(pool.credit < BitsPerByte)
  BY <1>1 DEF Extract, Noted, Truths
<1>4. ~(pool.credit < BitsPerByte) => pool'.credit = pool.credit - BitsPerByte
  <2>1. /\ -BitsPerByte \in Int
        /\ ~(pool.credit < BitsPerByte) => pool.credit + (-BitsPerByte) \in 0..PoolBits
    BY Numbers
  <2>2. pool' = Credited(pool, -BitsPerByte)
    BY DEF Extract
  <2>3. ~(pool.credit < BitsPerByte) =>
          Credited(pool, -BitsPerByte).credit = pool.credit + (-BitsPerByte)
    BY <2>1, CreditMoves
  <2>4. pool.credit + (-BitsPerByte) = pool.credit - BitsPerByte
    BY Numbers
  <2>. QED
    BY <2>2, <2>3, <2>4
<1>5. WindowCounts'
  BY <1>1, <1>2, <1>3, Numbers DEF WindowInv, WindowCounts
<1>6. WindowCredit'
  BY <1>1, <1>3, <1>4, Numbers DEF WindowInv, WindowCredit
<1>7. WindowIsr'
  BY <1>1, <1>3 DEF WindowInv, WindowIsr
<1>8. SessionStarts'
  BY <1>3 DEF WindowInv, SessionStarts
<1>. QED
  BY <1>5, <1>6, <1>7, <1>8 DEF WindowInv

\* The counting of a draw, before the lock is released.
LEMMA WindowCountExtract ==
    ASSUME TypeOK, WindowInv, NEW owner \in {"app", "other"}, CountExtract(owner),
           UNCHANGED <<isr, rng, app, log, truth, requests, faults>>
    PROVE  WindowInv'
<1>1. Window' = Window /\ Running' = Running
  BY DEF Window, Running
<1>2. Held = 1 /\ Held' = 0
  BY DEF Held, CountExtract, Free
<1>3. /\ count'.debit = count.debit + 1
      /\ count'.hw = count.hw /\ count'.ext = count.ext /\ count'.isr = count.isr
  BY CountsOfDraw
<1>4. pool'.credit = pool.credit
  BY Types DEF CountExtract
<1>5. WindowCounts'
  BY <1>1, <1>2, <1>3, Numbers DEF WindowInv, WindowCounts
<1>6. WindowCredit'
  BY <1>1, <1>4 DEF WindowInv, WindowCredit
<1>7. WindowIsr'
  BY <1>1, <1>3 DEF WindowInv, WindowIsr
<1>8. SessionStarts'
  BY DEF WindowInv, SessionStarts
<1>. QED
  BY <1>5, <1>6, <1>7, <1>8 DEF WindowInv

\* A refill credits and counts in one step, under the lock.
LEMMA WindowRefill == TypeOK /\ WindowInv /\ RefillWork => WindowInv'
<1>. SUFFICES ASSUME TypeOK, WindowInv, RefillWork
              PROVE  WindowInv'
  OBVIOUS
<1>1. /\ truth \in Truths /\ count \in Counters /\ Window' = Window /\ Running' = Running
      /\ Held' = Held
      /\ UNCHANGED <<isr, rng, app>>
  BY Types DEF Window, Running, RefillWork, Held
<1>2. CASE UNCHANGED <<count, truth>> /\ pool' = [pool EXCEPT !.refilling = FALSE]
  <2>1. pool'.credit = pool.credit
    BY <1>2, Types
  <2>. QED
    BY <1>1, <1>2, <2>1
       DEF WindowInv, WindowCounts, WindowCredit, WindowIsr, SessionStarts
<1>3. CASE /\ pool' = [Credited(pool, BitsPerByte) EXCEPT !.refilling = FALSE]
           /\ count' = [count EXCEPT !.hw = @ + 1]
           /\ truth' = Noted([truth EXCEPT !.hw = @ + 1,
                                           !.clamped = @ \/ pool.credit + BitsPerByte > PoolBits])
  <2>1. /\ count'.hw = count.hw + 1 /\ count'.ext = count.ext
        /\ count'.debit = count.debit /\ count'.isr = count.isr
    BY <1>1, <1>3 DEF Counters
  <2>2. /\ truth'.debit = truth.debit /\ truth'.ext = truth.ext
        /\ truth'.isr = truth.isr /\ truth'.rng = truth.rng
        /\ Window => /\ truth'.hw = truth.hw + 1
                     /\ ~truth'.clamped =>
                          ~truth.clamped /\ ~(pool.credit + BitsPerByte > PoolBits)
    BY <1>1, <1>3 DEF Noted, Truths
  <2>3. ~(pool.credit + BitsPerByte > PoolBits) => pool'.credit = pool.credit + BitsPerByte
    <3>1. /\ BitsPerByte \in Int
          /\ ~(pool.credit + BitsPerByte > PoolBits) => pool.credit + BitsPerByte \in 0..PoolBits
      BY Numbers
    <3>. QED
      BY <1>3, <3>1, CreditMoves
  <2>4. WindowCounts'
    BY <1>1, <2>1, <2>2, Numbers DEF WindowInv, WindowCounts
  <2>5. WindowCredit'
    BY <1>1, <2>2, <2>3, Numbers DEF WindowInv, WindowCredit
  <2>6. WindowIsr'
    BY <1>1, <2>1, <2>2 DEF WindowInv, WindowIsr
  <2>7. SessionStarts'
    BY <1>1, <2>2 DEF WindowInv, SessionStarts
  <2>. QED
    BY <2>4, <2>5, <2>6, <2>7 DEF WindowInv
<1>. QED
  BY <1>2, <1>3 DEF RefillWork

\* Interrupts: the handler reads the counter, nested ones count behind its
\* back, and it writes back what it read and one more.
LEMMA WindowIsrSteps ==
    ASSUME TypeOK, WindowInv, IsrReads \/ IsrNested \/ IsrWrites
    PROVE  WindowInv'
<1>1. /\ truth \in Truths /\ count \in Counters /\ Window' = Window
      /\ UNCHANGED <<pool, lock, rng, app>> /\ Held' = Held
  BY Types DEF Window, IsrReads, IsrNested, IsrWrites, Held
<1>2. /\ truth'.hw = truth.hw /\ truth'.ext = truth.ext
      /\ truth'.debit = truth.debit /\ truth'.rng = truth.rng
      /\ truth'.clamped = truth.clamped
  BY <1>1 DEF IsrReads, IsrNested, IsrWrites, Noted, Truths
<1>3. count'.hw = count.hw /\ count'.ext = count.ext /\ count'.debit = count.debit
  BY <1>1 DEF IsrReads, IsrNested, IsrWrites, Counters
<1>4. WindowCounts' /\ WindowCredit' /\ SessionStarts'
  BY <1>1, <1>2, <1>3 DEF WindowInv, WindowCounts, WindowCredit, SessionStarts
<1>5. WindowIsr'
  <2>. SUFFICES ASSUME Window
                PROVE  /\ Running' => /\ (count.isr - app.pre.isr \in 0..truth.isr)'
                                      /\ ((count.isr - app.pre.isr = 0) <=> (truth.isr = 0))'
                       /\ ~Running' => (isr - app.pre.isr \in 0..(truth.isr - 1))'
    BY <1>1 DEF WindowIsr
  <2>1. /\ Running => /\ count.isr - app.pre.isr \in 0..truth.isr
                      /\ (count.isr - app.pre.isr = 0) <=> (truth.isr = 0)
        /\ ~Running => isr - app.pre.isr \in 0..(truth.isr - 1)
    BY DEF WindowInv, WindowIsr
  <2>2. Running <=> isr = -1
    BY DEF Running, NoIsr
  <2>3. Running' <=> isr' = -1
    BY DEF Running, NoIsr
  <2>4. CASE IsrReads
    <3>1. isr' = count.isr /\ truth'.isr = truth.isr + 1 /\ Running /\ app' = app
      BY <1>1, <2>4 DEF IsrReads, Noted, Truths
    <3>. QED
      BY <2>1, <2>3, <3>1, Numbers
  <2>5. CASE IsrNested
    <3>1. isr' = isr /\ truth'.isr = truth.isr + 1 /\ ~Running /\ app' = app
      BY <1>1, <2>5 DEF IsrNested, Noted, Truths
    <3>. QED
      BY <2>1, <2>2, <2>3, <3>1, Numbers
  <2>6. CASE IsrWrites
    <3>1. isr' = -1 /\ truth' = truth /\ ~Running /\ app' = app /\ count'.isr = isr + 1
      BY <1>1, <2>6 DEF IsrWrites, Counters, NoIsr
    <3>. QED
      BY <2>1, <2>2, <2>3, <3>1, Numbers
  <2>. QED
    BY <2>4, <2>5, <2>6
<1>. QED
  BY <1>4, <1>5 DEF WindowInv

\* The steps of a session that touch neither the pool nor the history.
LEMMA WindowSession ==
    ASSUME TypeOK, WindowInv,
           Start \/ CreateSession \/ ResetRng \/ Connect \/ ReadResponse \/ ResponseComplete \/ NotInjected
    PROVE  WindowInv'
<1>1. app \in AppStates /\ UNCHANGED <<pool, count, lock, isr, truth>>
  BY DEF TypeOK, Start, CreateSession, ResetRng, Connect, ReadResponse, ResponseComplete, NotInjected
<1>2. Running' = Running /\ Held' = Held
  BY <1>1 DEF Running, Held
<1>3. CASE Start \/ CreateSession
  <2>1. /\ app'.pc \in {"reset", "out", "create", "end", "exit"}
        /\ app'.pc = "reset" => app'.ret = 0
    BY <1>1, <1>3 DEF Start, FirstMeasured, CreateSession, AppStates
  <2>2. ~Window'
    BY <2>1 DEF Window
  <2>. QED
    BY <2>1, <2>2 DEF WindowInv, WindowCounts, WindowCredit, WindowIsr, SessionStarts
<1>4. CASE ResetRng
  <2>1. app.ret = 0
    BY <1>4 DEF WindowInv, SessionStarts, ResetRng, At
  <2>2. app'.pc = "pre" /\ app'.accepted = 0 /\ rng'.bytes = 0 /\ app'.ret = 0
    BY <1>1, <1>4, <2>1 DEF ResetRng, AppStates, ZeroRng
  <2>3. ~Window'
    BY <2>2 DEF Window
  <2>. QED
    BY <2>2, <2>3 DEF WindowInv, WindowCounts, WindowCredit, WindowIsr, SessionStarts
<1>5. CASE Connect \/ ReadResponse \/ ResponseComplete \/ NotInjected
  <2>1. /\ app.pc \in {"connect", "read", "inject"}
        /\ app'.pc \in {"read", "inject", "post"} /\ rng' = rng
        /\ app'.pc # "post" => app'.ret = app.ret
        /\ app'.pre = app.pre /\ app'.preCredit = app.preCredit /\ app'.accepted = app.accepted
    <3>1. CASE ReadResponse
      <4>1. \/ \E r \in Int : app' = [app EXCEPT !.response = r]
            \/ app' = [app EXCEPT !.pc = "inject"]
            \/ app' = [app EXCEPT !.pc = "post", !.ret = -1]
        BY <1>1, <3>1, Constants DEF ReadResponse, AppStates
      <4>2. app.pc = "read" /\ rng' = rng
        BY <3>1 DEF ReadResponse, At
      <4>. QED
        BY <1>1, <4>1, <4>2 DEF AppStates
    <3>2. CASE Connect
      BY <1>1, <3>2 DEF Connect, At, AppStates
    <3>3. CASE ResponseComplete \/ NotInjected
      BY <1>1, <3>3 DEF ResponseComplete, NotInjected, At, AppStates
    <3>. QED
      BY <1>5, <3>1, <3>2, <3>3
  <2>2. Window /\ Window'
    BY <2>1 DEF Window
  <2>3. app.accepted = 0 /\ truth.ext = 0 /\ app.ret = 0
    BY <2>1 DEF WindowInv, SessionStarts
  <2>4. WindowCounts' /\ WindowCredit' /\ WindowIsr'
    BY <1>1, <1>2, <2>1, <2>2 DEF WindowInv, WindowCounts, WindowCredit, WindowIsr
  <2>5. SessionStarts'
    BY <1>1, <2>1, <2>3 DEF SessionStarts
  <2>. QED
    BY <2>4, <2>5 DEF WindowInv
<1>. QED
  BY <1>3, <1>4, <1>5

\* The first snapshot waits for the lock: no draw is half counted in it.
LEMMA WindowTakePre == TypeOK /\ WindowInv /\ TakePre => WindowInv'
<1>. SUFFICES ASSUME TypeOK, WindowInv, TakePre
              PROVE  WindowInv'
  OBVIOUS
<1>1. /\ app \in AppStates /\ app.pc = "pre" /\ isr = -1 /\ lock.owner = "none"
      /\ UNCHANGED <<pool, count, lock, isr, rng>>
  BY DEF TypeOK, TakePre, At, Snapshot, LockFree, Running, NoIsr, Free
<1>2. /\ app'.pc = "connect" /\ app'.pre = count /\ app'.preCredit = pool.credit
      /\ app'.accepted = 0 /\ app'.ret = 0 /\ rng.bytes = 0
  BY <1>1 DEF TakePre, AppStates, WindowInv, SessionStarts
<1>3. /\ truth'.hw = 0 /\ truth'.ext = 0 /\ truth'.debit = 0 /\ truth'.isr = 0
      /\ truth'.rng = 0
  BY DEF TakePre, ZeroTruth
<1>4. Held' = 0 /\ Running'
  BY <1>1 DEF Held, Running, NoIsr
<1>5. WindowCounts' /\ WindowCredit'
  BY <1>1, <1>2, <1>3, <1>4, Numbers DEF WindowCounts, WindowCredit
<1>6. WindowIsr'
  BY <1>1, <1>2, <1>3, <1>4, Numbers DEF WindowIsr
<1>7. SessionStarts'
  BY <1>1, <1>2, <1>3 DEF SessionStarts
<1>. QED
  BY <1>5, <1>6, <1>7 DEF WindowInv

\* The DRBG's bytes are counted by the wrapper.
LEMMA WindowRng == TypeOK /\ WindowInv /\ RngCall => WindowInv'
<1>. SUFFICES ASSUME TypeOK, WindowInv, RngCall
              PROVE  WindowInv'
  OBVIOUS
<1>1. /\ truth \in Truths /\ rng \in [bytes: Nat, errors: Nat]
      /\ app.pc \in {"create", "connect"}
      /\ UNCHANGED <<pool, count, lock, isr, app>>
      /\ Window' = Window /\ Running' = Running /\ Held' = Held
  BY Types DEF RngCall, At, Window, Running, Held
<1>2. /\ truth'.hw = truth.hw /\ truth'.ext = truth.ext
      /\ truth'.debit = truth.debit /\ truth'.isr = truth.isr
      /\ truth'.clamped = truth.clamped
      /\ Window => rng'.bytes - rng.bytes = truth'.rng - truth.rng
  BY <1>1 DEF RngCall, Noted, Truths
<1>3. rng'.bytes \in Nat /\ truth'.rng \in Nat
  <2>1. TypeOK'
    BY TypeRng
  <2>2. rng' \in [bytes: Nat, errors: Nat] /\ truth' \in Truths
    BY <2>1 DEF TypeOK
  <2>. QED
    BY <2>2 DEF Truths
<1>4. WindowCounts'
  <2>. SUFFICES ASSUME Window
                PROVE  /\ count'.hw - app'.pre.hw = truth'.hw
                       /\ count'.ext - app'.pre.ext = truth'.ext
                       /\ count'.debit - app'.pre.debit + Held' = truth'.debit
                       /\ rng'.bytes = truth'.rng
    BY <1>1 DEF WindowCounts
  <2>1. /\ count.hw - app.pre.hw = truth.hw
        /\ count.ext - app.pre.ext = truth.ext
        /\ count.debit - app.pre.debit + Held = truth.debit
        /\ rng.bytes = truth.rng
    BY DEF WindowInv, WindowCounts
  <2>2. rng'.bytes = truth'.rng
    BY <1>2, <1>3, <2>1, Numbers
  <2>. QED
    BY <1>1, <1>2, <2>1, <2>2
<1>5. WindowCredit' /\ WindowIsr'
  BY <1>1, <1>2 DEF WindowInv, WindowCredit, WindowIsr
<1>6. SessionStarts'
  BY <1>1, <1>2 DEF WindowInv, SessionStarts
<1>. QED
  BY <1>4, <1>5, <1>6 DEF WindowInv

\* What is accepted from the network is what the driver counts as external.
LEMMA WindowInject == TypeOK /\ WindowInv /\ Inject => WindowInv'
<1>. SUFFICES ASSUME TypeOK, WindowInv, Inject
              PROVE  WindowInv'
  OBVIOUS
<1>1. PICK n \in 0..EntropyBytes : n = Payload(app.response)
  BY PayloadType
<1>2. /\ n \in Nat /\ n \in Int /\ app \in AppStates /\ truth \in Truths /\ count \in Counters
      /\ app.pc = "inject" /\ UNCHANGED <<lock, isr, rng>>
  BY <1>1, Types, Constants DEF TypeOK, Inject, At
<1>3. app' = Accept(n, TRUE) \/ app' = Accept(n, FALSE)
  BY <1>1 DEF Inject
<1>4. /\ app'.pc = "post" /\ app'.pre = app.pre /\ app'.preCredit = app.preCredit
      /\ app' = Accept(n, TRUE) => app'.accepted = n
      /\ app' = Accept(n, FALSE) => app'.accepted = 0
  BY <1>2, <1>3 DEF Accept, AppStates
<1>5. Window /\ Window' /\ Running' = Running /\ Held' = Held
  BY <1>2, <1>4 DEF Window, Running, Held
<1>6. app.accepted = 0 /\ truth.ext = 0
  BY <1>2 DEF WindowInv, SessionStarts
<1>7. CASE UNCHANGED <<pool, count, truth>> /\ app' = Accept(n, FALSE)
  <2>1. WindowCounts' /\ WindowCredit' /\ WindowIsr'
    BY <1>2, <1>4, <1>5, <1>7 DEF WindowInv, WindowCounts, WindowCredit, WindowIsr
  <2>2. SessionStarts'
    BY <1>4, <1>6, <1>7 DEF SessionStarts
  <2>. QED
    BY <2>1, <2>2 DEF WindowInv
<1>8. CASE /\ pool' = Credited(pool, BitsPerByte * n)
           /\ count' = [count EXCEPT !.ext = @ + n]
           /\ truth' = Noted([truth EXCEPT !.ext = @ + n,
                               !.clamped = @ \/ pool.credit + BitsPerByte * n > PoolBits])
           /\ app' = Accept(n, TRUE)
  <2>1. /\ count'.ext = count.ext + n /\ count'.hw = count.hw
        /\ count'.debit = count.debit /\ count'.isr = count.isr
    BY <1>2, <1>8 DEF Counters
  <2>2. /\ truth'.ext = truth.ext + n /\ truth'.hw = truth.hw
        /\ truth'.debit = truth.debit /\ truth'.isr = truth.isr /\ truth'.rng = truth.rng
        /\ ~truth'.clamped => ~truth.clamped /\ ~(pool.credit + BitsPerByte * n > PoolBits)
    BY <1>2, <1>5, <1>8 DEF Noted, Truths
  <2>3. ~(pool.credit + BitsPerByte * n > PoolBits) => pool'.credit = pool.credit + BitsPerByte * n
    <3>1. /\ BitsPerByte * n \in Int
          /\ ~(pool.credit + BitsPerByte * n > PoolBits) =>
                pool.credit + BitsPerByte * n \in 0..PoolBits
      BY <1>2, Numbers
    <3>. QED
      BY <1>8, <3>1, CreditMoves
  <2>4. WindowCounts'
    BY <1>2, <1>4, <1>5, <2>1, <2>2, Numbers DEF WindowInv, WindowCounts
  <2>5. WindowCredit'
    BY <1>2, <1>4, <1>5, <2>2, <2>3, Numbers DEF WindowInv, WindowCredit
  <2>6. WindowIsr'
    BY <1>2, <1>4, <1>5, <2>1, <2>2 DEF WindowInv, WindowIsr
  <2>7. SessionStarts'
    <3>1. truth'.ext = n /\ app'.accepted = n
      <4>1. app'.accepted = n
        BY <1>4, <1>8
      <4>2. 0 + n = n
        BY <1>2
      <4>3. truth'.ext = n
        BY <1>6, <2>2, <4>2
      <4>. QED
        BY <4>1, <4>3
    <3>. QED
      BY <1>4, <3>1 DEF SessionStarts
  <2>. QED
    BY <2>4, <2>5, <2>6, <2>7 DEF WindowInv
<1>. QED
  BY <1>1, <1>7, <1>8 DEF Inject

\* Outside the window nothing is claimed.
LEMMA WindowOutside == TypeOK /\ (TakePost \/ NextWarmup \/ NextIteration) => WindowInv'
<1>. SUFFICES ASSUME TypeOK, TakePost \/ NextWarmup \/ NextIteration
              PROVE  WindowInv'
  OBVIOUS
<1>1. app'.pc \in {"out", "create", "end"}
  <2>1. app \in AppStates
    BY DEF TypeOK
  <2>. QED
    BY <2>1 DEF AppStates, TakePost, NextWarmup, NextIteration, FirstMeasured
<1>2. ~Window'
  BY <1>1 DEF Window
<1>. QED
  BY <1>1, <1>2 DEF WindowInv, WindowCounts, WindowCredit, WindowIsr, SessionStarts

\* Every step keeps what is known of the window.
LEMMA WindowStep == TypeOK /\ WindowInv /\ [Next]_vars => WindowInv'
<1>. SUFFICES ASSUME TypeOK, WindowInv, [Next]_vars
              PROVE  WindowInv'
  OBVIOUS
<1>1. CASE AppStep
  BY <1>1, WindowSession, WindowCountExtract, WindowTakePre, WindowInject, WindowOutside
     DEF AppStep, SessionCounts
<1>2. CASE SessionDraws \/ OtherDraws
  BY <1>2, WindowExtract DEF SessionDraws, OtherDraws
<1>3. CASE OtherCounts
  BY <1>3, WindowCountExtract DEF OtherCounts
<1>4. CASE RngCall \/ RefillWork \/ IsrReads \/ IsrNested \/ IsrWrites
  BY <1>4, WindowRng, WindowRefill, WindowIsrSteps
<1>5. CASE UNCHANGED vars
  BY <1>5 DEF vars, WindowInv, WindowCounts, WindowCredit, WindowIsr, SessionStarts,
              Window, Running, Held
<1>. QED
  BY <1>1, <1>2, <1>3, <1>4, <1>5 DEF Next, Done
------------------------------------------------------------------------------
(* The rows. *)

\* A new line comes last.
LEMMA LineAdded ==
    ASSUME NEW S, NEW s \in Seq(S), NEW e \in S
    PROVE  /\ Append(s, e) \in Seq(S) /\ Len(s) \in Nat
           /\ DOMAIN s = 1..Len(s) /\ DOMAIN Append(s, e) = (1..Len(s)) \cup {Len(s) + 1}
           /\ Len(s) + 1 \notin 1..Len(s)
           /\ \A k \in 1..Len(s) : Append(s, e)[k] = s[k]
           /\ Append(s, e)[Len(s) + 1] = e
OBVIOUS

\* A row that is printed under the lock, and outside interrupts, is true.
LEMMA RowTrue ==
    ASSUME TypeOK, WindowInv, TakePost, NEW l, LoggedRow(l), Readable(l)
    PROVE  RowIsTrue(l)
<1>1. app.pc = "post" /\ Running /\ lock.owner = "none"
  BY DEF TakePost, At, Snapshot, LockFree, Free
<1>2. Window /\ Held = 0
  BY <1>1 DEF Window, Held
<1>3. /\ count.hw - app.pre.hw = truth.hw
      /\ count.ext - app.pre.ext = truth.ext
      /\ count.debit - app.pre.debit = truth.debit
      /\ rng.bytes = truth.rng
      /\ app.accepted = truth.ext
      /\ count.isr - app.pre.isr \in 0..truth.isr
      /\ (count.isr - app.pre.isr = 0) <=> (truth.isr = 0)
      /\ ~truth.clamped =>
           pool.credit - app.preCredit = BitsPerByte * (truth.hw + truth.ext - truth.debit)
  BY <1>1, <1>2, Numbers DEF WindowInv, WindowCounts, WindowIsr, WindowCredit, SessionStarts
<1>4. ASSUME NEW cut \in {"whole", "base"}, l = Row(cut, pool.credit)
      PROVE  RowIsTrue(l)
  BY <1>3, <1>4 DEF RowIsTrue, Row
<1>5. ASSUME NEW post \in 0..PoolBits, l = Row("field", post)
      PROVE  RowIsTrue(l)
  BY <1>3, <1>5 DEF RowIsTrue, Row
<1>6. l \notin [kind: {"iter"}, cut: {"tag", "empty", "short"}, ret: {app.ret}]
  BY DEF Readable
<1>. QED
  BY <1>4, <1>5, <1>6 DEF LoggedRow

\* Every step keeps the rows true.
LEMMA RowsStep == TypeOK /\ WindowInv /\ RowsTrue /\ [Next]_vars => RowsTrue'
<1>. SUFFICES ASSUME TypeOK, WindowInv, RowsTrue, [Next]_vars
              PROVE  RowsTrue'
  OBVIOUS
<1>1. log \in Seq(Lines)
  BY Types
<1>2. ASSUME NEW s \in Seq(Lines), NEW l \in Lines,
             \A k \in DOMAIN s : Readable(s[k]) => RowIsTrue(s[k]),
             Readable(l) => RowIsTrue(l)
      PROVE  \A k \in DOMAIN Append(s, l) :
                Readable(Append(s, l)[k]) => RowIsTrue(Append(s, l)[k])
  <2>. SUFFICES ASSUME NEW k \in DOMAIN Append(s, l), Readable(Append(s, l)[k])
                PROVE  RowIsTrue(Append(s, l)[k])
    OBVIOUS
  <2>1. CASE k = Len(s) + 1
    BY <1>2, <2>1, LineAdded
  <2>2. CASE k # Len(s) + 1
    <3>1. k \in DOMAIN s /\ Append(s, l)[k] = s[k]
      BY <2>2, LineAdded
    <3>. QED
      BY <1>2, <3>1
  <2>. QED
    BY <2>1, <2>2
<1>3. CASE TakePost
  <2>1. CASE log' = log
    BY <2>1 DEF RowsTrue
  <2>2. ASSUME NEW l, LoggedRow(l), log' = Append(log, l)
        PROVE  RowsTrue'
    <3>1. l \in Lines /\ (Readable(l) => RowIsTrue(l))
      BY <1>3, <2>2, LoggedRowType, RowTrue
    <3>2. \A k \in DOMAIN log : Readable(log[k]) => RowIsTrue(log[k])
      BY DEF RowsTrue
    <3>3. \A k \in DOMAIN Append(log, l) :
             Readable(Append(log, l)[k]) => RowIsTrue(Append(log, l)[k])
      BY <1>1, <1>2, <3>1, <3>2
    <3>. QED
      BY <2>2, <3>3 DEF RowsTrue
  <2>. QED
    BY <1>3, <2>1, <2>2, PostSteps
<1>4. CASE NextIteration
  <2>1. PICK w \in Lines, e \in Lines :
           /\ w.kind = "warn" /\ e.kind = "err"
           /\ log' \in {log, Append(log, e), Append(log, w), Append(Append(log, w), e)}
    BY <1>4, LoopLines
  <2>2. \A k \in DOMAIN log : Readable(log[k]) => RowIsTrue(log[k])
    BY DEF RowsTrue
  <2>3. \A l \in {w, e} : \A k \in DOMAIN Append(log, l) :
           Readable(Append(log, l)[k]) => RowIsTrue(Append(log, l)[k])
    <3>1. ~Readable(w) /\ ~Readable(e)
      BY <2>1 DEF Readable
    <3>. QED
      BY <1>1, <1>2, <2>2, <3>1
  <2>4. \A k \in DOMAIN Append(Append(log, w), e) :
           Readable(Append(Append(log, w), e)[k]) => RowIsTrue(Append(Append(log, w), e)[k])
    <3>1. PICK s \in Seq(Lines) : s = Append(log, w)
      BY <1>1, LineAdded
    <3>2. ~Readable(e)
      BY <2>1 DEF Readable
    <3>3. \A k \in DOMAIN s : Readable(s[k]) => RowIsTrue(s[k])
      BY <2>3, <3>1
    <3>4. \A k \in DOMAIN Append(s, e) : Readable(Append(s, e)[k]) => RowIsTrue(Append(s, e)[k])
      BY <1>2, <3>2, <3>3
    <3>. QED
      BY <3>1, <3>4
  <2>. QED
    BY <2>1, <2>2, <2>3, <2>4 DEF RowsTrue
<1>5. CASE log' = log
  BY <1>5 DEF RowsTrue
<1>6. \/ TakePost \/ NextIteration \/ log' = log
  <2>1. AppStep => TakePost \/ NextIteration \/ log' = log
    BY DEF AppStep, Start, CreateSession, SessionCounts, ResetRng, TakePre, Connect,
           ReadResponse, ResponseComplete, NotInjected, Inject, NextWarmup
  <2>2. SessionDraws \/ RngCall \/ OtherDraws \/ OtherCounts \/ RefillWork => log' = log
    BY DEF SessionDraws, RngCall, OtherDraws, OtherCounts, RefillWork
  <2>3. IsrReads \/ IsrNested \/ IsrWrites \/ UNCHANGED vars => log' = log
    BY DEF IsrReads, IsrNested, IsrWrites, vars
  <2>. QED
    BY <2>1, <2>2, <2>3 DEF Next, Done
<1>. QED
  BY <1>3, <1>4, <1>5, <1>6

\* What a line that can be read has, and what the parser makes of it: a row
\* of the first format loses the fields of the second one.
LEMMA ParsedFields ==
    ASSUME NEW l \in Lines, Readable(l)
    PROVE  /\ RowOf(l).hw = l.hw /\ RowOf(l).ext = l.ext /\ RowOf(l).debit = l.debit
           /\ RowOf(l).isr = l.isr /\ RowOf(l).rng = l.rng /\ RowOf(l).accepted = l.accepted
           /\ RowOf(l).pre = l.pre /\ RowOf(l).post = l.post /\ RowOf(l).truth = l.truth
           /\ RowOf(l).ret = l.ret /\ RowOf(l).cut = l.cut
           /\ RowOf(l).stamp # 0 => l.cut = "whole"
           /\ l.hw \in Int /\ l.ext \in Int /\ l.debit \in Int /\ l.pre \in Int /\ l.post \in Int
<1>1. l \in [kind: {"iter"}, cut: {"whole", "field", "base"}, iter: Nat, ret: {0, -1},
              accepted: Nat, rng: Nat, errors: Nat, hw: Int, ext: Int, debit: Int, isr: Int,
              pre: 0..PoolBits, post: 0..PoolBits, stamp: {0, 1}, truth: Truths]
  BY DEF Lines, Readable
<1>2. PoolBits \in Nat
  BY Constants
<1>. QED
  BY <1>1, <1>2 DEF RowOf

\* What the parser makes of a true row is true.
LEMMA ParsedTrue ==
    ASSUME TypeOK, RowsTrue, NEW k \in DOMAIN ParsedRows(log)
    PROVE  /\ k \in DOMAIN log /\ Readable(log[k])
           /\ RowIsTrue(ParsedRows(log)[k])
           /\ ParsedRows(log)[k].hw \in Int /\ ParsedRows(log)[k].ext \in Int
           /\ ParsedRows(log)[k].debit \in Int
           /\ ParsedRows(log)[k].pre \in Int /\ ParsedRows(log)[k].post \in Int
           /\ ParsedRows(log)[k].ret = log[k].ret
           /\ ParsedRows(log)[k].stamp # 0 => ParsedRows(log)[k].cut = "whole"
<1>1. /\ k \in DOMAIN log /\ Readable(log[k])
      /\ ParsedRows(log)[k] = RowOf(log[k])
  BY DEF ParsedRows
<1>2. PICK l \in Lines : l = log[k]
  BY <1>1, Types
<1>3. RowIsTrue(l) /\ Readable(l)
  BY <1>1, <1>2 DEF RowsTrue
<1>4. RowIsTrue(RowOf(l))
  BY <1>3, ParsedFields DEF RowIsTrue
<1>. QED
  BY <1>1, <1>2, <1>3, <1>4, ParsedFields

\* The invariant of the rows.
RowsInv == TypeOK /\ WindowInv /\ RowsTrue

\* Every row that is logged stays true.
LEMMA RowsInvariant == Spec => []RowsInv
<1>1. RenewalInit => RowsInv
  <2>1. RenewalInit => RowsTrue
    <3>1. DOMAIN <<>> = {}
      OBVIOUS
    <3>. QED
      BY <3>1 DEF RenewalInit, RowsTrue
  <2>. QED
    BY <2>1, TypeInit, WindowInit DEF RowsInv
<1>2. RowsInv /\ [Next]_vars => RowsInv'
  BY TypeStep, WindowStep, RowsStep DEF RowsInv
<1>. QED
  BY <1>1, <1>2, PTL DEF Spec

\* A row that the parser reads holds the supply, the debit and the RNG output
\* of its own session, whatever other threads, failed sessions and nested
\* interrupts do.
THEOREM RowsTellTheirWindow == Spec => []RowsAreWindows
<1>1. RowsInv => RowsAreWindows
  BY ParsedTrue DEF RowsInv, RowsAreWindows, RowIsTrue
<1>. QED
  BY <1>1, RowsInvariant, PTL

\* While the pool was neither empty nor full, the credit change, in bits, and
\* debit minus supply, in bytes, which the parser gives side by side, are one
\* amount in every row that has its timestamps, wherever other rows are cut.
THEOREM CreditBalances == Spec => []RowsBalance
<1>1. RowsInv => RowsBalance
  <2>. SUFFICES ASSUME RowsInv, NEW k \in DOMAIN ParsedRows(log),
                       ~ParsedRows(log)[k].truth.clamped, ParsedRows(log)[k].stamp # 0
                PROVE  AddDerivedFields(ParsedRows(log))[k].creditDelta
                         = -(BitsPerByte * AddDerivedFields(ParsedRows(log))[k].outMinusSupply)
    BY DEF RowsBalance
  <2>. DEFINE r == ParsedRows(log)[k]
  <2>1. /\ r.hw \in Int /\ r.ext \in Int /\ r.debit \in Int /\ r.pre \in Int /\ r.post \in Int
        /\ r.post - r.pre = BitsPerByte * (r.hw + r.ext - r.debit)
    <3>1. r.cut # "field" /\ RowIsTrue(r)
      BY ParsedTrue DEF RowsInv
    <3>. QED
      BY <3>1, ParsedTrue DEF RowsInv, RowIsTrue
  <2>2. /\ AddDerivedFields(ParsedRows(log))[k].creditDelta = r.post - r.pre
        /\ AddDerivedFields(ParsedRows(log))[k].outMinusSupply = r.debit - (r.hw + r.ext)
    BY DEF AddDerivedFields
  <2>. HIDE DEF r
  <2>. QED
    BY <2>1, <2>2, Constants
<1>. QED
  BY <1>1, RowsInvariant, PTL

\* The driver's count of external bytes and the firmware's count of accepted
\* ones agree in every row, and so in the summary's totals.
THEOREM AcceptedBytesAreMixed == Spec => []AcceptedIsMixed
<1>1. RowsInv => AcceptedIsMixed
  <2>. SUFFICES ASSUME RowsInv
                PROVE  AcceptedIsMixed
    OBVIOUS
  <2>. DEFINE rows == ParsedRows(log)
              ok == OkRows(rows)
  <2>1. \A k \in DOMAIN rows : rows[k].accepted = rows[k].ext
    BY ParsedTrue DEF RowsInv, RowIsTrue
  <2>2. DOMAIN ok \subseteq DOMAIN rows /\ \A k \in DOMAIN ok : ok[k] = rows[k]
    BY DEF OkRows, Restrict
  <2>3. Summarize(log).accepted = Total(ok, "accepted") /\ Summarize(log).ext = Total(ok, "ext")
    BY DEF Summarize
  <2>. HIDE DEF ok
  <2>4. [k \in DOMAIN ok |-> ok[k]["accepted"]] = [k \in DOMAIN ok |-> ok[k]["ext"]]
    BY <2>1, <2>2
  <2>5. Total(ok, "accepted") = Total(ok, "ext")
    BY <2>4 DEF Total
  <2>. QED
    BY <2>1, <2>3, <2>5 DEF AcceptedIsMixed
<1>. QED
  BY <1>1, RowsInvariant, PTL
------------------------------------------------------------------------------
(* Every session is told once. *)

\* A new line of S makes one line more of S.
LEMMA PlacesGrow ==
    ASSUME NEW E, NEW s \in Seq(E), NEW e \in E, NEW S
    PROVE  /\ IsFiniteSet(Places(s, S)) /\ Many(s, S) \in Nat
           /\ e \in S => Many(Append(s, e), S) = Many(s, S) + 1
           /\ e \notin S => Many(Append(s, e), S) = Many(s, S)
<1>1. IsFiniteSet(1..Len(s))
  BY LineAdded, FS_Interval
<1>2. Places(s, S) \subseteq 1..Len(s)
  BY LineAdded DEF Places
<1>3. IsFiniteSet(Places(s, S)) /\ Many(s, S) \in Nat
  BY <1>1, <1>2, FS_Subset, FS_CardinalityType DEF Many
<1>4. CASE e \in S
  <2>1. Places(Append(s, e), S) = Places(s, S) \cup {Len(s) + 1}
    BY <1>4, LineAdded DEF Places
  <2>2. Len(s) + 1 \notin Places(s, S)
    BY <1>2, LineAdded
  <2>. QED
    BY <1>3, <1>4, <2>1, <2>2, FS_AddElement DEF Many
<1>5. CASE e \notin S
  <2>1. Places(Append(s, e), S) = Places(s, S)
    BY <1>5, LineAdded DEF Places
  <2>. QED
    BY <1>3, <1>5, <2>1 DEF Many
<1>. QED
  BY <1>3, <1>4, <1>5

\* An empty log has no lines of any kind.
LEMMA NoPlaces == \A S : Many(<<>>, S) = 0
<1>1. DOMAIN <<>> = {}
  OBVIOUS
<1>2. \A S : Places(<<>>, S) = {}
  BY <1>1 DEF Places
<1>. QED
  BY <1>2, FS_EmptySet DEF Many

\* There are finitely many lines of any kind.
LEMMA AllPlaces ==
    ASSUME NEW s \in Seq(Lines)
    PROVE  \A S : IsFiniteSet(Places(s, S))
<1>1. [kind |-> "err", iter |-> 0] \in Lines
  BY DEF Lines
<1>. QED
  BY <1>1, PlacesGrow

\* The lines that the parser warns of, and those it does not see, are counted.
LEMMA TellingSets ==
    ASSUME TypeOK
    PROVE  /\ Cardinality({k \in Malformed(log) : log[k].ret = 0}) \in Nat
           /\ Cardinality(Warnings(log)) \in Nat /\ Cardinality(TagsLost(log)) \in Nat
<1>1. log \in Seq(Lines)
  BY Types
<1>2. IsFiniteSet(1..Len(log)) /\ DOMAIN log = 1..Len(log)
  BY <1>1, FS_Interval
<1>3. /\ {k \in Malformed(log) : log[k].ret = 0} \subseteq DOMAIN log
      /\ Warnings(log) \subseteq DOMAIN log /\ TagsLost(log) \subseteq DOMAIN log
  BY DEF Malformed, Warnings, TagsLost
<1>. QED
  BY <1>2, <1>3, FS_Subset, FS_CardinalityType

\* The numbers of lines are numbers.
LEMMA ManyType ==
    ASSUME TypeOK
    PROVE  /\ Many(log, OkLines) \in Nat /\ Many(log, FailedLines) \in Nat
           /\ Many(log, TornLines) \in Nat /\ Many(log, WarnLines) \in Nat
           /\ app.i \in Nat
<1>1. log \in Seq(Lines) /\ [kind |-> "err", iter |-> 0] \in Lines
  BY Types DEF Lines
<1>. QED
  BY <1>1, PlacesGrow, Types

\* Which of them a row, a warning and an error belong to.
LEMMA LineKinds ==
    ASSUME NEW l \in Lines
    PROVE  /\ l.kind = "iter" =>
                /\ l \in OkLines <=> Readable(l) /\ l.ret = 0
                /\ l \in FailedLines <=> Readable(l) /\ l.ret # 0
                /\ l \in TornLines <=> ~Readable(l) /\ l.ret = 0
                /\ l \notin WarnLines
           /\ l.kind # "iter" =>
                /\ l \notin OkLines /\ l \notin FailedLines /\ l \notin TornLines
                /\ l \in WarnLines <=> l.kind = "warn"
BY DEF OkLines, FailedLines, TornLines, WarnLines

\* The loops of the benchmark.
LEMMA LoopInit == RenewalInit => LoopInv /\ ToldOnce
<1>. SUFFICES ASSUME RenewalInit
              PROVE  LoopInv /\ ToldOnce
  OBVIOUS
<1>1. app.i = 0 /\ (app.measured <=> Warmup = 0) /\ log = <<>> /\ app.pc = "start"
  BY DEF RenewalInit
<1>2. LoopInv
  BY <1>1, Constants DEF LoopInv
<1>3. ToldOnce
  <2>1. \A S : Many(log, S) = 0
    BY <1>1, NoPlaces
  <2>. QED
    BY <1>1, <2>1 DEF ToldOnce, Told
<1>. QED
  BY <1>2, <1>3

\* The steps that are not the end of a session leave the log and the loops.
LEMMA LoopUnchanged ==
    ASSUME TypeOK, [Next]_vars, ~Start, ~TakePost, ~NextWarmup, ~NextIteration
    PROVE  /\ log' = log /\ app'.i = app.i /\ app'.measured = app.measured
           /\ app'.pc \in {"start", "end", "exit"} \/ app.pc \in {"start", "end", "exit"} =>
                app'.pc = app.pc
           /\ app'.pc = "out" => \/ app.pc = "out" /\ app'.ret = app.ret
                                 \/ app.pc # "out" /\ app'.ret # 0
           /\ app.pc = "out" => app'.pc = "out"
<1>1. app \in AppStates
  BY DEF TypeOK
<1>2. CASE CreateSession \/ ResetRng \/ Connect \/ ResponseComplete \/ NotInjected \/ TakePre
  <2>1. CASE CreateSession
    <3>1. app.pc = "create" /\ log' = log
      BY <2>1 DEF CreateSession, At
    <3>2. CASE app' = [app EXCEPT !.pc = "reset", !.ret = 0]
      BY <1>1, <3>1, <3>2 DEF AppStates
    <3>3. CASE app' = [app EXCEPT !.pc = "out", !.ret = -1]
      <4>1. app'.ret = -1 /\ app'.pc = "out"
        BY <1>1, <3>3 DEF AppStates
      <4>2. app'.i = app.i /\ app'.measured = app.measured
        BY <1>1, <3>3 DEF AppStates
      <4>. QED
        BY <3>1, <4>1, <4>2
    <3>. QED
      BY <2>1, <3>2, <3>3 DEF CreateSession
  <2>2. CASE ResetRng
    BY <1>1, <2>2 DEF AppStates, ResetRng, At
  <2>3. CASE Connect
    BY <1>1, <2>3 DEF AppStates, Connect, At
  <2>4. CASE ResponseComplete \/ NotInjected
    BY <1>1, <2>4 DEF AppStates, ResponseComplete, NotInjected, At
  <2>5. CASE TakePre
    BY <1>1, <2>5 DEF AppStates, TakePre, At
  <2>. QED
    BY <1>2, <2>1, <2>2, <2>3, <2>4, <2>5
<1>3. CASE ReadResponse
  <2>1. \/ \E r \in Int : app' = [app EXCEPT !.response = r]
        \/ app' = [app EXCEPT !.pc = "inject"]
        \/ app' = [app EXCEPT !.pc = "post", !.ret = -1]
    BY <1>1, <1>3, Constants DEF ReadResponse, AppStates
  <2>2. app.pc = "read" /\ log' = log
    BY <1>3 DEF ReadResponse, At
  <2>. QED
    BY <1>1, <2>1, <2>2 DEF AppStates
<1>4. CASE Inject
  <2>1. PICK n \in 0..EntropyBytes : n = Payload(app.response)
    BY PayloadType
  <2>2. (app' = Accept(n, TRUE) \/ app' = Accept(n, FALSE)) /\ app.pc = "inject" /\ log' = log
    BY <1>4, <2>1 DEF Inject, At
  <2>. QED
    BY <1>1, <2>2 DEF Accept, AppStates
<1>5. CASE SessionCounts \/ SessionDraws \/ RngCall \/ OtherDraws \/ OtherCounts \/ RefillWork
  BY <1>5 DEF SessionCounts, SessionDraws, RngCall, OtherDraws, OtherCounts, RefillWork
<1>6. CASE IsrReads \/ IsrNested \/ IsrWrites \/ UNCHANGED vars
  BY <1>6 DEF IsrReads, IsrNested, IsrWrites, vars
<1>. QED
  BY <1>2, <1>3, <1>4, <1>5, <1>6 DEF Next, AppStep, Done

\* What a row adds: an ok session is told by it, read or not; a failed one is
\* not yet.
LEMMA RowCounts ==
    ASSUME TypeOK, NEW l, LoggedRow(l), log' = Append(log, l)
    PROVE  /\ Many(log, WarnLines)' = Many(log, WarnLines)
           /\ app.ret = 0 => /\ Told' = Told + 1
                             /\ Many(log, FailedLines)' = Many(log, FailedLines)
           /\ app.ret # 0 => /\ Told' = Told
                             /\ Many(log, FailedLines)' \in
                                  {Many(log, FailedLines), Many(log, FailedLines) + 1}
<1>1. log \in Seq(Lines)
  BY Types
<1>2. l \in Lines /\ l.kind = "iter" /\ l.ret = app.ret
  BY LoggedRowType
<1>3. /\ l \in OkLines <=> Readable(l) /\ l.ret = 0
      /\ l \in FailedLines <=> Readable(l) /\ l.ret # 0
      /\ l \in TornLines <=> ~Readable(l) /\ l.ret = 0
      /\ l \notin WarnLines
  BY <1>2, LineKinds
<1>4. \A S : /\ l \in S => Many(Append(log, l), S) = Many(log, S) + 1
             /\ l \notin S => Many(Append(log, l), S) = Many(log, S)
  BY <1>1, <1>2, PlacesGrow
<1>5. \A S : Many(log', S) = Many(Append(log, l), S)
  BY <1>2
<1>6. Many(log', WarnLines) = Many(log, WarnLines)
  BY <1>3, <1>4, <1>5
<1>7. CASE app.ret = 0
  <2>1. Many(log', FailedLines) = Many(log, FailedLines)
    BY <1>2, <1>3, <1>4, <1>5, <1>7
  <2>2. \/ /\ Many(log', OkLines) = Many(log, OkLines) + 1
           /\ Many(log', TornLines) = Many(log, TornLines)
        \/ /\ Many(log', OkLines) = Many(log, OkLines)
           /\ Many(log', TornLines) = Many(log, TornLines) + 1
    BY <1>2, <1>3, <1>4, <1>5, <1>7
  <2>. QED
    BY <1>6, <1>7, <2>1, <2>2, ManyType DEF Told
<1>8. CASE app.ret # 0
  <2>1. /\ Many(log', OkLines) = Many(log, OkLines)
        /\ Many(log', TornLines) = Many(log, TornLines)
    BY <1>2, <1>3, <1>4, <1>5, <1>8
  <2>2. Many(log', FailedLines) \in {Many(log, FailedLines), Many(log, FailedLines) + 1}
    BY <1>4, <1>5
  <2>. QED
    BY <1>6, <1>8, <2>1, <2>2 DEF Told
<1>. QED
  BY <1>7, <1>8, <1>6

\* What the loop adds: a failed session is told by its warning.
LEMMA LoopCounts ==
    ASSUME TypeOK, NextIteration
    PROVE  /\ Many(log, FailedLines)' = Many(log, FailedLines)
           /\ app.ret = 0 => /\ Told' = Told
                             /\ Many(log, WarnLines)' = Many(log, WarnLines)
           /\ app.ret # 0 => /\ Told' = Told + 1
                             /\ Many(log, WarnLines)' = Many(log, WarnLines) + 1
<1>1. log \in Seq(Lines)
  BY Types
<1>2. PICK w \in Lines, e \in Lines :
         /\ w.kind = "warn" /\ e.kind = "err"
         /\ \/ app.ret = 0 /\ log' \in {log, Append(log, e)}
            \/ app.ret # 0 /\ log' \in {Append(log, w), Append(Append(log, w), e)}
  BY LoopLines
<1>3. /\ w \notin OkLines /\ w \notin FailedLines /\ w \notin TornLines /\ w \in WarnLines
      /\ e \notin OkLines /\ e \notin FailedLines /\ e \notin TornLines /\ e \notin WarnLines
  BY <1>2, LineKinds
<1>4. \A s \in Seq(Lines) : \A S : e \notin S => Many(Append(s, e), S) = Many(s, S)
  BY PlacesGrow
<1>5. \A S : /\ w \in S => Many(Append(log, w), S) = Many(log, S) + 1
             /\ w \notin S => Many(Append(log, w), S) = Many(log, S)
  BY <1>1, PlacesGrow
<1>6. Append(log, w) \in Seq(Lines)
  BY <1>1, LineAdded
<1>7. CASE app.ret = 0
  <2>1. \A S \in {OkLines, FailedLines, TornLines, WarnLines} : Many(log', S) = Many(log, S)
    BY <1>1, <1>2, <1>3, <1>4, <1>7
  <2>. QED
    BY <1>7, <2>1 DEF Told
<1>8. CASE app.ret # 0
  <2>1. \A S \in {OkLines, FailedLines, TornLines, WarnLines} :
           Many(log', S) = Many(Append(log, w), S)
    BY <1>2, <1>3, <1>4, <1>6, <1>8
  <2>2. /\ Many(log', OkLines) = Many(log, OkLines)
        /\ Many(log', FailedLines) = Many(log, FailedLines)
        /\ Many(log', TornLines) = Many(log, TornLines)
        /\ Many(log', WarnLines) = Many(log, WarnLines) + 1
    BY <1>3, <1>5, <2>1
  <2>. QED
    BY <1>8, <2>2, ManyType DEF Told
<1>. QED
  BY <1>7, <1>8

\* Every step keeps the loops and tells every session once.
LEMMA LoopStep ==
    ASSUME TypeOK, WindowInv, LoopInv, ToldOnce, [Next]_vars
    PROVE  LoopInv' /\ ToldOnce'
<1>1. /\ app \in AppStates /\ app.i \in Nat /\ Warmup \in Nat /\ Iterations \in Nat
      /\ Many(log, FailedLines) \in Nat /\ Many(log, WarnLines) \in Nat /\ Told \in Nat
  BY ManyType, Constants DEF TypeOK, Told
<1>2. CASE TakePost
  <2>1. /\ app.pc = "post" /\ app'.pc = "out" /\ app'.i = app.i /\ app'.ret = app.ret
        /\ app'.measured = app.measured
    BY <1>1, <1>2 DEF TakePost, At, AppStates
  <2>2. \/ ~app.measured /\ log' = log
        \/ /\ app.measured
           /\ \E l : LoggedRow(l) /\ log' = Append(log, l)
    BY <1>2, PostSteps
  <2>3. LoopInv'
    BY <2>1, <2>2 DEF LoopInv
  <2>4. ToldOnce'
    <3>. SUFFICES ASSUME app.measured
                  PROVE  /\ app'.ret = 0 =>
                              /\ Told' = app'.i + 1
                              /\ Many(log, FailedLines)' <= Many(log, WarnLines)'
                         /\ app'.ret # 0 =>
                              /\ Told' = app'.i
                              /\ Many(log, FailedLines)' <= Many(log, WarnLines)' + 1
      BY <2>1 DEF ToldOnce
    <3>1. app.i = Told /\ Many(log, FailedLines) <= Many(log, WarnLines)
      BY <2>1 DEF ToldOnce
    <3>2. /\ Many(log, WarnLines)' = Many(log, WarnLines)
          /\ app.ret = 0 => /\ Told' = Told + 1
                            /\ Many(log, FailedLines)' = Many(log, FailedLines)
          /\ app.ret # 0 => /\ Told' = Told
                            /\ Many(log, FailedLines)' \in
                                 {Many(log, FailedLines), Many(log, FailedLines) + 1}
      BY <2>2, RowCounts
    <3>. QED
      BY <1>1, <2>1, <3>1, <3>2
  <2>. QED
    BY <2>3, <2>4
<1>3. CASE NextWarmup
  <2>1. ~app.measured /\ log' = log /\ log = <<>> /\ app.i < Warmup /\ app.pc = "out"
    BY <1>3 DEF NextWarmup, LoopInv, At
  <2>2. /\ app'.pc = IF app.i + 1 < Warmup THEN "create" ELSE FirstMeasured
        /\ app'.i = IF app.i + 1 < Warmup THEN app.i + 1 ELSE 0
        /\ app'.measured <=> app.i + 1 >= Warmup
    <3>1. (app.i + 1 >= Warmup) \in BOOLEAN
      BY <1>1
    <3>2. PICK b \in BOOLEAN : b = (app.i + 1 >= Warmup)
      BY <3>1, Zenon
    <3>3. app' = [app EXCEPT !.pc = IF app.i + 1 < Warmup THEN "create" ELSE FirstMeasured,
                             !.i = After(app.i, Warmup), !.measured = b]
      BY <1>3, <3>2, Zenon DEF NextWarmup
    <3>4. app'.measured <=> b
      BY <1>1, <3>3 DEF AppStates
    <3>5. app'.pc = IF app.i + 1 < Warmup THEN "create" ELSE FirstMeasured
      BY <1>1, <3>3 DEF AppStates
    <3>6. app'.i = IF app.i + 1 < Warmup THEN app.i + 1 ELSE 0
      BY <1>1, <3>3 DEF AppStates, After
    <3>. QED
      BY <3>2, <3>4, <3>5, <3>6, Zenon
  <2>3. \A S : Many(log', S) = 0
    BY <2>1, NoPlaces
  <2>4. app.i + 1 < Warmup <=> ~app'.measured
    BY <1>1, <2>2
  <2>5. CASE app.i + 1 < Warmup
    BY <1>1, <2>1, <2>2, <2>4, <2>5 DEF LoopInv, ToldOnce
  <2>6. CASE ~(app.i + 1 < Warmup)
    <3>1. app'.i = 0 /\ app'.measured /\ app'.pc = FirstMeasured
      BY <2>2, <2>4, <2>6
    <3>2. app'.pc \in {"create", "end"} /\ (app'.pc # "end" => Iterations > 0)
      BY <3>1 DEF FirstMeasured
    <3>3. LoopInv'
      BY <1>1, <3>1, <3>2 DEF LoopInv
    <3>4. ToldOnce'
      BY <2>3, <3>1, <3>2 DEF ToldOnce, Told
    <3>. QED
      BY <3>3, <3>4
  <2>. QED
    BY <2>5, <2>6
<1>4. CASE NextIteration
  <2>1. /\ app.measured /\ app.pc = "out" /\ app'.i = app.i + 1 /\ app'.measured = app.measured
        /\ app'.pc \in {"create", "end"}
        /\ app'.pc = "create" => app.i + 1 < Iterations
    BY <1>1, <1>4 DEF NextIteration, At, AppStates
  <2>2. LoopInv'
    BY <1>1, <2>1 DEF LoopInv
  <2>3. /\ Many(log, FailedLines)' = Many(log, FailedLines)
        /\ app.ret = 0 => /\ Told' = Told
                          /\ Many(log, WarnLines)' = Many(log, WarnLines)
        /\ app.ret # 0 => /\ Told' = Told + 1
                          /\ Many(log, WarnLines)' = Many(log, WarnLines) + 1
    BY <1>4, LoopCounts
  <2>4. app'.i = Told' /\ Many(log, FailedLines)' <= Many(log, WarnLines)'
    BY <1>1, <2>1, <2>3 DEF ToldOnce
  <2>5. ToldOnce'
    BY <2>1, <2>4 DEF ToldOnce
  <2>. QED
    BY <2>2, <2>5
<1>6. CASE Start
  <2>1. /\ app.pc = "start" /\ app'.i = app.i /\ app'.measured = app.measured /\ log' = log
        /\ app'.pc \in {"exit", "end", IF Warmup > 0 THEN "create" ELSE FirstMeasured}
    BY <1>1, <1>6 DEF Start, At, AppStates
  <2>2. /\ app'.pc \in {"exit", "end", "create"}
        /\ app'.pc = "create" => Warmup > 0 \/ Iterations > 0
    BY <2>1 DEF FirstMeasured
  <2>3. LoopInv'
    BY <1>1, <2>1, <2>2 DEF LoopInv
  <2>4. /\ Told' = Told /\ Many(log, FailedLines)' = Many(log, FailedLines)
        /\ Many(log, WarnLines)' = Many(log, WarnLines)
    BY <2>1 DEF Told
  <2>5. ToldOnce'
    BY <2>1, <2>2, <2>4 DEF ToldOnce
  <2>. QED
    BY <2>3, <2>5
<1>5. CASE ~Start /\ ~TakePost /\ ~NextWarmup /\ ~NextIteration
  <2>1. /\ log' = log /\ app'.i = app.i /\ app'.measured = app.measured
        /\ app'.pc \in {"start", "end", "exit"} \/ app.pc \in {"start", "end", "exit"} =>
             app'.pc = app.pc
        /\ app'.pc = "out" => \/ app.pc = "out" /\ app'.ret = app.ret
                              \/ app.pc # "out" /\ app'.ret # 0
        /\ app.pc = "out" => app'.pc = "out"
    BY <1>5, LoopUnchanged
  <2>2. LoopInv'
    BY <2>1 DEF LoopInv
  <2>3. /\ Told' = Told /\ Many(log, FailedLines)' = Many(log, FailedLines)
        /\ Many(log, WarnLines)' = Many(log, WarnLines)
    BY <2>1 DEF Told
  <2>4. ToldOnce'
    BY <1>1, <2>1, <2>3 DEF ToldOnce
  <2>. QED
    BY <2>2, <2>4
<1>. QED
  BY <1>2, <1>3, <1>4, <1>5, <1>6

\* The summary's numbers are those of the lines, if the parser survives them.
LEMMA SummaryCounts ==
    ASSUME TypeOK, ~ParseFails(log)
    PROVE  /\ Summarize(log).ok = Many(log, OkLines)
           /\ Summarize(log).failed = Many(log, FailedLines)
<1>. DEFINE rows == ParsedRows(log)
            ok == OkRows(rows)
<1>1. log \in Seq(Lines) /\ \A k \in DOMAIN log : log[k] \in Lines
  BY Types
<1>2. DOMAIN rows = {k \in DOMAIN log : Readable(log[k])}
  BY DEF ParsedRows
<1>3. \A k \in DOMAIN rows : rows[k].ret = log[k].ret
  <2>. SUFFICES ASSUME NEW k \in DOMAIN rows
                PROVE  rows[k].ret = log[k].ret
    OBVIOUS
  <2>1. rows[k] = RowOf(log[k]) /\ log[k] \in Lines /\ Readable(log[k])
    BY <1>1, <1>2 DEF ParsedRows
  <2>. HIDE DEF rows
  <2>. QED
    BY <2>1, ParsedFields
<1>4. DOMAIN ok = {k \in DOMAIN rows : rows[k].ret = 0}
  BY DEF OkRows, Restrict
<1>5. Summarize(log).ok = Cardinality(DOMAIN ok)
      /\ Summarize(log).failed = Cardinality(DOMAIN rows) - Cardinality(DOMAIN ok)
  BY DEF Summarize
<1>. HIDE DEF ok, rows
<1>6. DOMAIN ok = Places(log, OkLines)
  BY <1>1, <1>2, <1>3, <1>4 DEF Places, OkLines, Readable
<1>7. DOMAIN rows = Places(log, OkLines) \cup Places(log, FailedLines)
  BY <1>1, <1>2 DEF Places, OkLines, FailedLines, Readable
<1>8. Places(log, OkLines) \cap Places(log, FailedLines) = {}
  BY DEF Places, OkLines, FailedLines
<1>9. Cardinality(DOMAIN rows) = Many(log, OkLines) + Many(log, FailedLines)
  <2>1. IsFiniteSet(Places(log, OkLines)) /\ IsFiniteSet(Places(log, FailedLines))
    BY <1>1, AllPlaces
  <2>2. Cardinality(DOMAIN rows) = Cardinality(Places(log, OkLines))
           + Cardinality(Places(log, FailedLines)) - Cardinality({})
    BY <1>7, <1>8, <2>1, FS_Union
  <2>. QED
    BY <2>2, FS_EmptySet, ManyType DEF Many
<1>10. Cardinality(DOMAIN ok) = Many(log, OkLines)
  BY <1>6 DEF Many
<1>11. Summarize(log).failed = Many(log, FailedLines)
  BY <1>5, <1>9, <1>10, ManyType
<1>. QED
  BY <1>5, <1>10, <1>11

\* Two sets with nothing in common have as many elements as each has.
LEMMA DisjointUnion ==
    ASSUME NEW S, NEW U, IsFiniteSet(S), IsFiniteSet(U), S \cap U = {}
    PROVE  /\ IsFiniteSet(S \cup U)
           /\ Cardinality(S \cup U) = Cardinality(S) + Cardinality(U)
           /\ Cardinality(S) \in Nat /\ Cardinality(U) \in Nat
<1>1. Cardinality(S) \in Nat /\ Cardinality(U) \in Nat
  BY FS_CardinalityType
<1>2. Cardinality(S \cap U) = 0
  BY FS_EmptySet
<1>3. /\ IsFiniteSet(S \cup U)
      /\ Cardinality(S \cup U) = Cardinality(S) + Cardinality(U) - Cardinality(S \cap U)
  BY FS_Union
<1>. QED
  BY <1>1, <1>2, <1>3

\* The warnings and the torn rows of sessions that ended well are the whole
\* warnings, the malformed rows and the lines without their tag.
LEMMA TellingLines ==
    ASSUME TypeOK, ~ParseFails(log)
    PROVE  /\ Many(log, TornLines) + Many(log, WarnLines)
              = Cardinality(Warnings(log)) + Cardinality({k \in Malformed(log) : log[k].ret = 0})
                + Cardinality(TagsLost(log))
           /\ Many(log, WarnLines) <= Cardinality(Warnings(log)) + Cardinality(TagsLost(log))
<1>. DEFINE M == {k \in Malformed(log) : log[k].ret = 0}
            W == Warnings(log)
            T == TagsLost(log)
            torn == Places(log, TornLines)
            warn == Places(log, WarnLines)
<1>1. log \in Seq(Lines) /\ \A k \in DOMAIN log : log[k] \in Lines
  BY Types
<1>2. IsFiniteSet(torn) /\ IsFiniteSet(warn)
  BY <1>1, AllPlaces
<1>3. \A l \in Lines : /\ l.kind = "warn" => l.cut \in {"whole", "tag"}
                       /\ l.kind = "iter" => l.cut \in {"whole", "field", "base", "tag", "empty", "short"}
  BY DEF Lines
<1>4. \A k \in DOMAIN log : log[k].kind = "iter" => log[k].cut # "empty"
  BY DEF ParseFails
<1>5. torn \cup warn = (M \cup W) \cup T /\ warn \subseteq W \cup T
  <2>1. ASSUME NEW k \in torn
        PROVE  k \in M \cup T
    BY <1>1, <1>3, <1>4 DEF Places, TornLines, Readable, Malformed, TagsLost
  <2>2. ASSUME NEW k \in warn
        PROVE  k \in W \cup T
    BY <1>1, <1>3 DEF Places, WarnLines, Warnings, TagsLost
  <2>3. M \subseteq torn
    BY <1>1 DEF Places, TornLines, Readable, Malformed
  <2>4. W \subseteq warn
    BY <1>1 DEF Places, WarnLines, Warnings
  <2>5. T \subseteq torn \cup warn
    BY <1>1 DEF Places, TornLines, WarnLines, Readable, TagsLost
  <2>. QED
    BY <2>1, <2>2, <2>3, <2>4, <2>5
<1>6. torn \cap warn = {} /\ M \cap W = {} /\ (M \cup W) \cap T = {}
  BY DEF Places, TornLines, WarnLines, Malformed, Warnings, TagsLost
<1>7. IsFiniteSet(M) /\ IsFiniteSet(W) /\ IsFiniteSet(T)
  <2>1. IsFiniteSet(torn \cup warn)
    BY <1>2, FS_Union
  <2>2. M \subseteq torn \cup warn /\ W \subseteq torn \cup warn /\ T \subseteq torn \cup warn
    <3>. HIDE DEF M, W, T, torn, warn
    <3>. QED
      BY <1>5
  <2>. HIDE DEF M, W, T, torn, warn
  <2>. QED
    BY <2>1, <2>2, FS_Subset
<1>. HIDE DEF M, W, T, torn, warn
<1>8. /\ Cardinality(torn \cup warn) = Cardinality(torn) + Cardinality(warn)
      /\ Cardinality(torn) \in Nat /\ Cardinality(warn) \in Nat
  BY <1>2, <1>6, DisjointUnion
<1>9. /\ IsFiniteSet(M \cup W) /\ Cardinality(M \cup W) = Cardinality(M) + Cardinality(W)
      /\ Cardinality(M) \in Nat /\ Cardinality(W) \in Nat
  BY <1>6, <1>7, DisjointUnion
<1>10. /\ Cardinality((M \cup W) \cup T) = Cardinality(M \cup W) + Cardinality(T)
       /\ Cardinality(T) \in Nat
  BY <1>6, <1>7, <1>9, DisjointUnion
<1>11. Cardinality(torn) + Cardinality(warn) = Cardinality(W) + Cardinality(M) + Cardinality(T)
  <2>1. Cardinality(torn) + Cardinality(warn) = Cardinality((M \cup W) \cup T)
    BY <1>5, <1>8
  <2>. QED
    BY <1>9, <1>10, <2>1
<1>12. Cardinality(warn) <= Cardinality(W) + Cardinality(T)
  <2>1. W \cap T = {}
    BY <1>6
  <2>2. IsFiniteSet(W \cup T) /\ Cardinality(W \cup T) = Cardinality(W) + Cardinality(T)
    BY <1>7, <2>1, DisjointUnion
  <2>. QED
    BY <1>5, <2>2, FS_Subset
<1>13. Many(log, TornLines) = Cardinality(torn) /\ Many(log, WarnLines) = Cardinality(warn)
  BY DEF Many, torn, warn
<1>. QED
  BY <1>11, <1>12, <1>13 DEF M, W, T

\* If the parser survives the log, every measured session so far is an ok row,
\* a warning of its failure, a malformed row or a line without its tag, exactly
\* once, and no failed row lacks its warning.
THEOREM EverySessionIsTold == Spec => []FailuresAreTold
<1>. DEFINE Inv == TypeOK /\ WindowInv /\ LoopInv /\ ToldOnce
<1>1. RenewalInit => Inv
  BY TypeInit, WindowInit, LoopInit
<1>2. Inv /\ [Next]_vars => Inv'
  BY TypeStep, WindowStep, LoopStep
<1>3. Inv => FailuresAreTold
  <2>. SUFFICES ASSUME Inv, app.measured, app.pc \in {"create", "end"}, ~ParseFails(log)
                PROVE  /\ app.i = Summarize(log).ok + Cardinality(Warnings(log))
                                  + Cardinality({k \in Malformed(log) : log[k].ret = 0})
                                  + Cardinality(TagsLost(log))
                       /\ Summarize(log).failed <=
                            Cardinality(Warnings(log)) + Cardinality(TagsLost(log))
    BY DEF FailuresAreTold
  <2>. DEFINE M == Cardinality({k \in Malformed(log) : log[k].ret = 0})
              W == Cardinality(Warnings(log))
              T == Cardinality(TagsLost(log))
  <2>1. app.i = Told /\ Many(log, FailedLines) <= Many(log, WarnLines)
    BY DEF ToldOnce
  <2>2. /\ Summarize(log).ok = Many(log, OkLines) /\ Summarize(log).failed = Many(log, FailedLines)
        /\ Many(log, TornLines) + Many(log, WarnLines) = W + M + T
        /\ Many(log, WarnLines) <= W + T
    BY SummaryCounts, TellingLines
  <2>3. M \in Nat /\ W \in Nat /\ T \in Nat
    BY TellingSets
  <2>. HIDE DEF M, W, T
  <2>4. app.i = Summarize(log).ok + W + M + T
    BY <2>1, <2>2, <2>3, ManyType DEF Told
  <2>5. Summarize(log).failed <= W + T
    BY <2>1, <2>2, <2>3, ManyType
  <2>. QED
    BY <2>4, <2>5 DEF M, W, T
<1>. QED
  BY <1>1, <1>2, <1>3, PTL DEF Spec
==============================================================================
