------------------------------ MODULE AebClient ------------------------------
(***************************************************************************)
(* The firmware of the RF-actuated boot-entropy artifact (src/main.c,      *)
(* client-initiated build): one thread that joins Wi-Fi, and for each      *)
(* trial sends HELLO, waits for START, samples the WDEV RNG as BURST       *)
(* packets arrive, reports the hashes and uploads the raw bytes.           *)
(*                                                                         *)
(* An action of this module says how it changes the client and the two     *)
(* UDP directions; AebSystem composes it with the collector.               *)
(***************************************************************************)
EXTENDS AebProtocol

CONSTANTS
    MaxSampleBytes,  \* AEB_MAX_SAMPLE_BYTES, the size of raw_buf
    MaxBursts,       \* AEB_MAX_BURSTS, the size of jitter_us
    BurstCount,      \* AEB_BURST_COUNT, the bursts a HELLO asks for
    ClientTrials,    \* AEB_CLIENT_TRIALS
    MaxResends,      \* HELLO resends before the 10 s START deadline (9 in the code)
    MaxBoots,        \* bound: how many times the board boots
    PortsOf          \* the ports the network stack may pick in each boot

ASSUME ClientAssumption ==
    /\ MaxSampleBytes \in Nat \ {0}
    /\ MaxBursts \in Nat \ {0}
    /\ BurstCount \in Nat
    /\ ClientTrials \in Nat
    /\ MaxResends \in Nat
    /\ MaxBoots \in Nat \ {0}
    /\ PortsOf \in [1..MaxBoots -> SUBSET Ports \ {{}}]

VARIABLES
    pc,            \* where the main thread is
    boot,          \* how many boots there have been
    port,          \* local UDP port of the socket (meaningful once it exists)
    trial,         \* loop variable of client_hello_loop
    resends,       \* HELLO resends made by wait_for_start
    start,         \* the START message the trial runs with
    loop,          \* loop variable i of run_trial
    packets_seen,  \* bursts accepted by run_trial
    sample_used,   \* bytes of raw_buf filled
    after_burst,   \* of these, the bytes read right after a burst
    up             \* next datagram of send_raw_stream

clientVars == <<pc, boot, port, trial, resends, start, loop, packets_seen,
                sample_used, after_burst, up>>

\* "boot": joining Wi-Fi; "hello": about to send HELLO; "wait": wait_for_start;
\* "sample": burst loop of run_trial; "rest": after the loop; "upload":
\* send_raw_stream; "gap": k_sleep before the next trial; "done"/"fatal": main
\* has returned.
ClientPcs == {"boot", "hello", "wait", "sample", "rest", "upload", "gap", "done", "fatal"}

SocketOpen == pc \notin {"boot", "done", "fatal"}

NoStart == Message("START", CHOOSE p \in Ports : TRUE, 0, 0, 0, 0, <<>>)

\* Mutant: no clamp of the bytes.
RequestedUnclamped(m) == m.bytes

\* run_trial's clamps of the START parameters.
Requested(m) == IF m.bytes = 0 \/ m.bytes > MaxSampleBytes THEN MaxSampleBytes ELSE m.bytes

Expected(m) == IF m.seq > MaxBursts THEN MaxBursts ELSE m.seq

\* Bytes read per accepted burst (only used when bursts are expected).
PerPacket(m) ==
    IF Requested(m) \div Expected(m) = 0 THEN 1 ELSE Requested(m) \div Expected(m)

\* Bytes read after the next accepted burst: per_packet, cut at the end of the
\* requested buffer.
ToRead(m, used) ==
    IF used + PerPacket(m) > Requested(m) THEN Requested(m) - used ELSE PerPacket(m)

Hello == Message("HELLO", port, trial, BurstCount, MaxSampleBytes, boot, <<>>)

RawBuf == Drawn(boot, trial, Requested(start))

JitterUs == Drawn(boot, trial, packets_seen)

Upload(type, seq, bytes, payload) ==
    Message(type, port, start.trial, seq, bytes, start.nonce, payload)

\* send_raw_stream: RAW_BEGIN, the raw chunks, the jitter chunks, RAW_END.
UploadStream ==
    LET rawChunks == NumChunks(Requested(start), ChunkBytes)
        jitterChunks == NumChunks(packets_seen, JitterPerChunk)
        Chunk(i) == ChunkOf(RawBuf, i, ChunkBytes)
        Jitter(i) == ChunkOf(JitterUs, i, JitterPerChunk)
        Frame(type) == <<Upload(type, rawChunks, Requested(start), <<>>)>>
    IN  Frame("RAW_BEGIN")
        \o [i \in 1..rawChunks |-> Upload("RAW_CHUNK", i - 1, Len(Chunk(i - 1)), Chunk(i - 1))]
        \o [i \in 1..jitterChunks |->
                Upload("JITTER_CHUNK", i - 1, Len(Jitter(i - 1)), Jitter(i - 1))]
        \o Frame("RAW_END")

ClientInit ==
    /\ pc = "boot"
    /\ boot = 1
    /\ port \in PortsOf[1]
    /\ trial = 0
    /\ resends = 0
    /\ start = NoStart
    /\ loop = 0
    /\ packets_seen = 0
    /\ sample_used = 0
    /\ after_burst = 0
    /\ up = 1

------------------------------------------------------------------------------
\* main: Wi-Fi joined and the socket connected; the trial loop starts, or is
\* over at once when AEB_CLIENT_TRIALS is 0.  What was sent to the board while
\* it was not associated is lost, unless the network held it.
JoinWifi(held) ==
    /\ pc = "boot"
    /\ pc' = IF ClientTrials = 0 THEN "done" ELSE "hello"
    /\ toDevice' = IF held THEN toDevice ELSE <<>>
    /\ UNCHANGED <<boot, port, trial, resends, start, loop, packets_seen, sample_used,
                   after_burst, up, toGateway>>

\* main: entropy device not ready, wifi_init, connect_to_wifi or
\* create_client_socket failed: main returns.
BootFails ==
    /\ pc = "boot"
    /\ pc' = "fatal"
    /\ UNCHANGED <<boot, port, trial, resends, start, loop, packets_seen, sample_used,
                   after_burst, up, netVars>>

\* client_hello_loop sends the first HELLO of a trial and enters wait_for_start.
SendHello ==
    /\ pc = "hello"
    /\ toGateway' = Append(toGateway, Hello)
    /\ pc' = "wait"
    /\ resends' = 0
    /\ UNCHANGED <<boot, port, trial, start, loop, packets_seen, sample_used, after_burst,
                   up, toDevice>>

\* wait_for_start: a second without START, HELLO again.
ResendHello ==
    /\ pc = "wait"
    /\ resends < MaxResends
    /\ toGateway' = Append(toGateway, Hello)
    /\ resends' = resends + 1
    /\ UNCHANGED <<pc, boot, port, trial, start, loop, packets_seen, sample_used,
                   after_burst, up, toDevice>>

\* The network stack drops a datagram for a port that no socket holds.
DiscardUnbound ==
    /\ toDevice # <<>>
    /\ ~SocketOpen \/ Head(toDevice).port # port
    /\ toDevice' = Tail(toDevice)
    /\ UNCHANGED <<clientVars, toGateway>>

\* poll and recv return the next datagram in the client's socket.
ClientReceives ==
    /\ SocketOpen
    /\ toDevice # <<>>
    /\ Head(toDevice).port = port
    /\ toDevice' = Tail(toDevice)

IsStart(m) == m.type = "START" /\ m.trial = trial

IsBurst(m) == m.type = "BURST" /\ m.trial = start.trial

\* wait_for_start returns on a START of this trial and run_trial begins; with
\* no burst expected it reads the whole buffer at once.
TakeStart ==
    /\ pc = "wait"
    /\ ClientReceives
    /\ IsStart(Head(toDevice))
    /\ start' = Head(toDevice)
    /\ pc' = IF Expected(start') = 0 THEN "rest" ELSE "sample"
    /\ loop' = 0
    /\ packets_seen' = 0
    /\ sample_used' = 0
    /\ after_burst' = 0
    /\ UNCHANGED <<boot, port, trial, resends, up, toGateway>>

\* Mutant: a datagram that is not the START ends the wait with an error.
SkipInWaitGivesUp ==
    /\ pc = "wait"
    /\ ClientReceives
    /\ ~IsStart(Head(toDevice))
    /\ pc' = "gap"
    /\ UNCHANGED <<boot, port, trial, resends, start, loop, packets_seen, sample_used,
                   after_burst, up, toGateway>>

\* wait_for_start keeps waiting after any other datagram.
SkipInWait ==
    /\ pc = "wait"
    /\ ClientReceives
    /\ ~IsStart(Head(toDevice))
    /\ UNCHANGED <<clientVars, toGateway>>

\* Mutant: a deadline without START starts the same trial again.
StartTimeoutRetries ==
    /\ pc = "wait"
    /\ resends = MaxResends
    /\ pc' = "hello"
    /\ UNCHANGED <<boot, port, trial, resends, start, loop, packets_seen, sample_used,
                   after_burst, up, netVars>>

\* wait_for_start reaches its deadline.
StartTimeout ==
    /\ pc = "wait"
    /\ resends = MaxResends
    /\ pc' = "gap"
    /\ UNCHANGED <<boot, port, trial, resends, start, loop, packets_seen, sample_used,
                   after_burst, up, netVars>>

\* One turn of the burst loop ends; after the last one the loop is left.
NextTurn ==
    /\ loop' = loop + 1
    /\ pc' = IF loop + 1 < Expected(start) THEN "sample" ELSE "rest"

\* A BURST of this trial: its arrival delta is stored and a slice of RNG
\* output is read.
TakeBurst ==
    /\ pc = "sample"
    /\ ClientReceives
    /\ IsBurst(Head(toDevice))
    /\ packets_seen' = packets_seen + 1
    /\ sample_used' = sample_used + ToRead(start, sample_used)
    /\ after_burst' = after_burst + ToRead(start, sample_used)
    /\ NextTurn
    /\ UNCHANGED <<boot, port, trial, resends, start, up, toGateway>>

\* Mutant: a datagram is counted before its type is looked at.
SkipInSampleCounted ==
    /\ pc = "sample"
    /\ ClientReceives
    /\ ~IsBurst(Head(toDevice))
    /\ packets_seen' = packets_seen + 1
    /\ NextTurn
    /\ UNCHANGED <<boot, port, trial, resends, start, sample_used, after_burst, up, toGateway>>

\* Any other datagram uses up a turn of the loop.
SkipInSample ==
    /\ pc = "sample"
    /\ ClientReceives
    /\ ~IsBurst(Head(toDevice))
    /\ NextTurn
    /\ UNCHANGED <<boot, port, trial, resends, start, packets_seen, sample_used,
                   after_burst, up, toGateway>>

\* No datagram for 2 s (or a poll or recv error): the loop is left early.
BurstTimeout ==
    /\ pc = "sample"
    /\ pc' = "rest"
    /\ UNCHANGED <<boot, port, trial, resends, start, loop, packets_seen, sample_used,
                   after_burst, up, netVars>>

\* The rest of run_trial: what is missing of the buffer is read, the hashes are
\* reported.  `sent' is FALSE when the send of the result line fails, which the
\* code ignores.
FinishSampling(sent) ==
    /\ pc = "rest"
    /\ sample_used' = Requested(start)
    /\ toGateway' = IF sent
                    THEN Append(toGateway, ResultLine(port, start.trial, packets_seen,
                                    Requested(start), start.nonce, RawBuf, JitterUs))
                    ELSE toGateway
    /\ up' = 1
    /\ pc' = "upload"
    /\ UNCHANGED <<boot, port, trial, resends, start, loop, packets_seen, after_burst,
                   toDevice>>

\* send_raw_stream sends its next datagram; after RAW_END the buffer is wiped.
SendUpload ==
    /\ pc = "upload"
    /\ toGateway' = Append(toGateway, UploadStream[up])
    /\ up' = up + 1
    /\ pc' = IF up = Len(UploadStream) THEN "gap" ELSE "upload"
    /\ UNCHANGED <<boot, port, trial, resends, start, loop, packets_seen, sample_used,
                   after_burst, toDevice>>

\* An error return of send_hello, wait_for_start (poll, recv), run_trial (the
\* RNG) or send_raw_stream: the trial is given up.
TrialFails ==
    /\ pc \in {"hello", "wait", "sample", "rest", "upload"}
    /\ pc' = "gap"
    /\ UNCHANGED <<boot, port, trial, resends, start, loop, packets_seen, sample_used,
                   after_burst, up, netVars>>

\* The gap is over: next trial, or [AEB_DONE] and the socket is closed.
NextTrial ==
    /\ pc = "gap"
    /\ trial' = trial + 1
    /\ pc' = IF trial + 1 < ClientTrials THEN "hello" ELSE "done"
    /\ UNCHANGED <<boot, port, resends, start, loop, packets_seen, sample_used, after_burst,
                   up, netVars>>

\* The EN pin is pulsed (or power is cycled): everything in RAM is lost, and the
\* new boot's socket gets a port of the stack's choice, maybe the old one.
Reset ==
    /\ boot < MaxBoots
    /\ boot' = boot + 1
    /\ pc' = "boot"
    /\ port' \in PortsOf[boot']
    /\ trial' = 0
    /\ resends' = 0
    /\ start' = NoStart
    /\ loop' = 0
    /\ packets_seen' = 0
    /\ sample_used' = 0
    /\ after_burst' = 0
    /\ up' = 1
    /\ UNCHANGED netVars
==============================================================================
