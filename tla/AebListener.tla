----------------------------- MODULE AebListener -----------------------------
(***************************************************************************)
(* The listener build of the AEB firmware (stimulus_loop of src/main.c),   *)
(* the open-loop sender that drives it (scripts/stimulus_sender.py) and    *)
(* the parser of the serial log (scripts/parse_aeb_log.py).                *)
(*                                                                         *)
(* The sender gets no answer: it sends a START and its bursts, pauses, and *)
(* goes on to the next trial whatever the device is doing.  Every session  *)
(* numbers its trials from 0 again.                                        *)
(***************************************************************************)
EXTENDS Integers, Sequences, SequencesExt, FiniteSetsExt

CONSTANTS
    Sessions,    \* [bursts, chunks] of each run of the sender, in order: --bursts,
                 \* and --sample-bytes in log lines of a raw window
    Trials,      \* --trials
    MaxBursts,   \* AEB_MAX_BURSTS
    MaxChunks,   \* log lines of AEB_MAX_SAMPLE_BYTES; 0 without AEB_DUMP_RAW_HEX
    QueueLength, \* packets the device's network buffers hold
    MaxFaults    \* bound: lost packets, lost log lines, failing reads

ASSUME ListenerAssumption ==
    /\ Len(Sessions) \in Nat \ {0}
    /\ \A s \in 1..Len(Sessions) : Sessions[s].bursts \in Nat /\ Sessions[s].chunks \in Nat
    /\ Trials \in Nat \ {0}
    /\ MaxBursts \in Nat \ {0}
    /\ MaxChunks \in Nat
    /\ QueueLength \in Nat \ {0}
    /\ MaxFaults \in Nat

VARIABLES
    session,   \* which run of the sender this is
    trial,     \* its loop variable
    seq,       \* bursts of this trial sent, or NotStarted
    net,       \* packets in the device's socket
    current,   \* the START that run_trial works on, or NoTrial
    turns,     \* loop variable of run_trial
    seen,      \* packets_seen
    log,       \* the serial log
    delivered, \* history: bursts of each trial that reached the socket
    missed,    \* history: packets that did not, and reads that failed
    faults     \* faults so far

senderVars == <<session, trial, seq>>

deviceVars == <<current, turns, seen, log>>

listenerVars == <<senderVars, net, deviceVars, delivered, missed, faults>>

NotStarted == -1

NoTrial == [session |-> 0, trial |-> -1, type |-> "none", bursts |-> 0, chunks |-> 0]

Ids == (1..Len(Sessions)) \X (0..(Trials - 1))

Bursts == Sessions[session].bursts

Chunks == Sessions[session].chunks

ListenerInit ==
    /\ session = 1
    /\ trial = 0
    /\ seq = NotStarted
    /\ net = <<>>
    /\ current = NoTrial
    /\ turns = 0
    /\ seen = 0
    /\ log = <<>>
    /\ delivered = [id \in Ids |-> 0]
    /\ missed = 0
    /\ faults = 0

Fault == faults < MaxFaults /\ faults' = faults + 1

------------------------------------------------------------------------------
\* The sender.

\* make_msg: every message names its trial, the number of bursts and the bytes
\* wanted; the session is history.
Msg(type) ==
    [session |-> session, trial |-> trial, type |-> type, bursts |-> Bursts,
     chunks |-> Chunks]

\* sendto.  The packet reaches the device's socket, or it is lost on the air,
\* or the device has no buffer for it.
Sent(type, lost) ==
    LET arrives == ~lost /\ Len(net) < QueueLength
    IN  /\ net' = IF arrives THEN Append(net, Msg(type)) ELSE net
        /\ missed' = IF arrives THEN missed ELSE missed + 1
        /\ delivered' = IF arrives /\ type = "BURST"
                        THEN [delivered EXCEPT ![<<session, trial>>] = @ + 1]
                        ELSE delivered
        /\ IF lost THEN Fault ELSE UNCHANGED faults

SendStart(lost) ==
    /\ session <= Len(Sessions)
    /\ trial < Trials
    /\ seq = NotStarted
    /\ seq' = 0
    /\ Sent("START", lost)
    /\ UNCHANGED <<session, trial, deviceVars>>

SendBurst(lost) ==
    /\ session <= Len(Sessions)
    /\ seq \in 0..(Bursts - 1)
    /\ seq' = seq + 1
    /\ Sent("BURST", lost)
    /\ UNCHANGED <<session, trial, deviceVars>>

\* The trial is logged; after the gap comes the next one.
NextTrial ==
    /\ session <= Len(Sessions)
    /\ seq = Bursts
    /\ seq' = NotStarted
    /\ trial' = trial + 1
    /\ UNCHANGED <<session, net, deviceVars, delivered, missed, faults>>

\* The sender has ended, or will pause for longer than the device waits.
SenderRests == trial = Trials

\* Somebody starts the sender again, not within the device's burst timeout.
NextSession ==
    /\ SenderRests
    /\ net = <<>>
    /\ current = NoTrial
    /\ session < Len(Sessions)
    /\ session' = session + 1
    /\ trial' = 0
    /\ UNCHANGED <<seq, net, deviceVars, delivered, missed, faults>>

------------------------------------------------------------------------------
\* The device.

Expected(start) == IF start.bursts > MaxBursts THEN MaxBursts ELSE start.bursts

\* Lines of the raw window: no size, or too great a one, means the greatest.
Requested(start) == IF start.chunks \in 1..MaxChunks THEN start.chunks ELSE MaxChunks

Received == Head(net)

\* stimulus_loop: only a START is looked at.
Listen ==
    /\ current = NoTrial
    /\ net # <<>>
    /\ net' = Tail(net)
    /\ current' = IF Received.type = "START" THEN Received ELSE NoTrial
    /\ turns' = 0
    /\ seen' = 0
    /\ UNCHANGED <<senderVars, log, delivered, missed, faults>>

\* Mutant: the trial id of a burst is not compared.
CountsAnyTrial(msg) == msg.type = "BURST"

\* A packet counts if it is a burst of this trial.
Counts(msg) == msg.type = "BURST" /\ msg.trial = current.trial

\* Mutant: the loop goes on until all bursts have been seen.
MoreTurnsUntilSeen == seen < Expected(current)

\* The loop of run_trial has one turn per expected burst.
MoreTurns == turns < Expected(current)

\* One turn: whatever is received uses it up, an own burst is sampled.
Turn ==
    /\ current # NoTrial
    /\ MoreTurns
    /\ net # <<>>
    /\ net' = Tail(net)
    /\ turns' = turns + 1
    /\ seen' = IF Counts(Received) THEN seen + 1 ELSE seen
    /\ UNCHANGED <<senderVars, current, log, delivered, missed, faults>>

\* AEB_BURST_TIMEOUT_MS, longer than the sender's gaps: the loop is left.
PollTimeout ==
    /\ current # NoTrial
    /\ MoreTurns
    /\ net = <<>>
    /\ SenderRests
    /\ turns' = Expected(current)
    /\ UNCHANGED <<senderVars, net, current, seen, log, delivered, missed, faults>>

ResultLine ==
    [kind |-> "result", session |-> current.session, trial |-> current.trial, offset |-> 0,
     expected |-> Expected(current), seen |-> seen]

ChunkLine(o) == [ResultLine EXCEPT !.kind = "chunk", !.offset = o]

\* The end of run_trial: the AEB_RESULT line and the raw window are printed.
\* One of the lines may get lost (`gap`) on the console.
Finish(gap) ==
    LET lines == <<ResultLine>> \o [o \in 1..Requested(current) |-> ChunkLine(o)]
    IN  /\ current # NoTrial
        /\ ~MoreTurns
        /\ gap \in 0..Len(lines)
        /\ IF gap = 0
           THEN UNCHANGED faults /\ log' = log \o lines
           ELSE Fault /\ log' = log \o RemoveAt(lines, gap)
        /\ missed' = IF gap = 1 THEN missed + 1 ELSE missed
        /\ current' = NoTrial
        /\ turns' = 0
        /\ seen' = 0
        /\ UNCHANGED <<senderVars, net, delivered>>

\* The entropy driver or a hash fails: an error line instead of a result.
TrialFails ==
    /\ Fault
    /\ current # NoTrial
    /\ missed' = missed + 1
    /\ current' = NoTrial
    /\ turns' = 0
    /\ seen' = 0
    /\ UNCHANGED <<senderVars, net, log, delivered>>

DeviceStep == Listen \/ Turn \/ PollTimeout \/ Finish(0)

ListenerNext ==
    \/ \E lost \in BOOLEAN : SendStart(lost) \/ SendBurst(lost)
    \/ NextTrial
    \/ NextSession
    \/ DeviceStep
    \/ \E gap \in 1..(MaxChunks + 1) : Finish(gap)
    \/ TrialFails

\* The device and the sender keep running.
ListenerSpec ==
    /\ ListenerInit
    /\ [][ListenerNext]_listenerVars
    /\ WF_listenerVars(DeviceStep)
    /\ WF_listenerVars(SendStart(FALSE) \/ SendBurst(FALSE) \/ NextTrial)

------------------------------------------------------------------------------
\* The parser.

\* rows of parse_log, by their places in the log.
ParsedRows(lines) == {i \in 1..Len(lines) : lines[i].kind = "result"}

\* Where raw_chunks[t][o] is in the log.
ChunkPlaces(lines, t, o) ==
    {k \in 1..Len(lines) : lines[k].kind = "chunk" /\ lines[k].trial = t /\ lines[k].offset = o}

\* Mutant: the first line logged for a trial and an offset stays.
RawChunkFirst(lines, t, o) == lines[Min(ChunkPlaces(lines, t, o))].session

\* raw_chunks[t][o], by the session it is from; a later line replaces it.
RawChunk(lines, t, o) == lines[Max(ChunkPlaces(lines, t, o))].session

\* raw_windows[t]: the chunks of all offsets there are, whatever sessions they
\* are from.
RawWindow(lines, t) ==
    [o \in {p \in 1..MaxChunks : ChunkPlaces(lines, t, p) # {}} |-> RawChunk(lines, t, o)]

\* packet_loss of build_summary: what each row says was lost.
PacketLoss(lines) ==
    [i \in ParsedRows(lines) |-> Max({lines[i].expected - lines[i].seen, 0})]

------------------------------------------------------------------------------
Packets ==
    [session : 1..Len(Sessions), trial : 0..(Trials - 1), type : {"START", "BURST"},
     bursts : Nat, chunks : Nat]

LogLines ==
    [kind : {"result", "chunk"}, session : 1..Len(Sessions), trial : 0..(Trials - 1),
     offset : 0..MaxChunks, expected : Nat, seen : Nat]

\* Types of the variables.
TypeOK ==
    /\ session \in 1..Len(Sessions) /\ trial \in 0..Trials
    /\ seq \in {NotStarted} \union 0..Bursts
    /\ seq # NotStarted => trial < Trials
    /\ net \in Seq(Packets) /\ Len(net) <= QueueLength
    /\ current \in Packets \union {NoTrial}
    /\ turns \in 0..MaxBursts /\ seen \in 0..turns
    /\ log \in Seq(LogLines)
    /\ delivered \in [Ids -> Nat] /\ missed \in Nat
    /\ faults \in 0..MaxFaults

Row(id) == {i \in 1..Len(log) : log[i].kind = "result" /\ <<log[i].session, log[i].trial>> = id}

\* The packet loss of a trial is what the summary says: as many bursts as did
\* not reach the device, whatever of earlier and later trials was lost and
\* however far the device is behind.  (With more bursts than AEB_MAX_BURSTS the
\* loss of the surplus is invisible.)
PacketLossIsTrue ==
    \A i \in ParsedRows(log) :
        PacketLoss(log)[i] = Max({log[i].expected - delivered[<<log[i].session, log[i].trial>>], 0})

\* A lost packet costs at most one trial: its own, if it was a START, or the
\* next one, whose START uses up the turn of the burst that never came.  No
\* loss makes the device skip more.
LossCostsOneTrial ==
    current = NoTrial /\ net = <<>> /\ SenderRests =>
        Cardinality({id \in Ids : id[1] <= session /\ Row(id) = {}}) <= missed

\* Offsets of the raw window that session s logged for trial t.
Logged(s, t) ==
    {log[k].offset : k \in {j \in 1..Len(log) :
        log[j].kind = "chunk" /\ log[j].session = s /\ log[j].trial = t}}

\* The window that the parser pairs with a row, by the row's trial number, is
\* the row's own exactly if no line of it was lost, no later session of the log
\* used the number again, and no earlier one left longer windows: of a longer
\* one the end stays and is joined to it, though no line was lost.
WindowIsTheRowsOwn ==
    \A i \in ParsedRows(log) :
        LET s == log[i].session
            t == log[i].trial
            own == 1..Requested(Sessions[s])
        IN  RawWindow(log, t) = [o \in own |-> s] <=>
                /\ Logged(s, t) = own
                /\ \A r \in 1..Len(Sessions) :
                      /\ r > s => Logged(r, t) = {}
                      /\ r < s => Logged(r, t) \subseteq own
==============================================================================
