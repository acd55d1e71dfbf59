---------------------------- MODULE AebCollector ----------------------------
(***************************************************************************)
(* The host side of the RF-actuated boot-entropy artifact                  *)
(* (scripts/aeb_collector.py): a single-threaded UDP loop that answers     *)
(* each HELLO with START and a train of BURST packets, collects the upload *)
(* of each trial under the key (peer, trial), and writes the raw, jitter   *)
(* and joint files when RAW_END arrives.                                   *)
(***************************************************************************)
EXTENDS AebProtocol, SequencesExt

CONSTANTS
    Trials,         \* --trials: stop after this many complete raw trials
    StimBursts,     \* --bursts, or NoOverride
    StimBytes,      \* --sample-bytes, or NoOverride
    NoOverride

ASSUME CollectorAssumption ==
    /\ Trials \in Nat
    /\ NoOverride \notin Nat
    /\ StimBursts \in Nat \cup {NoOverride}
    /\ StimBytes \in Nat \cup {NoOverride}

VARIABLES
    kpc,        \* "recv", "stim" (inside send_stimulus) or "stopped"
    hello,      \* the HELLO being answered (in "stim")
    sent,       \* BURST packets sent for it
    states,     \* the dict states: a function on the keys in use
    completed,  \* complete trials so far
    captures,   \* capture_counter
    rows        \* what finalize_trial wrote, one record per row of aeb_trials.csv

collectorVars == <<kpc, hello, sent, states, completed, captures, rows>>

None == -1

NoResult == [bytes |-> 0, raw |-> <<>>, jitter |-> <<>>]

\* Mutants: trials kept by peer only, or by host (without the port) and trial.
KeyByPeer(m) == <<m.port, 0>>

KeyByHost(m) == <<CHOOSE p \in Ports : TRUE, m.trial>>

Key(m) == <<m.port, m.trial>>

Bursts(m) == IF StimBursts = NoOverride THEN m.seq ELSE StimBursts

SampleBytes(m) == IF StimBytes = NoOverride THEN m.bytes ELSE StimBytes

NewTrialState(id) ==
    [capture |-> id, chunksExpected |-> None, rawLen |-> None,
     rawChunks |-> <<>>, jitterChunks |-> <<>>, result |-> NoResult]

\* dict[k] = v
Put(f, k, v) == [x \in DOMAIN f \cup {k} |-> IF x = k THEN v ELSE f[x]]

\* The values of a dict of pieces joined in the order of their indices.
Joined(pieces, indices) ==
    FlattenSeq([n \in 1..Len(indices) |-> pieces[indices[n]]])

Sorted(S) == SetToSortSeq(S, <)

Prefix(s, n) == SubSeq(s, 1, IF n < Len(s) THEN n ELSE Len(s))

\* Mutant: the lengths are compared instead of the digests.
MatchesLength(reported, file) == reported # <<>> /\ Len(reported) = Len(file)

\* The digest of the file equals the one the client reported (none reported: no).
Matches(reported, file) == reported # <<>> /\ reported = file

\* finalize_trial: what is written for a trial whose RAW_END has arrived.
Finalized(st) ==
    LET seen     == DOMAIN st.rawChunks
        expected == IF st.chunksExpected # None THEN st.chunksExpected
                    ELSE 1 + (IF seen = {} THEN None ELSE CHOOSE i \in seen : \A j \in seen : j <= i)
        rawLen   == IF st.rawLen # None THEN st.rawLen ELSE st.result.bytes
        whole    == expected > 0 /\ rawLen > 0 /\ 0..(expected - 1) \subseteq seen
        raw      == IF whole
                    THEN Prefix(FlattenSeq([n \in 1..expected |-> st.rawChunks[n - 1]]), rawLen)
                    ELSE <<>>
        complete == whole /\ Len(raw) = rawLen
        deltas   == Joined(st.jitterChunks, Sorted(DOMAIN st.jitterChunks))
    IN  [capture  |-> st.capture,
         complete |-> complete,
         \* aeb_trial_N.bin, or aeb_trial_N.partial.bin
         raw      |-> IF complete THEN raw ELSE Joined(st.rawChunks, Sorted(seen)),
         deltas   |-> deltas,
         rawMatch |-> complete /\ Matches(st.result.raw, raw),
         jitterMatch   |-> deltas # <<>> /\ Matches(st.result.jitter, deltas),
         responseMatch |-> complete /\ st.result.raw # <<>>
                              /\ st.result.raw \o st.result.jitter = raw \o deltas]

CollectorInit ==
    /\ kpc = IF Trials = 0 THEN "stopped" ELSE "recv"
    /\ hello = Message("HELLO", CHOOSE p \in Ports : TRUE, 0, 0, 0, 0, <<>>)
    /\ sent = 0
    /\ states = <<>>
    /\ completed = 0
    /\ captures = 0
    /\ rows = <<>>

------------------------------------------------------------------------------
\* recvfrom returns the oldest datagram.
CollectorReceives ==
    /\ kpc = "recv"
    /\ toGateway # <<>>
    /\ toGateway' = Tail(toGateway)

\* HELLO: a capture id is taken and START goes out; the bursts follow while the
\* loop does not receive.
RecvHello ==
    /\ CollectorReceives
    /\ LET m == Head(toGateway) IN
          /\ m.type = "HELLO"
          /\ hello' = m
          /\ toDevice' = Append(toDevice, Message("START", m.port, m.trial, Bursts(m),
                                                  SampleBytes(m), m.nonce, <<>>))
    /\ captures' = captures + 1
    /\ sent' = 0
    /\ kpc' = "stim"
    /\ UNCHANGED <<states, completed, rows>>

\* send_stimulus sends its next BURST.
SendBurst ==
    /\ kpc = "stim"
    /\ sent < Bursts(hello)
    /\ toDevice' = Append(toDevice, Message("BURST", hello.port, hello.trial, sent,
                                            SampleBytes(hello), hello.nonce, <<>>))
    /\ sent' = sent + 1
    /\ UNCHANGED <<kpc, hello, states, completed, captures, rows, toGateway>>

\* Mutant: captures are numbered by the complete ones.
StimulusDoneNumberedByComplete ==
    /\ kpc = "stim"
    /\ sent = Bursts(hello)
    /\ states' = Put(states, Key(hello), NewTrialState(completed))
    /\ kpc' = "recv"
    /\ UNCHANGED <<hello, sent, completed, captures, rows, netVars>>

\* send_stimulus returns: the key gets a fresh TrialState, whatever it held.
StimulusDone ==
    /\ kpc = "stim"
    /\ sent = Bursts(hello)
    /\ states' = Put(states, Key(hello), NewTrialState(captures - 1))
    /\ kpc' = "recv"
    /\ UNCHANGED <<hello, sent, completed, captures, rows, netVars>>

\* A datagram for a key without a TrialState is dropped.
RecvUnknown ==
    /\ CollectorReceives
    /\ LET m == Head(toGateway) IN
          /\ m.type # "HELLO"
          /\ Key(m) \notin DOMAIN states
    /\ UNCHANGED <<collectorVars, toDevice>>

\* A datagram of the given type for a key whose TrialState it fills in.
RecvFor(type) ==
    /\ CollectorReceives
    /\ Head(toGateway).type = type
    /\ Key(Head(toGateway)) \in DOMAIN states
    /\ UNCHANGED <<kpc, hello, sent, completed, captures, rows, toDevice>>

RecvResult ==
    LET m == Head(toGateway) IN
    /\ RecvFor("RESULT")
    /\ states' = [states EXCEPT ![Key(m)].result =
                     [bytes |-> m.bytes, raw |-> m.payload, jitter |-> m.jitter]]

RecvBegin ==
    LET m == Head(toGateway) IN
    /\ RecvFor("RAW_BEGIN")
    /\ states' = [states EXCEPT ![Key(m)].chunksExpected = m.seq, ![Key(m)].rawLen = m.bytes]

RecvChunk ==
    LET m == Head(toGateway) IN
    /\ RecvFor("RAW_CHUNK")
    /\ states' = [states EXCEPT ![Key(m)].rawChunks = Put(@, m.seq, Prefix(m.payload, m.bytes))]

RecvJitter ==
    LET m == Head(toGateway) IN
    /\ RecvFor("JITTER_CHUNK")
    /\ states' = [states EXCEPT ![Key(m)].jitterChunks =
                     Put(@, m.seq, Prefix(m.payload, m.bytes))]

\* The TrialState after RAW_END supplied what RAW_BEGIN did not.
Ended(st, m) ==
    [st EXCEPT !.chunksExpected = IF @ = None THEN m.seq ELSE @,
               !.rawLen = IF @ = None THEN m.bytes ELSE @]

\* RAW_END: the trial is written out and forgotten; the loop stops when enough
\* trials are complete.
RecvEnd ==
    /\ CollectorReceives
    /\ LET m == Head(toGateway) IN
          /\ m.type = "RAW_END"
          /\ Key(m) \in DOMAIN states
          /\ LET row == Finalized(Ended(states[Key(m)], m))
             IN  /\ rows' = Append(rows, row)
                 /\ completed' = IF row.complete THEN completed + 1 ELSE completed
          /\ states' = [k \in DOMAIN states \ {Key(m)} |-> states[k]]
    /\ kpc' = IF completed' < Trials THEN "recv" ELSE "stopped"
    /\ UNCHANGED <<hello, sent, captures, toDevice>>

\* No datagram for --idle-timeout seconds.
IdleTimeout ==
    /\ kpc = "recv"
    /\ toGateway = <<>>
    /\ kpc' = "stopped"
    /\ UNCHANGED <<hello, sent, states, completed, captures, rows, netVars>>

\* The socket is closed: what still arrives is lost.
DiscardStopped ==
    /\ kpc = "stopped"
    /\ toGateway # <<>>
    /\ toGateway' = Tail(toGateway)
    /\ UNCHANGED <<collectorVars, toDevice>>
==============================================================================
