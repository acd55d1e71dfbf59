------------------------------ MODULE AebSystem ------------------------------
(***************************************************************************)
(* The ESP32 client and the collector of the RF-actuated boot-entropy      *)
(* artifact, joined by UDP.  Each direction delivers in order unless the   *)
(* network loses, duplicates or delays a datagram; each such event, each   *)
(* error return of the client and each timeout that fires although an      *)
(* answer is still on its way uses one of MaxFaults faults.                *)
(***************************************************************************)
EXTENDS AebClient, AebCollector

CONSTANTS
    FaultKinds,  \* which of "drop", "dup", "delay", "error", "idle" may happen
    MaxFaults    \* bound: how many faults there are

ASSUME FaultAssumption ==
    /\ FaultKinds \subseteq {"drop", "dup", "delay", "error", "idle"}
    /\ MaxFaults \in Nat

VARIABLE faults

vars == <<clientVars, collectorVars, netVars, faults>>

Fault(kind) ==
    /\ kind \in FaultKinds
    /\ faults < MaxFaults
    /\ faults' = faults + 1

\* Nothing the client waits for can still arrive.
NothingComing == toGateway = <<>> /\ toDevice = <<>> /\ kpc # "stim"

\* A timeout fires when nothing is coming, or because an answer is late.
TimesOut == (NothingComing /\ UNCHANGED faults) \/ Fault("delay")

Init == ClientInit /\ CollectorInit /\ NetInit /\ faults = 0

------------------------------------------------------------------------------
\* UDP (external): a datagram of one direction is lost, delivered twice (the
\* copy last) or overtaken by the ones behind it.
Perturbed(channel, kind, i) ==
    CASE kind = "drop"  -> RemoveAt(channel, i)
      [] kind = "dup"   -> Append(channel, channel[i])
      [] kind = "delay" -> Append(RemoveAt(channel, i), channel[i])

NetworkFault ==
    /\ \E kind \in {"drop", "dup", "delay"} :
          /\ Fault(kind)
          /\ \/ /\ \E i \in DOMAIN toGateway : toGateway' = Perturbed(toGateway, kind, i)
                /\ UNCHANGED toDevice
             \/ /\ \E i \in DOMAIN toDevice : toDevice' = Perturbed(toDevice, kind, i)
                /\ UNCHANGED toGateway
    /\ UNCHANGED <<clientVars, collectorVars>>

ClientStep ==
    /\ \/ JoinWifi(FALSE) \/ SendHello \/ ResendHello \/ DiscardUnbound \/ TakeStart \/ SkipInWait
       \/ TakeBurst \/ SkipInSample \/ FinishSampling(TRUE) \/ SendUpload \/ NextTrial \/ Reset
    /\ UNCHANGED <<collectorVars, faults>>

ClientTimeout ==
    /\ StartTimeout \/ BurstTimeout
    /\ TimesOut
    /\ UNCHANGED collectorVars

\* Datagrams sent before the board was associated reach it after all.
LateDelivery ==
    /\ JoinWifi(TRUE)
    /\ toDevice # <<>>
    /\ Fault("delay")
    /\ UNCHANGED collectorVars

ClientError ==
    /\ BootFails \/ TrialFails \/ FinishSampling(FALSE)
    /\ Fault("error")
    /\ UNCHANGED collectorVars

CollectorStep ==
    /\ \/ RecvHello \/ SendBurst \/ StimulusDone \/ RecvUnknown \/ RecvResult \/ RecvBegin
       \/ RecvChunk \/ RecvJitter \/ RecvEnd \/ DiscardStopped
    /\ UNCHANGED <<clientVars, faults>>

\* The collector gives up: the client has nothing more to say, or has been silent
\* (joining Wi-Fi, say) for longer than --idle-timeout.
CollectorIdle ==
    /\ IdleTimeout
    /\ \/ pc \in {"done", "fatal"} /\ UNCHANGED faults
       \/ Fault("idle")
    /\ UNCHANGED clientVars

Next == NetworkFault \/ ClientStep \/ ClientTimeout \/ LateDelivery \/ ClientError
        \/ CollectorStep \/ CollectorIdle

Spec == Init /\ [][Next]_vars

\* The board and the host keep running: a thread that can take its next step
\* eventually takes it, and poll/recv timeouts fire when nothing arrives.
\* Resets, resends and faults are not promised.
Fairness ==
    /\ WF_vars((JoinWifi(FALSE) \/ SendHello \/ DiscardUnbound \/ TakeStart \/ SkipInWait \/ TakeBurst
                \/ SkipInSample \/ FinishSampling(TRUE) \/ SendUpload \/ NextTrial)
               /\ UNCHANGED <<collectorVars, faults>>)
    /\ WF_vars(ResendHello /\ UNCHANGED <<collectorVars, faults>>)
    /\ WF_vars(ClientTimeout /\ UNCHANGED faults)
    /\ WF_vars(CollectorStep)
    /\ WF_vars(CollectorIdle /\ UNCHANGED faults)

FairSpec == Spec /\ Fairness

------------------------------------------------------------------------------
\* A dict of payloads: a function on numbers.
IsDict(d) ==
    /\ d = [k \in DOMAIN d |-> d[k]]
    /\ \A k \in DOMAIN d : k \in Nat /\ d[k] \in Seq(Byte)

IsTrialState(st) ==
    /\ st = [capture |-> st.capture, chunksExpected |-> st.chunksExpected,
             rawLen |-> st.rawLen, rawChunks |-> st.rawChunks,
             jitterChunks |-> st.jitterChunks, result |-> st.result]
    /\ st.capture \in Nat
    /\ st.chunksExpected \in Nat \cup {None}
    /\ st.rawLen \in Nat \cup {None}
    /\ IsDict(st.rawChunks)
    /\ IsDict(st.jitterChunks)
    /\ st.result \in [bytes : Nat, raw : Seq(Byte), jitter : Seq(Byte)]

ClientTypeOK ==
    /\ pc \in ClientPcs
    /\ boot \in 1..MaxBoots
    /\ port \in Ports
    /\ trial \in Nat /\ resends \in Nat /\ loop \in Nat /\ packets_seen \in Nat
    /\ sample_used \in Nat /\ after_burst \in Nat
    /\ start \in Msg
    /\ up \in Nat \ {0}

CollectorTypeOK ==
    /\ kpc \in {"recv", "stim", "stopped"}
    /\ hello \in Msg
    /\ sent \in Nat /\ completed \in Nat /\ captures \in Nat
    /\ states = [k \in DOMAIN states |-> states[k]]
    /\ \A k \in DOMAIN states : k \in Ports \X Nat /\ IsTrialState(states[k])
    /\ rows \in Seq(Range(rows))

\* The types of the variables of the client, the collector and the network.
TypeOK ==
    /\ ClientTypeOK
    /\ pc = "upload" => up <= Len(UploadStream)
    /\ CollectorTypeOK
    /\ toGateway \in Seq(Msg)
    /\ toDevice \in Seq(Msg)
    /\ faults \in 0..MaxFaults

\* run_trial never stores outside raw_buf or jitter_us, whatever START asked
\* for and whatever datagrams arrive: the slice read after the next burst ends
\* inside the requested buffer, the requested buffer inside raw_buf, and the
\* next delta has a slot.
BuffersInBounds ==
    /\ Requested(start) <= MaxSampleBytes
    /\ sample_used <= Requested(start)
    /\ pc = "sample" =>
          /\ packets_seen < MaxBursts
          /\ ToRead(start, sample_used) \in 0..(Requested(start) - sample_used)

\* packets_seen in the result line tells how many of the uploaded bytes were
\* read right after a burst: per_packet for each, as far as the buffer goes.
\* Duplicated, late and foreign packets do not disturb this.
SeenTellsBurstBytes ==
    pc \in {"rest", "upload"} /\ Expected(start) > 0 =>
        LET share == packets_seen * PerPacket(start)
        IN  after_burst = IF share < Requested(start) THEN share ELSE Requested(start)

\* A HELLO opens one capture, and a capture is written out at most once: no two
\* rows have the same capture_id, and a capture in a file is no longer open.
CaptureWrittenOnce ==
    /\ \A i, j \in DOMAIN rows : rows[i].capture = rows[j].capture => i = j
    /\ \A i \in DOMAIN rows, k \in DOMAIN states : rows[i].capture # states[k].capture
    /\ \A k, l \in DOMAIN states : states[k].capture = states[l].capture => k = l

\* A sequence of bytes is what one trial of one boot drew.
IsOneTrial(bytes) ==
    \E b \in 1..boot, t \in 0..ClientTrials : bytes = Drawn(b, t, Len(bytes))

\* raw_sha256_match is trustworthy: a file whose digest matched the reported
\* one holds exactly the buffer of one trial, whatever the network did.
MatchedRawIsOneTrial ==
    \A i \in DOMAIN rows : rows[i].rawMatch => IsOneTrial(rows[i].raw)

\* Every aeb_trial_N.bin holds the bytes of one trial, checked digest or not:
\* chunks of two trials or two boots are never put together.
CompleteRawIsOneTrial ==
    \A i \in DOMAIN rows : rows[i].complete => IsOneTrial(rows[i].raw)

\* The key (peer, trial) tells boots apart as far as their source ports do: as
\* long as no boot can have had the port of another, no file mixes two boots.
PortsTellBootsApart ==
    (\A b \in 1..(boot - 1) :
        /\ port \notin PortsOf[b]
        /\ \A c \in 1..(b - 1) : PortsOf[b] \cap PortsOf[c] = {})
    => CompleteRawIsOneTrial

\* One fault (a lost, duplicated or late datagram, an error return) costs at most
\* one complete trial: resends, early timeouts and stale packets do not cascade.
FaultCostsOneTrial ==
    pc = "done" /\ boot = 1 /\ NothingComing => completed + faults >= ClientTrials

\* The client comes to the end of its trials, and the collector stops by itself.
Terminates == <>(pc \in {"done", "fatal"} /\ kpc = "stopped")
==============================================================================
