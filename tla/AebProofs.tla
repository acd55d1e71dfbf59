------------------------------ MODULE AebProofs ------------------------------
(***************************************************************************)
(* Proofs about AebSystem: the types and the buffers of client, collector  *)
(* and network, what a matched digest vouches for, and what a complete raw *)
(* file holds without one, as long as the source ports tell the boots      *)
(* apart; and how many complete trials a fault can cost.  Then about       *)
(* AebRestart: the runner's reports are whole, and without late datagrams  *)
(* its log gives every reset the capture of the boot it started.           *)
(***************************************************************************)
EXTENDS AebRestart, SequenceFacts

------------------------------------------------------------------------------
(* The operators of the protocol. *)

\* A perturbed channel still holds only messages that were in it.
LEMMA PerturbedType ==
    ASSUME NEW S, NEW ch \in Seq(S), NEW i \in DOMAIN ch,
           NEW kind \in {"drop", "dup", "delay"}
    PROVE  Perturbed(ch, kind, i) \in Seq(S)
<1>1. RemoveAt(ch, i) \in Seq(S)
  BY DEF RemoveAt
<1>2. ch[i] \in S
  OBVIOUS
<1>. QED
  BY <1>1, <1>2 DEF Perturbed

\* build_msg makes a message.
LEMMA MessageType ==
    ASSUME NEW type \in MsgTypes, NEW p \in Ports, NEW t \in Nat, NEW q \in Nat,
           NEW n \in Nat, NEW o \in Nat, NEW pl \in Seq(Byte)
    PROVE  Message(type, p, t, q, n, o, pl) \in Msg
BY DEF Message, Msg

\* The names of drawn bytes.
LEMMA DrawnType ==
    ASSUME NEW b \in Nat, NEW t \in Nat, NEW n \in Nat
    PROVE  /\ Drawn(b, t, n) \in Seq(Byte)
           /\ Len(Drawn(b, t, n)) = n
BY DEF Drawn, Byte

\* Cutting a sequence into pieces.
LEMMA ChunkType ==
    ASSUME NEW s \in Seq(Byte), NEW i \in Nat, NEW size \in Nat \ {0}
    PROVE  ChunkOf(s, i, size) \in Seq(Byte)
<1>1. i * size \in Nat /\ (i + 1) * size \in Nat
  OBVIOUS
<1>. DEFINE m == i * size + 1
            n == IF (i + 1) * size < Len(s) THEN (i + 1) * size ELSE Len(s)
<1>2. m \in Nat \ {0} /\ n \in Nat /\ n <= Len(s)
  BY <1>1
<1>. HIDE DEF m, n
<1>3. SubSeq(s, m, n) \in Seq(Byte)
  BY <1>2
<1>. QED
  BY <1>3 DEF ChunkOf, m, n

\* The number of pieces is a number.
LEMMA NumChunksType ==
    ASSUME NEW n \in Nat, NEW size \in Nat \ {0}
    PROVE  NumChunks(n, size) \in Nat
BY DEF NumChunks

\* The clamps of run_trial give sizes within the buffers.
LEMMA Clamps ==
    ASSUME NEW m \in Msg
    PROVE  /\ Requested(m) \in 1..MaxSampleBytes
           /\ Expected(m) \in 0..MaxBursts
BY ClientAssumption DEF Msg, Requested, Expected

\* A slice read after a burst ends inside the requested buffer.
LEMMA SliceFits ==
    ASSUME NEW m \in Msg, Expected(m) > 0, NEW used \in 0..Requested(m)
    PROVE  ToRead(m, used) \in 0..(Requested(m) - used)
<1>1. Requested(m) \in Nat \ {0} /\ Expected(m) \in Nat \ {0}
  BY Clamps, ClientAssumption
<1>2. Requested(m) \div Expected(m) \in Nat
  BY <1>1
<1>3. PerPacket(m) \in Nat \ {0}
  BY <1>2 DEF PerPacket
<1>. QED
  BY <1>1, <1>3 DEF ToRead

\* What send_raw_stream sends is a non-empty sequence of messages.
LEMMA UploadStreamType ==
    ClientTypeOK => UploadStream \in Seq(Msg) /\ Len(UploadStream) >= 1
<1>. SUFFICES ASSUME ClientTypeOK
              PROVE  UploadStream \in Seq(Msg) /\ Len(UploadStream) >= 1
  OBVIOUS
<1>1. /\ port \in Ports /\ start \in Msg /\ boot \in Nat /\ trial \in Nat
      /\ packets_seen \in Nat /\ Requested(start) \in Nat
  BY Clamps, ClientAssumption DEF ClientTypeOK
<1>2. start.trial \in Nat /\ start.nonce \in Nat
  BY <1>1 DEF Msg
<1>3. ASSUME NEW type \in MsgTypes, NEW q \in Nat, NEW n \in Nat, NEW pl \in Seq(Byte)
      PROVE  Upload(type, q, n, pl) \in Msg
  BY <1>1, <1>2, MessageType DEF Upload
<1>4. RawBuf \in Seq(Byte) /\ JitterUs \in Seq(Byte)
  BY <1>1, DrawnType DEF RawBuf, JitterUs
<1>. DEFINE rawChunks == NumChunks(Requested(start), ChunkBytes)
            jitterChunks == NumChunks(packets_seen, JitterPerChunk)
            Chunk(i) == ChunkOf(RawBuf, i, ChunkBytes)
            Jitter(i) == ChunkOf(JitterUs, i, JitterPerChunk)
            Frame(type) == <<Upload(type, rawChunks, Requested(start), <<>>)>>
            raws == [i \in 1..rawChunks |->
                        Upload("RAW_CHUNK", i - 1, Len(Chunk(i - 1)), Chunk(i - 1))]
            jits == [i \in 1..jitterChunks |->
                        Upload("JITTER_CHUNK", i - 1, Len(Jitter(i - 1)), Jitter(i - 1))]
<1>5. rawChunks \in Nat /\ jitterChunks \in Nat
  BY <1>1, NumChunksType, ChunkAssumption
<1>6. \A i \in Nat : Chunk(i) \in Seq(Byte) /\ Jitter(i) \in Seq(Byte)
  BY <1>4, ChunkType, ChunkAssumption
<1>. HIDE DEF rawChunks, jitterChunks, Chunk, Jitter
<1>7. raws \in Seq(Msg) /\ jits \in Seq(Msg)
  <2>1. \A i \in 1..rawChunks :
           Upload("RAW_CHUNK", i - 1, Len(Chunk(i - 1)), Chunk(i - 1)) \in Msg
    BY <1>3, <1>5, <1>6 DEF MsgTypes
  <2>2. \A i \in 1..jitterChunks :
           Upload("JITTER_CHUNK", i - 1, Len(Jitter(i - 1)), Jitter(i - 1)) \in Msg
    BY <1>3, <1>5, <1>6 DEF MsgTypes
  <2>. QED
    BY <1>5, <2>1, <2>2
<1>8. Frame("RAW_BEGIN") \in Seq(Msg) /\ Frame("RAW_END") \in Seq(Msg)
  <2>1. /\ Upload("RAW_BEGIN", rawChunks, Requested(start), <<>>) \in Msg
        /\ Upload("RAW_END", rawChunks, Requested(start), <<>>) \in Msg
    <3>1. <<>> \in Seq(Byte)
      OBVIOUS
    <3>. QED
      BY <3>1, <1>1, <1>3, <1>5 DEF MsgTypes
  <2>. QED
    BY <2>1
<1>9. UploadStream = Frame("RAW_BEGIN") \o raws \o jits \o Frame("RAW_END")
  BY DEF UploadStream, rawChunks, jitterChunks, Chunk, Jitter
<1>10. Len(Frame("RAW_BEGIN")) = 1
  OBVIOUS
<1>. HIDE DEF raws, jits, Frame
<1>. QED
  BY <1>7, <1>8, <1>9, <1>10

\* Message types of the dicts and the states they live in.
LEMMA PutType ==
    ASSUME NEW d, IsDict(d), NEW k \in Nat, NEW v \in Seq(Byte)
    PROVE  IsDict(Put(d, k, v))
BY DEF IsDict, Put

\* The first bytes of a payload are a payload.
LEMMA PrefixType ==
    ASSUME NEW s \in Seq(Byte), NEW n \in Nat
    PROVE  Prefix(s, n) \in Seq(Byte)
BY DEF Prefix

\* Changing one field of a TrialState to another value of its type.
LEMMA TrialStateUpdate ==
    ASSUME NEW st, IsTrialState(st)
    PROVE  /\ \A r \in [bytes : Nat, raw : Seq(Byte), jitter : Seq(Byte)] :
                 IsTrialState([st EXCEPT !.result = r])
           /\ \A q \in Nat, n \in Nat :
                 IsTrialState([st EXCEPT !.chunksExpected = q, !.rawLen = n])
           /\ \A d : IsDict(d) => /\ IsTrialState([st EXCEPT !.rawChunks = d])
                                 /\ IsTrialState([st EXCEPT !.jitterChunks = d])
<1>1. PICK a, b, c, d, e, f :
         st = [capture |-> a, chunksExpected |-> b, rawLen |-> c, rawChunks |-> d,
               jitterChunks |-> e, result |-> f]
  BY DEF IsTrialState
<1>2. /\ a \in Nat /\ b \in Nat \cup {None} /\ c \in Nat \cup {None} /\ IsDict(d) /\ IsDict(e)
      /\ f \in [bytes : Nat, raw : Seq(Byte), jitter : Seq(Byte)]
  BY <1>1 DEF IsTrialState
<1>3. ASSUME NEW r \in [bytes : Nat, raw : Seq(Byte), jitter : Seq(Byte)]
      PROVE  IsTrialState([st EXCEPT !.result = r])
  <2>1. [st EXCEPT !.result = r]
          = [capture |-> a, chunksExpected |-> b, rawLen |-> c, rawChunks |-> d,
             jitterChunks |-> e, result |-> r]
    BY <1>1
  <2>. QED
    BY <1>2, <2>1 DEF IsTrialState
<1>4. ASSUME NEW q \in Nat, NEW n \in Nat
      PROVE  IsTrialState([st EXCEPT !.chunksExpected = q, !.rawLen = n])
  <2>1. [st EXCEPT !.chunksExpected = q, !.rawLen = n]
          = [capture |-> a, chunksExpected |-> q, rawLen |-> n, rawChunks |-> d,
             jitterChunks |-> e, result |-> f]
    <3>1. [st EXCEPT !.chunksExpected = q, !.rawLen = n]
            = [[st EXCEPT !.chunksExpected = q] EXCEPT !.rawLen = n]
      OBVIOUS
    <3>. DEFINE u == [st EXCEPT !.chunksExpected = q]
    <3>2. u = [capture |-> a, chunksExpected |-> q, rawLen |-> c, rawChunks |-> d,
               jitterChunks |-> e, result |-> f]
      BY <1>1
    <3>. HIDE DEF u
    <3>3. [u EXCEPT !.rawLen = n]
            = [capture |-> a, chunksExpected |-> q, rawLen |-> n, rawChunks |-> d,
               jitterChunks |-> e, result |-> f]
      BY <3>2
    <3>. QED
      BY <3>1, <3>3 DEF u
  <2>. QED
    BY <1>2, <2>1 DEF IsTrialState
<1>5. ASSUME NEW g, IsDict(g)
      PROVE  /\ IsTrialState([st EXCEPT !.rawChunks = g])
             /\ IsTrialState([st EXCEPT !.jitterChunks = g])
  BY <1>1, <1>2, <1>5 DEF IsTrialState
<1>. QED
  BY <1>3, <1>4, <1>5

\* A sequence extended by a row is a sequence of its elements.
LEMMA AppendIsSeq ==
    ASSUME NEW s, s \in Seq(Range(s)), NEW x, NEW t, t = Append(s, x)
    PROVE  /\ t \in Seq(Range(t))
           /\ DOMAIN t = 1..(Len(s) + 1) /\ DOMAIN s = 1..Len(s) /\ Len(s) \in Nat
           /\ \A i \in DOMAIN s : t[i] = s[i]
           /\ t[Len(s) + 1] = x
<1>. DEFINE S == Range(s) \cup {x}
<1>1. s \in Seq(S) /\ x \in S
  OBVIOUS
<1>. HIDE DEF S
<1>2. /\ t \in Seq(S) /\ Len(t) = Len(s) + 1 /\ Len(s) \in Nat /\ t[Len(s) + 1] = x
      /\ \A i \in 1..Len(s) : t[i] = s[i]
  BY <1>1
<1>3. DOMAIN t = 1..(Len(s) + 1) /\ DOMAIN s = 1..Len(s)
  BY <1>1, <1>2
<1>4. t \in Seq(Range(t))
  BY <1>2, <1>3 DEF Range
<1>. QED
  BY <1>2, <1>3, <1>4

\* The states a datagram leads to are well-formed, if the one it changes is.
LEMMA StatesType ==
    ASSUME CollectorTypeOK, NEW k \in DOMAIN states, NEW st, IsTrialState(st)
    PROVE  LET s == [states EXCEPT ![k] = st]
           IN  /\ s = [l \in DOMAIN s |-> s[l]]
               /\ \A l \in DOMAIN s : l \in Ports \X Nat /\ IsTrialState(s[l])
BY DEF CollectorTypeOK

------------------------------------------------------------------------------
(* Type correctness. *)

\* The initial values have their types.
LEMMA TypeInit == Init => TypeOK
<1>. SUFFICES ASSUME Init
              PROVE  TypeOK
  OBVIOUS
<1>. USE DEF Init, ClientInit, CollectorInit, NetInit
<1>1. PortsOf[1] \subseteq Ports /\ (CHOOSE p \in Ports : TRUE) \in Ports
  <2>1. PortsOf[1] \in SUBSET Ports \ {{}}
    BY ClientAssumption
  <2>2. \E p \in Ports : TRUE
    BY <2>1
  <2>. QED
    BY <2>1, <2>2
<1>2. <<>> \in Seq(Byte)
  OBVIOUS
<1>3. NoStart \in Msg /\ hello \in Msg
  BY <1>1, <1>2, MessageType DEF NoStart, MsgTypes
<1>4. ClientTypeOK
  BY <1>1, <1>3, ClientAssumption DEF ClientTypeOK, ClientPcs
<1>5. rows \in Seq(Range(rows))
  OBVIOUS
<1>6. CollectorTypeOK
  BY <1>3, <1>5 DEF CollectorTypeOK
<1>. QED
  BY <1>4, <1>6, FaultAssumption DEF TypeOK

\* run_trial stays within the bounds START and the buffers set.
SampleInv ==
    /\ pc = "sample" => loop < Expected(start)
    /\ loop <= Expected(start)
    /\ packets_seen <= loop
    /\ sample_used <= Requested(start)

\* The types without the faults are kept by every client action.
LEMMA TypeClient ==
    ASSUME TypeOK, SampleInv, UNCHANGED collectorVars,
           \/ \E held \in BOOLEAN : JoinWifi(held)
           \/ BootFails \/ SendHello \/ ResendHello \/ DiscardUnbound \/ TakeStart
           \/ SkipInWait \/ StartTimeout \/ TakeBurst \/ SkipInSample \/ BurstTimeout
           \/ \E ok \in BOOLEAN : FinishSampling(ok)
           \/ SendUpload \/ TrialFails \/ NextTrial \/ Reset
    PROVE  /\ ClientTypeOK'
           /\ (pc = "upload" => up <= Len(UploadStream))'
           /\ CollectorTypeOK'
           /\ toGateway' \in Seq(Msg)
           /\ toDevice' \in Seq(Msg)
<1>. USE DEF TypeOK
<1>c. CollectorTypeOK'
  BY DEF CollectorTypeOK, collectorVars
<1>h. Hello \in Msg
  <2>1. <<>> \in Seq(Byte) /\ "HELLO" \in MsgTypes
    BY DEF MsgTypes
  <2>2. boot \in Nat /\ port \in Ports /\ trial \in Nat
    BY ClientAssumption DEF ClientTypeOK
  <2>3. BurstCount \in Nat /\ MaxSampleBytes \in Nat
    BY ClientAssumption
  <2>. QED
    BY <2>1, <2>2, <2>3, MessageType DEF Hello
<1>t. toDevice # <<>> => Head(toDevice) \in Msg /\ Tail(toDevice) \in Seq(Msg)
  OBVIOUS
<1>r. Requested(start) \in Nat /\ Expected(start) \in Nat
  BY Clamps, ClientAssumption DEF ClientTypeOK
<1>1. ASSUME NEW held \in BOOLEAN, JoinWifi(held)
      PROVE  /\ ClientTypeOK' /\ pc' # "upload"
             /\ toGateway' \in Seq(Msg) /\ toDevice' \in Seq(Msg)
  BY <1>1 DEF JoinWifi, ClientTypeOK, ClientPcs
<1>2. CASE BootFails \/ StartTimeout \/ BurstTimeout \/ TrialFails \/ NextTrial
  <2>1. /\ UNCHANGED <<boot, port, resends, start, loop, packets_seen, sample_used,
                       after_burst, up>>
        /\ UNCHANGED <<toGateway, toDevice>>
    BY <1>2 DEF BootFails, StartTimeout, BurstTimeout, TrialFails, NextTrial, netVars
  <2>2. trial' \in {trial, trial + 1}
    BY <1>2 DEF BootFails, StartTimeout, BurstTimeout, TrialFails, NextTrial
  <2>3. pc' \in {"fatal", "gap", "rest", "hello", "done"}
    BY <1>2 DEF BootFails, StartTimeout, BurstTimeout, TrialFails, NextTrial
  <2>4. pc' \in ClientPcs /\ pc' # "upload"
    BY <2>3 DEF ClientPcs
  <2>5. trial' \in Nat
    BY <2>2 DEF ClientTypeOK
  <2>6. ClientTypeOK'
    BY <2>1, <2>4, <2>5 DEF ClientTypeOK
  <2>. QED
    BY <1>c, <2>1, <2>4, <2>6
<1>3. CASE SendHello \/ ResendHello
  <2>1. Append(toGateway, Hello) \in Seq(Msg)
    BY <1>h
  <2>2. ClientTypeOK' /\ pc' = "wait"
    BY <1>3 DEF SendHello, ResendHello, ClientTypeOK, ClientPcs
  <2>. QED
    BY <1>3, <1>c, <2>1, <2>2 DEF SendHello, ResendHello
<1>4. CASE DiscardUnbound \/ SkipInWait
  <2>1. UNCHANGED UploadStream
    BY <1>4 DEF DiscardUnbound, SkipInWait, clientVars, UploadStream, RawBuf, JitterUs, Upload
  <2>. QED
    BY <2>1, <1>4, <1>c, <1>t
    DEF DiscardUnbound, SkipInWait, ClientReceives, clientVars, ClientTypeOK
<1>5. CASE TakeStart
  <2>1. pc' \in {"rest", "sample"}
    BY <1>5 DEF TakeStart
  <2>. QED
    BY <2>1, <1>5, <1>c, <1>t DEF TakeStart, ClientReceives, ClientTypeOK, ClientPcs
<1>6. CASE TakeBurst \/ SkipInSample
  <2>1. pc' \in {"rest", "sample"} /\ loop' \in Nat
    BY <1>6 DEF TakeBurst, SkipInSample, NextTurn, ClientTypeOK
  <2>2. CASE TakeBurst
    <3>1. Expected(start) > 0 /\ sample_used \in 0..Requested(start) /\ start \in Msg
      BY <2>2, <1>r DEF TakeBurst, SampleInv, ClientTypeOK
    <3>2. ToRead(start, sample_used) \in Nat
      BY <3>1, <1>r, SliceFits
    <3>3. /\ packets_seen' = packets_seen + 1 /\ toDevice' = Tail(toDevice) /\ toDevice # <<>>
          /\ sample_used' = sample_used + ToRead(start, sample_used)
          /\ after_burst' = after_burst + ToRead(start, sample_used)
          /\ UNCHANGED <<boot, port, trial, resends, start, up, toGateway>>
      BY <2>2 DEF TakeBurst, ClientReceives
    <3>4. packets_seen' \in Nat /\ sample_used' \in Nat /\ after_burst' \in Nat
      BY <3>2, <3>3 DEF ClientTypeOK
    <3>5. ClientTypeOK'
      BY <2>1, <3>3, <3>4 DEF ClientTypeOK, ClientPcs
    <3>. QED
      BY <2>1, <3>3, <3>5, <1>c, <1>t
  <2>3. CASE SkipInSample
    BY <2>1, <2>3, <1>c, <1>t DEF SkipInSample, ClientReceives, ClientTypeOK, ClientPcs
  <2>. QED
    BY <1>6, <2>2, <2>3
<1>7. ASSUME NEW ok \in BOOLEAN, FinishSampling(ok)
      PROVE  /\ ClientTypeOK' /\ (up <= Len(UploadStream))'
             /\ toGateway' \in Seq(Msg) /\ toDevice' \in Seq(Msg)
  <2>1. /\ RawBuf \in Seq(Byte) /\ JitterUs \in Seq(Byte) /\ start.trial \in Nat
        /\ start.nonce \in Nat
    <3>1. boot \in Nat /\ trial \in Nat /\ packets_seen \in Nat /\ start \in Msg
      BY ClientAssumption DEF ClientTypeOK
    <3>. QED
      BY <3>1, <1>r, DrawnType DEF RawBuf, JitterUs, Msg
  <2>2. ResultLine(port, start.trial, packets_seen, Requested(start), start.nonce, RawBuf,
                   JitterUs) \in Msg
    BY <2>1, <1>r DEF ResultLine, Message, Msg, MsgTypes, ClientTypeOK
  <2>3. ClientTypeOK'
    BY <1>7, <1>r DEF FinishSampling, ClientTypeOK, ClientPcs
  <2>4. (Len(UploadStream) >= 1)' /\ Len(UploadStream)' \in Nat
    <3>1. ClientTypeOK' => (UploadStream \in Seq(Msg) /\ Len(UploadStream) >= 1)'
      BY UploadStreamType, PTL
    <3>. QED
      BY <2>3, <3>1
  <2>. QED
    BY <1>7, <2>2, <2>3, <2>4 DEF FinishSampling
<1>8. CASE SendUpload
  <2>1. UploadStream' = UploadStream
    BY <1>8 DEF SendUpload, UploadStream, RawBuf, JitterUs, Upload
  <2>2. /\ UploadStream \in Seq(Msg) /\ up \in 1..Len(UploadStream)
    BY <1>8, UploadStreamType DEF SendUpload, ClientTypeOK
  <2>3. UploadStream[up] \in Msg
    BY <2>2
  <2>4. ClientTypeOK' /\ toGateway' \in Seq(Msg) /\ toDevice' \in Seq(Msg)
    BY <1>8, <2>3 DEF SendUpload, ClientTypeOK, ClientPcs
  <2>5. pc' = "upload" => up' <= Len(UploadStream)
    BY <1>8, <2>2 DEF SendUpload
  <2>. QED
    BY <2>1, <2>4, <2>5, <1>c
<1>9. CASE Reset
  <2>1. boot' \in 1..MaxBoots
    BY <1>9, ClientAssumption DEF Reset, ClientTypeOK
  <2>2. port' \in Ports
    <3>1. PortsOf[boot'] \in SUBSET Ports \ {{}}
      BY <2>1, ClientAssumption
    <3>. QED
      BY <3>1, <1>9 DEF Reset
  <2>3. NoStart \in Msg
    <3>1. <<>> \in Seq(Byte) /\ (CHOOSE p \in Ports : TRUE) \in Ports
      BY <2>2
    <3>. QED
      BY <3>1, MessageType DEF NoStart, MsgTypes
  <2>. QED
    BY <1>9, <1>c, <2>1, <2>2, <2>3 DEF Reset, ClientTypeOK, ClientPcs, netVars
<1>. QED
  BY <1>1, <1>2, <1>3, <1>4, <1>5, <1>6, <1>7, <1>8, <1>9, <1>c

\* The types without the faults are kept by every collector action.
LEMMA TypeCollector ==
    ASSUME TypeOK, kpc = "stim" => captures > 0, UNCHANGED clientVars,
           \/ RecvHello \/ SendBurst \/ StimulusDone \/ RecvUnknown \/ RecvResult
           \/ RecvBegin \/ RecvChunk \/ RecvJitter \/ RecvEnd \/ DiscardStopped \/ IdleTimeout
    PROVE  /\ ClientTypeOK'
           /\ (pc = "upload" => up <= Len(UploadStream))'
           /\ CollectorTypeOK'
           /\ toGateway' \in Seq(Msg)
           /\ toDevice' \in Seq(Msg)
<1>. DEFINE m == Head(toGateway)
<1>. USE DEF TypeOK
<1>c. ClientTypeOK'
  BY DEF ClientTypeOK, clientVars
<1>u. (pc = "upload" => up <= Len(UploadStream))'
  <2>1. UNCHANGED UploadStream
    BY DEF clientVars, UploadStream, RawBuf, JitterUs, Upload
  <2>. QED
    BY <2>1 DEF clientVars
<1>e. <<>> \in Seq(Byte)
  OBVIOUS
<1>m. toGateway # <<>> => m \in Msg /\ Tail(toGateway) \in Seq(Msg)
  OBVIOUS
<1>f. toGateway # <<>> => /\ m.seq \in Nat /\ m.bytes \in Nat /\ m.trial \in Nat
                          /\ m.nonce \in Nat /\ m.port \in Ports
                          /\ m.payload \in Seq(Byte) /\ m.jitter \in Seq(Byte)
  BY <1>m DEF Msg
<1>p. toGateway # <<>> => Prefix(m.payload, m.bytes) \in Seq(Byte)
  BY <1>f, PrefixType
<1>b. \A h \in Msg : Bursts(h) \in Nat /\ SampleBytes(h) \in Nat
  BY CollectorAssumption DEF Bursts, SampleBytes, Msg
<1>. HIDE DEF m
<1>1. CASE RecvHello
  <2>1. Message("START", m.port, m.trial, Bursts(m), SampleBytes(m), m.nonce, <<>>) \in Msg
    BY <1>1, <1>e, <1>m, <1>f, <1>b, MessageType DEF RecvHello, CollectorReceives, MsgTypes
  <2>2. CollectorTypeOK'
    BY <1>1, <1>m DEF RecvHello, CollectorReceives, CollectorTypeOK, m
  <2>. QED
    BY <1>1, <1>c, <1>u, <1>m, <2>1, <2>2 DEF RecvHello, CollectorReceives, m
<1>2. CASE SendBurst
  <2>1. Message("BURST", hello.port, hello.trial, sent, SampleBytes(hello), hello.nonce, <<>>)
          \in Msg
    BY <1>e, <1>b, MessageType DEF MsgTypes, CollectorTypeOK, Msg
  <2>2. CollectorTypeOK'
    BY <1>2 DEF SendBurst, CollectorTypeOK
  <2>. QED
    BY <1>2, <1>c, <1>u, <2>1, <2>2 DEF SendBurst
<1>3. CASE StimulusDone
  <2>1. IsTrialState(NewTrialState(captures - 1))
    <3>1. captures - 1 \in Nat
      BY <1>3 DEF StimulusDone, CollectorTypeOK
    <3>2. IsDict(<<>>)
      BY DEF IsDict
    <3>. QED
      BY <3>1, <3>2, <1>e DEF NewTrialState, IsTrialState, NoResult
  <2>2. Key(hello) \in Ports \X Nat
    BY DEF Key, CollectorTypeOK, Msg
  <2>3. CollectorTypeOK'
    BY <1>3, <2>1, <2>2 DEF StimulusDone, CollectorTypeOK, Put
  <2>. QED
    BY <1>3, <1>c, <1>u, <2>3 DEF StimulusDone, netVars
<1>4. CASE RecvUnknown \/ DiscardStopped \/ IdleTimeout
  <2>1. CollectorTypeOK'
    BY <1>4 DEF RecvUnknown, DiscardStopped, IdleTimeout, CollectorTypeOK, collectorVars
  <2>. QED
    BY <1>4, <1>c, <1>u, <1>m, <2>1
    DEF RecvUnknown, DiscardStopped, IdleTimeout, CollectorReceives, netVars
<1>5. ASSUME NEW type, RecvFor(type), NEW st, IsTrialState(st),
             states' = [states EXCEPT ![Key(m)] = st]
      PROVE  CollectorTypeOK' /\ toGateway' \in Seq(Msg) /\ toDevice' \in Seq(Msg)
  <2>1. Key(m) \in DOMAIN states
    BY <1>5 DEF RecvFor, m
  <2>2. /\ states' = [k \in DOMAIN states' |-> states'[k]]
        /\ \A k \in DOMAIN states' : k \in Ports \X Nat /\ IsTrialState(states'[k])
    BY <1>5, <2>1, StatesType
  <2>. QED
    BY <1>5, <1>m, <2>2 DEF RecvFor, CollectorReceives, CollectorTypeOK
<1>6. CASE RecvResult
  <2>. DEFINE st == [states[Key(m)] EXCEPT !.result =
                        [bytes |-> m.bytes, raw |-> m.payload, jitter |-> m.jitter]]
  <2>1. toGateway # <<>> /\ Key(m) \in DOMAIN states /\ RecvFor("RESULT")
    BY <1>6 DEF RecvResult, RecvFor, CollectorReceives, m
  <2>2. IsTrialState(st)
    BY <2>1, <1>f, TrialStateUpdate DEF CollectorTypeOK
  <2>. QED
    BY <1>5, <1>6, <1>c, <1>u, <2>1, <2>2 DEF RecvResult, m
<1>7. CASE RecvBegin
  <2>. DEFINE st == [states[Key(m)] EXCEPT !.chunksExpected = m.seq, !.rawLen = m.bytes]
  <2>1. toGateway # <<>> /\ Key(m) \in DOMAIN states /\ RecvFor("RAW_BEGIN")
    BY <1>7 DEF RecvBegin, RecvFor, CollectorReceives, m
  <2>2. IsTrialState(st)
    BY <2>1, <1>f, TrialStateUpdate DEF CollectorTypeOK
  <2>3. states' = [states EXCEPT ![Key(m)] = st]
    BY <1>7, <2>1 DEF RecvBegin, CollectorTypeOK, m
  <2>. QED
    BY <1>5, <1>c, <1>u, <2>1, <2>2, <2>3
<1>8. CASE RecvChunk
  <2>. DEFINE d == Put(states[Key(m)].rawChunks, m.seq, Prefix(m.payload, m.bytes))
              st == [states[Key(m)] EXCEPT !.rawChunks = d]
  <2>1. toGateway # <<>> /\ Key(m) \in DOMAIN states /\ RecvFor("RAW_CHUNK")
    BY <1>8 DEF RecvChunk, RecvFor, CollectorReceives, m
  <2>2. IsDict(d)
    BY <2>1, <1>f, <1>p, PutType DEF CollectorTypeOK, IsTrialState
  <2>3. IsTrialState(st)
    BY <2>1, <2>2, TrialStateUpdate DEF CollectorTypeOK
  <2>. QED
    BY <1>5, <1>8, <1>c, <1>u, <2>1, <2>3 DEF RecvChunk, m
<1>9. CASE RecvJitter
  <2>. DEFINE d == Put(states[Key(m)].jitterChunks, m.seq, Prefix(m.payload, m.bytes))
              st == [states[Key(m)] EXCEPT !.jitterChunks = d]
  <2>1. toGateway # <<>> /\ Key(m) \in DOMAIN states /\ RecvFor("JITTER_CHUNK")
    BY <1>9 DEF RecvJitter, RecvFor, CollectorReceives, m
  <2>2. IsDict(d)
    BY <2>1, <1>f, <1>p, PutType DEF CollectorTypeOK, IsTrialState
  <2>3. IsTrialState(st)
    BY <2>1, <2>2, TrialStateUpdate DEF CollectorTypeOK
  <2>. QED
    BY <1>5, <1>9, <1>c, <1>u, <2>1, <2>3 DEF RecvJitter, m
<1>10. CASE RecvEnd
  <2>. DEFINE row == Finalized(Ended(states[Key(m)], m))
  <2>1. /\ rows' = Append(rows, row)
        /\ states' = [k \in DOMAIN states \ {Key(m)} |-> states[k]]
        /\ toGateway # <<>>
        /\ toGateway' = Tail(toGateway)
        /\ completed' = IF row.complete THEN completed + 1 ELSE completed
        /\ kpc' \in {"recv", "stopped"}
        /\ UNCHANGED <<hello, sent, captures, toDevice>>
    BY <1>10 DEF RecvEnd, CollectorReceives, m
  <2>. HIDE DEF row
  <2>2. rows' \in Seq(Range(rows)')
    BY <2>1, AppendIsSeq DEF CollectorTypeOK
  <2>3. /\ states' = [k \in DOMAIN states' |-> states'[k]]
        /\ \A k \in DOMAIN states' : k \in Ports \X Nat /\ IsTrialState(states'[k])
    BY <2>1 DEF CollectorTypeOK
  <2>4. completed' \in Nat
    BY <2>1 DEF CollectorTypeOK
  <2>5. CollectorTypeOK'
    BY <2>1, <2>2, <2>3, <2>4 DEF CollectorTypeOK
  <2>. QED
    BY <1>c, <1>u, <1>m, <2>1, <2>5
<1>. QED
  BY <1>1, <1>2, <1>3, <1>4, <1>6, <1>7, <1>8, <1>9, <1>10

\* Every step is a network fault, a client action or a collector action.
LEMMA StepCases ==
    ASSUME TypeOK, [Next]_vars
    PROVE  \/ NetworkFault
           \/ /\ UNCHANGED collectorVars
              /\ \/ \E held \in BOOLEAN : JoinWifi(held)
                 \/ BootFails \/ SendHello \/ ResendHello \/ DiscardUnbound \/ TakeStart
                 \/ SkipInWait \/ StartTimeout \/ TakeBurst \/ SkipInSample \/ BurstTimeout
                 \/ \E ok \in BOOLEAN : FinishSampling(ok)
                 \/ SendUpload \/ TrialFails \/ NextTrial \/ Reset
           \/ /\ UNCHANGED clientVars
              /\ \/ RecvHello \/ SendBurst \/ StimulusDone \/ RecvUnknown \/ RecvResult
                 \/ RecvBegin \/ RecvChunk \/ RecvJitter \/ RecvEnd \/ DiscardStopped
                 \/ IdleTimeout
           \/ UNCHANGED vars
BY DEF Next, ClientStep, ClientTimeout, LateDelivery, ClientError, CollectorStep, CollectorIdle

\* No step uses more faults than there are.
LEMMA FaultsType ==
    ASSUME TypeOK, [Next]_vars
    PROVE  faults' \in 0..MaxFaults
<1>1. faults \in 0..MaxFaults /\ MaxFaults \in Nat
  BY FaultAssumption DEF TypeOK
<1>2. ASSUME NEW kind, Fault(kind)
      PROVE  faults' \in 0..MaxFaults
  BY <1>1, <1>2 DEF Fault
<1>3. \/ UNCHANGED faults
      \/ \E kind \in {"drop", "dup", "delay", "error", "idle"} : Fault(kind)
  BY DEF Next, NetworkFault, ClientStep, ClientTimeout, LateDelivery, ClientError,
         CollectorStep, CollectorIdle, TimesOut, vars
<1>. QED
  BY <1>1, <1>2, <1>3

\* The burst loop stays within the bounds of START: every action of the client
\* that changes them.
LEMMA SampleStep ==
    ASSUME TypeOK, SampleInv, [Next]_vars
    PROVE  SampleInv'
<1>r. /\ Requested(start) \in Nat /\ Expected(start) \in Nat /\ start \in Msg
      /\ loop \in Nat /\ packets_seen \in Nat /\ sample_used \in Nat
  BY Clamps, ClientAssumption DEF ClientTypeOK, TypeOK
<1>k. ASSUME UNCHANGED <<start, loop, packets_seen, sample_used>>,
             pc' = "sample" => pc = "sample"
      PROVE  SampleInv'
  BY <1>k DEF SampleInv, Expected, Requested
<1>1. CASE NetworkFault \/ UNCHANGED clientVars \/ UNCHANGED vars
  BY <1>1, <1>k DEF NetworkFault, clientVars, vars
<1>2. CASE \/ \E held \in BOOLEAN : JoinWifi(held)
           \/ BootFails \/ SendHello \/ ResendHello \/ DiscardUnbound \/ SkipInWait
           \/ StartTimeout \/ BurstTimeout \/ SendUpload \/ TrialFails \/ NextTrial
  BY <1>2, <1>k DEF JoinWifi, BootFails, SendHello, ResendHello, DiscardUnbound, SkipInWait,
                    StartTimeout, BurstTimeout, SendUpload, TrialFails, NextTrial, clientVars
<1>3. CASE TakeStart
  <2>1. start' \in Msg
    BY <1>3 DEF TakeStart, ClientReceives, TypeOK
  <2>2. Requested(start') \in Nat /\ Expected(start') \in Nat
    BY <2>1, Clamps, ClientAssumption
  <2>. QED
    BY <1>3, <2>2 DEF TakeStart, SampleInv, Expected, Requested
<1>4. CASE TakeBurst
  <2>1. /\ sample_used' = sample_used + ToRead(start, sample_used)
        /\ packets_seen' = packets_seen + 1 /\ loop' = loop + 1 /\ start' = start
        /\ pc' = IF loop + 1 < Expected(start) THEN "sample" ELSE "rest"
        /\ loop < Expected(start) /\ packets_seen <= loop /\ sample_used <= Requested(start)
    BY <1>4 DEF TakeBurst, NextTurn, SampleInv
  <2>2. Expected(start) > 0 /\ sample_used \in 0..Requested(start)
    BY <1>r, <2>1
  <2>3. ToRead(start, sample_used) \in 0..(Requested(start) - sample_used)
    BY <1>r, <2>2, SliceFits
  <2>4. Expected(start') = Expected(start) /\ Requested(start') = Requested(start)
    BY <2>1
  <2>5. sample_used' <= Requested(start')
    BY <1>r, <2>1, <2>3, <2>4
  <2>6. loop' <= Expected(start') /\ packets_seen' <= loop'
    BY <1>r, <2>1, <2>4
  <2>. QED
    BY <2>1, <2>4, <2>5, <2>6 DEF SampleInv
<1>5. CASE SkipInSample
  <2>1. /\ packets_seen' = packets_seen /\ sample_used' = sample_used
        /\ loop' = loop + 1 /\ start' = start
        /\ pc' = IF loop + 1 < Expected(start) THEN "sample" ELSE "rest"
        /\ loop < Expected(start) /\ packets_seen <= loop /\ sample_used <= Requested(start)
    BY <1>5 DEF SkipInSample, NextTurn, SampleInv
  <2>. QED
    BY <1>r, <2>1 DEF SampleInv
<1>6. ASSUME NEW ok \in BOOLEAN, FinishSampling(ok)
      PROVE  SampleInv'
  BY <1>6, <1>r DEF FinishSampling, SampleInv
<1>7. CASE Reset
  <2>1. Requested(NoStart) \in Nat /\ Expected(NoStart) = 0
    BY ClientAssumption DEF NoStart, Message, Requested, Expected
  <2>2. /\ start' = NoStart /\ pc' = "boot" /\ loop' = 0 /\ packets_seen' = 0
        /\ sample_used' = 0
    BY <1>7 DEF Reset
  <2>. QED
    BY <2>1, <2>2 DEF SampleInv
<1>. QED
  BY <1>1, <1>2, <1>3, <1>4, <1>5, <1>6, <1>7, StepCases

\* What the first proofs carry from step to step: types, the sampling bounds,
\* and a capture id having been taken before the bursts go out.
CoreInv ==
    /\ TypeOK
    /\ SampleInv
    /\ kpc = "stim" => captures > 0

\* The inductive invariant holds when the board and the collector start.
LEMMA CoreInit == Init => CoreInv
<1>. SUFFICES ASSUME Init
              PROVE  CoreInv
  OBVIOUS
<1>1. TypeOK
  BY TypeInit
<1>2. Requested(NoStart) \in Nat /\ Expected(NoStart) = 0
  BY ClientAssumption DEF NoStart, Message, Requested, Expected
<1>3. SampleInv
  BY <1>2 DEF Init, ClientInit, SampleInv
<1>. QED
  BY <1>1, <1>3 DEF CoreInv, Init, CollectorInit

\* Every step of the client, the collector and the network keeps it.
LEMMA CoreStep == CoreInv /\ [Next]_vars => CoreInv'
<1>. SUFFICES ASSUME CoreInv, [Next]_vars
              PROVE  CoreInv'
  OBVIOUS
<1>. USE DEF CoreInv
<1>1. SampleInv'
  BY SampleStep
<1>2. faults' \in 0..MaxFaults
  BY FaultsType
<1>. DEFINE Rest == /\ ClientTypeOK /\ (pc = "upload" => up <= Len(UploadStream))
                    /\ CollectorTypeOK /\ toGateway \in Seq(Msg) /\ toDevice \in Seq(Msg)
<1>3. Rest'
  <2>1. CASE NetworkFault
    <3>1. UNCHANGED <<clientVars, collectorVars>>
      BY <2>1 DEF NetworkFault
    <3>2. UploadStream' = UploadStream
      BY <3>1 DEF clientVars, UploadStream, RawBuf, JitterUs, Upload
    <3>3. ClientTypeOK' /\ (pc = "upload" => up <= Len(UploadStream))' /\ CollectorTypeOK'
      BY <3>1, <3>2 DEF TypeOK, ClientTypeOK, CollectorTypeOK, clientVars, collectorVars
    <3>4. toGateway' \in Seq(Msg) /\ toDevice' \in Seq(Msg)
      BY <2>1, PerturbedType DEF NetworkFault, TypeOK
    <3>. QED
      BY <3>3, <3>4
  <2>2. CASE UNCHANGED vars
    <3>2. UploadStream' = UploadStream
      BY <2>2 DEF vars, clientVars, UploadStream, RawBuf, JitterUs, Upload
    <3>. QED
      BY <2>2, <3>2 DEF TypeOK, ClientTypeOK, CollectorTypeOK, vars, clientVars,
                        collectorVars, netVars
  <2>. HIDE DEF Rest
  <2>3. CASE ~NetworkFault /\ ~UNCHANGED vars
    BY <2>3, StepCases, TypeClient, TypeCollector DEF Rest
  <2>. QED
    BY <2>1, <2>2, <2>3
<1>4. (kpc = "stim" => captures > 0)'
  <2>1. CASE NetworkFault \/ UNCHANGED collectorVars \/ UNCHANGED vars
    BY <2>1 DEF NetworkFault, collectorVars, vars
  <2>2. CASE RecvHello
    BY <2>2 DEF RecvHello, TypeOK, CollectorTypeOK
  <2>3. CASE SendBurst
    BY <2>3 DEF SendBurst
  <2>4. CASE StimulusDone \/ RecvEnd \/ IdleTimeout
    BY <2>4 DEF StimulusDone, RecvEnd, IdleTimeout
  <2>5. CASE RecvUnknown \/ DiscardStopped
    BY <2>5 DEF RecvUnknown, DiscardStopped, collectorVars
  <2>6. CASE RecvResult \/ RecvBegin \/ RecvChunk \/ RecvJitter
    BY <2>6 DEF RecvResult, RecvBegin, RecvChunk, RecvJitter, RecvFor
  <2>. QED
    BY <2>1, <2>2, <2>3, <2>4, <2>5, <2>6, StepCases
<1>. QED
  BY <1>1, <1>2, <1>3, <1>4 DEF TypeOK

\* The inductive invariant of the sampling loop: the types, the bounds run_trial
\* keeps between its turns, and a capture id taken before send_stimulus runs.
THEOREM CoreHolds == Spec => []CoreInv
BY CoreInit, CoreStep, PTL DEF Spec

\* The variables of the firmware, the collector and the network keep their
\* types: in particular the upload index stays inside what send_raw_stream
\* sends, and each dict of the collector holds payloads under numbers.
THEOREM TypeCorrect == Spec => []TypeOK
<1>1. CoreInv => TypeOK
  BY DEF CoreInv
<1>. QED
  BY <1>1, CoreHolds, PTL

\* run_trial never stores outside raw_buf or jitter_us: for every buffer size,
\* every START parameter and every fault of the network.
THEOREM BuffersSafe == Spec => []BuffersInBounds
<1>1. CoreInv => BuffersInBounds
  <2>. SUFFICES ASSUME CoreInv
                PROVE  BuffersInBounds
    OBVIOUS
  <2>1. /\ Requested(start) \in 1..MaxSampleBytes /\ Expected(start) \in 0..MaxBursts
        /\ start \in Msg /\ loop \in Nat /\ packets_seen \in Nat /\ sample_used \in Nat
    BY Clamps DEF CoreInv, TypeOK, ClientTypeOK
  <2>2. MaxBursts \in Nat /\ MaxSampleBytes \in Nat
    BY ClientAssumption
  <2>3. sample_used \in 0..Requested(start)
    BY <2>1, <2>2 DEF CoreInv, SampleInv
  <2>4. ASSUME pc = "sample"
        PROVE  /\ packets_seen < MaxBursts
               /\ ToRead(start, sample_used) \in 0..(Requested(start) - sample_used)
    <3>1. loop < Expected(start) /\ packets_seen <= loop
      BY <2>4 DEF CoreInv, SampleInv
    <3>2. packets_seen < MaxBursts /\ Expected(start) > 0
      BY <2>1, <2>2, <3>1
    <3>. QED
      BY <2>1, <2>3, <3>2, SliceFits
  <2>. QED
    BY <2>1, <2>2, <2>3, <2>4 DEF BuffersInBounds
<1>. QED
  BY <1>1, CoreHolds, PTL

------------------------------------------------------------------------------
(* Captures. *)

\* Captures that have a TrialState or a row: all that were numbered, without
\* the one whose bursts are still going out.
Opened == IF kpc = "stim" THEN captures - 1 ELSE captures

\* The inductive invariant of the captures: those of the dict and of the rows are
\* all below the next number, and no two share one.
CaptureInv ==
    /\ \A k \in DOMAIN states : states[k].capture < Opened
    /\ \A i \in DOMAIN rows : rows[i].capture \in Nat /\ rows[i].capture < Opened
    /\ CaptureWrittenOnce

\* A datagram that fills in a TrialState does not change its capture.
LEMMA SameCapture ==
    ASSUME TypeOK, RecvResult \/ RecvBegin \/ RecvChunk \/ RecvJitter
    PROVE  /\ DOMAIN states' = DOMAIN states
           /\ \A k \in DOMAIN states : states'[k].capture = states[k].capture
           /\ UNCHANGED <<kpc, captures, rows>>
<1>. DEFINE k == Key(Head(toGateway))
<1>1. /\ k \in DOMAIN states /\ UNCHANGED <<kpc, captures, rows>>
  BY DEF RecvResult, RecvBegin, RecvChunk, RecvJitter, RecvFor
<1>2. PICK a, b, c, d, e, f :
         states[k] = [capture |-> a, chunksExpected |-> b, rawLen |-> c, rawChunks |-> d,
                      jitterChunks |-> e, result |-> f]
  <2>1. IsTrialState(states[k])
    BY <1>1 DEF TypeOK, CollectorTypeOK
  <2>. HIDE DEF k
  <2>. QED
    BY <2>1 DEF IsTrialState
<1>. HIDE DEF k
<1>3. ASSUME NEW st, st.capture = a, states' = [states EXCEPT ![k] = st]
      PROVE  /\ DOMAIN states' = DOMAIN states
             /\ \A l \in DOMAIN states : states'[l].capture = states[l].capture
  BY <1>1, <1>2, <1>3 DEF TypeOK, CollectorTypeOK
<1>4. CASE RecvResult
  <2>1. PICK r : states' = [states EXCEPT ![k] = [states[k] EXCEPT !.result = r]]
    BY <1>4 DEF RecvResult, k
  <2>. QED
    BY <1>1, <1>2, <1>3, <2>1
<1>5. CASE RecvBegin
  <2>1. PICK q, n :
           states' = [states EXCEPT ![k] = [states[k] EXCEPT !.chunksExpected = q, !.rawLen = n]]
    BY <1>1, <1>5 DEF RecvBegin, k, TypeOK, CollectorTypeOK
  <2>2. [states[k] EXCEPT !.chunksExpected = q, !.rawLen = n].capture = a
    BY <1>2
  <2>. QED
    BY <1>1, <1>3, <2>1, <2>2
<1>6. CASE RecvChunk
  <2>1. PICK r : states' = [states EXCEPT ![k] = [states[k] EXCEPT !.rawChunks = r]]
    BY <1>6 DEF RecvChunk, k
  <2>. QED
    BY <1>1, <1>2, <1>3, <2>1
<1>7. CASE RecvJitter
  <2>1. PICK r : states' = [states EXCEPT ![k] = [states[k] EXCEPT !.jitterChunks = r]]
    BY <1>7 DEF RecvJitter, k
  <2>. QED
    BY <1>1, <1>2, <1>3, <2>1
<1>. QED
  BY <1>1, <1>4, <1>5, <1>6, <1>7

\* RAW_END leaves the capture id and the reported digests of a TrialState alone.
LEMMA EndedKeeps ==
    ASSUME NEW st, IsTrialState(st), NEW m
    PROVE  Ended(st, m).capture = st.capture /\ Ended(st, m).result = st.result
<1>1. PICK a, b, c, d, e, f :
         st = [capture |-> a, chunksExpected |-> b, rawLen |-> c, rawChunks |-> d,
               jitterChunks |-> e, result |-> f]
  BY DEF IsTrialState
<1>. QED
  BY <1>1 DEF Ended

\* Every step keeps the numbering of captures: ids below capture_counter, no two alike.
LEMMA CaptureStep == CoreInv /\ CaptureInv /\ [Next]_vars => CaptureInv'
<1>. SUFFICES ASSUME CoreInv, CaptureInv, [Next]_vars
              PROVE  CaptureInv'
  OBVIOUS
<1>. USE DEF CaptureInv, CaptureWrittenOnce, Opened
<1>t. /\ TypeOK /\ captures \in Nat /\ (kpc = "stim" => captures > 0)
      /\ \A k \in DOMAIN states : IsTrialState(states[k]) /\ states[k].capture \in Nat
  BY DEF CoreInv, TypeOK, CollectorTypeOK, IsTrialState
<1>1. CASE NetworkFault \/ UNCHANGED collectorVars \/ UNCHANGED vars
  BY <1>1 DEF NetworkFault, collectorVars, vars
<1>2. CASE RecvHello
  <2>1. kpc = "recv" /\ kpc' = "stim" /\ captures' = captures + 1 /\ UNCHANGED <<states, rows>>
    BY <1>2 DEF RecvHello, CollectorReceives
  <2>2. Opened' = Opened
    BY <2>1, <1>t
  <2>. QED
    BY <2>1, <2>2
<1>3. CASE SendBurst \/ RecvUnknown \/ DiscardStopped
  BY <1>3 DEF SendBurst, RecvUnknown, DiscardStopped, collectorVars
<1>4. CASE IdleTimeout
  <2>1. kpc = "recv" /\ kpc' = "stopped" /\ UNCHANGED <<states, rows, captures>>
    BY <1>4 DEF IdleTimeout
  <2>. QED
    BY <2>1
<1>5. CASE StimulusDone
  <2>. DEFINE k == Key(hello)
  <2>1. /\ kpc = "stim" /\ kpc' = "recv" /\ UNCHANGED <<captures, rows>>
        /\ DOMAIN states' = DOMAIN states \cup {k}
        /\ states'[k].capture = captures - 1
        /\ \A l \in DOMAIN states \ {k} : states'[l] = states[l]
    BY <1>5 DEF StimulusDone, Put, NewTrialState
  <2>. HIDE DEF k
  <2>2. Opened = captures - 1 /\ Opened' = captures
    BY <2>1
  <2>3. \A i \in DOMAIN rows : /\ rows[i].capture \in Nat /\ rows[i].capture < captures
                               /\ rows[i].capture # captures - 1
    BY <2>2, <1>t
  <2>4. \A l \in DOMAIN states : /\ states[l].capture < captures
                                 /\ states[l].capture # captures - 1
    BY <2>2, <1>t
  <2>5. \A l \in DOMAIN states' : /\ states'[l].capture < captures
                                  /\ l # k => l \in DOMAIN states /\ states'[l] = states[l]
    BY <2>1, <2>4, <1>t
  <2>6. \A i \in DOMAIN rows, l \in DOMAIN states' : rows[i].capture # states'[l].capture
    BY <2>1, <2>3, <2>5
  <2>7. \A l, n \in DOMAIN states' : states'[l].capture = states'[n].capture => l = n
    BY <2>1, <2>4, <2>5
  <2>. QED
    BY <2>1, <2>2, <2>3, <2>5, <2>6, <2>7
<1>6. CASE RecvResult \/ RecvBegin \/ RecvChunk \/ RecvJitter
  BY <1>6, <1>t, SameCapture
<1>7. CASE RecvEnd
  <2>. DEFINE k == Key(Head(toGateway))
              row == Finalized(Ended(states[k], Head(toGateway)))
  <2>1. /\ k \in DOMAIN states /\ rows' = Append(rows, row)
        /\ DOMAIN states' = DOMAIN states \ {k}
        /\ \A l \in DOMAIN states' : states'[l] = states[l]
        /\ kpc = "recv" /\ kpc' # "stim" /\ UNCHANGED captures
    BY <1>7 DEF RecvEnd, CollectorReceives
  <2>2. row.capture = states[k].capture
    BY <2>1, <1>t, EndedKeeps DEF Finalized
  <2>. HIDE DEF row, k
  <2>3. /\ DOMAIN rows' = 1..(Len(rows) + 1) /\ DOMAIN rows = 1..Len(rows) /\ Len(rows) \in Nat
        /\ \A i \in DOMAIN rows : rows'[i] = rows[i]
        /\ rows'[Len(rows) + 1] = row
    BY <2>1, <1>t, AppendIsSeq DEF TypeOK, CollectorTypeOK
  <2>4. \A i \in DOMAIN rows' : \/ i \in DOMAIN rows /\ rows'[i].capture = rows[i].capture
                                \/ i = Len(rows) + 1 /\ rows'[i].capture = states[k].capture
    BY <2>2, <2>3
  <2>5. Opened' = Opened
    BY <2>1
  <2>. HIDE DEF Opened
  <2>6. \A i \in DOMAIN rows' : rows'[i].capture \in Nat /\ rows'[i].capture < Opened
    BY <2>1, <2>4, <1>t
  <2>7. \A i, j \in DOMAIN rows' : rows'[i].capture = rows'[j].capture => i = j
    BY <2>1, <2>4
  <2>8. \A i \in DOMAIN rows', l \in DOMAIN states' : rows'[i].capture # states'[l].capture
    BY <2>1, <2>4
  <2>. QED
    BY <2>1, <2>5, <2>6, <2>7, <2>8
<1>. QED
  BY <1>1, <1>2, <1>3, <1>4, <1>5, <1>6, <1>7, <1>t, StepCases

\* A HELLO opens one capture and a capture is written out at most once, however
\* often HELLO is resent, duplicated or answered across a reset.
THEOREM CapturesDistinct == Spec => []CaptureWrittenOnce
<1>1. Init => CaptureInv
  BY DEF Init, CollectorInit, CaptureInv, CaptureWrittenOnce
<1>2. CaptureInv => CaptureWrittenOnce
  BY DEF CaptureInv
<1>. QED
  BY <1>1, <1>2, CaptureStep, CoreHolds, PTL DEF Spec

------------------------------------------------------------------------------
(* Digests. *)

\* What may be on its way to the collector: a result line reports the buffer of
\* one trial.
Truthful == {m \in Msg : m.type = "RESULT" => IsOneTrial(m.payload)}

\* The inductive invariant of the digests: what the result line reports is one
\* trial, on its way and in the dicts.
MatchInv ==
    /\ pc = "boot" => trial = 0
    /\ pc \in {"hello", "wait", "sample", "rest", "upload", "gap"} => trial < ClientTrials
    /\ toGateway \in Seq(Truthful)
    /\ \A k \in DOMAIN states : IsOneTrial(states[k].result.raw)
    /\ MatchedRawIsOneTrial

\* What send_raw_stream sends: the frames around the upload tell its pieces and
\* size, a raw chunk is the piece its number names.
UploadFrame(u) ==
    /\ u.type \in {"RAW_BEGIN", "RAW_END"}
    /\ u.seq = NumChunks(Requested(start), ChunkBytes)
    /\ u.bytes = Requested(start)

UploadChunk(u) ==
    /\ u.type = "RAW_CHUNK" /\ u.port = port /\ u.trial = start.trial /\ u.seq \in Nat
    /\ u.payload = ChunkOf(RawBuf, u.seq, ChunkBytes) /\ u.bytes = Len(u.payload)

\* Every datagram of send_raw_stream is a frame, a raw chunk or a jitter chunk.
LEMMA UploadDatagrams ==
    ASSUME ClientTypeOK, NEW i \in DOMAIN UploadStream
    PROVE  \/ UploadFrame(UploadStream[i])
           \/ UploadChunk(UploadStream[i])
           \/ UploadStream[i].type = "JITTER_CHUNK"
<1>. DEFINE rawChunks == NumChunks(Requested(start), ChunkBytes)
            jitterChunks == NumChunks(packets_seen, JitterPerChunk)
            Chunk(n) == ChunkOf(RawBuf, n, ChunkBytes)
            Jitter(n) == ChunkOf(JitterUs, n, JitterPerChunk)
            Frame(type) == <<Upload(type, rawChunks, Requested(start), <<>>)>>
            raws == [n \in 1..rawChunks |->
                        Upload("RAW_CHUNK", n - 1, Len(Chunk(n - 1)), Chunk(n - 1))]
            jits == [n \in 1..jitterChunks |->
                        Upload("JITTER_CHUNK", n - 1, Len(Jitter(n - 1)), Jitter(n - 1))]
            all == {Frame("RAW_BEGIN")[1], Frame("RAW_END")[1]}
                      \cup {raws[n] : n \in 1..rawChunks} \cup {jits[n] : n \in 1..jitterChunks}
<1>1. rawChunks \in Nat /\ jitterChunks \in Nat
  <2>1. Requested(start) \in Nat /\ packets_seen \in Nat
    BY Clamps, ClientAssumption DEF ClientTypeOK
  <2>. QED
    BY <2>1, NumChunksType, ChunkAssumption
<1>2. \A u \in all : UploadFrame(u) \/ UploadChunk(u) \/ u.type = "JITTER_CHUNK"
  <2>1. \A type, q, n, pl :
           LET u == Upload(type, q, n, pl)
           IN  /\ u.type = type /\ u.port = port /\ u.trial = start.trial
               /\ u.seq = q /\ u.bytes = n /\ u.payload = pl
    BY DEF Upload, Message
  <2>2. UploadFrame(Frame("RAW_BEGIN")[1]) /\ UploadFrame(Frame("RAW_END")[1])
    BY <2>1 DEF UploadFrame
  <2>3. ASSUME NEW n \in 1..rawChunks
        PROVE  UploadChunk(raws[n])
    <3>1. n - 1 \in Nat /\ raws[n] = Upload("RAW_CHUNK", n - 1, Len(Chunk(n - 1)), Chunk(n - 1))
      BY <1>1
    <3>. QED
      BY <2>1, <3>1 DEF UploadChunk
  <2>4. ASSUME NEW n \in 1..jitterChunks
        PROVE  jits[n].type = "JITTER_CHUNK"
    BY <2>1
  <2>. HIDE DEF raws, jits, Frame
  <2>. QED
    BY <2>2, <2>3, <2>4
<1>3. UploadStream = Frame("RAW_BEGIN") \o raws \o jits \o Frame("RAW_END")
  BY DEF UploadStream
<1>4. /\ raws \in Seq(all) /\ jits \in Seq(all)
      /\ Frame("RAW_BEGIN") \in Seq(all) /\ Frame("RAW_END") \in Seq(all)
  <2>1. \A n \in 1..rawChunks : raws[n] \in all
    OBVIOUS
  <2>2. \A n \in 1..jitterChunks : jits[n] \in all
    OBVIOUS
  <2>3. Frame("RAW_BEGIN")[1] \in all /\ Frame("RAW_END")[1] \in all
    OBVIOUS
  <2>. HIDE DEF all, Chunk, Jitter, rawChunks, jitterChunks
  <2>4. raws \in Seq(all) /\ jits \in Seq(all)
    BY <1>1, <2>1, <2>2
  <2>. QED
    BY <2>3, <2>4
<1>. HIDE DEF all, raws, jits, Frame
<1>5. UploadStream \in Seq(all)
  BY <1>3, <1>4
<1>6. UploadStream[i] \in all
  BY <1>5
<1>. QED
  BY <1>2, <1>6

\* No datagram of send_raw_stream is a result line.
LEMMA UploadIsNoResult ==
    ASSUME ClientTypeOK, NEW i \in DOMAIN UploadStream
    PROVE  UploadStream[i].type # "RESULT"
BY UploadDatagrams DEF UploadFrame, UploadChunk

\* A later boot may only add trials.
LEMMA OneTrialKept ==
    ASSUME TypeOK, boot' = boot \/ boot' = boot + 1, NEW bytes, IsOneTrial(bytes)
    PROVE  IsOneTrial(bytes)'
BY DEF IsOneTrial, TypeOK, ClientTypeOK

\* A row whose digest matched holds the bytes the result line reported.
LEMMA MatchedIsReported ==
    ASSUME NEW st, IsTrialState(st), NEW m, Finalized(Ended(st, m)).rawMatch
    PROVE  Finalized(Ended(st, m)).raw = st.result.raw
<1>. DEFINE u == Ended(st, m)
<1>1. u.result = st.result
  BY EndedKeeps
<1>. HIDE DEF u
<1>2. Finalized(u).rawMatch
  BY DEF u
<1>3. Finalized(u).raw = u.result.raw
  BY <1>2 DEF Finalized, Matches
<1>. QED
  BY <1>1, <1>3 DEF u

\* The reported raw digest of a TrialState changes only by RESULT.
LEMMA SameResult ==
    ASSUME TypeOK, RecvBegin \/ RecvChunk \/ RecvJitter
    PROVE  /\ DOMAIN states' = DOMAIN states
           /\ \A k \in DOMAIN states : states'[k].result = states[k].result
<1>. DEFINE k == Key(Head(toGateway))
<1>1. k \in DOMAIN states
  BY DEF RecvBegin, RecvChunk, RecvJitter, RecvFor
<1>2. PICK a, b, c, d, e, f :
         states[k] = [capture |-> a, chunksExpected |-> b, rawLen |-> c, rawChunks |-> d,
                      jitterChunks |-> e, result |-> f]
  <2>1. IsTrialState(states[k])
    BY <1>1 DEF TypeOK, CollectorTypeOK
  <2>. HIDE DEF k
  <2>. QED
    BY <2>1 DEF IsTrialState
<1>. HIDE DEF k
<1>3. ASSUME NEW st, st.result = f, states' = [states EXCEPT ![k] = st]
      PROVE  /\ DOMAIN states' = DOMAIN states
             /\ \A l \in DOMAIN states : states'[l].result = states[l].result
  BY <1>1, <1>2, <1>3 DEF TypeOK, CollectorTypeOK
<1>4. CASE RecvBegin
  <2>1. PICK q, n :
           states' = [states EXCEPT ![k] = [states[k] EXCEPT !.chunksExpected = q, !.rawLen = n]]
    BY <1>1, <1>4 DEF RecvBegin, k, TypeOK, CollectorTypeOK
  <2>2. [states[k] EXCEPT !.chunksExpected = q, !.rawLen = n].result = f
    BY <1>2
  <2>. QED
    BY <1>1, <1>3, <2>1, <2>2
<1>5. CASE RecvChunk
  <2>1. PICK r : states' = [states EXCEPT ![k] = [states[k] EXCEPT !.rawChunks = r]]
    BY <1>5 DEF RecvChunk, k
  <2>. QED
    BY <1>1, <1>2, <1>3, <2>1
<1>6. CASE RecvJitter
  <2>1. PICK r : states' = [states EXCEPT ![k] = [states[k] EXCEPT !.jitterChunks = r]]
    BY <1>6 DEF RecvJitter, k
  <2>. QED
    BY <1>1, <1>2, <1>3, <2>1
<1>. QED
  BY <1>4, <1>5, <1>6

\* The client's part: its trial numbers, and only truthful datagrams go out.
LEMMA MatchClient ==
    ASSUME CoreInv, MatchInv, UNCHANGED collectorVars,
           \/ \E held \in BOOLEAN : JoinWifi(held)
           \/ BootFails \/ SendHello \/ ResendHello \/ DiscardUnbound \/ TakeStart
           \/ SkipInWait \/ StartTimeout \/ TakeBurst \/ SkipInSample \/ BurstTimeout
           \/ \E ok \in BOOLEAN : FinishSampling(ok)
           \/ SendUpload \/ TrialFails \/ NextTrial \/ Reset
    PROVE  MatchInv'
<1>t. /\ TypeOK /\ ClientTypeOK /\ trial \in Nat /\ boot \in 1..MaxBoots /\ MaxBoots \in Nat
      /\ ClientTrials \in Nat /\ toGateway \in Seq(Truthful)
  BY ClientAssumption DEF CoreInv, TypeOK, ClientTypeOK, MatchInv
<1>b. boot' = boot \/ boot' = boot + 1
  BY DEF JoinWifi, BootFails, SendHello, ResendHello, DiscardUnbound, TakeStart, SkipInWait,
         StartTimeout, TakeBurst, SkipInSample, BurstTimeout, FinishSampling, SendUpload,
         TrialFails, NextTrial, Reset, clientVars
<1>1. /\ (pc = "boot" => trial = 0)'
      /\ (pc \in {"hello", "wait", "sample", "rest", "upload", "gap"} => trial < ClientTrials)'
  <2>1. CASE \/ \E held \in BOOLEAN : JoinWifi(held)
             \/ BootFails \/ SendHello \/ ResendHello \/ DiscardUnbound \/ TakeStart
             \/ SkipInWait \/ StartTimeout
    BY <2>1, <1>t DEF MatchInv, JoinWifi, BootFails, SendHello, ResendHello, DiscardUnbound,
                      TakeStart, SkipInWait, StartTimeout, clientVars
  <2>2. CASE TakeBurst \/ SkipInSample \/ BurstTimeout \/ SendUpload \/ TrialFails
             \/ NextTrial \/ Reset
    BY <2>2, <1>t DEF MatchInv, TakeBurst, SkipInSample, BurstTimeout, SendUpload,
                      TrialFails, NextTrial, Reset, NextTurn
  <2>3. ASSUME NEW ok \in BOOLEAN, FinishSampling(ok)
        PROVE  pc' = "upload" /\ trial' = trial /\ trial < ClientTrials
    BY <2>3 DEF MatchInv, FinishSampling
  <2>. QED
    BY <2>1, <2>2, <2>3
<1>2. toGateway' \in Seq(Truthful)
  <2>h. Hello \in Truthful
    <3>1. <<>> \in Seq(Byte) /\ "HELLO" \in MsgTypes /\ "HELLO" # "RESULT"
      BY DEF MsgTypes
    <3>2. boot \in Nat /\ port \in Ports /\ BurstCount \in Nat /\ MaxSampleBytes \in Nat
      BY <1>t, ClientAssumption DEF ClientTypeOK
    <3>3. Hello \in Msg
      BY <1>t, <3>1, <3>2, MessageType DEF Hello
    <3>4. Hello.type = "HELLO"
      BY DEF Hello, Message
    <3>. QED
      BY <3>1, <3>3, <3>4 DEF Truthful
  <2>1. CASE SendHello \/ ResendHello
    BY <2>1, <2>h, <1>t DEF SendHello, ResendHello
  <2>2. CASE SendUpload
    <3>1. UploadStream \in Seq(Msg) /\ up \in DOMAIN UploadStream
      BY <2>2, <1>t, UploadStreamType DEF SendUpload, ClientTypeOK, TypeOK
    <3>2. UploadStream[up] \in Truthful
      BY <1>t, <3>1, UploadIsNoResult DEF Truthful
    <3>. QED
      BY <2>2, <1>t, <3>2 DEF SendUpload
  <2>3. ASSUME NEW ok \in BOOLEAN, FinishSampling(ok)
        PROVE  toGateway' \in Seq(Truthful)
    <3>. DEFINE line == ResultLine(port, start.trial, packets_seen, Requested(start),
                                   start.nonce, RawBuf, JitterUs)
    <3>1. /\ start \in Msg /\ packets_seen \in Nat /\ Requested(start) \in Nat /\ port \in Ports
          /\ boot \in Nat /\ trial < ClientTrials
      BY <1>t, <2>3, Clamps, ClientAssumption DEF ClientTypeOK, FinishSampling, MatchInv
    <3>2. /\ RawBuf \in Seq(Byte) /\ JitterUs \in Seq(Byte) /\ start.trial \in Nat
          /\ start.nonce \in Nat /\ Len(RawBuf) = Requested(start)
      BY <3>1, <1>t, DrawnType DEF RawBuf, JitterUs, Msg
    <3>3. line \in Msg /\ line.payload = RawBuf
      BY <3>1, <3>2 DEF ResultLine, Message, Msg, MsgTypes
    <3>4. IsOneTrial(RawBuf)
      <4>1. boot \in 1..boot /\ trial \in 0..ClientTrials
        BY <1>t, <3>1
      <4>2. RawBuf = Drawn(boot, trial, Len(RawBuf))
        BY <3>2 DEF RawBuf
      <4>. QED
        BY <4>1, <4>2 DEF IsOneTrial
    <3>5. line \in Truthful
      BY <3>3, <3>4 DEF Truthful
    <3>. HIDE DEF line
    <3>6. toGateway' = Append(toGateway, line) \/ toGateway' = toGateway
      BY <2>3 DEF FinishSampling, line
    <3>. QED
      BY <1>t, <3>5, <3>6
  <2>4. ASSUME NEW held \in BOOLEAN, JoinWifi(held)
        PROVE  toGateway' = toGateway
    BY <2>4 DEF JoinWifi
  <2>5. CASE BootFails \/ DiscardUnbound \/ TakeStart \/ SkipInWait \/ StartTimeout
             \/ TakeBurst \/ SkipInSample \/ BurstTimeout \/ TrialFails \/ NextTrial \/ Reset
    BY <2>5, <1>t DEF BootFails, DiscardUnbound, TakeStart, SkipInWait, StartTimeout,
                      TakeBurst, SkipInSample, BurstTimeout, TrialFails, NextTrial, Reset,
                      netVars
  <2>. QED
    BY <1>t, <2>1, <2>2, <2>3, <2>4, <2>5
<1>3. Truthful \subseteq Truthful'
  BY <1>t, <1>b, OneTrialKept DEF Truthful, Msg
<1>4. toGateway' \in Seq(Truthful')
  BY <1>2, <1>3
<1>5. (\A k \in DOMAIN states : IsOneTrial(states[k].result.raw))' /\ MatchedRawIsOneTrial'
  BY <1>t, <1>b, OneTrialKept DEF MatchInv, collectorVars, MatchedRawIsOneTrial
<1>. QED
  BY <1>1, <1>4, <1>5 DEF MatchInv

\* The collector's part: the reported digest comes from a datagram of the
\* client, and a matching file equals it.
LEMMA MatchCollector ==
    ASSUME CoreInv, MatchInv, UNCHANGED clientVars,
           \/ RecvHello \/ SendBurst \/ StimulusDone \/ RecvUnknown \/ RecvResult
           \/ RecvBegin \/ RecvChunk \/ RecvJitter \/ RecvEnd \/ DiscardStopped \/ IdleTimeout
    PROVE  MatchInv'
<1>. DEFINE m == Head(toGateway)
<1>t. /\ TypeOK /\ CollectorTypeOK /\ toGateway \in Seq(Truthful) /\ boot \in 1..MaxBoots
      /\ MaxBoots \in Nat
  BY ClientAssumption DEF CoreInv, TypeOK, ClientTypeOK, MatchInv
<1>c. UNCHANGED <<pc, trial, boot>>
  BY DEF clientVars
<1>k. \A bytes : IsOneTrial(bytes)' = IsOneTrial(bytes)
  BY <1>c DEF IsOneTrial
<1>1. toGateway' \in Seq(Truthful')
  <2>1. toGateway' = toGateway \/ (toGateway # <<>> /\ toGateway' = Tail(toGateway))
    BY DEF RecvHello, SendBurst, StimulusDone, RecvUnknown, RecvResult, RecvBegin, RecvChunk,
           RecvJitter, RecvEnd, RecvFor, DiscardStopped, IdleTimeout, CollectorReceives, netVars
  <2>2. Truthful' = Truthful
    BY <1>k DEF Truthful, Msg
  <2>. QED
    BY <1>t, <2>1, <2>2
<1>2. \A k \in DOMAIN states' : IsOneTrial(states'[k].result.raw)
  <2>1. CASE RecvHello \/ SendBurst \/ RecvUnknown \/ DiscardStopped \/ IdleTimeout
    BY <2>1 DEF RecvHello, SendBurst, RecvUnknown, DiscardStopped, IdleTimeout, collectorVars,
                MatchInv
  <2>2. CASE StimulusDone
    <3>1. IsOneTrial(<<>>)
      <4>1. 1 \in 1..boot /\ 0 \in 0..ClientTrials /\ <<>> = Drawn(1, 0, 0) /\ Len(<<>>) = 0
        BY <1>t, ClientAssumption DEF Drawn
      <4>. QED
        BY <4>1 DEF IsOneTrial
    <3>2. /\ DOMAIN states' = DOMAIN states \cup {Key(hello)}
          /\ states'[Key(hello)].result.raw = <<>>
          /\ \A l \in DOMAIN states \ {Key(hello)} : states'[l] = states[l]
      BY <2>2 DEF StimulusDone, Put, NewTrialState, NoResult
    <3>. QED
      BY <3>1, <3>2 DEF MatchInv
  <2>3. CASE RecvBegin \/ RecvChunk \/ RecvJitter
    BY <2>3, <1>t, SameResult DEF MatchInv
  <2>4. CASE RecvResult
    <3>1. toGateway # <<>> /\ m.type = "RESULT" /\ Key(m) \in DOMAIN states
      BY <2>4 DEF RecvResult, RecvFor, CollectorReceives
    <3>2. m \in Truthful
      BY <1>t, <3>1
    <3>3. IsOneTrial(m.payload)
      BY <3>1, <3>2 DEF Truthful
    <3>. DEFINE r == [bytes |-> m.bytes, raw |-> m.payload, jitter |-> m.jitter]
    <3>4. states' = [states EXCEPT ![Key(m)] = [states[Key(m)] EXCEPT !.result = r]]
      BY <2>4 DEF RecvResult
    <3>5. r.raw = m.payload
      OBVIOUS
    <3>6. IsTrialState(states[Key(m)])
      BY <1>t, <3>1 DEF CollectorTypeOK
    <3>. HIDE DEF r, m
    <3>7. [states[Key(m)] EXCEPT !.result = r].result = r
      <4>1. ASSUME NEW st, IsTrialState(st)
            PROVE  [st EXCEPT !.result = r].result = r
        BY <4>1 DEF IsTrialState
      <4>. QED
        BY <4>1, <3>6
    <3>8. /\ DOMAIN states' = DOMAIN states
          /\ states'[Key(m)].result = r
          /\ \A l \in DOMAIN states : l # Key(m) => states'[l] = states[l]
      BY <1>t, <3>1, <3>4, <3>7 DEF CollectorTypeOK
    <3>. QED
      BY <3>3, <3>5, <3>8 DEF MatchInv
  <2>5. CASE RecvEnd
    BY <2>5 DEF RecvEnd, MatchInv
  <2>. QED
    BY <2>1, <2>2, <2>3, <2>4, <2>5
<1>3. \A i \in DOMAIN rows' : rows'[i].rawMatch => IsOneTrial(rows'[i].raw)
  <2>1. CASE UNCHANGED rows
    BY <2>1 DEF MatchInv, MatchedRawIsOneTrial
  <2>2. CASE RecvEnd
    <3>. DEFINE k == Key(m)
                row == Finalized(Ended(states[k], m))
    <3>1. k \in DOMAIN states /\ rows' = Append(rows, row)
      BY <2>2 DEF RecvEnd
    <3>2. IsTrialState(states[k])
      BY <1>t, <3>1 DEF CollectorTypeOK
    <3>3. row.rawMatch => row.raw = states[k].result.raw
      BY <3>2, MatchedIsReported
    <3>4. IsOneTrial(states[k].result.raw)
      BY <3>1 DEF MatchInv
    <3>. HIDE DEF row, k, m
    <3>5. /\ DOMAIN rows' = 1..(Len(rows) + 1) /\ DOMAIN rows = 1..Len(rows)
          /\ Len(rows) \in Nat
          /\ \A i \in DOMAIN rows : rows'[i] = rows[i]
          /\ rows'[Len(rows) + 1] = row
      BY <3>1, <1>t, AppendIsSeq DEF CollectorTypeOK
    <3>6. \A i \in DOMAIN rows' : \/ i \in DOMAIN rows /\ rows'[i] = rows[i]
                                  \/ rows'[i] = row
      BY <3>5
    <3>. QED
      BY <3>3, <3>4, <3>6 DEF MatchInv, MatchedRawIsOneTrial
  <2>3. RecvEnd \/ UNCHANGED rows
    BY DEF RecvHello, SendBurst, StimulusDone, RecvUnknown, RecvResult, RecvBegin, RecvChunk,
           RecvJitter, RecvFor, DiscardStopped, IdleTimeout, collectorVars
  <2>. QED
    BY <2>1, <2>2, <2>3
<1>. QED
  BY <1>c, <1>k, <1>1, <1>2, <1>3 DEF MatchInv, MatchedRawIsOneTrial

\* Every step keeps the datagrams truthful and the matched files one trial's.
LEMMA MatchStep == CoreInv /\ MatchInv /\ [Next]_vars => MatchInv'
<1>. SUFFICES ASSUME CoreInv, MatchInv, [Next]_vars
              PROVE  MatchInv'
  OBVIOUS
<1>t. TypeOK
  BY DEF CoreInv
<1>1. ASSUME UNCHANGED <<clientVars, collectorVars>>, toGateway' \in Seq(Truthful)
      PROVE  MatchInv'
  <2>1. UNCHANGED <<pc, trial, boot, states, rows>>
    BY <1>1 DEF clientVars, collectorVars
  <2>2. \A bytes : IsOneTrial(bytes)' = IsOneTrial(bytes)
    BY <2>1 DEF IsOneTrial
  <2>3. Truthful' = Truthful
    BY <2>2 DEF Truthful, Msg
  <2>. QED
    BY <1>1, <2>1, <2>2, <2>3 DEF MatchInv, MatchedRawIsOneTrial
<1>2. CASE NetworkFault
  <2>1. UNCHANGED <<clientVars, collectorVars>> /\ toGateway \in Seq(Truthful)
    BY <1>2 DEF NetworkFault, MatchInv
  <2>2. \/ UNCHANGED toGateway
        \/ \E kind \in {"drop", "dup", "delay"}, i \in DOMAIN toGateway :
               toGateway' = Perturbed(toGateway, kind, i)
    BY <1>2 DEF NetworkFault
  <2>3. toGateway' \in Seq(Truthful)
    BY <2>1, <2>2, PerturbedType
  <2>. QED
    BY <1>1, <2>1, <2>3
<1>3. CASE UNCHANGED vars
  BY <1>1, <1>3 DEF vars, netVars, MatchInv
<1>. QED
  BY <1>t, <1>2, <1>3, StepCases, MatchClient, MatchCollector

\* The inductive invariant of the digests: truthful result lines, kept as such.
THEOREM MatchHolds == Spec => []MatchInv
<1>1. Init => MatchInv
  <2>. SUFFICES ASSUME Init
                PROVE  MatchInv
    OBVIOUS
  <2>1. toGateway \in Seq(Truthful)
    BY DEF Init, NetInit
  <2>. QED
    BY <2>1 DEF Init, ClientInit, CollectorInit, MatchInv, MatchedRawIsOneTrial
<1>. QED
  BY <1>1, MatchStep, CoreHolds, PTL DEF Spec

\* raw_sha256_match is trustworthy: for any number of boots, ports, trials and
\* faults, a file whose digest matched the reported one is the buffer of one
\* trial of one boot.
THEOREM MatchIsSound == Spec => []MatchedRawIsOneTrial
<1>1. MatchInv => MatchedRawIsOneTrial
  BY DEF MatchInv
<1>. QED
  BY <1>1, MatchHolds, PTL

------------------------------------------------------------------------------
\* What n bursts of p bytes fill of r requested ones.
Filled(n, p, r) == IF n * p < r THEN n * p ELSE r

\* One more burst adds its slice, cut at the end of the buffer.
LEMMA FilledNext ==
    ASSUME NEW n \in Nat, NEW p \in Nat \ {0}, NEW r \in Nat, NEW used,
           used = Filled(n, p, r)
    PROVE  used + (IF used + p > r THEN r - used ELSE p) = Filled(n + 1, p, r)
<1>. DEFINE q == n * p
<1>1. q \in Nat
  OBVIOUS
<1>2. (n + 1) * p = q + p
  OBVIOUS
<1>3. used = IF q < r THEN q ELSE r
  BY DEF Filled
<1>4. Filled(n + 1, p, r) = IF q + p < r THEN q + p ELSE r
  BY <1>2 DEF Filled
<1>. HIDE DEF q
<1>. QED
  BY <1>1, <1>3, <1>4

\* SeenTellsBurstBytes with what the burst loop keeps: so far every byte used was
\* read after a burst.
SeenInv ==
    /\ pc \in {"sample", "rest", "upload"} /\ Expected(start) > 0 =>
          after_burst = Filled(packets_seen, PerPacket(start), Requested(start))
    /\ pc = "sample" => sample_used = after_burst

\* A burst adds a slice to both, nothing else in the loop adds to either.
LEMMA SeenStep == CoreInv /\ SeenInv /\ [Next]_vars => SeenInv'
<1>. SUFFICES ASSUME CoreInv, SeenInv, [Next]_vars
              PROVE  SeenInv'
  OBVIOUS
<1>t. TypeOK /\ SampleInv
  BY DEF CoreInv
<1>k. ASSUME UNCHANGED <<start, packets_seen, after_burst>>,
             pc' \in {"sample", "rest", "upload"} => pc \in {"sample", "rest", "upload"},
             pc' = "sample" => pc = "sample" /\ UNCHANGED sample_used
      PROVE  SeenInv'
  BY <1>k DEF SeenInv, Expected, Requested, PerPacket, Filled
<1>1. CASE NetworkFault \/ UNCHANGED clientVars \/ UNCHANGED vars
  BY <1>1, <1>k DEF NetworkFault, clientVars, vars
<1>2. CASE \/ \E held \in BOOLEAN : JoinWifi(held)
           \/ BootFails \/ SendHello \/ ResendHello \/ DiscardUnbound \/ SkipInWait
           \/ StartTimeout \/ BurstTimeout \/ SendUpload \/ TrialFails \/ NextTrial
  BY <1>2, <1>k DEF JoinWifi, BootFails, SendHello, ResendHello, DiscardUnbound, SkipInWait,
                    StartTimeout, BurstTimeout, SendUpload, TrialFails, NextTrial, clientVars
<1>3. CASE TakeStart
  <2>1. start' \in Msg
    BY <1>3, <1>t DEF TakeStart, ClientReceives, TypeOK
  <2>2. Requested(start') \in Nat \ {0} /\ Expected(start') \in Nat
    BY <2>1, Clamps, ClientAssumption
  <2>3. Expected(start') > 0 => PerPacket(start') \in Nat
    BY <2>2 DEF PerPacket
  <2>4. packets_seen' = 0 /\ sample_used' = 0 /\ after_burst' = 0
    BY <1>3 DEF TakeStart
  <2>5. Expected(start') > 0 => Filled(0, PerPacket(start'), Requested(start')) = 0
    BY <2>2, <2>3 DEF Filled
  <2>. QED
    BY <2>4, <2>5 DEF SeenInv, Expected, Requested, PerPacket, Filled
<1>4. CASE TakeBurst
  <2>1. /\ pc = "sample" /\ UNCHANGED start /\ packets_seen' = packets_seen + 1
        /\ sample_used' = sample_used + ToRead(start, sample_used)
        /\ after_burst' = after_burst + ToRead(start, sample_used)
    BY <1>4 DEF TakeBurst
  <2>2. /\ Requested(start) \in Nat \ {0} /\ Expected(start) \in Nat
        /\ packets_seen \in Nat /\ loop \in Nat
    BY <1>t, Clamps, ClientAssumption DEF TypeOK, ClientTypeOK
  <2>3. Expected(start) \in Nat \ {0}
    BY <1>t, <2>1, <2>2 DEF SampleInv
  <2>4. PerPacket(start) \in Nat \ {0}
    BY <2>2, <2>3 DEF PerPacket
  <2>5. /\ sample_used = after_burst
        /\ after_burst = Filled(packets_seen, PerPacket(start), Requested(start))
    BY <2>1, <2>3 DEF SeenInv
  <2>6. after_burst' = Filled(packets_seen + 1, PerPacket(start), Requested(start))
    BY <2>1, <2>2, <2>4, <2>5, FilledNext DEF ToRead
  <2>7. after_burst' = Filled(packets_seen', PerPacket(start'), Requested(start'))
    BY <2>1, <2>6
  <2>. QED
    BY <2>1, <2>5, <2>7 DEF SeenInv, Requested, PerPacket, Filled
<1>5. CASE SkipInSample
  BY <1>5, <1>k DEF SkipInSample
<1>6. ASSUME NEW ok \in BOOLEAN, FinishSampling(ok)
      PROVE  SeenInv'
  BY <1>6, <1>k DEF FinishSampling
<1>7. CASE Reset
  BY <1>7 DEF Reset, SeenInv
<1>. QED
  BY <1>t, <1>1, <1>2, <1>3, <1>4, <1>5, <1>6, <1>7, StepCases

\* packets_seen tells how many uploaded bytes were read right after a burst, for
\* every buffer size, burst limit and START, and whatever datagrams arrive.
THEOREM SeenIsTrue == Spec => []SeenTellsBurstBytes
<1>1. Init => SeenInv
  BY DEF Init, ClientInit, SeenInv
<1>2. SeenInv => SeenTellsBurstBytes
  BY DEF SeenInv, SeenTellsBurstBytes, Filled
<1>. QED
  BY <1>1, <1>2, SeenStep, CoreHolds, PTL DEF Spec

------------------------------------------------------------------------------
(* The pieces of an upload. *)

\* The pieces cover what they are cut from, and the last one is not empty.
LEMMA NumChunksCovers ==
    ASSUME NEW n \in Nat \ {0}, NEW size \in Nat \ {0}
    PROVE  /\ NumChunks(n, size) \in Nat \ {0}
           /\ n <= NumChunks(n, size) * size
           /\ \A i \in 1..NumChunks(n, size) : (i - 1) * size < n
<1>. DEFINE c == NumChunks(n, size)
<1>1. /\ c \in Nat /\ c * size <= n + size - 1 /\ n + size - 1 < c * size + size
  BY DEF NumChunks
<1>. HIDE DEF c
<1>2. PICK q \in Nat : q = c * size
  BY <1>1
<1>3. n <= q /\ q - size < n
  BY <1>1, <1>2
<1>4. c # 0
  BY <1>2, <1>3
<1>5. ASSUME NEW i \in 1..c
      PROVE  (i - 1) * size < n
  <2>1. (i - 1) * size <= (c - 1) * size
    BY <1>1
  <2>2. (c - 1) * size = q - size
    BY <1>1, <1>2
  <2>3. (i - 1) * size \in Nat
    OBVIOUS
  <2>. QED
    BY <1>2, <1>3, <2>1, <2>2, <2>3
<1>. QED
  BY <1>1, <1>2, <1>3, <1>4, <1>5 DEF c

\* All pieces of a sequence, joined in order, are the sequence.
LEMMA ChunksJoin ==
    ASSUME NEW s \in Seq(Byte), s # <<>>, NEW size \in Nat \ {0}
    PROVE  FlattenSeq([i \in 1..NumChunks(Len(s), size) |-> ChunkOf(s, i - 1, size)]) = s
<1>. DEFINE n == NumChunks(Len(s), size)
            cut == [i \in 0..n |-> IF i * size < Len(s) THEN i * size ELSE Len(s)]
            files == [i \in 1..n |-> ChunkOf(s, i - 1, size)]
<1>1. Len(s) \in Nat \ {0}
  OBVIOUS
<1>2. n \in Nat \ {0} /\ Len(s) <= n * size /\ \A i \in 1..n : (i - 1) * size < Len(s)
  BY <1>1, NumChunksCovers
<1>. HIDE DEF n
<1>3. cut \in [0..n -> 0..Len(s)]
  <2>1. ASSUME NEW i \in 0..n
        PROVE  (IF i * size < Len(s) THEN i * size ELSE Len(s)) \in 0..Len(s)
    <3>1. i * size \in Nat
      BY <1>2
    <3>. QED
      BY <1>1, <3>1
  <2>. QED
    BY <2>1
<1>4. cut[0] = 0 /\ cut[n] = Len(s)
  <2>1. 0 * size = 0 /\ 0 \in 0..n /\ n \in 0..n /\ n * size \in Nat
    BY <1>2
  <2>. QED
    BY <1>1, <1>2, <2>1
<1>5. ASSUME NEW i \in 1..n
      PROVE  /\ cut[i - 1] <= cut[i]
             /\ files[i] = SubSeq(s, cut[i - 1] + 1, cut[i])
             /\ files[i] \in Seq(Byte)
  <2>1. i - 1 \in 0..n /\ i \in 0..n /\ i - 1 \in Nat /\ (i - 1) + 1 = i
    BY <1>2
  <2>2. PICK p \in Nat : p = (i - 1) * size
    BY <2>1
  <2>3. i * size = p + size
    BY <2>1, <2>2
  <2>4. p < Len(s)
    BY <1>2, <2>2
  <2>5. cut[i - 1] = p /\ cut[i] = IF p + size < Len(s) THEN p + size ELSE Len(s)
    BY <2>1, <2>2, <2>3, <2>4
  <2>6. files[i] = SubSeq(s, p + 1, IF p + size < Len(s) THEN p + size ELSE Len(s))
    BY <2>1, <2>2, <2>3 DEF ChunkOf
  <2>7. files[i] \in Seq(Byte)
    BY <2>1, ChunkType
  <2>. HIDE DEF cut, files
  <2>8. cut[i - 1] <= cut[i]
    BY <1>1, <2>4, <2>5
  <2>9. files[i] = SubSeq(s, cut[i - 1] + 1, cut[i])
    BY <2>5, <2>6, Zenon
  <2>. QED
    BY <2>7, <2>8, <2>9
<1>6. files \in [1..n -> Seq(Byte)]
  BY <1>5
<1>. HIDE DEF files, cut
<1>7. FlattenSeq(files) = s
  <2>1. /\ \A i \in 1..n : cut[i - 1] <= cut[i]
        /\ \A i \in 1..n : files[i] = SubSeq(s, cut[i - 1] + 1, cut[i])
    BY <1>5
  <2>2. n \in Nat \ {0} /\ s \in Seq(Byte)
    BY <1>2
  <2>. QED
    BY <2>1, <2>2, <1>3, <1>4, <1>6, PiecesJoin
<1>. QED
  BY <1>7 DEF files, n

------------------------------------------------------------------------------
(* What one run of the collector asks for, and what it gets. *)

\* The bytes START asks for, and what run_trial makes of it: one size for all
\* trials of a run.
Asked == IF StimBytes = NoOverride THEN MaxSampleBytes ELSE StimBytes

\* What the client makes of it.
Size == IF Asked = 0 \/ Asked > MaxSampleBytes THEN MaxSampleBytes ELSE Asked

\* The raw chunks of a trial.
Pieces == NumChunks(Size, ChunkBytes)

\* Piece i of what trial t of boot b drew.
Piece(b, t, i) == ChunkOf(Drawn(b, t, Size), i, ChunkBytes)

\* A datagram with source port p may have been sent in boot b.
CameFrom(p, b) ==
    /\ b \in 1..boot
    /\ IF b = boot THEN p = port ELSE p \in PortsOf[b]

\* The bytes are piece i of trial t of a boot with source port p.
IsPiece(p, t, i, bytes) == \E b \in 1..boot : CameFrom(p, b) /\ bytes = Piece(b, t, i)

\* What may be on its way to the collector: datagrams that tell the truth about
\* the upload they are part of.
FromClient ==
    {m \in Msg :
        /\ m.type = "HELLO" => m.bytes = MaxSampleBytes
        /\ m.type \in {"RAW_BEGIN", "RAW_END"} => m.seq = Pieces /\ m.bytes = Size
        /\ m.type = "RAW_CHUNK" =>
              /\ m.trial \in 0..ClientTrials
              /\ m.bytes = Len(m.payload)
              /\ IsPiece(m.port, m.trial, m.seq, m.payload)}

\* What may be on its way to the client: every START asks for the same bytes.
FromHost == {m \in Msg : m.type = "START" => m.bytes = Asked}

\* A TrialState holds what the uploads of its key told.
HoldsPieces(k, st) ==
    /\ st.chunksExpected \in {None, Pieces}
    /\ st.rawLen \in {None, Size}
    /\ \A i \in DOMAIN st.rawChunks :
          k[2] \in 0..ClientTrials /\ IsPiece(k[1], k[2], i, st.rawChunks[i])

\* The boots so far had ports of their own.
Apart ==
    \A b \in 1..(boot - 1) :
        /\ port \notin PortsOf[b]
        /\ \A c \in 1..(b - 1) : PortsOf[b] \cap PortsOf[c] = {}

\* The inductive invariant: what is on the wire and in the dicts is what trials
\* of boots with those ports drew.
UploadInv ==
    /\ port \in PortsOf[boot]
    /\ pc \in {"sample", "rest", "upload"} => start.bytes = Asked /\ start.trial = trial
    /\ toGateway \in Seq(FromClient)
    /\ toDevice \in Seq(FromHost)
    /\ \A k \in DOMAIN states : HoldsPieces(k, states[k])
    /\ Apart => CompleteRawIsOneTrial

\* The size of every buffer is positive and within raw_buf.
LEMMA SizeType ==
    /\ Asked \in Nat
    /\ Size \in Nat \ {0}
    /\ Pieces \in Nat \ {0}
<1>1. Asked \in Nat /\ Size \in Nat \ {0}
  BY ClientAssumption, CollectorAssumption DEF Asked, Size
<1>. QED
  BY <1>1, NumChunksCovers, ChunkAssumption DEF Pieces

\* With ports of their own, a source port tells which boot it was.
LEMMA PortTellsBoot ==
    ASSUME boot \in Nat, Apart, NEW p, NEW b, NEW c, CameFrom(p, b), CameFrom(p, c)
    PROVE  b = c
<1>1. b \in 1..boot /\ c \in 1..boot
  BY DEF CameFrom
<1>2. \A d \in 1..(boot - 1) : port \notin PortsOf[d]
  BY DEF Apart
<1>3. \A d \in 1..(boot - 1), e \in 1..(boot - 1) :
         d # e => PortsOf[d] \cap PortsOf[e] = {}
  <2>1. ASSUME NEW d \in 1..(boot - 1), NEW e \in 1..(boot - 1), d # e
        PROVE  PortsOf[d] \cap PortsOf[e] = {}
    <3>1. e \in 1..(d - 1) \/ d \in 1..(e - 1)
      BY <2>1
    <3>2. PortsOf[d] \cap PortsOf[e] = PortsOf[e] \cap PortsOf[d]
      OBVIOUS
    <3>. QED
      BY <3>1, <3>2 DEF Apart
  <2>. QED
    BY <2>1
<1>4. CASE b = boot \/ c = boot
  BY <1>1, <1>2, <1>4 DEF CameFrom
<1>5. CASE b # boot /\ c # boot
  <2>1. b \in 1..(boot - 1) /\ c \in 1..(boot - 1) /\ p \in PortsOf[b] /\ p \in PortsOf[c]
    BY <1>1, <1>5 DEF CameFrom
  <2>. QED
    BY <1>3, <2>1
<1>. QED
  BY <1>4, <1>5

\* All pieces of one buffer, put together at RAW_END, are the buffer.
LEMMA WholeIsBuffer ==
    ASSUME NEW st, NEW b \in Nat, NEW t \in Nat,
           st.chunksExpected = Pieces, st.rawLen = Size,
           \A i \in DOMAIN st.rawChunks : st.rawChunks[i] = Piece(b, t, i),
           0..(Pieces - 1) \subseteq DOMAIN st.rawChunks
    PROVE  Finalized(st).complete /\ Finalized(st).raw = Drawn(b, t, Size)
<1>. DEFINE s == Drawn(b, t, Size)
            files == [n \in 1..Pieces |-> st.rawChunks[n - 1]]
<1>1. s \in Seq(Byte) /\ Len(s) = Size /\ s # <<>>
  BY SizeType, DrawnType
<1>2. Pieces # None /\ Size # None
  BY SizeType DEF None
<1>3. LET whole == Prefix(FlattenSeq(files), Size)
      IN  /\ Finalized(st).complete <=> Len(whole) = Size
          /\ Finalized(st).complete => Finalized(st).raw = whole
  <2>1. Pieces > 0 /\ Size > 0
    BY SizeType
  <2>2. Finalized(st).complete <=> Len(Prefix(FlattenSeq(files), Size)) = Size
    BY <1>2, <2>1, Zenon DEF Finalized
  <2>3. Finalized(st).complete => Finalized(st).raw = Prefix(FlattenSeq(files), Size)
    BY <1>2, <2>1, Zenon DEF Finalized
  <2>. QED
    BY <2>2, <2>3
<1>4. files = [i \in 1..NumChunks(Len(s), ChunkBytes) |-> ChunkOf(s, i - 1, ChunkBytes)]
  <2>1. ASSUME NEW n \in 1..Pieces
        PROVE  st.rawChunks[n - 1] = ChunkOf(s, n - 1, ChunkBytes)
    <3>1. n - 1 \in 0..(Pieces - 1)
      BY SizeType
    <3>. QED
      BY <3>1 DEF Piece
  <2>2. Pieces = NumChunks(Len(s), ChunkBytes)
    BY <1>1 DEF Pieces
  <2>. HIDE DEF s
  <2>. QED
    BY <2>1, <2>2
<1>. HIDE DEF s, files
<1>5. FlattenSeq(files) = s
  BY <1>1, <1>4, ChunksJoin, ChunkAssumption
<1>6. Prefix(s, Size) = s
  <2>1. SubSeq(s, 1, Len(s)) = s
    BY <1>1, SubSeqFull
  <2>. QED
    BY <1>1, <2>1, SizeType DEF Prefix
<1>. QED
  BY <1>1, <1>3, <1>5, <1>6 DEF s

------------------------------------------------------------------------------
(* The steps. *)

\* A step of the client that starts no boot leaves every origin as it is, and a
\* reset adds a boot without changing what the earlier ones may have sent.
LEMMA OriginKept ==
    ASSUME TypeOK, port \in PortsOf[boot], UNCHANGED <<boot, port>> \/ Reset
    PROVE  /\ \A p, t, i, bytes : IsPiece(p, t, i, bytes) => IsPiece(p, t, i, bytes)'
           /\ FromClient \subseteq FromClient'
           /\ \A k, st : HoldsPieces(k, st) => HoldsPieces(k, st)'
           /\ Apart' => Apart
<1>1. boot \in 1..MaxBoots /\ MaxBoots \in Nat
  BY ClientAssumption DEF TypeOK, ClientTypeOK
<1>2. \A p, b : CameFrom(p, b) => b \in 1..boot' /\ CameFrom(p, b)'
  <2>1. CASE UNCHANGED <<boot, port>>
    BY <2>1 DEF CameFrom
  <2>2. CASE Reset
    <3>1. boot' = boot + 1
      BY <2>2 DEF Reset
    <3>2. ASSUME NEW p, NEW b, CameFrom(p, b)
          PROVE  b \in 1..boot' /\ b # boot' /\ p \in PortsOf[b]
      BY <1>1, <3>1, <3>2 DEF CameFrom
    <3>. QED
      BY <3>2 DEF CameFrom
  <2>. QED
    BY <2>1, <2>2
<1>3. ASSUME NEW p, NEW t, NEW i, NEW bytes, IsPiece(p, t, i, bytes)
      PROVE  IsPiece(p, t, i, bytes)'
  <2>1. PICK b \in 1..boot : CameFrom(p, b) /\ bytes = Piece(b, t, i)
    BY <1>3 DEF IsPiece
  <2>2. b \in 1..boot' /\ CameFrom(p, b)'
    BY <1>2, <2>1
  <2>. QED
    BY <2>1, <2>2 DEF IsPiece, Piece
<1>4. FromClient \subseteq FromClient'
  BY <1>3 DEF FromClient, Msg, Pieces, Size, Asked
<1>5. \A k, st : HoldsPieces(k, st) => HoldsPieces(k, st)'
  BY <1>3 DEF HoldsPieces, Pieces, Size, Asked
<1>6. Apart' => Apart
  <2>1. CASE UNCHANGED <<boot, port>>
    BY <2>1 DEF Apart
  <2>2. CASE Reset
    <3>. SUFFICES ASSUME Apart'
                  PROVE  Apart
      OBVIOUS
    <3>1. boot' = boot + 1
      BY <2>2 DEF Reset
    <3>2. \A b \in 1..boot : \A c \in 1..(b - 1) : PortsOf[b] \cap PortsOf[c] = {}
      BY <1>1, <3>1 DEF Apart
    <3>3. ASSUME NEW b \in 1..(boot - 1)
          PROVE  port \notin PortsOf[b] /\ \A c \in 1..(b - 1) : PortsOf[b] \cap PortsOf[c] = {}
      <4>1. b \in 1..boot /\ boot \in 1..boot
        BY <1>1
      <4>2. PortsOf[boot] \cap PortsOf[b] = {}
        BY <3>2, <4>1
      <4>. QED
        BY <3>2, <4>1, <4>2
    <3>. QED
      BY <3>3 DEF Apart
  <2>. QED
    BY <2>1, <2>2
<1>. QED
  BY <1>3, <1>4, <1>5, <1>6

\* The next datagram of send_raw_stream is true.
LEMMA UploadIsTrue ==
    ASSUME CoreInv, MatchInv, UploadInv, SendUpload
    PROVE  UploadStream[up] \in FromClient
<1>t. /\ ClientTypeOK /\ pc = "upload" /\ start.bytes = Asked /\ start.trial = trial
      /\ trial \in 0..ClientTrials /\ boot \in 1..boot
  BY ClientAssumption DEF CoreInv, MatchInv, UploadInv, TypeOK, ClientTypeOK, SendUpload
<1>1. UploadStream[up] \in Msg /\ up \in DOMAIN UploadStream
  BY <1>t, UploadStreamType DEF CoreInv, TypeOK, ClientTypeOK
<1>2. Requested(start) = Size
  BY <1>t DEF Requested, Size
<1>3. PICK u : u = UploadStream[up]
  OBVIOUS
<1>4. UploadFrame(u) \/ UploadChunk(u) \/ u.type = "JITTER_CHUNK"
  BY <1>t, <1>1, <1>3, UploadDatagrams
<1>5. CASE UploadFrame(u)
  BY <1>1, <1>2, <1>3, <1>5 DEF UploadFrame, FromClient, Pieces
<1>6. CASE UploadChunk(u)
  <2>1. u.payload = Piece(boot, u.trial, u.seq)
    BY <1>t, <1>2, <1>6 DEF UploadChunk, RawBuf, Piece
  <2>2. CameFrom(u.port, boot)
    BY <1>t, <1>6 DEF UploadChunk, CameFrom
  <2>3. IsPiece(u.port, u.trial, u.seq, u.payload)
    BY <1>t, <2>1, <2>2 DEF IsPiece
  <2>. QED
    BY <1>t, <1>1, <1>3, <1>6, <2>3 DEF UploadChunk, FromClient
<1>7. CASE u.type = "JITTER_CHUNK"
  BY <1>1, <1>3, <1>7 DEF FromClient
<1>. QED
  BY <1>4, <1>5, <1>6, <1>7

\* The client's part: a trial runs with the size START asked for, and uploads
\* what it drew.
LEMMA UploadClient ==
    ASSUME CoreInv, MatchInv, UploadInv, UNCHANGED collectorVars,
           \/ \E held \in BOOLEAN : JoinWifi(held)
           \/ BootFails \/ SendHello \/ ResendHello \/ DiscardUnbound \/ TakeStart
           \/ SkipInWait \/ StartTimeout \/ TakeBurst \/ SkipInSample \/ BurstTimeout
           \/ \E ok \in BOOLEAN : FinishSampling(ok)
           \/ SendUpload \/ TrialFails \/ NextTrial \/ Reset
    PROVE  UploadInv'
<1>t. /\ TypeOK /\ ClientTypeOK /\ port \in PortsOf[boot]
      /\ toGateway \in Seq(FromClient) /\ toDevice \in Seq(FromHost)
  BY DEF CoreInv, TypeOK, UploadInv
<1>b. UNCHANGED <<boot, port>> \/ Reset
  BY DEF JoinWifi, BootFails, SendHello, ResendHello, DiscardUnbound, TakeStart, SkipInWait,
         StartTimeout, TakeBurst, SkipInSample, BurstTimeout, FinishSampling, SendUpload,
         TrialFails, NextTrial, clientVars
<1>k. /\ FromClient \subseteq FromClient'
      /\ \A k, st : HoldsPieces(k, st) => HoldsPieces(k, st)'
      /\ Apart' => Apart
  BY <1>t, <1>b, OriginKept
<1>1. (port \in PortsOf[boot])'
  BY <1>t, <1>b DEF Reset
<1>2. (pc \in {"sample", "rest", "upload"} => start.bytes = Asked /\ start.trial = trial)'
  <2>1. CASE TakeStart
    <3>1. /\ start' = Head(toDevice) /\ trial' = trial /\ toDevice # <<>>
          /\ Head(toDevice).type = "START" /\ Head(toDevice).trial = trial
      BY <2>1 DEF TakeStart, ClientReceives, IsStart
    <3>2. Head(toDevice) \in FromHost
      BY <1>t, <3>1
    <3>. QED
      BY <3>1, <3>2 DEF FromHost, Asked
  <2>2. CASE \/ \E held \in BOOLEAN : JoinWifi(held)
             \/ BootFails \/ SendHello \/ ResendHello \/ StartTimeout \/ TrialFails
             \/ NextTrial \/ Reset
    BY <2>2 DEF JoinWifi, BootFails, SendHello, ResendHello, StartTimeout, TrialFails,
                NextTrial, Reset
  <2>3. CASE DiscardUnbound \/ SkipInWait
    BY <2>3 DEF DiscardUnbound, SkipInWait, clientVars, UploadInv, Asked
  <2>4. CASE TakeBurst \/ SkipInSample \/ BurstTimeout \/ SendUpload
             \/ \E ok \in BOOLEAN : FinishSampling(ok)
    <3>1. UNCHANGED <<start, trial>> /\ pc \in {"sample", "rest", "upload"}
      BY <2>4 DEF TakeBurst, SkipInSample, BurstTimeout, SendUpload, FinishSampling
    <3>. QED
      BY <3>1 DEF UploadInv, Asked
  <2>. QED
    BY <2>1, <2>2, <2>3, <2>4
<1>3. toGateway' \in Seq(FromClient)
  <2>1. CASE SendHello \/ ResendHello
    <3>1. <<>> \in Seq(Byte) /\ "HELLO" \in MsgTypes
      BY DEF MsgTypes
    <3>2. boot \in Nat /\ port \in Ports /\ trial \in Nat /\ BurstCount \in Nat
          /\ MaxSampleBytes \in Nat
      BY <1>t, ClientAssumption DEF ClientTypeOK
    <3>3. Hello \in Msg
      BY <3>1, <3>2, MessageType DEF Hello
    <3>4. Hello.type = "HELLO" /\ Hello.bytes = MaxSampleBytes
      BY DEF Hello, Message
    <3>5. Hello \in FromClient
      BY <3>3, <3>4 DEF FromClient
    <3>. QED
      BY <1>t, <2>1, <3>5 DEF SendHello, ResendHello
  <2>2. CASE SendUpload
    <3>1. UploadStream[up] \in FromClient
      BY <2>2, UploadIsTrue
    <3>. QED
      BY <1>t, <2>2, <3>1 DEF SendUpload
  <2>3. ASSUME NEW ok \in BOOLEAN, FinishSampling(ok)
        PROVE  toGateway' \in Seq(FromClient)
    <3>. DEFINE line == ResultLine(port, start.trial, packets_seen, Requested(start),
                                   start.nonce, RawBuf, JitterUs)
    <3>1. /\ start \in Msg /\ packets_seen \in Nat /\ Requested(start) \in Nat /\ port \in Ports
          /\ boot \in Nat /\ trial \in Nat
      BY <1>t, Clamps, ClientAssumption DEF ClientTypeOK
    <3>2. /\ RawBuf \in Seq(Byte) /\ JitterUs \in Seq(Byte) /\ start.trial \in Nat
          /\ start.nonce \in Nat
      BY <3>1, DrawnType DEF RawBuf, JitterUs, Msg
    <3>3. line \in Msg /\ line.type = "RESULT"
      BY <3>1, <3>2 DEF ResultLine, Message, Msg, MsgTypes
    <3>4. line \in FromClient
      BY <3>3 DEF FromClient
    <3>. HIDE DEF line
    <3>5. toGateway' = Append(toGateway, line) \/ toGateway' = toGateway
      BY <2>3 DEF FinishSampling, line
    <3>. QED
      BY <1>t, <3>4, <3>5
  <2>4. ASSUME NEW held \in BOOLEAN, JoinWifi(held)
        PROVE  toGateway' = toGateway
    BY <2>4 DEF JoinWifi
  <2>5. CASE BootFails \/ DiscardUnbound \/ TakeStart \/ SkipInWait \/ StartTimeout
             \/ TakeBurst \/ SkipInSample \/ BurstTimeout \/ TrialFails \/ NextTrial \/ Reset
    BY <2>5, <1>t DEF BootFails, DiscardUnbound, TakeStart, SkipInWait, StartTimeout,
                      TakeBurst, SkipInSample, BurstTimeout, TrialFails, NextTrial, Reset,
                      netVars
  <2>. QED
    BY <1>t, <2>1, <2>2, <2>3, <2>4, <2>5
<1>4. (toGateway \in Seq(FromClient))'
  BY <1>3, <1>k
<1>5. (toDevice \in Seq(FromHost))'
  <2>1. toDevice' \in {toDevice, <<>>} \/ (toDevice # <<>> /\ toDevice' = Tail(toDevice))
    BY DEF JoinWifi, BootFails, SendHello, ResendHello, DiscardUnbound, TakeStart, SkipInWait,
           StartTimeout, TakeBurst, SkipInSample, BurstTimeout, FinishSampling, SendUpload,
           TrialFails, NextTrial, Reset, ClientReceives, netVars
  <2>2. toDevice' \in Seq(FromHost)
    <3>1. <<>> \in Seq(FromHost)
      OBVIOUS
    <3>2. toDevice # <<>> => Tail(toDevice) \in Seq(FromHost)
      BY <1>t
    <3>. QED
      BY <1>t, <2>1, <3>1, <3>2
  <2>3. FromHost' = FromHost
    BY DEF FromHost, Msg, Asked
  <2>. QED
    BY <2>2, <2>3
<1>6. (\A k \in DOMAIN states : HoldsPieces(k, states[k]))'
  <2>1. states' = states /\ \A k \in DOMAIN states : HoldsPieces(k, states[k])
    BY DEF collectorVars, UploadInv
  <2>2. \A k \in DOMAIN states : \A st : st = states[k] => HoldsPieces(k, st)'
    BY <1>k, <2>1
  <2>. QED
    BY <2>1, <2>2 DEF HoldsPieces
<1>7. (Apart => CompleteRawIsOneTrial)'
  <2>. SUFFICES ASSUME Apart'
                PROVE  CompleteRawIsOneTrial'
    OBVIOUS
  <2>1. CompleteRawIsOneTrial
    BY <1>k DEF UploadInv
  <2>2. boot' = boot \/ boot' = boot + 1
    BY <1>b DEF Reset
  <2>3. rows' = rows
    BY DEF collectorVars
  <2>. QED
    BY <1>t, <2>1, <2>2, <2>3, OneTrialKept DEF CompleteRawIsOneTrial
<1>. QED
  BY <1>1, <1>2, <1>4, <1>5, <1>6, <1>7 DEF UploadInv

\* What a datagram changes of a TrialState, told field by field.
LEMMA HoldsUpdate ==
    ASSUME NEW st, IsTrialState(st), NEW k, HoldsPieces(k, st)
    PROVE  /\ \A r : HoldsPieces(k, [st EXCEPT !.result = r])
           /\ \A d : HoldsPieces(k, [st EXCEPT !.jitterChunks = d])
           /\ HoldsPieces(k, [st EXCEPT !.chunksExpected = Pieces, !.rawLen = Size])
           /\ \A d : (\A i \in DOMAIN d : k[2] \in 0..ClientTrials /\ IsPiece(k[1], k[2], i, d[i]))
                        => HoldsPieces(k, [st EXCEPT !.rawChunks = d])
<1>1. PICK a, b, c, d, e, f :
         st = [capture |-> a, chunksExpected |-> b, rawLen |-> c, rawChunks |-> d,
               jitterChunks |-> e, result |-> f]
  BY DEF IsTrialState
<1>2. ASSUME NEW r
      PROVE  HoldsPieces(k, [st EXCEPT !.result = r])
  <2>. DEFINE u == [st EXCEPT !.result = r]
  <2>1. /\ u.chunksExpected = st.chunksExpected /\ u.rawLen = st.rawLen
        /\ u.rawChunks = st.rawChunks
    BY <1>1
  <2>. HIDE DEF u
  <2>. QED
    BY <2>1 DEF HoldsPieces, u
<1>3. ASSUME NEW g
      PROVE  HoldsPieces(k, [st EXCEPT !.jitterChunks = g])
  <2>. DEFINE u == [st EXCEPT !.jitterChunks = g]
  <2>1. /\ u.chunksExpected = st.chunksExpected /\ u.rawLen = st.rawLen
        /\ u.rawChunks = st.rawChunks
    BY <1>1
  <2>. HIDE DEF u
  <2>. QED
    BY <2>1 DEF HoldsPieces, u
<1>4. HoldsPieces(k, [st EXCEPT !.chunksExpected = Pieces, !.rawLen = Size])
  <2>. DEFINE v == [st EXCEPT !.chunksExpected = Pieces]
              u == [v EXCEPT !.rawLen = Size]
  <2>1. v = [capture |-> a, chunksExpected |-> Pieces, rawLen |-> c, rawChunks |-> d,
             jitterChunks |-> e, result |-> f]
    BY <1>1
  <2>2. u.chunksExpected = Pieces /\ u.rawLen = Size /\ u.rawChunks = d
    BY <2>1
  <2>3. d = st.rawChunks
    BY <1>1
  <2>4. [st EXCEPT !.chunksExpected = Pieces, !.rawLen = Size] = u
    OBVIOUS
  <2>. HIDE DEF u, v
  <2>5. HoldsPieces(k, u)
    BY <2>2, <2>3 DEF HoldsPieces
  <2>. QED
    BY <2>4, <2>5
<1>5. ASSUME NEW g, \A i \in DOMAIN g : k[2] \in 0..ClientTrials /\ IsPiece(k[1], k[2], i, g[i])
      PROVE  HoldsPieces(k, [st EXCEPT !.rawChunks = g])
  <2>. DEFINE u == [st EXCEPT !.rawChunks = g]
  <2>1. /\ u.chunksExpected = st.chunksExpected /\ u.rawLen = st.rawLen
        /\ u.rawChunks = g
    BY <1>1
  <2>. HIDE DEF u
  <2>2. HoldsPieces(k, u)
    BY <1>5, <2>1 DEF HoldsPieces
  <2>. QED
    BY <2>2 DEF u
<1>. QED
  BY <1>2, <1>3, <1>4, <1>5

\* The TrialStates hold pieces of their keys after every datagram.
LEMMA HoldsStep ==
    ASSUME CoreInv, UploadInv,
           \/ RecvHello \/ SendBurst \/ StimulusDone \/ RecvUnknown \/ RecvResult
           \/ RecvBegin \/ RecvChunk \/ RecvJitter \/ RecvEnd \/ DiscardStopped \/ IdleTimeout
    PROVE  \A k \in DOMAIN states' : HoldsPieces(k, states'[k])
<1>. DEFINE m == Head(toGateway)
<1>t. /\ CollectorTypeOK /\ toGateway \in Seq(FromClient)
      /\ \A k \in DOMAIN states : IsTrialState(states[k]) /\ HoldsPieces(k, states[k])
  BY DEF CoreInv, TypeOK, CollectorTypeOK, UploadInv
<1>1. CASE RecvHello \/ SendBurst \/ RecvUnknown \/ DiscardStopped \/ IdleTimeout
  BY <1>1, <1>t DEF RecvHello, SendBurst, RecvUnknown, DiscardStopped, IdleTimeout, collectorVars
<1>2. CASE StimulusDone
  <2>1. HoldsPieces(Key(hello), NewTrialState(captures - 1))
    <3>1. DOMAIN <<>> = {}
      OBVIOUS
    <3>. QED
      BY <3>1 DEF HoldsPieces, NewTrialState
  <2>2. /\ DOMAIN states' = DOMAIN states \cup {Key(hello)}
        /\ states'[Key(hello)] = NewTrialState(captures - 1)
        /\ \A l \in DOMAIN states \ {Key(hello)} : states'[l] = states[l]
    BY <1>2 DEF StimulusDone, Put
  <2>. QED
    BY <1>t, <2>1, <2>2
<1>3. ASSUME NEW type, RecvFor(type)
      PROVE  m \in FromClient /\ m.type = type /\ Key(m) \in DOMAIN states
  BY <1>3, <1>t DEF RecvFor, CollectorReceives
<1>4. ASSUME NEW k \in DOMAIN states, NEW st, HoldsPieces(k, st),
             states' = [states EXCEPT ![k] = st]
      PROVE  \A l \in DOMAIN states' : HoldsPieces(l, states'[l])
  <2>1. /\ DOMAIN states' = DOMAIN states /\ states'[k] = st
        /\ \A l \in DOMAIN states : l # k => states'[l] = states[l]
    BY <1>t, <1>4 DEF CollectorTypeOK
  <2>. QED
    BY <1>4, <1>t, <2>1
<1>5. CASE RecvResult
  <2>1. RecvFor("RESULT")
    BY <1>5 DEF RecvResult
  <2>2. PICK r : states' = [states EXCEPT ![Key(m)] = [states[Key(m)] EXCEPT !.result = r]]
    BY <1>5 DEF RecvResult
  <2>3. PICK k \in DOMAIN states : k = Key(m)
    BY <1>3, <2>1
  <2>4. HoldsPieces(k, [states[k] EXCEPT !.result = r])
    BY <1>t, <2>3, HoldsUpdate
  <2>. HIDE DEF m
  <2>. QED
    BY <1>4, <2>2, <2>3, <2>4
<1>6. CASE RecvBegin
  <2>1. RecvFor("RAW_BEGIN")
    BY <1>6 DEF RecvBegin
  <2>2. PICK k \in DOMAIN states : k = Key(m)
    BY <1>3, <2>1
  <2>3. m.seq = Pieces /\ m.bytes = Size
    BY <1>3, <2>1 DEF FromClient
  <2>4. states' = [states EXCEPT ![k] = [states[k] EXCEPT !.chunksExpected = Pieces,
                                                          !.rawLen = Size]]
    BY <1>6, <1>t, <2>2, <2>3 DEF RecvBegin, CollectorTypeOK
  <2>5. HoldsPieces(k, [states[k] EXCEPT !.chunksExpected = Pieces, !.rawLen = Size])
    BY <1>t, <2>2, HoldsUpdate
  <2>. QED
    BY <1>4, <2>4, <2>5
<1>7. CASE RecvChunk
  <2>1. RecvFor("RAW_CHUNK")
    BY <1>7 DEF RecvChunk
  <2>2. PICK k \in DOMAIN states : k = Key(m)
    BY <1>3, <2>1
  <2>3. /\ m.trial \in 0..ClientTrials /\ IsPiece(m.port, m.trial, m.seq, m.payload)
        /\ m.payload \in Seq(Byte) /\ m.bytes = Len(m.payload)
    BY <1>3, <2>1 DEF FromClient, Msg
  <2>4. k[1] = m.port /\ k[2] = m.trial
    BY <2>2 DEF Key
  <2>5. Prefix(m.payload, m.bytes) = m.payload
    <3>1. SubSeq(m.payload, 1, Len(m.payload)) = m.payload
      BY <2>3, SubSeqFull
    <3>. QED
      BY <2>3, <3>1 DEF Prefix
  <2>. DEFINE d == Put(states[k].rawChunks, m.seq, m.payload)
  <2>6. states' = [states EXCEPT ![k] = [states[k] EXCEPT !.rawChunks = d]]
    BY <1>7, <2>2, <2>5 DEF RecvChunk
  <2>7. \A i \in DOMAIN d : k[2] \in 0..ClientTrials /\ IsPiece(k[1], k[2], i, d[i])
    <3>1. \A i \in DOMAIN states[k].rawChunks :
             k[2] \in 0..ClientTrials /\ IsPiece(k[1], k[2], i, states[k].rawChunks[i])
      BY <1>t DEF HoldsPieces
    <3>2. /\ DOMAIN d = DOMAIN states[k].rawChunks \cup {m.seq}
          /\ \A i \in DOMAIN d : d[i] = IF i = m.seq THEN m.payload ELSE states[k].rawChunks[i]
      BY DEF Put
    <3>. HIDE DEF d, m
    <3>. QED
      BY <2>3, <2>4, <3>1, <3>2
  <2>. HIDE DEF d
  <2>8. HoldsPieces(k, [states[k] EXCEPT !.rawChunks = d])
    BY <1>t, <2>7, HoldsUpdate
  <2>. QED
    BY <1>4, <2>6, <2>8
<1>8. CASE RecvJitter
  <2>1. RecvFor("JITTER_CHUNK")
    BY <1>8 DEF RecvJitter
  <2>2. PICK d : states' = [states EXCEPT ![Key(m)] = [states[Key(m)] EXCEPT !.jitterChunks = d]]
    BY <1>8 DEF RecvJitter
  <2>3. PICK k \in DOMAIN states : k = Key(m)
    BY <1>3, <2>1
  <2>4. HoldsPieces(k, [states[k] EXCEPT !.jitterChunks = d])
    BY <1>t, <2>3, HoldsUpdate
  <2>. HIDE DEF m
  <2>. QED
    BY <1>4, <2>2, <2>3, <2>4
<1>9. CASE RecvEnd
  BY <1>9, <1>t DEF RecvEnd
<1>. QED
  BY <1>1, <1>2, <1>5, <1>6, <1>7, <1>8, <1>9

\* RAW_END supplies the size of an upload whose RAW_BEGIN was lost, and changes
\* nothing else.
LEMMA EndedFields ==
    ASSUME NEW st, IsTrialState(st), NEW k, HoldsPieces(k, st), NEW m, m.seq = Pieces,
           m.bytes = Size
    PROVE  /\ Ended(st, m).chunksExpected = Pieces /\ Ended(st, m).rawLen = Size
           /\ Ended(st, m).rawChunks = st.rawChunks
<1>1. PICK a, b, c, d, e, f :
         st = [capture |-> a, chunksExpected |-> b, rawLen |-> c, rawChunks |-> d,
               jitterChunks |-> e, result |-> f]
  BY DEF IsTrialState
<1>2. b \in {None, Pieces} /\ c \in {None, Size}
  BY <1>1 DEF HoldsPieces
<1>. DEFINE v == [st EXCEPT !.chunksExpected = IF @ = None THEN m.seq ELSE @]
<1>3. v = [capture |-> a, chunksExpected |-> Pieces, rawLen |-> c, rawChunks |-> d,
           jitterChunks |-> e, result |-> f]
  BY <1>1, <1>2
<1>4. Ended(st, m) = [v EXCEPT !.rawLen = IF @ = None THEN m.bytes ELSE @]
  BY DEF Ended
<1>. HIDE DEF v
<1>. QED
  BY <1>1, <1>2, <1>3, <1>4

\* When RAW_END finishes a trial, the collector knows the size of the upload, and
\* all it holds are pieces of one buffer.
LEMMA EndedIsUpload ==
    ASSUME NEW u, CoreInv, UploadInv, Apart, RecvEnd,
           u = Ended(states[Key(Head(toGateway))], Head(toGateway))
    PROVE  /\ u.chunksExpected = Pieces /\ u.rawLen = Size
           /\ u.rawChunks = states[Key(Head(toGateway))].rawChunks
           /\ 0 \in DOMAIN u.rawChunks =>
                 \E b \in 1..boot, t \in 0..ClientTrials :
                     \A i \in DOMAIN u.rawChunks : u.rawChunks[i] = Piece(b, t, i)
<1>1. PICK m, k, st : m = Head(toGateway) /\ k = Key(m) /\ st = states[k]
  OBVIOUS
<1>2. /\ m \in FromClient /\ m.type = "RAW_END"
      /\ k \in DOMAIN states /\ boot \in Nat /\ ClientTrials \in Nat
  BY <1>1, ClientAssumption DEF RecvEnd, CollectorReceives, UploadInv, CoreInv, TypeOK, ClientTypeOK
<1>3. /\ IsTrialState(st) /\ HoldsPieces(k, st) /\ m.seq = Pieces /\ m.bytes = Size
  BY <1>1, <1>2 DEF CoreInv, TypeOK, CollectorTypeOK, UploadInv, FromClient
<1>4. u = Ended(st, m)
  BY <1>1
<1>5. u.chunksExpected = Pieces /\ u.rawLen = Size /\ u.rawChunks = st.rawChunks
  BY <1>3, <1>4, EndedFields
<1>6. \A i \in DOMAIN u.rawChunks :
         k[2] \in 0..ClientTrials /\ IsPiece(k[1], k[2], i, u.rawChunks[i])
  BY <1>3, <1>5 DEF HoldsPieces
<1>. SUFFICES ASSUME 0 \in DOMAIN u.rawChunks
              PROVE  \E b \in 1..boot, t \in 0..ClientTrials :
                         \A i \in DOMAIN u.rawChunks : u.rawChunks[i] = Piece(b, t, i)
  BY <1>1, <1>5
<1>7. PICK b \in 1..boot : CameFrom(k[1], b)
  BY <1>6 DEF IsPiece
<1>8. \A i \in DOMAIN u.rawChunks : u.rawChunks[i] = Piece(b, k[2], i)
  <2>1. ASSUME NEW i \in DOMAIN u.rawChunks
        PROVE  u.rawChunks[i] = Piece(b, k[2], i)
    <3>1. PICK c \in 1..boot : CameFrom(k[1], c) /\ u.rawChunks[i] = Piece(c, k[2], i)
      BY <1>6 DEF IsPiece
    <3>2. c = b
      BY <1>2, <1>7, <3>1, PortTellsBoot
    <3>. QED
      BY <3>1, <3>2
  <2>. QED
    BY <2>1
<1>. QED
  BY <1>6, <1>7, <1>8

\* A file written at RAW_END is complete when all pieces have come, and then it is
\* the buffer of one trial.
LEMMA RowIsOneTrial ==
    ASSUME NEW u, CoreInv, UploadInv, Apart, RecvEnd,
           u = Ended(states[Key(Head(toGateway))], Head(toGateway))
    PROVE  /\ u.rawChunks = states[Key(Head(toGateway))].rawChunks
           /\ Finalized(u).complete => IsOneTrial(Finalized(u).raw)
           /\ 0..(Pieces - 1) \subseteq DOMAIN u.rawChunks => Finalized(u).complete
<1>1. Pieces # None /\ Size # None /\ 0 \in 0..(Pieces - 1)
  BY SizeType DEF None
<1>2. ASSUME 0..(Pieces - 1) \subseteq DOMAIN u.rawChunks
      PROVE  Finalized(u).complete /\ IsOneTrial(Finalized(u).raw)
  <2>1. PICK b \in 1..boot, t \in 0..ClientTrials :
           /\ u.chunksExpected = Pieces /\ u.rawLen = Size
           /\ \A i \in DOMAIN u.rawChunks : u.rawChunks[i] = Piece(b, t, i)
    BY <1>1, <1>2, EndedIsUpload
  <2>2. b \in Nat /\ t \in Nat
    BY ClientAssumption DEF CoreInv, TypeOK, ClientTypeOK
  <2>3. Finalized(u).complete /\ Finalized(u).raw = Drawn(b, t, Size)
    BY <1>2, <2>1, <2>2, WholeIsBuffer
  <2>4. Len(Drawn(b, t, Size)) = Size
    BY <2>2, DrawnType, SizeType
  <2>. QED
    BY <2>1, <2>3, <2>4 DEF IsOneTrial
<1>3. ASSUME Finalized(u).complete
      PROVE  0..(Pieces - 1) \subseteq DOMAIN u.rawChunks
  <2>1. u.chunksExpected = Pieces
    BY EndedIsUpload
  <2>. QED
    BY <1>1, <1>3, <2>1 DEF Finalized
<1>. QED
  BY <1>2, <1>3, EndedIsUpload

\* The collector's part: START asks for the same bytes in every trial, the dicts
\* fill with pieces of their keys, and a complete file is one buffer.
LEMMA UploadCollector ==
    ASSUME CoreInv, UploadInv, UNCHANGED clientVars,
           \/ RecvHello \/ SendBurst \/ StimulusDone \/ RecvUnknown \/ RecvResult
           \/ RecvBegin \/ RecvChunk \/ RecvJitter \/ RecvEnd \/ DiscardStopped \/ IdleTimeout
    PROVE  UploadInv'
<1>t. /\ TypeOK /\ CollectorTypeOK /\ ClientTypeOK
      /\ toGateway \in Seq(FromClient) /\ toDevice \in Seq(FromHost)
  BY DEF CoreInv, TypeOK, UploadInv
<1>c. UNCHANGED <<pc, boot, port, trial, start>>
  BY DEF clientVars
<1>k. /\ \A p, t, i, bytes : IsPiece(p, t, i, bytes)' <=> IsPiece(p, t, i, bytes)
      /\ Apart' <=> Apart
      /\ \A bytes : IsOneTrial(bytes)' <=> IsOneTrial(bytes)
  BY <1>c DEF IsPiece, CameFrom, Piece, Apart, IsOneTrial
<1>1. (port \in PortsOf[boot])'
      /\ (pc \in {"sample", "rest", "upload"} => start.bytes = Asked /\ start.trial = trial)'
  BY <1>c DEF UploadInv, Asked
<1>2. (toGateway \in Seq(FromClient))'
  <2>1. toGateway' = toGateway \/ (toGateway # <<>> /\ toGateway' = Tail(toGateway))
    BY DEF RecvHello, SendBurst, StimulusDone, RecvUnknown, RecvResult, RecvBegin, RecvChunk,
           RecvJitter, RecvEnd, RecvFor, DiscardStopped, IdleTimeout, CollectorReceives, netVars
  <2>2. FromClient' = FromClient
    BY <1>k DEF FromClient, Msg, Pieces, Size, Asked
  <2>. QED
    BY <1>t, <2>1, <2>2
<1>3. (toDevice \in Seq(FromHost))'
  <2>1. FromHost' = FromHost
    BY DEF FromHost, Msg, Asked
  <2>2. <<>> \in Seq(Byte) /\ "START" \in MsgTypes /\ "BURST" \in MsgTypes
    BY DEF MsgTypes
  <2>3. \A h \in Msg : Bursts(h) \in Nat /\ SampleBytes(h) \in Nat
    BY CollectorAssumption DEF Bursts, SampleBytes, Msg
  <2>4. CASE RecvHello
    <3>1. PICK h : h = Head(toGateway)
      OBVIOUS
    <3>2. h \in FromClient /\ h.type = "HELLO"
      BY <1>t, <2>4, <3>1 DEF RecvHello, CollectorReceives
    <3>3. h \in Msg /\ SampleBytes(h) = Asked
      BY <3>2 DEF FromClient, SampleBytes, Asked
    <3>. DEFINE reply == Message("START", h.port, h.trial, Bursts(h), SampleBytes(h), h.nonce,
                                 <<>>)
    <3>4. /\ h.port \in Ports /\ h.trial \in Nat /\ h.nonce \in Nat
      BY <3>3 DEF Msg
    <3>5. reply \in Msg
      BY <2>2, <2>3, <3>3, <3>4, MessageType
    <3>6. reply.bytes = Asked
      BY <3>3 DEF Message
    <3>7. reply \in FromHost
      BY <3>5, <3>6 DEF FromHost
    <3>8. toDevice' = Append(toDevice, reply)
      BY <2>4, <3>1 DEF RecvHello
    <3>. HIDE DEF reply
    <3>. QED
      BY <1>t, <2>1, <3>7, <3>8
  <2>5. CASE SendBurst
    <3>. DEFINE burst == Message("BURST", hello.port, hello.trial, sent, SampleBytes(hello),
                                 hello.nonce, <<>>)
    <3>1. hello \in Msg /\ sent \in Nat
      BY <1>t DEF CollectorTypeOK
    <3>2. hello.port \in Ports /\ hello.trial \in Nat /\ hello.nonce \in Nat
      BY <3>1 DEF Msg
    <3>3. burst \in Msg
      BY <2>2, <2>3, <3>1, <3>2, MessageType
    <3>4. burst.type = "BURST"
      BY DEF Message
    <3>5. burst \in FromHost
      BY <3>3, <3>4 DEF FromHost
    <3>6. toDevice' = Append(toDevice, burst)
      BY <2>5 DEF SendBurst
    <3>. HIDE DEF burst
    <3>. QED
      BY <1>t, <2>1, <3>5, <3>6
  <2>6. CASE StimulusDone \/ RecvUnknown \/ RecvResult \/ RecvBegin \/ RecvChunk \/ RecvJitter
             \/ RecvEnd \/ DiscardStopped \/ IdleTimeout
    <3>1. toDevice' = toDevice
      BY <2>6 DEF StimulusDone, RecvUnknown, RecvResult, RecvBegin, RecvChunk, RecvJitter,
                  RecvEnd, RecvFor, DiscardStopped, IdleTimeout, netVars
    <3>. QED
      BY <1>t, <2>1, <3>1
  <2>. QED
    BY <2>4, <2>5, <2>6
<1>4. (\A k \in DOMAIN states : HoldsPieces(k, states[k]))'
  <2>1. \A k \in DOMAIN states' : HoldsPieces(k, states'[k])
    BY HoldsStep
  <2>. QED
    BY <1>k, <2>1 DEF HoldsPieces, Pieces, Size, Asked
<1>5. (Apart => CompleteRawIsOneTrial)'
  <2>. SUFFICES ASSUME Apart
                PROVE  CompleteRawIsOneTrial'
    BY <1>k
  <2>1. CompleteRawIsOneTrial
    BY DEF UploadInv
  <2>2. CASE UNCHANGED rows
    BY <1>k, <2>1, <2>2 DEF CompleteRawIsOneTrial
  <2>3. CASE RecvEnd
    <3>. DEFINE row == Finalized(Ended(states[Key(Head(toGateway))], Head(toGateway)))
    <3>1. rows' = Append(rows, row)
      BY <2>3 DEF RecvEnd
    <3>2. row.complete => IsOneTrial(row.raw)
      BY <2>3, RowIsOneTrial
    <3>. HIDE DEF row
    <3>3. /\ DOMAIN rows' = 1..(Len(rows) + 1) /\ DOMAIN rows = 1..Len(rows)
          /\ Len(rows) \in Nat
          /\ \A i \in DOMAIN rows : rows'[i] = rows[i]
          /\ rows'[Len(rows) + 1] = row
      BY <3>1, <1>t, AppendIsSeq DEF CollectorTypeOK
    <3>4. \A i \in DOMAIN rows' : \/ i \in DOMAIN rows /\ rows'[i] = rows[i]
                                  \/ rows'[i] = row
      BY <3>3
    <3>. QED
      BY <1>k, <2>1, <3>2, <3>4 DEF CompleteRawIsOneTrial
  <2>4. RecvEnd \/ UNCHANGED rows
    BY DEF RecvHello, SendBurst, StimulusDone, RecvUnknown, RecvResult, RecvBegin, RecvChunk,
           RecvJitter, RecvFor, DiscardStopped, IdleTimeout, collectorVars
  <2>. QED
    BY <2>2, <2>3, <2>4
<1>. QED
  BY <1>1, <1>2, <1>3, <1>4, <1>5 DEF UploadInv

\* The network only loses, repeats and reorders what was sent.
LEMMA UploadNetwork ==
    ASSUME CoreInv, UploadInv, NetworkFault \/ UNCHANGED vars
    PROVE  UploadInv'
<1>1. UNCHANGED <<pc, boot, port, trial, start, states, rows>>
  BY DEF NetworkFault, vars, clientVars, collectorVars
<1>2. toGateway \in Seq(FromClient) /\ toDevice \in Seq(FromHost)
  BY DEF UploadInv
<1>3. /\ \/ UNCHANGED toGateway
         \/ \E kind \in {"drop", "dup", "delay"}, i \in DOMAIN toGateway :
                toGateway' = Perturbed(toGateway, kind, i)
      /\ \/ UNCHANGED toDevice
         \/ \E kind \in {"drop", "dup", "delay"}, i \in DOMAIN toDevice :
                toDevice' = Perturbed(toDevice, kind, i)
  BY DEF NetworkFault, vars, netVars
<1>4. toGateway' \in Seq(FromClient) /\ toDevice' \in Seq(FromHost)
  BY <1>2, <1>3, PerturbedType
<1>5. /\ \A p, t, i, bytes : IsPiece(p, t, i, bytes)' <=> IsPiece(p, t, i, bytes)
      /\ Apart' <=> Apart
      /\ \A bytes : IsOneTrial(bytes)' <=> IsOneTrial(bytes)
  BY <1>1 DEF IsPiece, CameFrom, Piece, Apart, IsOneTrial
<1>6. FromClient' = FromClient /\ FromHost' = FromHost
  BY <1>5 DEF FromClient, FromHost, Msg, Pieces, Size, Asked
<1>7. (\A k \in DOMAIN states : HoldsPieces(k, states[k]))'
  BY <1>1, <1>5 DEF UploadInv, HoldsPieces, Pieces, Size, Asked
<1>8. (Apart => CompleteRawIsOneTrial)'
  BY <1>1, <1>5 DEF UploadInv, CompleteRawIsOneTrial
<1>. QED
  BY <1>1, <1>4, <1>6, <1>7, <1>8 DEF UploadInv, Asked

\* Nothing has been sent when the board first boots.
LEMMA UploadInit == Init => UploadInv
<1>. SUFFICES ASSUME Init
              PROVE  UploadInv
  OBVIOUS
<1>1. toGateway \in Seq(FromClient) /\ toDevice \in Seq(FromHost)
  BY DEF Init, NetInit
<1>. QED
  BY <1>1 DEF Init, ClientInit, CollectorInit, UploadInv, CompleteRawIsOneTrial

\* The pieces on their way and in the dicts stay those of boots with that port,
\* under every step of the client, the collector and the network.
THEOREM UploadHolds == Spec => []UploadInv
<1>1. CoreInv /\ MatchInv /\ UploadInv /\ [Next]_vars => UploadInv'
  <2>. SUFFICES ASSUME CoreInv, MatchInv, UploadInv, [Next]_vars
                PROVE  UploadInv'
    OBVIOUS
  <2>1. TypeOK
    BY DEF CoreInv
  <2>. QED
    BY <2>1, StepCases, UploadClient, UploadCollector, UploadNetwork
<1>. QED
  BY <1>1, UploadInit, CoreHolds, MatchHolds, PTL DEF Spec

\* No file mixes two boots as long as none of them can have had the port of
\* another: for every number of boots, trials and faults, every START size and
\* every order of datagrams, a complete raw file is one trial of one boot,
\* whether or not its digest arrived.
THEOREM PortsTellApart == Spec => []PortsTellBootsApart
<1>1. UploadInv => PortsTellBootsApart
  BY DEF UploadInv, Apart, PortsTellBootsApart
<1>. QED
  BY <1>1, UploadHolds, PTL

\* A board that does not reset has one source port: its complete raw files never
\* mix two trials.
THEOREM OneBootOneTrial ==
    ASSUME MaxBoots = 1
    PROVE  Spec => []CompleteRawIsOneTrial
<1>1. CoreInv /\ UploadInv => CompleteRawIsOneTrial
  <2>. SUFFICES ASSUME CoreInv, UploadInv
                PROVE  CompleteRawIsOneTrial
    OBVIOUS
  <2>1. boot = 1
    BY DEF CoreInv, TypeOK, ClientTypeOK
  <2>2. Apart
    BY <2>1 DEF Apart
  <2>. QED
    BY <2>2 DEF UploadInv
<1>. QED
  BY <1>1, CoreHolds, UploadHolds, PTL

------------------------------------------------------------------------------
(* What one fault costs: at most one complete trial of the first boot.  A    *)
(* trial is alive while it can still become complete without help: the steps *)
(* of the client and the collector keep every trial alive until its RAW_END  *)
(* completes it, and a fault hits one.                                       *)

\* The places of a trial's datagrams in a channel.
Of(ch, t) == {i \in DOMAIN ch : ch[i].trial = t}

\* b holds a's datagrams of trial t in the same order.
SameFor(t, a, b) ==
    \E g \in [Of(a, t) -> Of(b, t)] :
        /\ \A i \in Of(a, t) : b[g[i]] = a[i]
        /\ \A j \in Of(b, t) : \E i \in Of(a, t) : g[i] = j
        /\ \A i, k \in Of(a, t) : i < k => g[i] < g[k]

\* A datagram of this type and trial is on its way.
Has(ch, t, type) == \E i \in Of(ch, t) : ch[i].type = type

\* Chunk i of trial t is on its way, behind every HELLO of its trial and ahead
\* of every RAW_END.
OnItsWay(ch, t, i) ==
    \E j \in Of(ch, t) :
        /\ ch[j].type = "RAW_CHUNK" /\ ch[j].seq = i
        /\ \A k \in Of(ch, t) : /\ ch[k].type = "HELLO" => k < j
                                /\ ch[k].type = "RAW_END" => j < k

\* Only the order among a trial's datagrams matters to it.
LEMMA SameMeans ==
    ASSUME NEW t, NEW S, NEW a \in Seq(S), NEW b \in Seq(S), SameFor(t, a, b)
    PROVE  /\ \A type : Has(a, t, type) <=> Has(b, t, type)
           /\ \A i : OnItsWay(a, t, i) => OnItsWay(b, t, i)
<1>1. PICK g \in [Of(a, t) -> Of(b, t)] :
         /\ \A i \in Of(a, t) : b[g[i]] = a[i]
         /\ \A j \in Of(b, t) : \E i \in Of(a, t) : g[i] = j
         /\ \A i, k \in Of(a, t) : i < k => g[i] < g[k]
  BY DEF SameFor
<1>2. \A i \in Of(a, t) : i \in Nat
  BY DEF Of
<1>3. \A type : Has(a, t, type) <=> Has(b, t, type)
  BY <1>1 DEF Has
<1>4. ASSUME NEW i, OnItsWay(a, t, i)
      PROVE  OnItsWay(b, t, i)
  <2>1. PICK j \in Of(a, t) :
           /\ a[j].type = "RAW_CHUNK" /\ a[j].seq = i
           /\ \A k \in Of(a, t) : /\ a[k].type = "HELLO" => k < j
                                  /\ a[k].type = "RAW_END" => j < k
    BY <1>4 DEF OnItsWay
  <2>2. g[j] \in Of(b, t) /\ b[g[j]].type = "RAW_CHUNK" /\ b[g[j]].seq = i
    BY <1>1, <2>1
  <2>3. ASSUME NEW l \in Of(b, t)
        PROVE  /\ b[l].type = "HELLO" => l < g[j]
               /\ b[l].type = "RAW_END" => g[j] < l
    <3>1. PICK k \in Of(a, t) : g[k] = l
      BY <1>1
    <3>2. b[l] = a[k]
      BY <1>1, <3>1
    <3>. QED
      BY <1>1, <2>1, <3>1, <3>2
  <2>. QED
    BY <2>2, <2>3 DEF OnItsWay
<1>. QED
  BY <1>3, <1>4

\* A channel is the same for every trial as itself.
LEMMA SameSelf ==
    ASSUME NEW t, NEW a
    PROVE  SameFor(t, a, a)
<1>. DEFINE g == [i \in Of(a, t) |-> i]
<1>1. g \in [Of(a, t) -> Of(a, t)]
  OBVIOUS
<1>. QED
  BY <1>1 DEF SameFor

\* A datagram of another trial at the end changes nothing.
LEMMA SameAppend ==
    ASSUME NEW t, NEW S, NEW a \in Seq(S), NEW b \in Seq(S), NEW m \in S, m.trial # t,
           SameFor(t, a, b)
    PROVE  SameFor(t, a, Append(b, m))
<1>. DEFINE c == Append(b, m)
<1>1. /\ DOMAIN c = 1..(Len(b) + 1) /\ c[Len(b) + 1] = m /\ DOMAIN b = 1..Len(b)
      /\ \A i \in DOMAIN b : c[i] = b[i]
  OBVIOUS
<1>2. Of(c, t) = Of(b, t) /\ \A i \in Of(b, t) : c[i] = b[i]
  <2>1. Len(b) \in Nat
    OBVIOUS
  <2>. HIDE DEF c
  <2>2. \A i \in DOMAIN c : i \in DOMAIN b \/ i = Len(b) + 1
    BY <1>1, <2>1
  <2>3. DOMAIN b \subseteq DOMAIN c
    BY <1>1, <2>1
  <2>. QED
    BY <1>1, <2>2, <2>3 DEF Of
<1>. HIDE DEF c
<1>3. SameFor(t, a, c)
  BY <1>2 DEF SameFor
<1>. QED
  BY <1>3 DEF c

\* Taking away a datagram of another trial changes nothing.
LEMMA SameRemove ==
    ASSUME NEW t, NEW S, NEW a \in Seq(S), NEW f \in DOMAIN a, a[f].trial # t
    PROVE  SameFor(t, a, RemoveAt(a, f))
<1>. DEFINE b == RemoveAt(a, f)
            g == [i \in Of(a, t) |-> IF i < f THEN i ELSE i - 1]
<1>1. /\ DOMAIN a = 1..Len(a) /\ f \in Nat /\ Len(a) \in Nat /\ f \in 1..Len(a)
  OBVIOUS
<1>2. /\ b \in Seq(S) /\ DOMAIN b = 1..(Len(a) - 1)
      /\ \A i \in 1..(Len(a) - 1) : b[i] = IF i < f THEN a[i] ELSE a[i + 1]
  <2>. DEFINE x == SubSeq(a, 1, f - 1)
              y == SubSeq(a, f + 1, Len(a))
  <2>1. /\ x \in Seq(S) /\ Len(x) = f - 1 /\ \A i \in 1..(f - 1) : x[i] = a[i]
    BY <1>1
  <2>2. /\ y \in Seq(S) /\ Len(y) = Len(a) - f /\ \A i \in 1..(Len(a) - f) : y[i] = a[f + i]
    BY <1>1
  <2>3. b = x \o y
    BY DEF RemoveAt
  <2>. HIDE DEF x, y, b
  <2>4. /\ b \in Seq(S) /\ Len(b) = Len(x) + Len(y)
        /\ \A i \in 1..Len(x) : b[i] = x[i]
        /\ \A i \in 1..Len(y) : b[Len(x) + i] = y[i]
    <3>1. x \in Seq(S) /\ y \in Seq(S)
      BY <2>1, <2>2
    <3>2. /\ x \o y \in Seq(S) /\ Len(x \o y) = Len(x) + Len(y)
          /\ \A i \in 1..Len(x) : (x \o y)[i] = x[i]
          /\ \A i \in 1..Len(y) : (x \o y)[Len(x) + i] = y[i]
      BY <3>1
    <3>. QED
      BY <2>3, <3>2
  <2>5. Len(b) = Len(a) - 1
    BY <1>1, <2>1, <2>2, <2>4
  <2>6. ASSUME NEW i \in 1..(Len(a) - 1), i < f
        PROVE  b[i] = a[i]
    <3>1. i \in 1..(f - 1) /\ i \in 1..Len(x)
      BY <1>1, <2>1, <2>6
    <3>. QED
      BY <2>1, <2>4, <3>1
  <2>7. ASSUME NEW i \in 1..(Len(a) - 1), ~(i < f)
        PROVE  b[i] = a[i + 1]
    <3>1. PICK k \in 1..(Len(a) - f) : i = (f - 1) + k
      <4>1. i - (f - 1) \in 1..(Len(a) - f)
        BY <1>1, <2>7
      <4>. QED
        BY <1>1, <4>1
    <3>2. b[i] = y[k] /\ f + k = i + 1
      BY <1>1, <2>1, <2>2, <2>4, <3>1
    <3>. QED
      BY <2>2, <3>1, <3>2
  <2>8. DOMAIN b = 1..(Len(a) - 1)
    BY <2>4, <2>5
  <2>. QED
    BY <2>4, <2>6, <2>7, <2>8
<1>. HIDE DEF b
<1>3. ASSUME NEW i \in Of(a, t)
      PROVE  /\ i \in Nat
             /\ (IF i < f THEN i ELSE i - 1) \in Of(b, t)
             /\ b[IF i < f THEN i ELSE i - 1] = a[i]
  <2>1. i \in 1..Len(a) /\ i # f /\ a[i].trial = t
    BY <1>1 DEF Of
  <2>2. CASE i < f
    <3>1. i \in 1..(Len(a) - 1) /\ b[i] = a[i]
      BY <1>1, <1>2, <2>1, <2>2
    <3>. QED
      BY <1>2, <2>1, <2>2, <3>1 DEF Of
  <2>3. CASE ~(i < f)
    <3>1. i - 1 \in 1..(Len(a) - 1) /\ ~(i - 1 < f) /\ (i - 1) + 1 = i
      BY <1>1, <2>1, <2>3
    <3>2. b[i - 1] = a[i]
      BY <1>2, <3>1
    <3>. QED
      BY <1>2, <2>1, <2>3, <3>1, <3>2 DEF Of
  <2>. QED
    BY <2>2, <2>3
<1>4. g \in [Of(a, t) -> Of(b, t)]
  BY <1>3
<1>5. \A i \in Of(a, t) : b[g[i]] = a[i]
  BY <1>3
<1>6. ASSUME NEW j \in Of(b, t)
      PROVE  \E i \in Of(a, t) : g[i] = j
  <2>1. j \in 1..(Len(a) - 1) /\ b[j].trial = t
    BY <1>2 DEF Of
  <2>2. CASE j < f
    <3>1. j \in Of(a, t)
      BY <1>1, <1>2, <2>1, <2>2 DEF Of
    <3>. QED
      BY <2>2, <3>1
  <2>3. CASE ~(j < f)
    <3>1. j + 1 \in Of(a, t) /\ ~(j + 1 < f) /\ (j + 1) - 1 = j
      BY <1>1, <1>2, <2>1, <2>3 DEF Of
    <3>. QED
      BY <3>1
  <2>. QED
    BY <2>2, <2>3
<1>7. ASSUME NEW i \in Of(a, t), NEW k \in Of(a, t), i < k
      PROVE  g[i] < g[k]
  <2>1. i \in Nat /\ k \in Nat /\ i # f /\ k # f
    BY <1>3 DEF Of
  <2>2. g[i] = (IF i < f THEN i ELSE i - 1) /\ g[k] = IF k < f THEN k ELSE k - 1
    OBVIOUS
  <2>. HIDE DEF g
  <2>. QED
    BY <1>1, <1>7, <2>1, <2>2
<1>. HIDE DEF g
<1>8. SameFor(t, a, b)
  BY <1>4, <1>5, <1>6, <1>7 DEF SameFor
<1>. QED
  BY <1>8 DEF b

\* Neither does receiving a datagram of another trial.
LEMMA SameTail ==
    ASSUME NEW t, NEW S, NEW a \in Seq(S), a # <<>>, Head(a).trial # t
    PROVE  SameFor(t, a, Tail(a))
<1>1. 1 \in DOMAIN a /\ a[1] = Head(a)
  OBVIOUS
<1>2. RemoveAt(a, 1) = Tail(a)
  <2>1. RemoveAt(a, 1) = SubSeq(a, 1, 1 - 1) \o SubSeq(a, 1 + 1, Len(a))
    BY DEF RemoveAt
  <2>2. SubSeq(a, 1, 1 - 1) = <<>>
    OBVIOUS
  <2>3. SubSeq(a, 1 + 1, Len(a)) = Tail(a) /\ Tail(a) \in Seq(S)
    OBVIOUS
  <2>. QED
    BY <2>1, <2>2, <2>3
<1>. QED
  BY <1>1, <1>2, SameRemove

\* A fault that hits a datagram is none to the other trials.
LEMMA SamePerturbed ==
    ASSUME NEW t, NEW S, NEW a \in Seq(S), NEW f \in DOMAIN a, a[f].trial # t,
           NEW kind \in {"drop", "dup", "delay"}
    PROVE  SameFor(t, a, Perturbed(a, kind, f))
<1>1. a[f] \in S /\ RemoveAt(a, f) \in Seq(S)
  BY DEF RemoveAt
<1>2. SameFor(t, a, RemoveAt(a, f)) /\ SameFor(t, a, a)
  BY SameRemove, SameSelf
<1>3. SameFor(t, a, Append(a, a[f])) /\ SameFor(t, a, Append(RemoveAt(a, f), a[f]))
  BY <1>1, <1>2, SameAppend
<1>. QED
  BY <1>2, <1>3 DEF Perturbed

------------------------------------------------------------------------------
\* Where the elements of two joined sequences stand.
LEMMA Joint ==
    ASSUME NEW S, NEW a \in Seq(S), NEW b \in Seq(S)
    PROVE  /\ a \o b \in Seq(S) /\ Len(a \o b) = Len(a) + Len(b)
           /\ \A i \in 1..Len(a) : (a \o b)[i] = a[i]
           /\ \A i \in 1..Len(b) : (a \o b)[Len(a) + i] = b[i]
OBVIOUS

\* s is a frame, two blocks and a frame.
IsFramed(s, a, b, c, d) == Len(a) = 1 /\ Len(d) = 1 /\ s = a \o b \o c \o d

\* Where the elements of s stand, then.
LaidOut(s, a, b, c, d) ==
    /\ Len(s) = Len(b) + Len(c) + 2
    /\ s[1] = a[1] /\ s[Len(s)] = d[1]
    /\ \A i \in 1..Len(b) : s[i + 1] = b[i]
    /\ \A i \in 1..Len(c) : s[Len(b) + 1 + i] = c[i]
    /\ \A j \in 1..Len(s) : \/ j = 1 \/ j = Len(s)
                            \/ \E i \in 1..Len(b) : j = i + 1
                            \/ \E i \in 1..Len(c) : j = Len(b) + 1 + i

\* A frame, two blocks and a frame are laid out like that.
LEMMA Framed ==
    ASSUME NEW S, NEW a \in Seq(S), NEW b \in Seq(S), NEW c \in Seq(S), NEW d \in Seq(S),
           NEW s, IsFramed(s, a, b, c, d)
    PROVE  LaidOut(s, a, b, c, d)
<1>. DEFINE x == a \o b
            y == x \o c
<1>0. Len(a) = 1 /\ Len(d) = 1 /\ s = a \o b \o c \o d
  BY DEF IsFramed
<1>1. Len(b) \in Nat /\ Len(c) \in Nat
  OBVIOUS
<1>2. /\ x \in Seq(S) /\ Len(x) = Len(b) + 1 /\ x[1] = a[1]
      /\ \A i \in 1..Len(b) : x[i + 1] = b[i]
  <2>1. /\ x \in Seq(S) /\ Len(x) = Len(a) + Len(b)
        /\ \A i \in 1..Len(a) : x[i] = a[i]
        /\ \A i \in 1..Len(b) : x[Len(a) + i] = b[i]
    BY Joint
  <2>. HIDE DEF x
  <2>2. \A i \in 1..Len(b) : Len(a) + i = i + 1
    BY <1>0, <1>1
  <2>. QED
    BY <1>0, <1>1, <2>1, <2>2
<1>. HIDE DEF x
<1>3. /\ y \in Seq(S) /\ Len(y) = Len(x) + Len(c)
      /\ \A i \in 1..Len(x) : y[i] = x[i]
      /\ \A i \in 1..Len(c) : y[Len(x) + i] = c[i]
  <2>1. x \in Seq(S) /\ c \in Seq(S)
    BY <1>2
  <2>. QED
    BY <2>1, Joint
<1>. HIDE DEF y
<1>4. /\ Len(s) = Len(y) + Len(d)
      /\ \A i \in 1..Len(y) : s[i] = y[i]
      /\ \A i \in 1..Len(d) : s[Len(y) + i] = d[i]
  <2>0. y \in Seq(S) /\ d \in Seq(S)
    BY <1>3
  <2>1. /\ y \o d \in Seq(S) /\ Len(y \o d) = Len(y) + Len(d)
        /\ \A i \in 1..Len(y) : (y \o d)[i] = y[i]
        /\ \A i \in 1..Len(d) : (y \o d)[Len(y) + i] = d[i]
    BY <2>0, Joint
  <2>2. s = y \o d
    BY <1>0 DEF x, y
  <2>. QED
    BY <2>1, <2>2
<1>5. Len(s) = Len(b) + Len(c) + 2 /\ Len(y) = Len(b) + 1 + Len(c)
  BY <1>0, <1>1, <1>2, <1>3, <1>4
<1>6. s[1] = a[1]
  BY <1>1, <1>2, <1>3, <1>4, <1>5
<1>7. s[Len(s)] = d[1]
  <2>1. Len(s) = Len(y) + 1 /\ 1 \in 1..Len(d)
    BY <1>0, <1>1, <1>5
  <2>. QED
    BY <1>4, <2>1
<1>8. ASSUME NEW i \in 1..Len(b)
      PROVE  s[i + 1] = b[i]
  <2>1. i + 1 \in 1..Len(x) /\ i + 1 \in 1..Len(y)
    BY <1>1, <1>2, <1>5
  <2>. QED
    BY <1>2, <1>3, <1>4, <2>1
<1>9. ASSUME NEW i \in 1..Len(c)
      PROVE  s[Len(b) + 1 + i] = c[i]
  <2>1. Len(b) + 1 + i = Len(x) + i /\ Len(x) + i \in 1..Len(y)
    BY <1>1, <1>2, <1>5
  <2>. QED
    BY <1>3, <1>4, <2>1
<1>10. ASSUME NEW j \in 1..Len(s), j # 1, j # Len(s)
       PROVE  (\E i \in 1..Len(b) : j = i + 1) \/ (\E i \in 1..Len(c) : j = Len(b) + 1 + i)
  <2>1. CASE j <= Len(b) + 1
    <3>1. j - 1 \in 1..Len(b) /\ j = (j - 1) + 1
      BY <1>1, <1>5, <1>10, <2>1
    <3>. QED
      BY <3>1
  <2>2. CASE j > Len(b) + 1
    <3>1. PICK q, r, l \in Nat : q = Len(b) /\ r = Len(c) /\ l = j
      BY <1>1, <1>5
    <3>2. l \in 1..(q + r + 2) /\ l # q + r + 2 /\ l > q + 1
      BY <1>5, <1>10, <2>2, <3>1
    <3>3. l - (q + 1) \in 1..r /\ l = q + 1 + (l - (q + 1))
      BY <3>2
    <3>. QED
      BY <3>1, <3>3
  <2>. QED
    BY <1>1, <1>5, <2>1, <2>2
<1>. QED
  BY <1>5, <1>6, <1>7, <1>8, <1>9, <1>10 DEF LaidOut

\* send_raw_stream sends its raw chunks in order after RAW_BEGIN and ends with
\* the only RAW_END.
LEMMA UploadOrder ==
    ASSUME ClientTypeOK
    PROVE  /\ Len(UploadStream) \in Nat
           /\ NumChunks(Requested(start), ChunkBytes) + 2 <= Len(UploadStream)
           /\ \A i \in 0..(NumChunks(Requested(start), ChunkBytes) - 1) :
                 UploadStream[i + 2].type = "RAW_CHUNK" /\ UploadStream[i + 2].seq = i
           /\ \A j \in 1..Len(UploadStream) :
                 /\ UploadStream[j].port = port /\ UploadStream[j].trial = start.trial
                 /\ UploadStream[j].type # "HELLO"
                 /\ UploadStream[j].type = "RAW_END" <=> j = Len(UploadStream)
<1>. DEFINE rawChunks == NumChunks(Requested(start), ChunkBytes)
            jitterChunks == NumChunks(packets_seen, JitterPerChunk)
            Chunk(n) == ChunkOf(RawBuf, n, ChunkBytes)
            Jitter(n) == ChunkOf(JitterUs, n, JitterPerChunk)
            Frame(type) == <<Upload(type, rawChunks, Requested(start), <<>>)>>
            raws == [n \in 1..rawChunks |->
                        Upload("RAW_CHUNK", n - 1, Len(Chunk(n - 1)), Chunk(n - 1))]
            jits == [n \in 1..jitterChunks |->
                        Upload("JITTER_CHUNK", n - 1, Len(Jitter(n - 1)), Jitter(n - 1))]
            Sent(type, u) == u.type = type /\ u.port = port /\ u.trial = start.trial
            S == {Frame("RAW_BEGIN")[1], Frame("RAW_END")[1]}
                    \cup {raws[n] : n \in 1..rawChunks} \cup {jits[n] : n \in 1..jitterChunks}
<1>1. rawChunks \in Nat /\ jitterChunks \in Nat
  <2>1. Requested(start) \in Nat /\ packets_seen \in Nat
    BY Clamps, ClientAssumption DEF ClientTypeOK
  <2>. QED
    BY <2>1, NumChunksType, ChunkAssumption
<1>2. \A type, q, n, pl : Sent(type, Upload(type, q, n, pl)) /\ Upload(type, q, n, pl).seq = q
  BY DEF Upload, Message
<1>3. UploadStream = Frame("RAW_BEGIN") \o raws \o jits \o Frame("RAW_END")
  BY DEF UploadStream
<1>4. /\ Sent("RAW_BEGIN", Frame("RAW_BEGIN")[1]) /\ Sent("RAW_END", Frame("RAW_END")[1])
      /\ \A n \in 1..rawChunks : Sent("RAW_CHUNK", raws[n]) /\ raws[n].seq = n - 1
      /\ \A n \in 1..jitterChunks : Sent("JITTER_CHUNK", jits[n])
  <2>. HIDE DEF Sent, Chunk, Jitter, rawChunks, jitterChunks
  <2>. QED
    BY <1>2
<1>5. /\ raws \in Seq(S) /\ jits \in Seq(S)
      /\ Frame("RAW_BEGIN") \in Seq(S) /\ Frame("RAW_END") \in Seq(S)
      /\ Len(raws) = rawChunks /\ Len(jits) = jitterChunks
      /\ Len(Frame("RAW_BEGIN")) = 1 /\ Len(Frame("RAW_END")) = 1
  <2>1. \A n \in 1..rawChunks : raws[n] \in S
    OBVIOUS
  <2>2. \A n \in 1..jitterChunks : jits[n] \in S
    OBVIOUS
  <2>3. Frame("RAW_BEGIN")[1] \in S /\ Frame("RAW_END")[1] \in S
    OBVIOUS
  <2>. HIDE DEF S, Chunk, Jitter, rawChunks, jitterChunks
  <2>4. raws \in Seq(S) /\ jits \in Seq(S) /\ Len(raws) = rawChunks /\ Len(jits) = jitterChunks
    BY <1>1, <2>1, <2>2
  <2>. HIDE DEF raws, jits
  <2>5. \A e \in S : <<e>> \in Seq(S) /\ Len(<<e>>) = 1
    OBVIOUS
  <2>. QED
    BY <2>3, <2>4, <2>5
<1>. DEFINE s == UploadStream
            a == Frame("RAW_BEGIN")
            d == Frame("RAW_END")
<1>. HIDE DEF S, raws, jits, Frame, a, d, s
<1>6. /\ Len(s) = Len(raws) + Len(jits) + 2
      /\ s[1] = a[1] /\ s[Len(s)] = d[1]
      /\ \A i \in 1..Len(raws) : s[i + 1] = raws[i]
      /\ \A i \in 1..Len(jits) : s[Len(raws) + 1 + i] = jits[i]
      /\ \A j \in 1..Len(s) : \/ j = 1 \/ j = Len(s)
                              \/ \E i \in 1..Len(raws) : j = i + 1
                              \/ \E i \in 1..Len(jits) : j = Len(raws) + 1 + i
  <2>1. a \in Seq(S) /\ d \in Seq(S) /\ raws \in Seq(S) /\ jits \in Seq(S)
    BY <1>5 DEF a, d
  <2>2. IsFramed(s, a, raws, jits, d)
    BY <1>3, <1>5 DEF a, d, s, IsFramed
  <2>3. LaidOut(s, a, raws, jits, d)
    BY <2>1, <2>2, Framed
  <2>. QED
    BY <2>3 DEF LaidOut
<1>. HIDE DEF rawChunks, jitterChunks, Sent, Chunk, Jitter
<1>7. Len(s) \in Nat /\ rawChunks + 2 <= Len(s)
  BY <1>1, <1>5, <1>6
<1>8. ASSUME NEW i \in 0..(rawChunks - 1)
      PROVE  s[i + 2].type = "RAW_CHUNK" /\ s[i + 2].seq = i
  <2>1. i + 1 \in 1..rawChunks /\ (i + 1) + 1 = i + 2 /\ (i + 1) - 1 = i
    BY <1>1
  <2>2. s[i + 2] = raws[i + 1]
    BY <1>5, <1>6, <2>1
  <2>3. Sent("RAW_CHUNK", raws[i + 1]) /\ raws[i + 1].seq = i
    BY <1>4, <2>1
  <2>. QED
    BY <2>2, <2>3 DEF Sent
<1>9. ASSUME NEW j \in 1..Len(s)
      PROVE  /\ s[j].port = port /\ s[j].trial = start.trial /\ s[j].type # "HELLO"
             /\ s[j].type = "RAW_END" <=> j = Len(s)
  <2>1. CASE j = 1
    BY <1>1, <1>4, <1>5, <1>6, <1>7, <2>1 DEF a, Sent
  <2>2. CASE j = Len(s)
    BY <1>4, <1>6, <2>2 DEF d, Sent
  <2>3. ASSUME NEW i \in 1..Len(raws), j = i + 1
        PROVE  Sent("RAW_CHUNK", s[j]) /\ j # Len(s)
    BY <1>1, <1>4, <1>5, <1>6, <2>3
  <2>4. ASSUME NEW i \in 1..Len(jits), j = Len(raws) + 1 + i
        PROVE  Sent("JITTER_CHUNK", s[j]) /\ j # Len(s)
    <3>1. s[j] = jits[i] /\ i \in 1..jitterChunks
      BY <1>5, <1>6, <2>4
    <3>2. j # Len(s)
      BY <1>1, <1>5, <1>6, <2>4
    <3>. QED
      BY <1>4, <3>1, <3>2
  <2>. QED
    BY <1>6, <2>1, <2>2, <2>3, <2>4 DEF Sent
<1>. QED
  BY <1>7, <1>8, <1>9 DEF s, rawChunks
------------------------------------------------------------------------------
(* A channel that gives its oldest datagram or takes a new one. *)

\* What receiving a datagram leaves on its way.
LEMMA TailKeeps ==
    ASSUME NEW t, NEW S, NEW ch \in Seq(S), ch # <<>>
    PROVE  /\ \A type : Has(Tail(ch), t, type) => Has(ch, t, type)
           /\ \A type : Has(ch, t, type) =>
                 Has(Tail(ch), t, type) \/ (Head(ch).trial = t /\ Head(ch).type = type)
           /\ \A i : OnItsWay(ch, t, i) =>
                 \/ OnItsWay(Tail(ch), t, i)
                 \/ /\ Head(ch).trial = t /\ Head(ch).type = "RAW_CHUNK" /\ Head(ch).seq = i
                    /\ ~Has(ch, t, "HELLO")
           /\ Head(ch).trial = t => Has(ch, t, Head(ch).type)
           /\ Head(ch).trial = t /\ Head(ch).type = "RAW_END" => \A i : ~OnItsWay(ch, t, i)
<1>. DEFINE b == Tail(ch)
<1>0. /\ b \in Seq(S) /\ Len(ch) \in Nat \ {0} /\ DOMAIN ch = 1..Len(ch) /\ ch[1] = Head(ch)
      /\ DOMAIN b = 1..(Len(ch) - 1)
      /\ \A i \in 1..(Len(ch) - 1) : b[i] = ch[i + 1]
  OBVIOUS
<1>. HIDE DEF b
<1>1. /\ Of(ch, t) \subseteq Nat \ {0}
      /\ 1 \in Of(ch, t) <=> Head(ch).trial = t
      /\ ch[1] = Head(ch)
      /\ \A i \in Of(ch, t) : i # 1 => i - 1 \in Of(b, t) /\ b[i - 1] = ch[i]
      /\ \A i \in Of(b, t) : i \in Nat /\ i + 1 \in Of(ch, t) /\ ch[i + 1] = b[i]
  <2>1. Of(ch, t) \subseteq Nat \ {0} /\ (1 \in Of(ch, t) <=> Head(ch).trial = t)
    BY <1>0 DEF Of
  <2>2. ASSUME NEW i \in Of(ch, t), i # 1
        PROVE  i - 1 \in Of(b, t) /\ b[i - 1] = ch[i]
    <3>1. i \in 1..Len(ch) /\ ch[i].trial = t
      BY <1>0 DEF Of
    <3>2. i - 1 \in 1..(Len(ch) - 1) /\ (i - 1) + 1 = i
      BY <1>0, <2>2, <3>1
    <3>3. b[i - 1] = ch[i]
      BY <1>0, <3>2
    <3>. QED
      BY <1>0, <3>1, <3>2, <3>3 DEF Of
  <2>3. ASSUME NEW i \in Of(b, t)
        PROVE  i \in Nat /\ i + 1 \in Of(ch, t) /\ ch[i + 1] = b[i]
    <3>1. i \in 1..(Len(ch) - 1) /\ b[i].trial = t
      BY <1>0 DEF Of
    <3>2. i + 1 \in 1..Len(ch)
      BY <1>0, <3>1
    <3>. QED
      BY <1>0, <3>1, <3>2 DEF Of
  <2>. QED
    BY <1>0, <2>1, <2>2, <2>3
<1>2. \A type : Has(b, t, type) => Has(ch, t, type)
  BY <1>1 DEF Has
<1>3. \A type : Has(ch, t, type) => Has(b, t, type) \/ (Head(ch).trial = t /\ Head(ch).type = type)
  BY <1>1 DEF Has
<1>4. ASSUME NEW i, OnItsWay(ch, t, i)
      PROVE  \/ OnItsWay(b, t, i)
             \/ /\ Head(ch).trial = t /\ Head(ch).type = "RAW_CHUNK" /\ Head(ch).seq = i
                /\ ~Has(ch, t, "HELLO")
  <2>1. PICK j \in Of(ch, t) :
           /\ ch[j].type = "RAW_CHUNK" /\ ch[j].seq = i
           /\ \A k \in Of(ch, t) : /\ ch[k].type = "HELLO" => k < j
                                   /\ ch[k].type = "RAW_END" => j < k
    BY <1>4 DEF OnItsWay
  <2>2. CASE j = 1
    <3>1. \A k \in Of(ch, t) : ~(k < 1)
      BY <1>1
    <3>. QED
      BY <1>1, <2>1, <2>2, <3>1 DEF Has
  <2>3. CASE j # 1
    <3>1. j - 1 \in Of(b, t) /\ b[j - 1] = ch[j]
      BY <1>1, <2>3
    <3>2. ASSUME NEW k \in Of(b, t)
          PROVE  /\ b[k].type = "HELLO" => k < j - 1
                 /\ b[k].type = "RAW_END" => j - 1 < k
      <4>1. k + 1 \in Of(ch, t) /\ ch[k + 1] = b[k]
        BY <1>1
      <4>2. k \in Nat /\ j \in Nat
        BY <1>1
      <4>. QED
        BY <2>1, <4>1, <4>2
    <3>. QED
      BY <2>1, <3>1, <3>2 DEF OnItsWay
  <2>. QED
    BY <2>2, <2>3
<1>5. ASSUME Head(ch).trial = t, Head(ch).type = "RAW_END", NEW i
      PROVE  ~OnItsWay(ch, t, i)
  BY <1>1, <1>5 DEF OnItsWay
<1>6. Head(ch).trial = t => Has(ch, t, Head(ch).type)
  BY <1>1 DEF Has
<1>. QED
  BY <1>2, <1>3, <1>4, <1>5, <1>6 DEF b

\* What sending a datagram adds.
LEMMA AppendHas ==
    ASSUME NEW t, NEW type, NEW S, NEW ch \in Seq(S), NEW m \in S
    PROVE  Has(Append(ch, m), t, type) <=> Has(ch, t, type) \/ (m.trial = t /\ m.type = type)
<1>. DEFINE c == Append(ch, m)
            n == Len(ch) + 1
<1>1. /\ Len(ch) \in Nat /\ DOMAIN ch = 1..Len(ch) /\ DOMAIN c = 1..n /\ c[n] = m
      /\ \A i \in 1..Len(ch) : c[i] = ch[i]
  OBVIOUS
<1>. HIDE DEF c
<1>2. /\ \A i \in Of(ch, t) : i \in Of(c, t) /\ c[i] = ch[i] /\ i < n
      /\ \A i \in Of(c, t) : i \in Nat /\ (i = n \/ (i \in Of(ch, t) /\ c[i] = ch[i]))
      /\ n \in Of(c, t) <=> m.trial = t
  BY <1>1 DEF Of
<1>. HIDE DEF n
<1>3. Has(c, t, type) <=> Has(ch, t, type) \/ (m.trial = t /\ m.type = type)
  BY <1>1, <1>2 DEF Has
<1>. QED
  BY <1>3 DEF c

\* It comes after all the others.
LEMMA AppendKeeps ==
    ASSUME NEW t, NEW S, NEW ch \in Seq(S), NEW m \in S
    PROVE  /\ \A type : Has(ch, t, type) => Has(Append(ch, m), t, type)
           /\ ~(m.trial = t /\ m.type = "HELLO") =>
                 \A i : OnItsWay(ch, t, i) => OnItsWay(Append(ch, m), t, i)
           /\ m.trial = t /\ m.type = "RAW_CHUNK" /\ ~Has(ch, t, "RAW_END") =>
                 OnItsWay(Append(ch, m), t, m.seq)
<1>. DEFINE c == Append(ch, m)
            n == Len(ch) + 1
<1>1. /\ Len(ch) \in Nat /\ DOMAIN ch = 1..Len(ch) /\ DOMAIN c = 1..n /\ c[n] = m
      /\ \A i \in 1..Len(ch) : c[i] = ch[i]
  OBVIOUS
<1>. HIDE DEF c
<1>2. /\ \A i \in Of(ch, t) : i \in Of(c, t) /\ c[i] = ch[i] /\ i < n
      /\ \A i \in Of(c, t) : i \in Nat /\ (i = n \/ (i \in Of(ch, t) /\ c[i] = ch[i]))
      /\ n \in Of(c, t) <=> m.trial = t
  BY <1>1 DEF Of
<1>. HIDE DEF n
<1>3. \A type : Has(ch, t, type) => Has(c, t, type)
  BY <1>2 DEF Has
<1>4. ASSUME ~(m.trial = t /\ m.type = "HELLO"), NEW i, OnItsWay(ch, t, i)
      PROVE  OnItsWay(c, t, i)
  <2>1. PICK j \in Of(ch, t) :
           /\ ch[j].type = "RAW_CHUNK" /\ ch[j].seq = i
           /\ \A k \in Of(ch, t) : /\ ch[k].type = "HELLO" => k < j
                                   /\ ch[k].type = "RAW_END" => j < k
    BY <1>4 DEF OnItsWay
  <2>2. j \in Of(c, t) /\ c[j] = ch[j] /\ j < n
    BY <1>2
  <2>3. \A k \in Of(c, t) : /\ c[k].type = "HELLO" => k < j
                            /\ c[k].type = "RAW_END" => j < k
    BY <1>1, <1>2, <1>4, <2>1, <2>2
  <2>. QED
    BY <2>1, <2>2, <2>3 DEF OnItsWay
<1>5. ASSUME m.trial = t, m.type = "RAW_CHUNK", ~Has(ch, t, "RAW_END")
      PROVE  OnItsWay(c, t, m.seq)
  <2>1. \A k \in Of(c, t) : /\ c[k].type = "HELLO" => k < n
                            /\ c[k].type = "RAW_END" => n < k
    BY <1>1, <1>2, <1>5 DEF Has
  <2>. QED
    BY <1>1, <1>2, <1>5, <2>1 DEF OnItsWay
<1>. QED
  BY <1>3, <1>4, <1>5 DEF c

\* The network makes no datagram up.
LEMMA PerturbedFrom ==
    ASSUME NEW t, NEW S, NEW ch \in Seq(S), NEW f \in DOMAIN ch,
           NEW kind \in {"drop", "dup", "delay"}, NEW type,
           Has(Perturbed(ch, kind, f), t, type)
    PROVE  Has(ch, t, type)
<1>. DEFINE T == {ch[i] : i \in DOMAIN ch}
<1>1. ch \in Seq(T)
  OBVIOUS
<1>2. Perturbed(ch, kind, f) \in Seq(T)
  BY <1>1, PerturbedType
<1>3. PICK i \in DOMAIN Perturbed(ch, kind, f) :
         /\ Perturbed(ch, kind, f)[i].trial = t /\ Perturbed(ch, kind, f)[i].type = type
  BY DEF Has, Of
<1>4. Perturbed(ch, kind, f)[i] \in T
  BY <1>2, <1>3
<1>. QED
  BY <1>3, <1>4 DEF Has, Of
------------------------------------------------------------------------------
(* Trials that can still become complete. *)

\* The key of a trial of the running boot.
KeyOf(t) == <<port, t>>

\* send_stimulus runs for trial t: its key will get a fresh TrialState.
Stimulated(t) == kpc = "stim" /\ hello.trial = t

\* The collector has, or is about to have, a TrialState for trial t.
Opens(t) == KeyOf(t) \in DOMAIN states \/ Stimulated(t)

\* The TrialState holds chunk i, and nothing on its way will replace it.
Held(t, i) ==
    /\ KeyOf(t) \in DOMAIN states
    /\ i \in DOMAIN states[KeyOf(t)].rawChunks
    /\ ~Stimulated(t)
    /\ ~Has(toGateway, t, "HELLO")

\* Chunk i of trial t is where it is used.
Kept(t, i) == Held(t, i) \/ OnItsWay(toGateway, t, i)

\* All of an upload that was sent to its end is kept, with a RAW_END to come.
Delivers(t) ==
    /\ Opens(t)
    /\ Has(toGateway, t, "RAW_END")
    /\ \A i \in 0..(Pieces - 1) : Kept(t, i)

\* Trial t of the only boot will be complete unless a fault hits it.
Alive(t) ==
    \/ t > trial
    \/ t = trial /\ pc \in {"boot", "hello", "sample", "rest"}
    \/ t = trial /\ pc = "wait" /\ (Has(toGateway, t, "HELLO") \/ Has(toDevice, t, "START"))
    \/ t = trial /\ pc = "upload" /\ \A i \in 0..(Pieces - 1) : i + 2 < up => Kept(t, i)
    \/ (t < trial \/ (t = trial /\ pc = "gap")) /\ Delivers(t)

\* The trials that can still become complete.
AliveTrials == {t \in 0..(ClientTrials - 1) : Alive(t)}

\* A datagram (or the HELLO being answered) is not ahead of the client: of the
\* trial it is in, there is only what it has sent or been sent.
InStep(m) ==
    /\ m.port = port
    /\ m.trial <= trial
    /\ m.trial = trial => pc \notin {"boot", "hello"}

\* While the client waits or samples, only HELLOs of its trial are on their way;
\* while it uploads, RAW_END is not among what it has sent.
NotAhead(m) ==
    /\ InStep(m)
    /\ m.trial = trial /\ pc \in {"wait", "sample", "rest"} => m.type = "HELLO"
    /\ m.trial = trial /\ pc = "upload" => m.type # "RAW_END"

\* Client and collector are in step.
Ordered ==
    /\ \A i \in DOMAIN toGateway : NotAhead(toGateway[i])
    /\ \A i \in DOMAIN toDevice : InStep(toDevice[i])
    /\ kpc = "stim" => InStep(hello)
    /\ pc = "wait" /\ Has(toDevice, trial, "START") => Opens(trial)
    /\ pc \in {"sample", "rest", "upload"} => Opens(trial)
    /\ pc = "done" => trial >= ClientTrials
    /\ kpc = "stopped" => \/ completed >= Trials
                          \/ pc \in {"done", "fatal"} /\ toGateway = <<>>

\* The inductive invariant: in the first boot, every trial not alive any more is
\* complete or was paid for with a fault of its own.
CountInv ==
    boot = 1 =>
        /\ Ordered
        /\ \/ completed >= ClientTrials
           \/ completed + faults + Cardinality(AliveTrials) >= ClientTrials
------------------------------------------------------------------------------
(* No trial is lost without a fault. *)

\* What a step must keep for a trial to stay alive when the client does nothing.
LEMMA AliveStays ==
    ASSUME NEW t, Ordered, Alive(t), UNCHANGED <<pc, trial, up>>,
           Has(toGateway, t, "HELLO") \/ Has(toDevice, t, "START") =>
              Has(toGateway', t, "HELLO") \/ Has(toDevice', t, "START"),
           Opens(t) => Opens(t)',
           Opens(t) /\ Has(toGateway, t, "RAW_END") => Has(toGateway', t, "RAW_END"),
           Opens(t) => \A i : Kept(t, i) => Kept(t, i)'
    PROVE  Alive(t)'
<1>1. Pieces' = Pieces
  BY DEF Pieces, Size, Asked
<1>2. CASE t > trial
  BY <1>2 DEF Alive
<1>3. CASE t = trial /\ pc \in {"boot", "hello", "sample", "rest"}
  BY <1>3 DEF Alive
<1>4. CASE t = trial /\ pc = "wait" /\ (Has(toGateway, t, "HELLO") \/ Has(toDevice, t, "START"))
  BY <1>4 DEF Alive
<1>5. CASE t = trial /\ pc = "upload" /\ \A i \in 0..(Pieces - 1) : i + 2 < up => Kept(t, i)
  <2>1. Opens(t)
    BY <1>5 DEF Ordered
  <2>2. \A i \in 0..(Pieces - 1) : i + 2 < up => Kept(t, i)'
    BY <1>5, <2>1
  <2>. QED
    BY <1>1, <1>5, <2>2 DEF Alive
<1>6. CASE (t < trial \/ (t = trial /\ pc = "gap")) /\ Delivers(t)
  <2>1. Opens(t)' /\ Has(toGateway', t, "RAW_END") /\ \A i \in 0..(Pieces - 1) : Kept(t, i)'
    BY <1>6 DEF Delivers
  <2>2. Delivers(t)'
    BY <1>1, <2>1 DEF Delivers
  <2>. QED
    BY <1>6, <2>2 DEF Alive
<1>. QED
  BY <1>2, <1>3, <1>4, <1>5, <1>6 DEF Alive
\* A datagram that fills in a TrialState takes no chunk away, and a raw chunk
\* adds its own.
LEMMA DataKept ==
    ASSUME CollectorTypeOK, RecvResult \/ RecvBegin \/ RecvChunk \/ RecvJitter
    PROVE  LET m == Head(toGateway)
           IN  /\ CollectorReceives
               /\ m.type \in {"RESULT", "RAW_BEGIN", "RAW_CHUNK", "JITTER_CHUNK"}
               /\ Key(m) \in DOMAIN states
               /\ UNCHANGED <<kpc, hello, sent, completed, toDevice>>
               /\ DOMAIN states' = DOMAIN states
               /\ \A k \in DOMAIN states :
                     DOMAIN states[k].rawChunks \subseteq DOMAIN states'[k].rawChunks
               /\ m.type = "RAW_CHUNK" => m.seq \in DOMAIN states'[Key(m)].rawChunks
<1>. DEFINE m == Head(toGateway)
<1>1. /\ CollectorReceives /\ UNCHANGED <<kpc, hello, sent, completed, toDevice>>
      /\ m.type \in {"RESULT", "RAW_BEGIN", "RAW_CHUNK", "JITTER_CHUNK"}
      /\ Key(m) \in DOMAIN states
  BY DEF RecvResult, RecvBegin, RecvChunk, RecvJitter, RecvFor
<1>2. PICK k : k = Key(m)
  OBVIOUS
<1>3. /\ k \in DOMAIN states /\ IsTrialState(states[k])
      /\ states = [l \in DOMAIN states |-> states[l]]
  BY <1>1, <1>2 DEF CollectorTypeOK
<1>4. PICK a, b, c, d, e, f :
         states[k] = [capture |-> a, chunksExpected |-> b, rawLen |-> c, rawChunks |-> d,
                      jitterChunks |-> e, result |-> f]
  BY <1>3 DEF IsTrialState
<1>5. ASSUME NEW st, DOMAIN d \subseteq DOMAIN st.rawChunks, states' = [states EXCEPT ![k] = st]
      PROVE  /\ DOMAIN states' = DOMAIN states /\ states'[k] = st
             /\ \A l \in DOMAIN states :
                   DOMAIN states[l].rawChunks \subseteq DOMAIN states'[l].rawChunks
  <2>1. /\ DOMAIN states' = DOMAIN states /\ states'[k] = st
        /\ \A l \in DOMAIN states : l # k => states'[l] = states[l]
    BY <1>3, <1>5
  <2>2. states[k].rawChunks = d
    BY <1>4
  <2>. QED
    BY <1>5, <2>1, <2>2
<1>6. CASE RecvResult
  <2>1. PICK r : states' = [states EXCEPT ![k] = [states[k] EXCEPT !.result = r]]
    BY <1>2, <1>6 DEF RecvResult
  <2>2. [states[k] EXCEPT !.result = r].rawChunks = d
    BY <1>4
  <2>. QED
    BY <1>1, <1>2, <1>5, <1>6, <2>1, <2>2 DEF RecvResult, RecvFor
<1>7. CASE RecvBegin
  <2>1. states' = [states EXCEPT ![k] = [states[k] EXCEPT !.chunksExpected = m.seq,
                                                          !.rawLen = m.bytes]]
    BY <1>2, <1>3, <1>7 DEF RecvBegin
  <2>2. [states[k] EXCEPT !.chunksExpected = m.seq, !.rawLen = m.bytes].rawChunks = d
    BY <1>4
  <2>. QED
    BY <1>1, <1>2, <1>5, <1>7, <2>1, <2>2 DEF RecvBegin, RecvFor
<1>8. CASE RecvJitter
  <2>1. PICK j : states' = [states EXCEPT ![k] = [states[k] EXCEPT !.jitterChunks = j]]
    BY <1>2, <1>8 DEF RecvJitter
  <2>2. [states[k] EXCEPT !.jitterChunks = j].rawChunks = d
    BY <1>4
  <2>. QED
    BY <1>1, <1>2, <1>5, <1>8, <2>1, <2>2 DEF RecvJitter, RecvFor
<1>9. CASE RecvChunk
  <2>. DEFINE g == Put(states[k].rawChunks, m.seq, Prefix(m.payload, m.bytes))
  <2>1. states' = [states EXCEPT ![k] = [states[k] EXCEPT !.rawChunks = g]]
    BY <1>2, <1>9 DEF RecvChunk
  <2>2. DOMAIN g = DOMAIN d \cup {m.seq}
    <3>1. states[k].rawChunks = d
      BY <1>4
    <3>. QED
      BY <3>1 DEF Put
  <2>. HIDE DEF g
  <2>3. [states[k] EXCEPT !.rawChunks = g].rawChunks = g
    BY <1>4
  <2>. QED
    BY <1>1, <1>2, <1>5, <2>1, <2>2, <2>3
<1>. QED
  BY <1>6, <1>7, <1>8, <1>9

\* The collector loses no trial unless it has all it wants: a HELLO opens its
\* trial again before what the client sends on, a chunk is kept, and what is
\* written out or dropped belongs to one trial.
LEMMA CollectorLosesNone ==
    ASSUME NEW t \in Nat, CoreInv, UploadInv, Ordered, Alive(t), UNCHANGED clientVars,
           \/ RecvHello \/ SendBurst \/ StimulusDone \/ RecvUnknown \/ RecvResult
           \/ RecvBegin \/ RecvChunk \/ RecvJitter \/ IdleTimeout
           \/ RecvEnd /\ Head(toGateway).trial # t
           \/ DiscardStopped /\ completed < Trials
    PROVE  Alive(t)'
<1>. DEFINE m == Head(toGateway)
<1>t. /\ CollectorTypeOK /\ toGateway \in Seq(Msg) /\ toDevice \in Seq(Msg)
      /\ UNCHANGED <<pc, trial, up, port>>
  BY DEF CoreInv, TypeOK, clientVars
<1>k. /\ KeyOf(t)' = KeyOf(t)
      /\ \A u \in Msg : u.port = port => (Key(u) = KeyOf(t) <=> u.trial = t)
  BY <1>t DEF KeyOf, Key
<1>1. ASSUME CollectorReceives
      PROVE  /\ toGateway # <<>> /\ toGateway' = Tail(toGateway) /\ kpc = "recv"
             /\ m \in Msg /\ NotAhead(m) /\ m.port = port
             /\ ~Stimulated(t)
             /\ \A type : Has(toGateway', t, type) => Has(toGateway, t, type)
             /\ \A type : Has(toGateway, t, type) =>
                   Has(toGateway', t, type) \/ (m.trial = t /\ m.type = type)
             /\ \A i : OnItsWay(toGateway, t, i) =>
                   \/ OnItsWay(toGateway', t, i)
                   \/ /\ m.trial = t /\ m.type = "RAW_CHUNK" /\ m.seq = i
                      /\ ~Has(toGateway, t, "HELLO")
             /\ m.trial = t => Has(toGateway, t, m.type)
  <2>1. toGateway # <<>> /\ toGateway' = Tail(toGateway) /\ kpc = "recv"
    BY <1>1 DEF CollectorReceives
  <2>2. m \in Msg /\ 1 \in DOMAIN toGateway /\ toGateway[1] = m
    BY <1>t, <2>1
  <2>3. NotAhead(m) /\ m.port = port
    BY <2>2 DEF Ordered, NotAhead, InStep
  <2>. QED
    BY <1>t, <2>1, <2>2, <2>3, TailKeeps DEF Stimulated
<1>2. CASE RecvHello
  <2>1. CollectorReceives /\ m.type = "HELLO" /\ hello' = m /\ kpc' = "stim" /\ states' = states
    BY <1>2 DEF RecvHello
  <2>2. Stimulated(t)' <=> m.trial = t
    BY <2>1 DEF Stimulated
  <2>3. Has(toGateway, t, "HELLO") \/ Has(toDevice, t, "START") =>
           Has(toGateway', t, "HELLO") \/ Has(toDevice', t, "START")
    <3>. DEFINE reply == Message("START", m.port, m.trial, Bursts(m), SampleBytes(m), m.nonce,
                                 <<>>)
    <3>1. toDevice' = Append(toDevice, reply)
      BY <1>2 DEF RecvHello
    <3>2. reply.trial = m.trial /\ reply.type = "START"
      BY DEF Message
    <3>. HIDE DEF reply
    <3>3. Has(toDevice', t, "START") <=> Has(toDevice, t, "START") \/ m.trial = t
      <4>. DEFINE T == Msg \cup {reply}
      <4>1. toDevice \in Seq(T) /\ reply \in T
        BY <1>t
      <4>. HIDE DEF T
      <4>2. Has(Append(toDevice, reply), t, "START")
               <=> Has(toDevice, t, "START") \/ (reply.trial = t /\ reply.type = "START")
        BY <4>1, AppendHas
      <4>. QED
        BY <3>1, <3>2, <4>2
    <3>. QED
      BY <1>1, <2>1, <3>3
  <2>4. Opens(t) => Opens(t)'
    BY <1>1, <1>k, <2>1, <2>2 DEF Opens
  <2>5. Has(toGateway, t, "RAW_END") => Has(toGateway', t, "RAW_END")
    BY <1>1, <2>1
  <2>6. ASSUME NEW i, Kept(t, i)
        PROVE  Kept(t, i)'
    <3>1. CASE Held(t, i)
      <4>1. m.trial # t /\ ~Has(toGateway', t, "HELLO")
        BY <1>1, <2>1, <3>1 DEF Held
      <4>. QED
        BY <1>k, <2>1, <2>2, <3>1, <4>1 DEF Held, Kept
    <3>2. CASE OnItsWay(toGateway, t, i)
      <4>1. OnItsWay(toGateway', t, i)
        BY <1>1, <2>1, <3>2
      <4>. QED
        BY <4>1 DEF Kept
    <3>. QED
      BY <2>6, <3>1, <3>2 DEF Kept
  <2>. QED
    BY <1>t, <2>3, <2>4, <2>5, <2>6, AliveStays
<1>3. CASE SendBurst
  <2>1. UNCHANGED <<kpc, hello, states, toGateway>>
    BY <1>3 DEF SendBurst
  <2>2. Has(toDevice, t, "START") => Has(toDevice', t, "START")
    <3>. DEFINE burst == Message("BURST", hello.port, hello.trial, sent, SampleBytes(hello),
                                 hello.nonce, <<>>)
                T == Msg \cup {burst}
    <3>1. toDevice' = Append(toDevice, burst)
      BY <1>3 DEF SendBurst
    <3>2. toDevice \in Seq(T) /\ burst \in T
      BY <1>t
    <3>. HIDE DEF burst, T
    <3>. QED
      BY <3>1, <3>2, AppendKeeps
  <2>3. /\ Opens(t)' <=> Opens(t)
        /\ \A i : Kept(t, i)' <=> Kept(t, i)
    BY <1>k, <2>1 DEF Opens, Kept, Held, Stimulated
  <2>. QED
    BY <1>t, <2>1, <2>2, <2>3, AliveStays
<1>4. CASE StimulusDone
  <2>1. UNCHANGED <<hello, toGateway, toDevice>> /\ kpc = "stim" /\ kpc' = "recv"
    BY <1>4 DEF StimulusDone, netVars
  <2>2. /\ DOMAIN states' = DOMAIN states \cup {Key(hello)}
        /\ \A k \in DOMAIN states : k # Key(hello) => states'[k] = states[k]
    BY <1>4 DEF StimulusDone, Put
  <2>3. Key(hello) = KeyOf(t) <=> hello.trial = t
    <3>1. hello \in Msg /\ hello.port = port
      BY <1>t, <2>1 DEF CollectorTypeOK, Ordered, InStep
    <3>. QED
      BY <1>k, <3>1
  <2>4. Opens(t) => Opens(t)'
    BY <1>k, <2>1, <2>2, <2>3 DEF Opens, Stimulated
  <2>5. ASSUME NEW i, Kept(t, i)
        PROVE  Kept(t, i)'
    <3>1. CASE Held(t, i)
      <4>1. KeyOf(t) # Key(hello) /\ KeyOf(t) \in DOMAIN states
        BY <2>1, <2>3, <3>1 DEF Held, Stimulated
      <4>2. ~Stimulated(t)'
        BY <2>1 DEF Stimulated
      <4>. QED
        BY <1>k, <2>1, <2>2, <3>1, <4>1, <4>2 DEF Held, Kept
    <3>2. CASE OnItsWay(toGateway, t, i)
      BY <2>1, <3>2 DEF Kept
    <3>. QED
      BY <2>5, <3>1, <3>2 DEF Kept
  <2>. QED
    BY <1>t, <2>1, <2>4, <2>5, AliveStays
<1>5. CASE RecvUnknown
  <2>1. /\ CollectorReceives /\ m.type # "HELLO" /\ Key(m) \notin DOMAIN states
        /\ UNCHANGED <<kpc, hello, states, toDevice>>
    BY <1>5 DEF RecvUnknown, collectorVars
  <2>2. Stimulated(t)' <=> Stimulated(t)
    BY <2>1 DEF Stimulated
  <2>3. Opens(t) => Opens(t)' /\ m.trial # t
    BY <1>1, <1>k, <2>1, <2>2 DEF Opens
  <2>4. ASSUME NEW i, Opens(t), Kept(t, i)
        PROVE  Kept(t, i)'
    <3>1. m.trial # t
      BY <2>3, <2>4
    <3>2. CASE Held(t, i)
      BY <1>1, <1>k, <2>1, <2>2, <3>1, <3>2 DEF Held, Kept
    <3>3. CASE OnItsWay(toGateway, t, i)
      BY <1>1, <2>1, <3>1, <3>3 DEF Kept
    <3>. QED
      BY <2>4, <3>2, <3>3 DEF Kept
  <2>5. Has(toGateway, t, "HELLO") \/ Has(toDevice, t, "START") =>
           Has(toGateway', t, "HELLO") \/ Has(toDevice', t, "START")
    BY <1>1, <2>1
  <2>6. Opens(t) /\ Has(toGateway, t, "RAW_END") => Has(toGateway', t, "RAW_END")
    BY <1>1, <2>1, <2>3
  <2>. QED
    BY <1>t, <2>3, <2>4, <2>5, <2>6, AliveStays
<1>6. CASE RecvResult \/ RecvBegin \/ RecvChunk \/ RecvJitter
  <2>1. /\ CollectorReceives
        /\ m.type \in {"RESULT", "RAW_BEGIN", "RAW_CHUNK", "JITTER_CHUNK"}
        /\ Key(m) \in DOMAIN states
        /\ UNCHANGED <<kpc, hello, toDevice>>
        /\ DOMAIN states' = DOMAIN states
        /\ \A k \in DOMAIN states :
              DOMAIN states[k].rawChunks \subseteq DOMAIN states'[k].rawChunks
        /\ m.type = "RAW_CHUNK" => m.seq \in DOMAIN states'[Key(m)].rawChunks
    BY <1>t, <1>6, DataKept
  <2>2. Stimulated(t)' <=> Stimulated(t)
    BY <2>1 DEF Stimulated
  <2>3. Opens(t) => Opens(t)'
    BY <1>k, <2>1, <2>2 DEF Opens
  <2>4. ASSUME NEW i, Kept(t, i)
        PROVE  Kept(t, i)'
    <3>1. CASE Held(t, i)
      BY <1>1, <1>k, <2>1, <2>2, <3>1 DEF Held, Kept
    <3>2. CASE OnItsWay(toGateway', t, i)
      BY <3>2 DEF Kept
    <3>3. CASE m.trial = t /\ m.type = "RAW_CHUNK" /\ m.seq = i /\ ~Has(toGateway, t, "HELLO")
      <4>1. Key(m) = KeyOf(t)
        BY <1>1, <1>k, <2>1, <3>3
      <4>. QED
        BY <1>1, <1>k, <2>1, <2>2, <3>3, <4>1 DEF Held, Kept
    <3>. QED
      BY <1>1, <2>1, <2>4, <3>1, <3>2, <3>3 DEF Kept
  <2>5. Has(toGateway, t, "HELLO") \/ Has(toDevice, t, "START") =>
           Has(toGateway', t, "HELLO") \/ Has(toDevice', t, "START")
    BY <1>1, <2>1
  <2>6. Has(toGateway, t, "RAW_END") => Has(toGateway', t, "RAW_END")
    BY <1>1, <2>1
  <2>. QED
    BY <1>t, <2>3, <2>4, <2>5, <2>6, AliveStays
<1>7. CASE RecvEnd /\ m.trial # t
  <2>1. /\ CollectorReceives /\ UNCHANGED <<hello, toDevice>>
        /\ kpc' \in {"recv", "stopped"}
        /\ DOMAIN states' = DOMAIN states \ {Key(m)}
        /\ \A k \in DOMAIN states' : states'[k] = states[k]
    BY <1>7 DEF RecvEnd
  <2>2. ~Stimulated(t)' /\ Key(m) # KeyOf(t)
    BY <1>1, <1>k, <1>7, <2>1 DEF Stimulated
  <2>3. Opens(t) => Opens(t)'
    BY <1>1, <1>k, <2>1, <2>2 DEF Opens
  <2>4. ASSUME NEW i, Kept(t, i)
        PROVE  Kept(t, i)'
    <3>1. CASE Held(t, i)
      BY <1>1, <1>k, <2>1, <2>2, <3>1 DEF Held, Kept
    <3>2. CASE OnItsWay(toGateway, t, i)
      BY <1>1, <1>7, <2>1, <3>2 DEF Kept
    <3>. QED
      BY <2>4, <3>1, <3>2 DEF Kept
  <2>5. /\ Has(toGateway, t, "HELLO") \/ Has(toDevice, t, "START") =>
              Has(toGateway', t, "HELLO") \/ Has(toDevice', t, "START")
        /\ Has(toGateway, t, "RAW_END") => Has(toGateway', t, "RAW_END")
    BY <1>1, <1>7, <2>1
  <2>. QED
    BY <1>t, <2>3, <2>4, <2>5, AliveStays
<1>8. CASE IdleTimeout
  <2>1. UNCHANGED <<hello, states, toGateway, toDevice>> /\ kpc = "recv" /\ kpc' = "stopped"
    BY <1>8 DEF IdleTimeout, netVars
  <2>2. /\ Opens(t)' <=> Opens(t)
        /\ \A i : Kept(t, i)' <=> Kept(t, i)
    BY <1>k, <2>1 DEF Opens, Kept, Held, Stimulated
  <2>. QED
    BY <1>t, <2>1, <2>2, AliveStays
<1>9. CASE DiscardStopped /\ completed < Trials
  <2>1. kpc = "stopped" /\ toGateway # <<>>
    BY <1>9 DEF DiscardStopped
  <2>2. completed >= Trials
    BY <2>1 DEF Ordered
  <2>3. completed \in Nat /\ Trials \in Nat
    BY <1>t, CollectorAssumption DEF CollectorTypeOK
  <2>. QED
    BY <1>9, <2>2, <2>3
<1>. QED
  BY <1>2, <1>3, <1>4, <1>5, <1>6, <1>7, <1>8, <1>9
\* What the collector keeps of a trial stays when nothing happens to it and to
\* the trial's datagrams.
LEMMA KeptStays ==
    ASSUME NEW t, NEW S, toGateway \in Seq(S), toGateway' \in Seq(S),
           UNCHANGED <<port, kpc, hello, states>>, SameFor(t, toGateway, toGateway')
    PROVE  /\ Opens(t)' <=> Opens(t)
           /\ \A type : Has(toGateway, t, type) <=> Has(toGateway', t, type)
           /\ \A i : Kept(t, i) => Kept(t, i)'
           /\ Delivers(t) => Delivers(t)'
<1>1. /\ \A type : Has(toGateway, t, type) <=> Has(toGateway', t, type)
      /\ \A i : OnItsWay(toGateway, t, i) => OnItsWay(toGateway', t, i)
  BY SameMeans
<1>2. KeyOf(t)' = KeyOf(t) /\ (Stimulated(t)' <=> Stimulated(t)) /\ Pieces' = Pieces
  BY DEF KeyOf, Stimulated, Pieces, Size, Asked
<1>3. Opens(t)' <=> Opens(t)
  BY <1>2 DEF Opens
<1>4. ASSUME NEW i, Kept(t, i)
      PROVE  Kept(t, i)'
  BY <1>1, <1>2, <1>4 DEF Kept, Held
<1>5. Delivers(t) => Delivers(t)'
  BY <1>1, <1>2, <1>3, <1>4 DEF Delivers
<1>. QED
  BY <1>1, <1>3, <1>4, <1>5

\* What the client sends belongs to the trial it is in.
LEMMA ClientSends ==
    ASSUME CoreInv, UploadInv, UNCHANGED collectorVars,
           \/ \E held \in BOOLEAN : JoinWifi(held)
           \/ BootFails \/ SendHello \/ ResendHello \/ DiscardUnbound \/ TakeStart
           \/ SkipInWait \/ StartTimeout \/ TakeBurst \/ SkipInSample \/ BurstTimeout
           \/ \E ok \in BOOLEAN : FinishSampling(ok)
           \/ SendUpload \/ TrialFails \/ NextTrial
    PROVE  /\ port' = port
           /\ trial' = trial \/ NextTrial
           /\ \/ toGateway' = toGateway
              \/ \E m : /\ toGateway' = Append(toGateway, m)
                        /\ m.trial = trial /\ m.port = port
                        /\ m.type = "HELLO" <=> pc \in {"hello", "wait"}
                        /\ SendUpload => m = UploadStream[up]
                        /\ m.type = "RAW_END" => SendUpload
<1>1. port' = port /\ (trial' = trial \/ NextTrial)
  BY DEF JoinWifi, BootFails, SendHello, ResendHello, DiscardUnbound, TakeStart,
         SkipInWait, StartTimeout, TakeBurst, SkipInSample, BurstTimeout, FinishSampling,
         SendUpload, TrialFails, NextTrial, clientVars
<1>2. CASE SendHello \/ ResendHello
  <2>1. toGateway' = Append(toGateway, Hello) /\ pc \in {"hello", "wait"}
    BY <1>2 DEF SendHello, ResendHello
  <2>2. Hello.type = "HELLO" /\ Hello.trial = trial /\ Hello.port = port
    BY DEF Hello, Message
  <2>3. ~SendUpload
    BY <2>1 DEF SendUpload
  <2>. HIDE DEF Hello
  <2>. QED
    BY <1>1, <2>1, <2>2, <2>3
<1>3. ASSUME NEW ok \in BOOLEAN, FinishSampling(ok)
      PROVE  \/ toGateway' = toGateway
             \/ \E m : /\ toGateway' = Append(toGateway, m)
                       /\ m.trial = trial /\ m.port = port
                       /\ m.type = "HELLO" <=> pc \in {"hello", "wait"}
                       /\ SendUpload => m = UploadStream[up]
                       /\ m.type = "RAW_END" => SendUpload
  <2>. DEFINE line == ResultLine(port, start.trial, packets_seen, Requested(start),
                                 start.nonce, RawBuf, JitterUs)
  <2>1. pc = "rest" /\ (toGateway' = toGateway \/ toGateway' = Append(toGateway, line))
    BY <1>3 DEF FinishSampling
  <2>2. start.trial = trial
    BY <2>1 DEF UploadInv
  <2>3. line.type = "RESULT" /\ line.trial = trial /\ line.port = port
    BY <2>2 DEF ResultLine, Message
  <2>4. ~SendUpload
    BY <2>1 DEF SendUpload
  <2>. HIDE DEF line
  <2>. QED
    BY <2>1, <2>3, <2>4
<1>4. CASE SendUpload
  <2>1. toGateway' = Append(toGateway, UploadStream[up]) /\ pc = "upload"
    BY <1>4 DEF SendUpload
  <2>2. start.trial = trial /\ up \in 1..Len(UploadStream)
    <3>1. start.trial = trial
      BY <2>1 DEF UploadInv
    <3>2. up \in DOMAIN UploadStream /\ UploadStream \in Seq(Msg)
      BY <2>1, UploadStreamType DEF CoreInv, TypeOK, ClientTypeOK
    <3>. QED
      BY <3>1, <3>2
  <2>3. /\ UploadStream[up].port = port /\ UploadStream[up].trial = trial
        /\ UploadStream[up].type # "HELLO"
    BY <2>2, UploadOrder DEF CoreInv, TypeOK
  <2>4. PICK u : u = UploadStream[up]
    OBVIOUS
  <2>. QED
    BY <1>1, <1>4, <2>1, <2>3, <2>4
<1>5. CASE \/ \E held \in BOOLEAN : JoinWifi(held)
           \/ BootFails \/ DiscardUnbound \/ TakeStart \/ SkipInWait \/ StartTimeout
           \/ TakeBurst \/ SkipInSample \/ BurstTimeout \/ TrialFails \/ NextTrial
  BY <1>1, <1>5 DEF JoinWifi, BootFails, DiscardUnbound, TakeStart, SkipInWait, StartTimeout,
                    TakeBurst, SkipInSample, BurstTimeout, TrialFails, NextTrial, netVars
<1>. QED
  BY <1>1, <1>2, <1>3, <1>4, <1>5
\* The client loses no trial but the one it gives up: the others' datagrams stay as
\* they are, and its own reach the collector in the order it sends them.
LEMMA ClientLosesNone ==
    ASSUME NEW t \in 0..(ClientTrials - 1), CoreInv, UploadInv, Ordered, Alive(t),
           UNCHANGED collectorVars, toGateway' \in Seq(Msg),
           \/ \E held \in BOOLEAN : JoinWifi(held)
           \/ SendHello \/ ResendHello \/ DiscardUnbound \/ TakeStart
           \/ SkipInWait \/ TakeBurst \/ SkipInSample \/ BurstTimeout
           \/ \E ok \in BOOLEAN : FinishSampling(ok)
           \/ SendUpload \/ NextTrial
           \/ (BootFails \/ StartTimeout \/ TrialFails) /\ t # trial
           \/ StartTimeout /\ NothingComing
    PROVE  Alive(t)'
<1>t. /\ ClientTypeOK /\ toGateway \in Seq(Msg) /\ toDevice \in Seq(Msg)
      /\ trial \in Nat /\ ClientTrials \in Nat /\ t \in Nat /\ t < ClientTrials
      /\ UNCHANGED <<kpc, hello, states>>
  BY ClientAssumption DEF CoreInv, TypeOK, ClientTypeOK, collectorVars
<1>s. /\ port' = port
      /\ trial' = trial \/ NextTrial
      /\ \/ toGateway' = toGateway
         \/ \E m : /\ toGateway' = Append(toGateway, m)
                   /\ m.trial = trial /\ m.port = port
                   /\ m.type = "HELLO" <=> pc \in {"hello", "wait"}
                   /\ SendUpload => m = UploadStream[up]
                   /\ m.type = "RAW_END" => SendUpload
  BY ClientSends
<1>n. NextTrial => trial' = trial + 1 /\ pc = "gap" /\ pc' \in {"hello", "done"}
  BY DEF NextTrial
<1>1. ASSUME SameFor(t, toGateway, toGateway')
      PROVE  /\ Opens(t)' <=> Opens(t)
             /\ \A type : Has(toGateway, t, type) <=> Has(toGateway', t, type)
             /\ \A i : Kept(t, i) => Kept(t, i)'
             /\ Delivers(t) => Delivers(t)'
  BY <1>1, <1>s, <1>t, KeptStays
<1>2. t # trial \/ toGateway' = toGateway => SameFor(t, toGateway, toGateway')
  <2>1. CASE toGateway' = toGateway
    BY <2>1, SameSelf
  <2>2. ASSUME NEW m, toGateway' = Append(toGateway, m), m.trial = trial, t # trial
        PROVE  SameFor(t, toGateway, toGateway')
    <3>. DEFINE S == Msg \cup {m}
    <3>1. toGateway \in Seq(S) /\ m \in S
      BY <1>t
    <3>. HIDE DEF S
    <3>. QED
      BY <2>2, <3>1, SameSelf, SameAppend
  <2>. QED
    BY <1>s, <2>1, <2>2
<1>3. CASE t > trial
  <2>1. CASE trial' = trial
    BY <1>3, <2>1 DEF Alive
  <2>2. CASE NextTrial
    <3>1. pc' = IF trial + 1 < ClientTrials THEN "hello" ELSE "done"
      BY <2>2 DEF NextTrial
    <3>2. t > trial' \/ (t = trial' /\ pc' = "hello")
      BY <1>3, <1>n, <1>t, <2>2, <3>1
    <3>. QED
      BY <3>2 DEF Alive
  <2>. QED
    BY <1>s, <2>1, <2>2
<1>4. CASE t < trial
  <2>1. Delivers(t)
    BY <1>4, <1>t DEF Alive
  <2>2. Delivers(t)'
    BY <1>1, <1>2, <1>4, <1>t, <2>1
  <2>3. t < trial'
    BY <1>4, <1>n, <1>s, <1>t
  <2>. QED
    BY <2>2, <2>3 DEF Alive
<1>. SUFFICES ASSUME t = trial
              PROVE  Alive(t)'
  BY <1>3, <1>4, <1>t
<1>5. ASSUME NEW held \in BOOLEAN, JoinWifi(held)
      PROVE  Alive(t)'
  <2>1. trial' = trial /\ pc' = IF ClientTrials = 0 THEN "done" ELSE "hello"
    BY <1>5 DEF JoinWifi
  <2>. QED
    BY <1>t, <2>1 DEF Alive
<1>6. CASE SendHello \/ ResendHello
  <2>1. /\ toGateway' = Append(toGateway, Hello) /\ trial' = trial /\ pc' = "wait"
    BY <1>6 DEF SendHello, ResendHello
  <2>2. Hello.type = "HELLO" /\ Hello.trial = trial
    BY DEF Hello, Message
  <2>. DEFINE S == Msg \cup {Hello}
  <2>3. toGateway \in Seq(S) /\ Hello \in S
    BY <1>t
  <2>. HIDE DEF Hello, S
  <2>4. Has(Append(toGateway, Hello), t, "HELLO")
    BY <2>2, <2>3, AppendHas
  <2>. QED
    BY <2>1, <2>4 DEF Alive
<1>7. CASE DiscardUnbound
  <2>1. UNCHANGED <<pc, trial, up, toGateway>> /\ toDevice # <<>>
        /\ (~SocketOpen \/ Head(toDevice).port # port)
    BY <1>7 DEF DiscardUnbound, clientVars
  <2>2. Head(toDevice).port = port
    <3>1. 1 \in DOMAIN toDevice /\ toDevice[1] = Head(toDevice)
      BY <1>t, <2>1
    <3>. QED
      BY <3>1 DEF Ordered, InStep
  <2>3. pc # "wait"
    BY <2>1, <2>2 DEF SocketOpen
  <2>4. \A i : Kept(t, i) => Kept(t, i)'
    BY <1>1, <1>2, <2>1
  <2>5. Opens(t)' <=> Opens(t)
    BY <1>1, <1>2, <2>1
  <2>6. Delivers(t) => Delivers(t)'
    BY <1>1, <1>2, <2>1
  <2>7. Pieces' = Pieces
    BY DEF Pieces, Size, Asked
  <2>8. CASE pc = "upload"
    BY <2>1, <2>4, <2>7, <2>8 DEF Alive
  <2>9. CASE pc # "upload"
    BY <1>t, <2>1, <2>3, <2>6, <2>9 DEF Alive
  <2>. QED
    BY <2>8, <2>9
<1>8. CASE TakeStart
  <2>1. trial' = trial /\ pc' \in {"rest", "sample"}
    BY <1>8 DEF TakeStart
  <2>. QED
    BY <2>1 DEF Alive
<1>9. CASE SkipInWait
  <2>1. /\ UNCHANGED <<pc, trial, toGateway>> /\ pc = "wait" /\ toDevice # <<>>
        /\ toDevice' = Tail(toDevice)
        /\ ~(Head(toDevice).type = "START" /\ Head(toDevice).trial = trial)
    BY <1>9 DEF SkipInWait, ClientReceives, IsStart, clientVars
  <2>2. Has(toGateway, t, "HELLO") \/ Has(toDevice, t, "START")
    BY <1>t, <2>1 DEF Alive
  <2>3. Has(toDevice, t, "START") => Has(toDevice', t, "START")
    BY <1>t, <2>1, TailKeeps
  <2>. QED
    BY <2>1, <2>2, <2>3 DEF Alive
<1>10. CASE TakeBurst \/ SkipInSample \/ BurstTimeout
  <2>1. trial' = trial /\ pc' \in {"rest", "sample"}
    BY <1>10 DEF TakeBurst, SkipInSample, BurstTimeout, NextTurn
  <2>. QED
    BY <2>1 DEF Alive
<1>11. ASSUME NEW ok \in BOOLEAN, FinishSampling(ok)
       PROVE  Alive(t)'
  <2>1. trial' = trial /\ pc' = "upload" /\ up' = 1
    BY <1>11 DEF FinishSampling
  <2>2. \A i \in 0..(Pieces' - 1) : ~(i + 2 < 1)
    OBVIOUS
  <2>. QED
    BY <2>1, <2>2 DEF Alive
<1>12. CASE NextTrial
  <2>1. pc = "gap" /\ trial' = trial + 1 /\ UNCHANGED toGateway
    BY <1>12 DEF NextTrial, netVars
  <2>2. Delivers(t)
    BY <1>t, <2>1 DEF Alive
  <2>3. Delivers(t)' /\ t < trial'
    BY <1>1, <1>2, <1>t, <2>1, <2>2
  <2>. QED
    BY <2>3 DEF Alive
<1>13. CASE StartTimeout /\ NothingComing
  <2>1. pc = "wait" /\ toGateway = <<>> /\ toDevice = <<>>
    BY <1>13 DEF StartTimeout, NothingComing
  <2>2. ~Has(<<>>, t, "HELLO") /\ ~Has(<<>>, t, "START")
    <3>1. DOMAIN <<>> = {}
      OBVIOUS
    <3>. QED
      BY <3>1 DEF Has, Of
  <2>. QED
    BY <1>t, <2>1, <2>2 DEF Alive
<1>14. CASE SendUpload
  <2>1. /\ pc = "upload" /\ toGateway' = Append(toGateway, UploadStream[up])
        /\ up' = up + 1 /\ trial' = trial
        /\ pc' = IF up = Len(UploadStream) THEN "gap" ELSE "upload"
    BY <1>14 DEF SendUpload
  <2>2. /\ up \in 1..Len(UploadStream) /\ Len(UploadStream) \in Nat
        /\ Pieces \in Nat /\ Pieces' = Pieces /\ Pieces + 2 <= Len(UploadStream)
        /\ \A i \in 0..(Pieces - 1) :
              UploadStream[i + 2].type = "RAW_CHUNK" /\ UploadStream[i + 2].seq = i
        /\ \A j \in 1..Len(UploadStream) :
              /\ UploadStream[j].trial = trial /\ UploadStream[j].type # "HELLO"
              /\ UploadStream[j].type = "RAW_END" <=> j = Len(UploadStream)
    <3>1. start.bytes = Asked /\ start.trial = trial
      BY <2>1 DEF UploadInv
    <3>2. Pieces = NumChunks(Requested(start), ChunkBytes)
      BY <3>1 DEF Pieces, Size, Requested
    <3>3. up \in Nat \ {0} /\ up <= Len(UploadStream) /\ Pieces' = Pieces
      BY <1>t, <2>1 DEF CoreInv, TypeOK, ClientTypeOK, Pieces, Size, Asked
    <3>. QED
      BY <1>t, <3>1, <3>2, <3>3, SizeType, UploadOrder
  <2>3. PICK u : u = UploadStream[up]
    OBVIOUS
  <2>4. u.trial = t /\ u.type # "HELLO" /\ (u.type = "RAW_END" <=> up = Len(UploadStream))
    BY <2>2, <2>3
  <2>. DEFINE S == Msg \cup {u}
  <2>5. toGateway \in Seq(S) /\ u \in S
    BY <1>t
  <2>. HIDE DEF S
  <2>6. /\ Has(toGateway', t, "HELLO") <=> Has(toGateway, t, "HELLO")
        /\ up = Len(UploadStream) => Has(toGateway', t, "RAW_END")
    BY <2>1, <2>3, <2>4, <2>5, AppendHas
  <2>7. /\ \A i : OnItsWay(toGateway, t, i) => OnItsWay(toGateway', t, i)
        /\ u.type = "RAW_CHUNK" /\ ~Has(toGateway, t, "RAW_END") => OnItsWay(toGateway', t, u.seq)
    BY <2>1, <2>3, <2>4, <2>5, AppendKeeps
  <2>8. ~Has(toGateway, t, "RAW_END")
    BY <2>1 DEF Ordered, NotAhead, Has, Of
  <2>9. KeyOf(t)' = KeyOf(t) /\ (Stimulated(t)' <=> Stimulated(t))
    BY <1>s, <1>t DEF KeyOf, Stimulated
  <2>10. ASSUME NEW i \in 0..(Pieces - 1), i + 2 < up + 1
         PROVE  Kept(t, i)'
    <3>1. CASE i + 2 < up
      <4>1. Kept(t, i)
        BY <1>t, <2>1, <3>1 DEF Alive
      <4>2. CASE Held(t, i)
        BY <1>t, <2>6, <2>9, <4>2 DEF Held, Kept
      <4>3. CASE OnItsWay(toGateway, t, i)
        BY <2>7, <4>3 DEF Kept
      <4>. QED
        BY <4>1, <4>2, <4>3 DEF Kept
    <3>2. CASE i + 2 = up
      <4>1. u.type = "RAW_CHUNK" /\ u.seq = i
        BY <2>2, <2>3, <3>2
      <4>2. OnItsWay(toGateway', t, i)
        BY <2>7, <2>8, <4>1
      <4>. QED
        BY <4>2 DEF Kept
    <3>. QED
      BY <2>2, <2>10, <3>1, <3>2
  <2>11. CASE up # Len(UploadStream)
    <3>1. pc' = "upload"
      BY <2>1, <2>11
    <3>. QED
      BY <2>1, <2>2, <2>10, <3>1 DEF Alive
  <2>12. CASE up = Len(UploadStream)
    <3>1. pc' = "gap"
      BY <2>1, <2>12
    <3>2. Opens(t)'
      <4>1. Opens(t)
        BY <2>1 DEF Ordered
      <4>. QED
        BY <1>t, <2>9, <4>1 DEF Opens
    <3>3. \A i \in 0..(Pieces - 1) : Kept(t, i)'
      BY <2>2, <2>10, <2>12
    <3>4. Delivers(t)'
      BY <2>2, <2>6, <2>12, <3>2, <3>3 DEF Delivers
    <3>. QED
      BY <2>1, <3>1, <3>4 DEF Alive
  <2>. QED
    BY <2>11, <2>12
<1>. QED
  BY <1>5, <1>6, <1>7, <1>8, <1>9, <1>10, <1>11, <1>12, <1>13, <1>14
\* RAW_END of a trial that is alive completes it.
LEMMA EndCompletes ==
    ASSUME NEW t \in 0..(ClientTrials - 1), CoreInv, UploadInv, Ordered, boot = 1, Alive(t),
           RecvEnd, Head(toGateway).trial = t
    PROVE  completed' = completed + 1
<1>. DEFINE m == Head(toGateway)
<1>1. /\ toGateway \in Seq(Msg) /\ toGateway # <<>> /\ m.type = "RAW_END" /\ kpc = "recv"
      /\ trial \in Nat /\ t \in Nat /\ ClientTrials \in Nat /\ t < ClientTrials
      /\ completed \in Nat
  BY ClientAssumption DEF CoreInv, TypeOK, ClientTypeOK, CollectorTypeOK, RecvEnd,
                          CollectorReceives
<1>2. m \in Msg /\ NotAhead(m)
  <2>1. 1 \in DOMAIN toGateway /\ toGateway[1] = m /\ m \in Msg
    BY <1>1
  <2>. QED
    BY <2>1 DEF Ordered
<1>3. Key(m) = KeyOf(t)
  BY <1>2 DEF NotAhead, InStep, Key, KeyOf
<1>4. Delivers(t)
  <2>1. pc = "done" => trial >= ClientTrials
    BY DEF Ordered
  <2>. QED
    BY <1>1, <1>2 DEF NotAhead, InStep, Alive
<1>5. \A i \in 0..(Pieces - 1) : i \in DOMAIN states[KeyOf(t)].rawChunks
  <2>1. \A i : ~OnItsWay(toGateway, t, i)
    BY <1>1, TailKeeps
  <2>. QED
    BY <1>4, <2>1 DEF Delivers, Kept, Held
<1>6. PICK u : u = Ended(states[Key(m)], m)
  OBVIOUS
<1>7. Finalized(u).complete
  <2>1. Apart
    BY DEF Apart
  <2>. HIDE DEF m
  <2>2. /\ u.rawChunks = states[Key(m)].rawChunks
        /\ 0..(Pieces - 1) \subseteq DOMAIN u.rawChunks => Finalized(u).complete
    BY <1>6, <2>1, RowIsOneTrial DEF m
  <2>. QED
    BY <1>3, <1>5, <2>2
<1>8. completed' = IF Finalized(u).complete THEN completed + 1 ELSE completed
  BY <1>6 DEF RecvEnd
<1>. QED
  BY <1>7, <1>8

\* The network hits one datagram, so one trial.
LEMMA NetworkLosesOne ==
    ASSUME CoreInv, Ordered, NetworkFault, toGateway' \in Seq(Msg), toDevice' \in Seq(Msg)
    PROVE  \E u : \A t \in Nat : t # u /\ Alive(t) => Alive(t)'
<1>1. /\ toGateway \in Seq(Msg) /\ toDevice \in Seq(Msg)
      /\ UNCHANGED <<pc, trial, up, port, kpc, hello, states>>
  BY DEF CoreInv, TypeOK, NetworkFault, clientVars, collectorVars
<1>2. PICK u : \A t : t # u => /\ SameFor(t, toGateway, toGateway')
                               /\ SameFor(t, toDevice, toDevice')
  <2>1. PICK kind \in {"drop", "dup", "delay"} :
           \/ /\ \E i \in DOMAIN toGateway : toGateway' = Perturbed(toGateway, kind, i)
              /\ UNCHANGED toDevice
           \/ /\ \E i \in DOMAIN toDevice : toDevice' = Perturbed(toDevice, kind, i)
              /\ UNCHANGED toGateway
    BY DEF NetworkFault
  <2>2. ASSUME NEW i \in DOMAIN toGateway, toGateway' = Perturbed(toGateway, kind, i),
               UNCHANGED toDevice, NEW t, t # toGateway[i].trial
        PROVE  SameFor(t, toGateway, toGateway') /\ SameFor(t, toDevice, toDevice')
    BY <1>1, <2>2, SamePerturbed, SameSelf
  <2>3. ASSUME NEW i \in DOMAIN toDevice, toDevice' = Perturbed(toDevice, kind, i),
               UNCHANGED toGateway, NEW t, t # toDevice[i].trial
        PROVE  SameFor(t, toGateway, toGateway') /\ SameFor(t, toDevice, toDevice')
    BY <1>1, <2>3, SamePerturbed, SameSelf
  <2>. QED
    BY <2>1, <2>2, <2>3
<1>3. ASSUME NEW t \in Nat, t # u, Alive(t)
      PROVE  Alive(t)'
  <2>1. /\ Opens(t)' <=> Opens(t)
        /\ \A type : Has(toGateway, t, type) <=> Has(toGateway', t, type)
        /\ \A i : Kept(t, i) => Kept(t, i)'
    BY <1>1, <1>2, <1>3, KeptStays
  <2>2. \A type : Has(toDevice, t, type) <=> Has(toDevice', t, type)
    BY <1>1, <1>2, <1>3, SameMeans
  <2>. QED
    BY <1>1, <1>3, <2>1, <2>2, AliveStays
<1>. QED
  BY <1>3

\* A step loses no trial, or one that it completes or uses a fault on.
LEMMA LosesAtMostOne ==
    ASSUME CoreInv, UploadInv, Ordered, CoreInv', boot = 1, boot' = 1, completed < Trials,
           [Next]_vars
    PROVE  /\ completed' >= completed /\ faults' >= faults
           /\ \/ AliveTrials \subseteq AliveTrials'
              \/ /\ completed' + faults' >= completed + faults + 1
                 /\ \E u : AliveTrials \ {u} \subseteq AliveTrials'
<1>t. /\ toGateway' \in Seq(Msg) /\ toDevice' \in Seq(Msg)
      /\ completed \in Nat /\ faults \in Nat
  BY FaultAssumption DEF CoreInv, TypeOK, CollectorTypeOK
<1>a. \A t : t \in AliveTrials <=> t \in 0..(ClientTrials - 1) /\ Alive(t)
  BY DEF AliveTrials
<1>b. \A t : t \in AliveTrials' <=> t \in 0..(ClientTrials - 1) /\ Alive(t)'
  BY DEF AliveTrials
<1>f. ASSUME NEW kind, Fault(kind)
      PROVE  faults' = faults + 1
  BY <1>f DEF Fault
<1>r. ~Reset
  BY DEF Reset
<1>1. CASE NetworkFault
  <2>1. completed' = completed /\ faults' = faults + 1
    BY <1>1, <1>f DEF NetworkFault, collectorVars
  <2>2. \E u : AliveTrials \ {u} \subseteq AliveTrials'
    <3>1. PICK u : \A t \in Nat : t # u /\ Alive(t) => Alive(t)'
      BY <1>1, <1>t, NetworkLosesOne
    <3>. QED
      BY <1>a, <1>b, <3>1
  <2>. QED
    BY <1>t, <2>1, <2>2
<1>2. CASE ClientStep
  <2>1. UNCHANGED <<collectorVars, faults>> /\ completed' = completed
    BY <1>2 DEF ClientStep, collectorVars
  <2>2. ASSUME NEW t \in 0..(ClientTrials - 1), Alive(t)
        PROVE  Alive(t)'
    BY <1>2, <1>r, <1>t, <2>1, <2>2, ClientLosesNone DEF ClientStep
  <2>. QED
    BY <1>a, <1>b, <1>t, <2>1, <2>2
<1>3. CASE ClientTimeout \/ ClientError \/ LateDelivery
  <2>1. UNCHANGED collectorVars /\ completed' = completed
    BY <1>3 DEF ClientTimeout, ClientError, LateDelivery, collectorVars
  <2>2. CASE ClientTimeout /\ UNCHANGED faults /\ (NothingComing \/ BurstTimeout)
    <3>1. ASSUME NEW t \in 0..(ClientTrials - 1), Alive(t)
          PROVE  Alive(t)'
      BY <1>t, <2>1, <2>2, <3>1, ClientLosesNone DEF ClientTimeout
    <3>. QED
      BY <1>a, <1>b, <1>t, <2>1, <2>2, <3>1
  <2>3. CASE faults' = faults + 1
    <3>1. ASSUME NEW t \in 0..(ClientTrials - 1), Alive(t), t # trial
          PROVE  Alive(t)'
      BY <1>3, <1>t, <2>1, <3>1, ClientLosesNone DEF ClientTimeout, ClientError, LateDelivery
    <3>2. \E u : AliveTrials \ {u} \subseteq AliveTrials'
      <4>1. AliveTrials \ {trial} \subseteq AliveTrials'
        BY <1>a, <1>b, <3>1
      <4>. QED
        BY <4>1
    <3>. QED
      BY <1>t, <2>1, <2>3, <3>2
  <2>. QED
    BY <1>3, <1>f, <2>2, <2>3 DEF ClientTimeout, ClientError, LateDelivery, TimesOut
<1>4. CASE CollectorStep \/ CollectorIdle
  <2>1. UNCHANGED clientVars /\ faults' >= faults
    BY <1>4, <1>f, <1>t DEF CollectorStep, CollectorIdle
  <2>2. CASE RecvEnd
    <3>1. PICK u : u = Head(toGateway).trial
      OBVIOUS
    <3>2. ASSUME NEW t \in 0..(ClientTrials - 1), Alive(t), t # u
          PROVE  Alive(t)'
      BY <2>1, <2>2, <3>1, <3>2, CollectorLosesNone
    <3>3. completed' \in {completed, completed + 1}
      BY <2>2 DEF RecvEnd
    <3>4. CASE u \in 0..(ClientTrials - 1) /\ Alive(u)
      <4>1. completed' = completed + 1
        BY <2>2, <3>1, <3>4, EndCompletes
      <4>2. \E v : AliveTrials \ {v} \subseteq AliveTrials'
        <5>1. AliveTrials \ {u} \subseteq AliveTrials'
          BY <1>a, <1>b, <3>2
        <5>. QED
          BY <5>1
      <4>3. faults' \in Nat
        BY FaultAssumption DEF CoreInv, TypeOK
      <4>4. completed' >= completed /\ completed' + faults' >= completed + faults + 1
        <5>1. completed \in Nat /\ faults \in Nat
          BY <1>t
        <5>2. \A c \in Nat, f \in Nat, g \in Nat :
                 g >= f => c + 1 >= c /\ (c + 1) + g >= c + f + 1
          OBVIOUS
        <5>3. faults' >= faults
          BY <2>1
        <5>4. (completed + 1) >= completed /\ (completed + 1) + faults' >= completed + faults + 1
          BY <4>3, <5>1, <5>2, <5>3
        <5>. QED
          BY <4>1, <5>4, Zenon
      <4>. QED
        BY <2>1, <4>2, <4>4
    <3>5. CASE ~(u \in 0..(ClientTrials - 1) /\ Alive(u))
      BY <1>a, <1>b, <1>t, <2>1, <3>2, <3>3, <3>5
    <3>. QED
      BY <3>4, <3>5
  <2>3. CASE ~RecvEnd
    <3>1. completed' = completed
      BY <1>4, <2>3 DEF CollectorStep, CollectorIdle, RecvHello, SendBurst, StimulusDone,
                        RecvUnknown, RecvResult, RecvBegin, RecvChunk, RecvJitter, RecvFor,
                        DiscardStopped, IdleTimeout, collectorVars
    <3>2. ASSUME NEW t \in 0..(ClientTrials - 1), Alive(t)
          PROVE  Alive(t)'
      BY <1>4, <2>1, <2>3, <3>2, CollectorLosesNone DEF CollectorStep, CollectorIdle
    <3>. QED
      BY <1>a, <1>b, <1>t, <2>1, <3>1, <3>2
  <2>. QED
    BY <2>2, <2>3
<1>5. CASE UNCHANGED vars
  <2>1. UNCHANGED <<pc, trial, up, port, kpc, hello, states, toGateway, toDevice, completed,
                    faults>>
    BY <1>5 DEF vars, clientVars, collectorVars, netVars
  <2>2. ASSUME NEW t, Alive(t)
        PROVE  Alive(t)'
    BY <2>1, <2>2 DEF Alive, Delivers, Kept, Held, Opens, Stimulated, KeyOf, Pieces, Size, Asked
  <2>. QED
    BY <1>a, <1>b, <1>t, <2>1, <2>2
<1>. QED
  BY <1>1, <1>2, <1>3, <1>4, <1>5 DEF Next
------------------------------------------------------------------------------
(* Client and collector stay in step. *)

\* The elements of a channel that took a datagram, gave one up or was perturbed.
LEMMA ElementsOf ==
    ASSUME NEW S, NEW ch \in Seq(S)
    PROVE  /\ ch # <<>> => \A i \in DOMAIN Tail(ch) : \E j \in DOMAIN ch : Tail(ch)[i] = ch[j]
           /\ ch # <<>> => 1 \in DOMAIN ch /\ ch[1] = Head(ch)
           /\ \A m, i : i \in DOMAIN Append(ch, m) =>
                 Append(ch, m)[i] = m \/ \E j \in DOMAIN ch : Append(ch, m)[i] = ch[j]
           /\ \A kind \in {"drop", "dup", "delay"}, f \in DOMAIN ch :
                 \A i \in DOMAIN Perturbed(ch, kind, f) :
                     \E j \in DOMAIN ch : Perturbed(ch, kind, f)[i] = ch[j]
<1>. DEFINE T == {ch[j] : j \in DOMAIN ch}
<1>1. ch \in Seq(T)
  OBVIOUS
<1>2. ASSUME ch # <<>>
      PROVE  /\ \A i \in DOMAIN Tail(ch) : \E j \in DOMAIN ch : Tail(ch)[i] = ch[j]
             /\ 1 \in DOMAIN ch /\ ch[1] = Head(ch)
  BY <1>2
<1>3. ASSUME NEW m, NEW i, i \in DOMAIN Append(ch, m)
      PROVE  Append(ch, m)[i] = m \/ \E j \in DOMAIN ch : Append(ch, m)[i] = ch[j]
  BY <1>3
<1>4. ASSUME NEW kind \in {"drop", "dup", "delay"}, NEW f \in DOMAIN ch,
             NEW i \in DOMAIN Perturbed(ch, kind, f)
      PROVE  \E j \in DOMAIN ch : Perturbed(ch, kind, f)[i] = ch[j]
  <2>1. Perturbed(ch, kind, f) \in Seq(T)
    BY <1>1, PerturbedType
  <2>2. Perturbed(ch, kind, f)[i] \in T
    BY <2>1
  <2>. QED
    BY <2>2
<1>. QED
  BY <1>2, <1>3, <1>4

\* Nothing gets ahead of the client when the client moves on.
LEMMA InStepStays ==
    ASSUME CoreInv, UploadInv, UNCHANGED collectorVars, NEW m, m.trial \in Nat,
           \/ \E held \in BOOLEAN : JoinWifi(held)
           \/ BootFails \/ SendHello \/ ResendHello \/ DiscardUnbound \/ TakeStart
           \/ SkipInWait \/ StartTimeout \/ TakeBurst \/ SkipInSample \/ BurstTimeout
           \/ \E ok \in BOOLEAN : FinishSampling(ok)
           \/ SendUpload \/ TrialFails \/ NextTrial
    PROVE  /\ InStep(m) => InStep(m)'
           /\ NotAhead(m) => NotAhead(m)'
<1>t. trial \in Nat
  BY DEF CoreInv, TypeOK, ClientTypeOK
<1>1. port' = port /\ (trial' = trial \/ NextTrial)
  BY ClientSends
<1>2. CASE NextTrial
  <2>1. trial' = trial + 1
    BY <1>2 DEF NextTrial
  <2>2. m.trial <= trial => m.trial <= trial' /\ m.trial # trial'
    BY <1>t, <2>1
  <2>. QED
    BY <1>1, <2>2 DEF InStep, NotAhead
<1>3. CASE trial' = trial
  <2>1. /\ pc' \in {"boot", "hello"} => pc \in {"boot", "hello"}
        /\ pc' \in {"wait", "sample", "rest"} => pc \in {"hello", "wait", "sample", "rest"}
        /\ pc' = "upload" => pc \in {"rest", "upload"}
    <3>1. CASE \E held \in BOOLEAN : JoinWifi(held)
      BY <3>1 DEF JoinWifi
    <3>2. CASE BootFails \/ SendHello \/ ResendHello \/ TakeStart \/ StartTimeout
      BY <3>2 DEF BootFails, SendHello, ResendHello, TakeStart, StartTimeout
    <3>3. CASE TakeBurst \/ SkipInSample \/ BurstTimeout \/ SendUpload \/ TrialFails
      BY <3>3 DEF TakeBurst, SkipInSample, BurstTimeout, SendUpload, TrialFails, NextTurn
    <3>4. CASE DiscardUnbound \/ SkipInWait
      BY <3>4 DEF DiscardUnbound, SkipInWait, clientVars
    <3>5. CASE \E ok \in BOOLEAN : FinishSampling(ok)
      BY <3>5 DEF FinishSampling
    <3>6. CASE NextTrial
      BY <3>6, <1>3, <1>t DEF NextTrial
    <3>. QED
      BY <3>1, <3>2, <3>3, <3>4, <3>5, <3>6
  <2>2. InStep(m) => InStep(m)'
    BY <1>1, <1>3, <2>1 DEF InStep
  <2>3. NotAhead(m) => NotAhead(m)'
    BY <1>3, <2>1, <2>2 DEF NotAhead, InStep
  <2>. QED
    BY <2>2, <2>3
<1>. QED
  BY <1>1, <1>2, <1>3

\* The client's moves, as far as the order is concerned.
LEMMA ClientMoves ==
    ASSUME \/ \E held \in BOOLEAN : JoinWifi(held)
           \/ BootFails \/ SendHello \/ ResendHello \/ DiscardUnbound \/ TakeStart
           \/ SkipInWait \/ StartTimeout \/ TakeBurst \/ SkipInSample \/ BurstTimeout
           \/ \E ok \in BOOLEAN : FinishSampling(ok)
           \/ SendUpload \/ TrialFails \/ NextTrial
    PROVE  /\ \/ toDevice' = toDevice
              \/ toDevice' = <<>>
              \/ toDevice # <<>> /\ toDevice' = Tail(toDevice)
           /\ pc' = "wait" => pc = "wait" \/ (SendHello /\ pc = "hello" /\ toDevice' = toDevice)
           /\ pc' \in {"sample", "rest", "upload"} =>
                 pc \in {"sample", "rest", "upload"} \/ TakeStart
           /\ pc \in {"done", "fatal"} => pc' = pc /\ toGateway' = toGateway
           /\ pc' = "done" => \/ pc = "done" /\ trial' = trial
                              \/ trial' = trial /\ ClientTrials = 0
                              \/ trial' = trial + 1 /\ ~(trial + 1 < ClientTrials)
           /\ \/ toGateway' = toGateway
              \/ SendHello \/ ResendHello \/ SendUpload
              \/ \E ok \in BOOLEAN : FinishSampling(ok)
<1>1. CASE \E held \in BOOLEAN : JoinWifi(held)
  BY <1>1 DEF JoinWifi
<1>2. CASE BootFails \/ StartTimeout \/ BurstTimeout \/ TrialFails
  BY <1>2 DEF BootFails, StartTimeout, BurstTimeout, TrialFails, netVars
<1>3. CASE SendHello \/ ResendHello
  BY <1>3 DEF SendHello, ResendHello
<1>4. CASE DiscardUnbound
  BY <1>4 DEF DiscardUnbound, clientVars
<1>5. CASE TakeStart \/ TakeBurst \/ SkipInSample
  BY <1>5 DEF TakeStart, TakeBurst, SkipInSample, ClientReceives, NextTurn
<1>6. CASE SkipInWait
  BY <1>6 DEF SkipInWait, ClientReceives, clientVars
<1>7. CASE SendUpload
  BY <1>7 DEF SendUpload
<1>8. CASE \E ok \in BOOLEAN : FinishSampling(ok)
  BY <1>8 DEF FinishSampling
<1>9. CASE NextTrial
  BY <1>9 DEF NextTrial, netVars
<1>. QED
  BY <1>1, <1>2, <1>3, <1>4, <1>5, <1>6, <1>7, <1>8, <1>9

\* What the client sends is not ahead of where it is then.
LEMMA SentInStep ==
    ASSUME CoreInv, UploadInv, UNCHANGED collectorVars, toGateway' \in Seq(Msg),
           \/ SendHello \/ ResendHello \/ SendUpload
           \/ \E ok \in BOOLEAN : FinishSampling(ok)
    PROVE  \/ toGateway' = toGateway
           \/ \E m \in Msg : toGateway' = Append(toGateway, m) /\ NotAhead(m)'
<1>t. trial \in Nat /\ toGateway \in Seq(Msg) /\ port' = port /\ trial' = trial
  BY DEF CoreInv, TypeOK, ClientTypeOK, SendHello, ResendHello, SendUpload, FinishSampling
<1>. SUFFICES ASSUME toGateway' # toGateway
              PROVE  \E m \in Msg : toGateway' = Append(toGateway, m) /\ NotAhead(m)'
  OBVIOUS
<1>1. PICK m : /\ toGateway' = Append(toGateway, m)
               /\ m.trial = trial /\ m.port = port
               /\ m.type = "HELLO" <=> pc \in {"hello", "wait"}
               /\ SendUpload => m = UploadStream[up]
               /\ m.type = "RAW_END" => SendUpload
  BY ClientSends
<1>2. m \in Msg
  BY <1>t, <1>1
<1>3. InStep(m)'
  <2>1. pc' \notin {"boot", "hello"}
    BY DEF SendHello, ResendHello, SendUpload, FinishSampling
  <2>. QED
    BY <1>t, <1>1, <2>1 DEF InStep
<1>4. pc' \in {"wait", "sample", "rest"} => m.type = "HELLO"
  BY <1>1 DEF SendHello, ResendHello, SendUpload, FinishSampling
<1>5. pc' = "upload" => m.type # "RAW_END"
  <2>. SUFFICES ASSUME pc' = "upload", SendUpload
                PROVE  m.type # "RAW_END"
    BY <1>1
  <2>1. pc = "upload" /\ up # Len(UploadStream)
    BY DEF SendUpload
  <2>2. up \in 1..Len(UploadStream)
    BY <2>1, UploadStreamType DEF CoreInv, TypeOK, ClientTypeOK
  <2>. QED
    BY <1>1, <2>1, <2>2, UploadOrder DEF CoreInv, TypeOK
<1>6. NotAhead(m)'
  BY <1>3, <1>4, <1>5 DEF NotAhead
<1>. QED
  BY <1>1, <1>2, <1>6

\* The client keeps the order.
LEMMA OrderedClient ==
    ASSUME CoreInv, UploadInv, Ordered, UNCHANGED collectorVars,
           toGateway' \in Seq(Msg), toDevice' \in Seq(Msg),
           \/ \E held \in BOOLEAN : JoinWifi(held)
           \/ BootFails \/ SendHello \/ ResendHello \/ DiscardUnbound \/ TakeStart
           \/ SkipInWait \/ StartTimeout \/ TakeBurst \/ SkipInSample \/ BurstTimeout
           \/ \E ok \in BOOLEAN : FinishSampling(ok)
           \/ SendUpload \/ TrialFails \/ NextTrial
    PROVE  Ordered'
<1>t. /\ toGateway \in Seq(Msg) /\ toDevice \in Seq(Msg) /\ hello \in Msg
      /\ trial \in Nat /\ ClientTrials \in Nat
      /\ UNCHANGED <<kpc, hello, states, completed>>
      /\ \A u \in Msg : u.trial \in Nat
  BY ClientAssumption DEF CoreInv, TypeOK, ClientTypeOK, CollectorTypeOK, collectorVars, Msg
<1>s. port' = port /\ (trial' = trial \/ NextTrial)
  BY ClientSends
<1>i. \A u \in Msg : (InStep(u) => InStep(u)') /\ (NotAhead(u) => NotAhead(u)')
  BY <1>t, InStepStays
<1>o. Opens(trial) /\ trial' = trial => Opens(trial)'
  BY <1>s, <1>t DEF Opens, KeyOf, Stimulated
<1>m. /\ \/ toDevice' = toDevice
         \/ toDevice' = <<>>
         \/ toDevice # <<>> /\ toDevice' = Tail(toDevice)
      /\ pc' = "wait" => pc = "wait" \/ (SendHello /\ pc = "hello" /\ toDevice' = toDevice)
      /\ pc' \in {"sample", "rest", "upload"} =>
            pc \in {"sample", "rest", "upload"} \/ TakeStart
      /\ pc \in {"done", "fatal"} => pc' = pc /\ toGateway' = toGateway
      /\ pc' = "done" => \/ pc = "done" /\ trial' = trial
                         \/ trial' = trial /\ ClientTrials = 0
                         \/ trial' = trial + 1 /\ ~(trial + 1 < ClientTrials)
      /\ \/ toGateway' = toGateway
         \/ SendHello \/ ResendHello \/ SendUpload
         \/ \E ok \in BOOLEAN : FinishSampling(ok)
  BY ClientMoves
<1>d. \A i \in DOMAIN toDevice' : \E j \in DOMAIN toDevice : toDevice'[i] = toDevice[j]
  <2>1. CASE toDevice' = toDevice
    BY <2>1
  <2>2. CASE toDevice' = <<>>
    BY <2>2
  <2>3. CASE toDevice # <<>> /\ toDevice' = Tail(toDevice)
    BY <1>t, <2>3, ElementsOf
  <2>. QED
    BY <1>m, <2>1, <2>2, <2>3
<1>1. (\A i \in DOMAIN toGateway : NotAhead(toGateway[i]))'
  <2>1. \A j \in DOMAIN toGateway : toGateway[j] \in Msg /\ NotAhead(toGateway[j])
    BY <1>t DEF Ordered
  <2>2. ASSUME NEW i, i \in DOMAIN toGateway', NEW v, v = toGateway'[i]
        PROVE  v.port = port' /\ NotAhead(v)'
    <3>1. CASE toGateway' = toGateway
      <4>1. v \in Msg /\ NotAhead(v)
        BY <2>1, <2>2, <3>1
      <4>2. NotAhead(v)'
        BY <1>i, <4>1
      <4>. QED
        BY <4>2 DEF NotAhead, InStep
    <3>2. ASSUME NEW m \in Msg, toGateway' = Append(toGateway, m), NotAhead(m)'
          PROVE  NotAhead(v)'
      <4>1. CASE v = m
        BY <3>2, <4>1
      <4>2. CASE v # m
        <5>1. v = m \/ \E j \in DOMAIN toGateway : v = toGateway[j]
          BY <1>t, <2>2, <3>2, ElementsOf
        <5>2. v \in Msg /\ NotAhead(v)
          BY <2>1, <4>2, <5>1
        <5>. QED
          BY <1>i, <5>2
      <4>. QED
        BY <4>1, <4>2
    <3>3. NotAhead(v)'
      BY <1>m, <3>1, <3>2, SentInStep
    <3>. QED
      BY <3>3 DEF NotAhead, InStep
  <2>. QED
    BY <2>2 DEF NotAhead, InStep
<1>2. (\A i \in DOMAIN toDevice : InStep(toDevice[i]))'
  <2>1. ASSUME NEW i, i \in DOMAIN toDevice', NEW v, v = toDevice'[i]
        PROVE  InStep(v)'
    <3>1. v \in Msg /\ InStep(v)
      BY <1>t, <1>d, <2>1 DEF Ordered
    <3>. QED
      BY <1>i, <3>1
  <2>. QED
    BY <2>1 DEF InStep
<1>3. (kpc = "stim" => InStep(hello))'
  <2>1. kpc = "stim" => InStep(hello)'
    <3>1. PICK h \in Msg : h = hello
      BY <1>t
    <3>2. kpc = "stim" => InStep(h)'
      BY <1>i, <3>1 DEF Ordered
    <3>. QED
      BY <1>t, <3>1, <3>2 DEF InStep
  <2>. QED
    BY <1>t, <2>1
<1>4. (pc = "wait" /\ Has(toDevice, trial, "START") => Opens(trial))'
  <2>. SUFFICES ASSUME pc' = "wait", Has(toDevice', trial', "START")
                PROVE  Opens(trial)'
    BY DEF Has, Of
  <2>1. trial' = trial
    <3>1. ~NextTrial
      BY DEF NextTrial
    <3>. QED
      BY <1>s, <3>1
  <2>2. PICK j \in DOMAIN toDevice : toDevice[j].trial = trial /\ toDevice[j].type = "START"
    BY <1>d, <2>1 DEF Has, Of
  <2>3. pc = "wait"
    BY <1>m, <2>2 DEF Ordered, InStep
  <2>4. Opens(trial)
    BY <2>2, <2>3 DEF Ordered, Has, Of
  <2>. QED
    BY <1>o, <2>1, <2>4
<1>5. (pc \in {"sample", "rest", "upload"} => Opens(trial))'
  <2>. SUFFICES ASSUME pc' \in {"sample", "rest", "upload"}
                PROVE  Opens(trial)'
    OBVIOUS
  <2>1. trial' = trial
    <3>1. ~NextTrial
      BY DEF NextTrial
    <3>. QED
      BY <1>s, <3>1
  <2>2. CASE TakeStart
    <3>1. pc = "wait" /\ toDevice # <<>> /\ IsStart(Head(toDevice))
      BY <2>2 DEF TakeStart, ClientReceives
    <3>2. 1 \in DOMAIN toDevice /\ toDevice[1] = Head(toDevice)
      BY <1>t, <3>1, ElementsOf
    <3>3. Has(toDevice, trial, "START")
      BY <3>1, <3>2 DEF IsStart, Has, Of
    <3>. QED
      BY <1>o, <2>1, <3>1, <3>3 DEF Ordered
  <2>3. CASE pc \in {"sample", "rest", "upload"}
    BY <1>o, <2>1, <2>3 DEF Ordered
  <2>. QED
    BY <1>m, <2>2, <2>3
<1>6. (pc = "done" => trial >= ClientTrials)'
  BY <1>m, <1>t DEF Ordered
<1>7. (kpc = "stopped" => \/ completed >= Trials
                          \/ pc \in {"done", "fatal"} /\ toGateway = <<>>)'
  BY <1>m, <1>t DEF Ordered
<1>. QED
  BY <1>1, <1>2, <1>3, <1>4, <1>5, <1>6, <1>7 DEF Ordered

\* The collector's moves, as far as the order is concerned.
LEMMA CollectorMoves ==
    ASSUME CoreInv, UploadInv, Ordered, UNCHANGED clientVars,
           \/ RecvHello \/ SendBurst \/ StimulusDone \/ RecvUnknown \/ RecvResult
           \/ RecvBegin \/ RecvChunk \/ RecvJitter \/ RecvEnd \/ DiscardStopped
           \/ IdleTimeout /\ pc \in {"done", "fatal"}
    PROVE  /\ toGateway' = toGateway \/ (toGateway # <<>> /\ toGateway' = Tail(toGateway))
           /\ \/ toDevice' = toDevice
              \/ \E m \in Msg : /\ toDevice' = Append(toDevice, m) /\ InStep(m)
                                /\ m.type = "START" /\ m.trial = trial => Stimulated(trial)'
           /\ kpc' = "stim" => InStep(hello')
           /\ pc \in {"wait", "sample", "rest", "upload"} /\ Opens(trial) => Opens(trial)'
           /\ kpc' = "stopped" => \/ completed' >= Trials
                                  \/ pc \in {"done", "fatal"} /\ toGateway' = <<>>
<1>. DEFINE m == Head(toGateway)
<1>t. /\ CollectorTypeOK /\ toGateway \in Seq(Msg) /\ toDevice \in Seq(Msg)
      /\ UNCHANGED <<pc, trial, port>> /\ trial \in Nat /\ trial' = trial
      /\ Trials \in Nat
  BY CollectorAssumption DEF CoreInv, TypeOK, ClientTypeOK, clientVars
<1>k. KeyOf(trial)' = KeyOf(trial)
  BY <1>t DEF KeyOf
<1>h. CollectorReceives => /\ toGateway # <<>> /\ toGateway' = Tail(toGateway) /\ kpc = "recv"
                           /\ m \in Msg /\ NotAhead(m) /\ m.port = port
  <2>. SUFFICES ASSUME CollectorReceives
                PROVE  /\ toGateway # <<>> /\ toGateway' = Tail(toGateway) /\ kpc = "recv"
                       /\ m \in Msg /\ NotAhead(m) /\ m.port = port
    OBVIOUS
  <2>1. toGateway # <<>> /\ toGateway' = Tail(toGateway) /\ kpc = "recv"
    BY DEF CollectorReceives
  <2>2. m \in Msg /\ 1 \in DOMAIN toGateway /\ toGateway[1] = m
    BY <1>t, <2>1
  <2>3. NotAhead(m)
    BY <2>2 DEF Ordered
  <2>. QED
    BY <2>1, <2>2, <2>3 DEF NotAhead, InStep
<1>. HIDE DEF m
<1>o. ASSUME UNCHANGED <<kpc, hello>>, DOMAIN states' = DOMAIN states
      PROVE  /\ kpc' = "stim" => InStep(hello')
             /\ Opens(trial) => Opens(trial)'
  BY <1>k, <1>t, <1>o DEF Ordered, Opens, Stimulated
<1>1. CASE RecvHello
  <2>. DEFINE u == Message("START", m.port, m.trial, Bursts(m), SampleBytes(m), m.nonce, <<>>)
  <2>1. /\ CollectorReceives /\ m.type = "HELLO" /\ hello' = m /\ kpc' = "stim"
        /\ UNCHANGED states /\ toDevice' = Append(toDevice, u)
    BY <1>1 DEF RecvHello, m
  <2>2. u \in Msg /\ u.port = m.port /\ u.trial = m.trial
    <3>1. u.port = m.port /\ u.trial = m.trial
      BY DEF Message
    <3>2. Bursts(m) \in Nat /\ SampleBytes(m) \in Nat
      BY <1>h, <2>1, CollectorAssumption DEF Bursts, SampleBytes, Msg
    <3>3. /\ m.port \in Ports /\ m.trial \in Nat /\ m.nonce \in Nat
          /\ "START" \in MsgTypes /\ <<>> \in Seq(Byte)
      BY <1>h, <2>1 DEF Msg, MsgTypes
    <3>4. u \in Msg
      BY <3>2, <3>3, MessageType
    <3>. QED
      BY <3>1, <3>4
  <2>. HIDE DEF u
  <2>3. InStep(m) /\ InStep(u)
    BY <1>h, <2>1, <2>2 DEF NotAhead, InStep
  <2>4. u.trial = trial => Stimulated(trial)'
    BY <1>t, <2>1, <2>2 DEF Stimulated
  <2>5. Opens(trial) => Opens(trial)'
    BY <1>h, <1>k, <2>1 DEF Opens, Stimulated
  <2>6. toDevice' = toDevice
        \/ \E v \in Msg : /\ toDevice' = Append(toDevice, v) /\ InStep(v)
                          /\ v.type = "START" /\ v.trial = trial => Stimulated(trial)'
    BY <2>1, <2>2, <2>3, <2>4
  <2>. QED
    BY <1>h, <2>1, <2>3, <2>5, <2>6
<1>2. CASE SendBurst
  <2>. DEFINE u == Message("BURST", hello.port, hello.trial, sent, SampleBytes(hello),
                           hello.nonce, <<>>)
  <2>1. /\ kpc = "stim" /\ UNCHANGED <<kpc, hello, states, toGateway>>
        /\ toDevice' = Append(toDevice, u)
    BY <1>2 DEF SendBurst
  <2>2. u \in Msg /\ u.port = hello.port /\ u.trial = hello.trial /\ u.type = "BURST"
    <3>1. u.port = hello.port /\ u.trial = hello.trial /\ u.type = "BURST"
      BY DEF Message
    <3>2. hello \in Msg /\ SampleBytes(hello) \in Nat /\ sent \in Nat
      BY <1>t, CollectorAssumption DEF CollectorTypeOK, SampleBytes, Msg
    <3>3. /\ hello.port \in Ports /\ hello.trial \in Nat /\ hello.nonce \in Nat
          /\ "BURST" \in MsgTypes /\ <<>> \in Seq(Byte)
      BY <3>2 DEF Msg, MsgTypes
    <3>4. u \in Msg
      BY <3>2, <3>3, MessageType
    <3>. QED
      BY <3>1, <3>4
  <2>. HIDE DEF u
  <2>3. InStep(hello) /\ InStep(u)
    BY <2>1, <2>2 DEF Ordered, InStep
  <2>4. toDevice' = toDevice
        \/ \E v \in Msg : /\ toDevice' = Append(toDevice, v) /\ InStep(v)
                          /\ v.type = "START" /\ v.trial = trial => Stimulated(trial)'
    BY <2>1, <2>2, <2>3
  <2>. QED
    BY <1>o, <2>1, <2>4
<1>3. CASE StimulusDone
  <2>1. /\ kpc = "stim" /\ kpc' = "recv" /\ UNCHANGED <<hello, toGateway, toDevice>>
        /\ DOMAIN states' = DOMAIN states \cup {Key(hello)}
    BY <1>3 DEF StimulusDone, netVars, Put
  <2>2. Stimulated(trial) => Key(hello) = KeyOf(trial)
    BY <2>1 DEF Ordered, InStep, Stimulated, Key, KeyOf
  <2>3. Opens(trial) => Opens(trial)'
    BY <1>k, <2>1, <2>2 DEF Opens
  <2>. QED
    BY <2>1, <2>3
<1>4. CASE RecvUnknown
  <2>1. CollectorReceives /\ UNCHANGED <<kpc, hello, states, completed, toDevice>>
    BY <1>4 DEF RecvUnknown, collectorVars
  <2>. QED
    BY <1>h, <1>o, <2>1
<1>5. CASE RecvResult \/ RecvBegin \/ RecvChunk \/ RecvJitter
  <2>1. CollectorReceives /\ UNCHANGED <<kpc, hello, toDevice>> /\ DOMAIN states' = DOMAIN states
    BY <1>5, <1>t, DataKept
  <2>. QED
    BY <1>h, <1>o, <2>1
<1>6. CASE RecvEnd
  <2>1. /\ CollectorReceives /\ UNCHANGED <<hello, toDevice>> /\ m.type = "RAW_END"
        /\ DOMAIN states' = DOMAIN states \ {Key(m)}
        /\ kpc' = IF completed' < Trials THEN "recv" ELSE "stopped"
        /\ completed' \in {completed, completed + 1}
    BY <1>6 DEF RecvEnd, m
  <2>2. completed \in Nat
    BY <1>t DEF CollectorTypeOK
  <2>3. kpc' = "stopped" => completed' >= Trials
    <3>1. completed' \in Nat
      BY <2>1, <2>2
    <3>. QED
      BY <1>t, <2>1, <3>1
  <2>4. pc \in {"wait", "sample", "rest", "upload"} => Key(m) # KeyOf(trial)
    BY <1>h, <2>1 DEF NotAhead, Key, KeyOf
  <2>5. pc \in {"wait", "sample", "rest", "upload"} /\ Opens(trial) => Opens(trial)'
    BY <1>h, <1>k, <2>1, <2>4 DEF Opens, Stimulated
  <2>. QED
    BY <1>h, <2>1, <2>3, <2>5
<1>7. CASE DiscardStopped
  <2>1. /\ kpc = "stopped" /\ UNCHANGED <<kpc, hello, states, completed, toDevice>>
        /\ toGateway # <<>> /\ toGateway' = Tail(toGateway)
    BY <1>7 DEF DiscardStopped, collectorVars
  <2>. QED
    BY <1>o, <2>1 DEF Ordered
<1>8. CASE IdleTimeout /\ pc \in {"done", "fatal"}
  <2>1. /\ kpc' = "stopped" /\ UNCHANGED <<hello, states, toDevice>>
        /\ toGateway = <<>> /\ toGateway' = toGateway
    BY <1>8 DEF IdleTimeout, netVars
  <2>. QED
    BY <1>8, <2>1
<1>. QED
  BY <1>1, <1>2, <1>3, <1>4, <1>5, <1>6, <1>7, <1>8

\* The collector keeps the order.
LEMMA OrderedCollector ==
    ASSUME CoreInv, UploadInv, Ordered, UNCHANGED clientVars,
           \/ RecvHello \/ SendBurst \/ StimulusDone \/ RecvUnknown \/ RecvResult
           \/ RecvBegin \/ RecvChunk \/ RecvJitter \/ RecvEnd \/ DiscardStopped
           \/ IdleTimeout /\ pc \in {"done", "fatal"}
    PROVE  Ordered'
<1>t. /\ toGateway \in Seq(Msg) /\ toDevice \in Seq(Msg) /\ UNCHANGED <<pc, trial, port>>
  BY DEF CoreInv, TypeOK, clientVars
<1>m. /\ toGateway' = toGateway \/ (toGateway # <<>> /\ toGateway' = Tail(toGateway))
      /\ \/ toDevice' = toDevice
         \/ \E m \in Msg : /\ toDevice' = Append(toDevice, m) /\ InStep(m)
                           /\ m.type = "START" /\ m.trial = trial => Stimulated(trial)'
      /\ kpc' = "stim" => InStep(hello')
      /\ pc \in {"wait", "sample", "rest", "upload"} /\ Opens(trial) => Opens(trial)'
      /\ kpc' = "stopped" => \/ completed' >= Trials
                             \/ pc \in {"done", "fatal"} /\ toGateway' = <<>>
  BY CollectorMoves
<1>i. \A u : (InStep(u) => InStep(u)') /\ (NotAhead(u) => NotAhead(u)')
  BY <1>t DEF InStep, NotAhead
<1>1. (\A i \in DOMAIN toGateway : NotAhead(toGateway[i]))'
  <2>1. ASSUME NEW i, i \in DOMAIN toGateway', NEW v, v = toGateway'[i]
        PROVE  NotAhead(v)'
    <3>1. \E j \in DOMAIN toGateway : v = toGateway[j]
      <4>1. CASE toGateway' = toGateway
        BY <2>1, <4>1
      <4>2. CASE toGateway # <<>> /\ toGateway' = Tail(toGateway)
        BY <1>t, <2>1, <4>2, ElementsOf
      <4>. QED
        BY <1>m, <4>1, <4>2
    <3>. QED
      BY <1>i, <3>1 DEF Ordered
  <2>. QED
    BY <2>1 DEF NotAhead, InStep
<1>2. (\A i \in DOMAIN toDevice : InStep(toDevice[i]))'
  <2>1. ASSUME NEW i, i \in DOMAIN toDevice', NEW v, v = toDevice'[i]
        PROVE  InStep(v)'
    <3>1. CASE toDevice' = toDevice
      BY <1>i, <2>1, <3>1 DEF Ordered
    <3>2. ASSUME NEW m \in Msg, toDevice' = Append(toDevice, m), InStep(m)
          PROVE  InStep(v)'
      <4>1. v = m \/ \E j \in DOMAIN toDevice : v = toDevice[j]
        BY <1>t, <2>1, <3>2, ElementsOf
      <4>. QED
        BY <1>i, <3>2, <4>1 DEF Ordered
    <3>. QED
      BY <1>m, <3>1, <3>2
  <2>. QED
    BY <2>1 DEF InStep
<1>3. (kpc = "stim" => InStep(hello))'
  BY <1>m, <1>t DEF InStep
<1>4. (pc = "wait" /\ Has(toDevice, trial, "START") => Opens(trial))'
  <2>. SUFFICES ASSUME pc' = "wait", Has(toDevice', trial', "START")
                PROVE  Opens(trial)'
    BY DEF Has, Of
  <2>1. PICK i : /\ i \in DOMAIN toDevice'
                 /\ toDevice'[i].trial = trial /\ toDevice'[i].type = "START"
    BY <1>t DEF Has, Of
  <2>2. CASE Has(toDevice, trial, "START")
    BY <1>m, <1>t, <2>2 DEF Ordered
  <2>3. CASE ~Has(toDevice, trial, "START")
    <3>1. \A j \in DOMAIN toDevice : toDevice[j] # toDevice'[i]
      BY <2>1, <2>3 DEF Has, Of
    <3>2. toDevice' # toDevice
      BY <2>1, <3>1
    <3>3. PICK m : toDevice' = Append(toDevice, m)
                   /\ (m.type = "START" /\ m.trial = trial => Stimulated(trial)')
      BY <1>m, <3>2
    <3>4. toDevice'[i] = m
      BY <1>t, <2>1, <3>1, <3>3, ElementsOf
    <3>5. Stimulated(trial)'
      BY <2>1, <3>3, <3>4
    <3>. QED
      BY <3>5 DEF Opens
  <2>. QED
    BY <2>2, <2>3
<1>5. (pc \in {"sample", "rest", "upload"} => Opens(trial))'
  BY <1>m, <1>t DEF Ordered
<1>6. (pc = "done" => trial >= ClientTrials)'
  BY <1>t DEF Ordered
<1>7. (kpc = "stopped" => \/ completed >= Trials
                          \/ pc \in {"done", "fatal"} /\ toGateway = <<>>)'
  BY <1>m, <1>t
<1>. QED
  BY <1>1, <1>2, <1>3, <1>4, <1>5, <1>6, <1>7 DEF Ordered

\* The network keeps the order: it neither makes up nor changes a datagram.
LEMMA OrderedNetwork ==
    ASSUME CoreInv, Ordered, NetworkFault
    PROVE  Ordered'
<1>t. /\ toGateway \in Seq(Msg) /\ toDevice \in Seq(Msg)
      /\ UNCHANGED <<pc, trial, port, kpc, hello, states, completed>>
  BY DEF CoreInv, TypeOK, NetworkFault, clientVars, collectorVars
<1>n. PICK kind \in {"drop", "dup", "delay"} :
         \/ /\ \E i \in DOMAIN toGateway : toGateway' = Perturbed(toGateway, kind, i)
            /\ toDevice' = toDevice
         \/ /\ \E i \in DOMAIN toDevice : toDevice' = Perturbed(toDevice, kind, i)
            /\ toGateway' = toGateway
  BY DEF NetworkFault
<1>g. \A i \in DOMAIN toGateway' : \E j \in DOMAIN toGateway : toGateway'[i] = toGateway[j]
  <2>1. CASE \E i \in DOMAIN toGateway : toGateway' = Perturbed(toGateway, kind, i)
    BY <1>t, <2>1, ElementsOf
  <2>2. CASE toGateway' = toGateway
    BY <2>2
  <2>. QED
    BY <1>n, <2>1, <2>2
<1>d. \A i \in DOMAIN toDevice' : \E j \in DOMAIN toDevice : toDevice'[i] = toDevice[j]
  <2>1. CASE \E i \in DOMAIN toDevice : toDevice' = Perturbed(toDevice, kind, i)
    BY <1>t, <2>1, ElementsOf
  <2>2. CASE toDevice' = toDevice
    BY <2>2
  <2>. QED
    BY <1>n, <2>1, <2>2
<1>i. \A u : (InStep(u) => InStep(u)') /\ (NotAhead(u) => NotAhead(u)')
  BY <1>t DEF InStep, NotAhead
<1>o. Opens(trial) => Opens(trial)'
  BY <1>t DEF Opens, Stimulated, KeyOf
<1>1. (\A i \in DOMAIN toGateway : NotAhead(toGateway[i]))'
  <2>1. ASSUME NEW i, i \in DOMAIN toGateway', NEW v, v = toGateway'[i]
        PROVE  NotAhead(v)'
    BY <1>g, <1>i, <2>1 DEF Ordered
  <2>. QED
    BY <2>1 DEF NotAhead, InStep
<1>2. (\A i \in DOMAIN toDevice : InStep(toDevice[i]))'
  <2>1. ASSUME NEW i, i \in DOMAIN toDevice', NEW v, v = toDevice'[i]
        PROVE  InStep(v)'
    BY <1>d, <1>i, <2>1 DEF Ordered
  <2>. QED
    BY <2>1 DEF InStep
<1>3. (kpc = "stim" => InStep(hello))'
  BY <1>t DEF Ordered, InStep
<1>4. (pc = "wait" /\ Has(toDevice, trial, "START") => Opens(trial))'
  <2>1. Has(toDevice', trial', "START") => Has(toDevice, trial, "START")
    BY <1>d, <1>t DEF Has, Of
  <2>2. pc' = "wait" /\ Has(toDevice', trial', "START") => Opens(trial)'
    BY <1>o, <1>t, <2>1 DEF Ordered
  <2>. QED
    BY <2>2 DEF Has, Of
<1>5. (pc \in {"sample", "rest", "upload"} => Opens(trial))'
  BY <1>o, <1>t DEF Ordered
<1>6. (pc = "done" => trial >= ClientTrials)'
  BY <1>t DEF Ordered
<1>7. (kpc = "stopped" => \/ completed >= Trials
                          \/ pc \in {"done", "fatal"} /\ toGateway = <<>>)'
  <2>1. toGateway = <<>> => toGateway' = toGateway
    <3>1. toGateway = <<>> => DOMAIN toGateway = {}
      OBVIOUS
    <3>. QED
      BY <1>n, <3>1
  <2>. QED
    BY <1>t, <2>1 DEF Ordered
<1>. QED
  BY <1>1, <1>2, <1>3, <1>4, <1>5, <1>6, <1>7 DEF Ordered
------------------------------------------------------------------------------
(* The count. *)

\* How many trials are alive is a number, and it falls by at most the trials
\* that go.
LEMMA AliveCount ==
    ASSUME NEW S \in SUBSET (0..(ClientTrials - 1)), NEW T \in SUBSET (0..(ClientTrials - 1))
    PROVE  /\ Cardinality(S) \in Nat
           /\ S \subseteq T => Cardinality(S) <= Cardinality(T)
           /\ \A u : S \ {u} \subseteq T => Cardinality(S) <= Cardinality(T) + 1
<1>1. IsFiniteSet(S) /\ IsFiniteSet(T)
  <2>1. IsFiniteSet(0..(ClientTrials - 1))
    BY ClientAssumption, FS_Interval
  <2>. QED
    BY <2>1, FS_Subset
<1>2. Cardinality(S) \in Nat /\ Cardinality(T) \in Nat
  BY <1>1, FS_CardinalityType
<1>3. S \subseteq T => Cardinality(S) <= Cardinality(T)
  BY <1>1, FS_Subset
<1>4. ASSUME NEW u, S \ {u} \subseteq T
      PROVE  Cardinality(S) <= Cardinality(T) + 1
  <2>1. Cardinality(S \ {u}) <= Cardinality(T)
    BY <1>1, <1>4, FS_Subset
  <2>2. Cardinality(S \ {u}) = IF u \in S THEN Cardinality(S) - 1 ELSE Cardinality(S)
    BY <1>1, FS_RemoveElement
  <2>. QED
    BY <1>2, <2>1, <2>2
<1>. QED
  BY <1>2, <1>3, <1>4

\* Before anything is sent every trial is alive.
LEMMA CountInit == Init => CountInv
<1>. SUFFICES ASSUME Init
              PROVE  CountInv
  OBVIOUS
<1>1. /\ toGateway = <<>> /\ toDevice = <<>> /\ pc = "boot" /\ trial = 0
      /\ completed = 0 /\ faults = 0 /\ ClientTrials \in Nat /\ Trials \in Nat
      /\ kpc = IF Trials = 0 THEN "stopped" ELSE "recv"
  BY ClientAssumption, CollectorAssumption DEF Init, ClientInit, CollectorInit, NetInit
<1>2. Ordered
  <2>1. DOMAIN toGateway = {} /\ DOMAIN toDevice = {}
    BY <1>1
  <2>. QED
    BY <1>1, <2>1 DEF Ordered
<1>3. AliveTrials = 0..(ClientTrials - 1)
  BY <1>1 DEF AliveTrials, Alive
<1>4. Cardinality(AliveTrials) = ClientTrials
  BY <1>1, <1>3, FS_Interval
<1>. QED
  BY <1>1, <1>2, <1>4 DEF CountInv

\* Without an idle stop by mistake, client and collector stay in step.
LEMMA OrderedStep ==
    ASSUME "idle" \notin FaultKinds, CoreInv, UploadInv, Ordered, CoreInv', boot = 1, boot' = 1,
           [Next]_vars
    PROVE  Ordered'
<1>t. toGateway' \in Seq(Msg) /\ toDevice' \in Seq(Msg)
  BY DEF CoreInv, TypeOK
<1>r. ~Reset
  BY DEF Reset
<1>1. CASE NetworkFault
  BY <1>1, OrderedNetwork
<1>2. CASE ClientStep \/ ClientTimeout \/ LateDelivery \/ ClientError
  BY <1>2, <1>r, <1>t, OrderedClient DEF ClientStep, ClientTimeout, LateDelivery, ClientError
<1>3. CASE CollectorStep \/ CollectorIdle
  <2>1. ~Fault("idle")
    BY DEF Fault
  <2>. QED
    BY <1>3, <2>1, OrderedCollector DEF CollectorStep, CollectorIdle
<1>4. CASE UNCHANGED vars
  BY <1>4 DEF vars, clientVars, collectorVars, netVars, Ordered, NotAhead, InStep, Has, Of,
              Opens, Stimulated, KeyOf
<1>. QED
  BY <1>1, <1>2, <1>3, <1>4 DEF Next

\* A trial that is lost was completed or paid for.
LEMMA CountStep ==
    ASSUME ClientTrials <= Trials, "idle" \notin FaultKinds,
           CoreInv, UploadInv, CountInv, CoreInv', [Next]_vars
    PROVE  CountInv'
<1>. SUFFICES ASSUME boot' = 1
              PROVE  /\ Ordered'
                     /\ \/ completed' >= ClientTrials
                        \/ completed' + faults' + Cardinality(AliveTrials') >= ClientTrials
  BY DEF CountInv
<1>t. /\ boot \in Nat /\ boot > 0 /\ completed \in Nat /\ faults \in Nat
      /\ completed' \in Nat /\ faults' \in Nat /\ ClientTrials \in Nat /\ Trials \in Nat
  <2>1. ClientTrials \in Nat /\ Trials \in Nat /\ MaxBoots \in Nat /\ MaxFaults \in Nat
    BY ClientAssumption, CollectorAssumption, FaultAssumption
  <2>2. boot \in Nat /\ boot > 0 /\ completed \in Nat /\ faults \in Nat
    <3>1. boot \in 1..MaxBoots /\ completed \in Nat /\ faults \in 0..MaxFaults
      BY DEF CoreInv, TypeOK, ClientTypeOK, CollectorTypeOK
    <3>. QED
      BY <2>1, <3>1
  <2>3. completed' \in Nat /\ faults' \in Nat
    BY <2>1 DEF CoreInv, TypeOK, CollectorTypeOK
  <2>. QED
    BY <2>1, <2>2, <2>3
<1>1. boot = 1
  <2>1. boot' = boot \/ boot' = boot + 1
    BY DEF Next, NetworkFault, ClientStep, ClientTimeout, LateDelivery, ClientError,
           CollectorStep, CollectorIdle, JoinWifi, BootFails, SendHello, ResendHello,
           DiscardUnbound, TakeStart, SkipInWait, StartTimeout, TakeBurst, SkipInSample,
           BurstTimeout, FinishSampling, SendUpload, TrialFails, NextTrial, Reset, clientVars,
           vars
  <2>. QED
    BY <1>t, <2>1
<1>2. Ordered
  BY <1>1 DEF CountInv
<1>3. Ordered'
  BY <1>1, <1>2, OrderedStep
<1>4. CASE completed >= ClientTrials
  <2>1. completed' >= completed
    <3>1. completed' \in {completed, completed + 1}
      BY DEF Next, NetworkFault, ClientStep, ClientTimeout, LateDelivery, ClientError,
             CollectorStep, CollectorIdle, RecvHello, SendBurst, StimulusDone, RecvUnknown,
             RecvResult, RecvBegin, RecvChunk, RecvJitter, RecvFor, RecvEnd, DiscardStopped,
             IdleTimeout, collectorVars, vars
    <3>. QED
      BY <1>t, <3>1
  <2>. QED
    BY <1>3, <1>4, <1>t, <2>1
<1>5. CASE completed < ClientTrials
  <2>1. completed + faults + Cardinality(AliveTrials) >= ClientTrials
    BY <1>1, <1>5, <1>t DEF CountInv
  <2>2. completed < Trials
    BY <1>5, <1>t
  <2>3. /\ completed' >= completed /\ faults' >= faults
        /\ \/ AliveTrials \subseteq AliveTrials'
           \/ /\ completed' + faults' >= completed + faults + 1
              /\ \E u : AliveTrials \ {u} \subseteq AliveTrials'
    BY <1>1, <1>2, <2>2, LosesAtMostOne
  <2>4. PICK S \in SUBSET (0..(ClientTrials - 1)) : S = AliveTrials
    BY DEF AliveTrials
  <2>5. PICK T \in SUBSET (0..(ClientTrials - 1)) : T = AliveTrials'
    BY DEF AliveTrials
  <2>6. /\ Cardinality(S) \in Nat /\ Cardinality(T) \in Nat
        /\ S \subseteq T => Cardinality(S) <= Cardinality(T)
        /\ \A u : S \ {u} \subseteq T => Cardinality(S) <= Cardinality(T) + 1
    BY AliveCount
  <2>7. completed' + faults' + Cardinality(T) >= ClientTrials
    <3>1. CASE S \subseteq T
      BY <1>t, <2>1, <2>3, <2>4, <2>6, <3>1
    <3>2. CASE /\ completed' + faults' >= completed + faults + 1
               /\ \E u : S \ {u} \subseteq T
      <4>1. Cardinality(S) <= Cardinality(T) + 1
        BY <2>6, <3>2
      <4>2. completed + faults + Cardinality(S) >= ClientTrials
        BY <2>1, <2>4
      <4>3. PICK c \in Nat, f \in Nat, d \in Nat, g \in Nat, m \in Nat, n \in Nat :
               /\ c = completed /\ f = faults /\ d = completed' /\ g = faults'
               /\ m = Cardinality(S) /\ n = Cardinality(T)
        BY <1>t, <2>6
      <4>4. d + g >= c + f + 1 /\ m <= n + 1 /\ c + f + m >= ClientTrials
        BY <3>2, <4>1, <4>2, <4>3
      <4>5. d + g + n >= ClientTrials
        BY <1>t, <4>4
      <4>. QED
        BY <4>3, <4>5
    <3>. QED
      BY <2>3, <2>4, <2>5, <3>1, <3>2
  <2>. QED
    BY <1>3, <2>5, <2>7
<1>. QED
  BY <1>4, <1>5, <1>t

\* The count holds in every state: trials that can still become complete, trials
\* that are, and faults are at least as many as the client runs.
THEOREM CountHolds ==
    ASSUME ClientTrials <= Trials, "idle" \notin FaultKinds
    PROVE  Spec => []CountInv
<1>1. CoreInv /\ UploadInv /\ CountInv /\ CoreInv' /\ [Next]_vars => CountInv'
  BY CountStep
<1>. QED
  BY <1>1, CountInit, CoreHolds, UploadHolds, PTL DEF Spec

\* One fault costs at most one trial: for every number of trials, every START
\* size and every order of lost, duplicated, late and failing steps, a first boot
\* that has come to its end has completed every trial but one for each fault.
\* The collector wants at least as many trials as the client runs and is not made
\* to give up on a client that has more to say.
THEOREM FaultCosts ==
    ASSUME ClientTrials <= Trials, "idle" \notin FaultKinds
    PROVE  Spec => []FaultCostsOneTrial
<1>1. CoreInv /\ CountInv => FaultCostsOneTrial
  <2>. SUFFICES ASSUME CoreInv, CountInv, pc = "done", boot = 1, NothingComing
                PROVE  completed + faults >= ClientTrials
    BY DEF FaultCostsOneTrial
  <2>t. /\ completed \in Nat /\ faults \in Nat /\ ClientTrials \in Nat /\ trial \in Nat
    BY ClientAssumption, FaultAssumption DEF CoreInv, TypeOK, ClientTypeOK, CollectorTypeOK
  <2>1. trial >= ClientTrials
    BY DEF CountInv, Ordered
  <2>2. \A type, t : ~Has(toGateway, t, type)
    <3>1. DOMAIN toGateway = {}
      BY DEF NothingComing
    <3>. QED
      BY <3>1 DEF Has, Of
  <2>3. AliveTrials = {}
    BY <2>1, <2>2, <2>t DEF AliveTrials, Alive, Delivers
  <2>4. Cardinality(AliveTrials) = 0
    BY <2>3, FS_EmptySet
  <2>. QED
    BY <2>4, <2>t DEF CountInv
<1>. QED
  BY <1>1, CountHolds, CoreHolds, PTL

------------------------------------------------------------------------------
(* The restart experiment (AebRestart): what its steps are to board,       *)
(* collector and network.                                                  *)

\* The experiment begins with a board at rest or booting, and a fresh collector.
LEMMA RestartCoreInit == RestartInit => CoreInv /\ CaptureInv
<1>. SUFFICES ASSUME RestartInit
              PROVE  CoreInv /\ CaptureInv
  OBVIOUS
<1>1. CollectorInit /\ NetInit /\ faults = 0
  BY DEF RestartInit
<1>2. CaptureInv
  BY <1>1 DEF CollectorInit, CaptureInv, CaptureWrittenOnce
<1>3. CASE BoardIdle
  <2>1. /\ pc = "done" /\ boot = 1 /\ port \in PortsOf[1] /\ trial = ClientTrials
        /\ resends = 0 /\ start = NoStart /\ loop = 0 /\ packets_seen = 0
        /\ sample_used = 0 /\ after_burst = 0 /\ up = 1
    BY <1>3 DEF RestartInit
  <2>2. PortsOf[1] \subseteq Ports /\ (CHOOSE p \in Ports : TRUE) \in Ports
    <3>1. port \in PortsOf[1] /\ PortsOf[1] \subseteq Ports
      BY <2>1, ClientAssumption
    <3>2. \E p \in Ports : TRUE
      BY <3>1
    <3>. QED
      BY <3>1, <3>2
  <2>3. <<>> \in Seq(Byte)
    OBVIOUS
  <2>4. NoStart \in Msg /\ hello \in Msg
    BY <1>1, <2>2, <2>3, MessageType DEF NoStart, MsgTypes, CollectorInit
  <2>5. ClientTypeOK
    BY <2>1, <2>2, <2>4, ClientAssumption DEF ClientTypeOK, ClientPcs
  <2>6. CollectorTypeOK
    BY <1>1, <2>4 DEF CollectorTypeOK, CollectorInit
  <2>7. TypeOK
    BY <1>1, <2>1, <2>5, <2>6, FaultAssumption DEF TypeOK, NetInit
  <2>8. Requested(NoStart) \in Nat /\ Expected(NoStart) = 0
    BY ClientAssumption DEF NoStart, Message, Requested, Expected
  <2>9. SampleInv
    BY <2>1, <2>8 DEF SampleInv
  <2>. QED
    BY <1>1, <1>2, <2>7, <2>9 DEF CoreInv, CollectorInit
<1>4. CASE ~BoardIdle
  <2>1. Init
    BY <1>1, <1>4 DEF RestartInit, Init
  <2>. QED
    BY <1>2, <2>1, CoreInit
<1>. QED
  BY <1>3, <1>4

\* A step of the experiment is a step of board, collector and network, or only a
\* fault, or it ends the collector's loop.
LEMMA RestartParts ==
    ASSUME [RestartNext]_allVars
    PROVE  \/ [Next]_vars
           \/ UNCHANGED <<clientVars, collectorVars, netVars>> /\ \E kind : Fault(kind)
           \/ StopCollector
<1>1. CASE SystemStep
  <2>1. CASE ClientStep /\ boot' = boot
    BY <2>1 DEF Next
  <2>2. CASE IdleTimeout /\ Fault("idle") /\ UNCHANGED clientVars
    BY <2>2 DEF Next, CollectorIdle
  <2>. QED
    BY <1>1, <2>1, <2>2 DEF SystemStep, Next
<1>2. CASE PulseEn
  BY <1>2 DEF PulseEn, Next, ClientStep
<1>3. CASE StartLoop \/ ReadRows \/ LookAgain \/ RecordCapture \/ RecordTimeout \/ LeaveLoop
             \/ Finish \/ Abort \/ CollectorExits
  BY <1>3 DEF StartLoop, ReadRows, LookAgain, RecordCapture, RecordTimeout, LeaveLoop,
              Finish, Abort, CollectorExits
<1>4. CASE RunnerError
  BY <1>4 DEF RunnerError
<1>5. CASE DeadlinePasses
  BY <1>5 DEF DeadlinePasses, vars
<1>6. CASE UNCHANGED allVars
  BY <1>6 DEF allVars
<1>. QED
  BY <1>1, <1>2, <1>3, <1>4, <1>5, <1>6 DEF RestartNext, RunnerStep

\* Every step keeps the types, the bounds of the buffers and the captures.
LEMMA RestartCoreStep ==
    CoreInv /\ CaptureInv /\ [RestartNext]_allVars => CoreInv' /\ CaptureInv'
<1>. SUFFICES ASSUME CoreInv, CaptureInv, [RestartNext]_allVars
              PROVE  CoreInv' /\ CaptureInv'
  OBVIOUS
<1>s. ASSUME UNCHANGED <<clientVars, netVars>>
      PROVE  UploadStream' = UploadStream
  BY <1>s DEF clientVars, UploadStream, RawBuf, JitterUs, Upload
<1>1. CASE [Next]_vars
  BY <1>1, CoreStep, CaptureStep
<1>2. CASE UNCHANGED <<clientVars, collectorVars, netVars>> /\ \E kind : Fault(kind)
  <2>1. faults' \in 0..MaxFaults
    BY <1>2, FaultAssumption DEF Fault, CoreInv, TypeOK
  <2>2. TypeOK'
    BY <1>2, <1>s, <2>1
       DEF CoreInv, TypeOK, ClientTypeOK, CollectorTypeOK, clientVars, collectorVars, netVars
  <2>3. SampleInv' /\ (kpc = "stim" => captures > 0)'
    BY <1>2 DEF CoreInv, SampleInv, clientVars, collectorVars
  <2>4. CaptureInv'
    BY <1>2 DEF CaptureInv, CaptureWrittenOnce, Opened, collectorVars
  <2>. QED
    BY <2>2, <2>3, <2>4 DEF CoreInv
<1>3. CASE StopCollector
  <2>1. /\ kpc' = "stopped"
        /\ UNCHANGED <<clientVars, netVars, faults, hello, sent, states, completed, captures,
                       rows>>
    BY <1>3 DEF StopCollector
  <2>2. TypeOK'
    BY <1>s, <2>1
       DEF CoreInv, TypeOK, ClientTypeOK, CollectorTypeOK, clientVars, netVars
  <2>3. SampleInv' /\ (kpc = "stim" => captures > 0)'
    BY <2>1 DEF CoreInv, SampleInv, clientVars
  <2>4. Opened' = captures /\ Opened <= captures /\ captures \in Nat /\ Opened \in Int
    BY <2>1 DEF Opened, CoreInv, TypeOK, CollectorTypeOK
  <2>5. /\ \A k \in DOMAIN states : states[k].capture \in Nat
        /\ \A i \in DOMAIN rows : rows[i].capture \in Nat
    BY DEF CoreInv, TypeOK, CollectorTypeOK, IsTrialState, CaptureInv
  <2>6. CaptureInv'
    BY <2>1, <2>4, <2>5 DEF CaptureInv, CaptureWrittenOnce
  <2>. QED
    BY <2>2, <2>3, <2>6 DEF CoreInv
<1>. QED
  BY <1>1, <1>2, <1>3, RestartParts

------------------------------------------------------------------------------
(* The rows of the collector. *)

\* A complete row goes on counting, and the collector stops when it has enough.
LEMMA RowsStep ==
    ASSUME CoreInv, [RestartNext]_allVars
    PROVE  \/ /\ rows' = rows /\ completed' = completed
              /\ kpc = "stopped" => kpc' = "stopped"
           \/ \E r : /\ kpc = "recv" /\ rows' = Append(rows, r)
                     /\ completed' = IF r.complete THEN completed + 1 ELSE completed
                     /\ kpc' = IF completed' < Trials THEN "recv" ELSE "stopped"
<1>. USE DEF CoreInv
<1>1. CASE [Next]_vars
  <2>1. CASE NetworkFault \/ UNCHANGED collectorVars \/ UNCHANGED vars
    BY <2>1 DEF NetworkFault, collectorVars, vars
  <2>2. CASE RecvHello \/ SendBurst \/ StimulusDone \/ IdleTimeout
    BY <2>2 DEF RecvHello, CollectorReceives, SendBurst, StimulusDone, IdleTimeout
  <2>3. CASE RecvUnknown \/ DiscardStopped
    BY <2>3 DEF RecvUnknown, DiscardStopped, collectorVars
  <2>4. CASE RecvResult \/ RecvBegin \/ RecvChunk \/ RecvJitter
    BY <2>4 DEF RecvResult, RecvBegin, RecvChunk, RecvJitter, RecvFor
  <2>5. CASE RecvEnd
    <3>. DEFINE r == Finalized(Ended(states[Key(Head(toGateway))], Head(toGateway)))
    <3>1. /\ kpc = "recv" /\ rows' = Append(rows, r)
          /\ completed' = IF r.complete THEN completed + 1 ELSE completed
          /\ kpc' = IF completed' < Trials THEN "recv" ELSE "stopped"
      BY <2>5 DEF RecvEnd, CollectorReceives
    <3>. HIDE DEF r
    <3>. QED
      BY <3>1
  <2>. QED
    BY <1>1, <2>1, <2>2, <2>3, <2>4, <2>5, StepCases
<1>2. CASE UNCHANGED <<clientVars, collectorVars, netVars>>
  BY <1>2 DEF collectorVars
<1>3. CASE StopCollector
  BY <1>3 DEF StopCollector
<1>. QED
  BY <1>1, <1>2, <1>3, RestartParts

\* What a complete row adds to the complete rows, and any row to them.
LEMMA CompleteAppend ==
    ASSUME TypeOK, NEW r, rows' = Append(rows, r)
    PROVE  /\ DOMAIN rows = 1..Len(rows) /\ Len(rows) \in Nat
           /\ DOMAIN rows' = 1..(Len(rows) + 1)
           /\ \A i \in DOMAIN rows : rows'[i] = rows[i]
           /\ rows'[Len(rows) + 1] = r
           /\ CompleteRows' = IF r.complete THEN CompleteRows \cup {Len(rows) + 1}
                              ELSE CompleteRows
<1>1. /\ DOMAIN rows = 1..Len(rows) /\ Len(rows) \in Nat
      /\ DOMAIN rows' = 1..(Len(rows) + 1)
      /\ \A i \in DOMAIN rows : rows'[i] = rows[i]
      /\ rows'[Len(rows) + 1] = r
  BY AppendIsSeq DEF TypeOK, CollectorTypeOK
<1>2. CompleteRows' = {i \in DOMAIN rows' : rows'[i].complete}
  BY DEF CompleteRows
<1>3. \A i \in DOMAIN rows' : i \in DOMAIN rows \/ i = Len(rows) + 1
  BY <1>1
<1>4. CASE r.complete
  BY <1>1, <1>2, <1>3, <1>4 DEF CompleteRows
<1>5. CASE ~r.complete
  BY <1>1, <1>2, <1>3, <1>5 DEF CompleteRows
<1>. QED
  BY <1>1, <1>4, <1>5

\* The first of the complete rows, in the order of the file.
InitialPart(A) ==
    /\ A \subseteq CompleteRows
    /\ \A i \in A, j \in CompleteRows \ A : i < j

\* There are finitely many.
LEMMA InitialFinite ==
    ASSUME TypeOK, NEW A \in SUBSET CompleteRows
    PROVE  /\ IsFiniteSet(A) /\ Cardinality(A) \in Nat /\ A \subseteq Nat
           /\ \A i \in A : i \in DOMAIN rows /\ i <= Len(rows)
           /\ Len(rows) \in Nat
<1>1. DOMAIN rows = 1..Len(rows) /\ Len(rows) \in Nat
  BY DEF TypeOK, CollectorTypeOK
<1>2. A \subseteq 1..Len(rows) /\ IsFiniteSet(1..Len(rows))
  BY <1>1, FS_Interval DEF CompleteRows
<1>3. IsFiniteSet(A) /\ Cardinality(A) \in Nat
  BY <1>2, FS_Subset, FS_CardinalityType
<1>4. \A i \in A : i \in Nat /\ i \in DOMAIN rows /\ i <= Len(rows)
  BY <1>1, <1>2
<1>. QED
  BY <1>1, <1>3, <1>4

\* A part stays initial when the file grows.
LEMMA InitialKept ==
    ASSUME CoreInv, [RestartNext]_allVars, NEW A, InitialPart(A)
    PROVE  /\ A \subseteq CompleteRows' /\ \A i \in A, j \in CompleteRows' \ A : i < j
           /\ \A i \in DOMAIN rows : i \in DOMAIN rows' /\ rows'[i] = rows[i]
<1>t. TypeOK
  BY DEF CoreInv
<1>1. CASE rows' = rows
  BY <1>1 DEF InitialPart, CompleteRows
<1>2. ASSUME NEW r, rows' = Append(rows, r)
      PROVE  /\ A \subseteq CompleteRows' /\ \A i \in A, j \in CompleteRows' \ A : i < j
             /\ \A i \in DOMAIN rows : i \in DOMAIN rows' /\ rows'[i] = rows[i]
  <2>1. /\ DOMAIN rows = 1..Len(rows) /\ Len(rows) \in Nat
        /\ DOMAIN rows' = 1..(Len(rows) + 1)
        /\ \A i \in DOMAIN rows : rows'[i] = rows[i]
        /\ CompleteRows' = IF r.complete THEN CompleteRows \cup {Len(rows) + 1}
                           ELSE CompleteRows
    BY <1>t, <1>2, CompleteAppend
  <2>2. \A i \in A : i \in Nat /\ i <= Len(rows)
    BY <1>t, InitialFinite DEF InitialPart
  <2>3. \A i \in A : i < Len(rows) + 1
    BY <2>1, <2>2
  <2>. QED
    BY <2>1, <2>3 DEF InitialPart
<1>. QED
  BY <1>1, <1>2, RowsStep

\* Of two initial parts the larger one ends later.
LEMMA LargerEndsLater ==
    ASSUME TypeOK, NEW A, NEW B, InitialPart(A), InitialPart(B), Cardinality(A) > Cardinality(B)
    PROVE  /\ Max(A) \in A /\ Max(A) \notin B
           /\ rows[Max(A)].complete /\ Max(A) \in DOMAIN rows
<1>1. /\ IsFiniteSet(A) /\ A \subseteq Nat /\ Cardinality(A) \in Nat
      /\ IsFiniteSet(B) /\ B \subseteq Nat /\ Cardinality(B) \in Nat
      /\ \A i \in A : i <= Len(rows) /\ Len(rows) \in Nat
  BY InitialFinite DEF InitialPart
<1>2. PICK x \in A : x \notin B
  <2>1. ASSUME A \in SUBSET B
        PROVE  FALSE
    <3>1. Cardinality(A) <= Cardinality(B)
      BY <1>1, <2>1, FS_Subset
    <3>. QED
      BY <1>1, <3>1
  <2>. QED
    BY <2>1
<1>3. Max(A) \in A /\ \A y \in A : y <= Max(A)
  BY <1>1, <1>2, MaxOfBounded
<1>4. Max(A) \notin B
  <2>. SUFFICES ASSUME Max(A) \in B
                PROVE  FALSE
    OBVIOUS
  <2>1. x \in CompleteRows \ B
    BY <1>2 DEF InitialPart
  <2>2. Max(A) < x /\ x <= Max(A) /\ x \in Nat /\ Max(A) \in Nat
    BY <1>1, <1>2, <1>3, <2>1 DEF InitialPart
  <2>. QED
    BY <2>2
<1>. QED
  BY <1>3, <1>4 DEF InitialPart, CompleteRows

------------------------------------------------------------------------------
(* The reports of the runner. *)

\* completed counts the complete rows, and the collector goes on until it has
\* enough of them; its process ends after its loop.
CompletedInv ==
    /\ Cardinality(CompleteRows) = completed
    /\ completed <= Trials
    /\ kpc # "stopped" => completed < Trials
    /\ exited => kpc = "stopped"

\* Nothing is complete when the experiment begins.
LEMMA CompletedInit == RestartInit => CompletedInv
<1>. SUFFICES ASSUME RestartInit
              PROVE  CompletedInv
  OBVIOUS
<1>1. /\ rows = <<>> /\ completed = 0 /\ kpc = (IF Trials = 0 THEN "stopped" ELSE "recv")
      /\ exited = FALSE
  BY DEF RestartInit, CollectorInit
<1>2. CompleteRows = {} /\ Cardinality({}) = 0
  BY <1>1, FS_EmptySet DEF CompleteRows
<1>3. 0 <= Trials /\ (Trials # 0 => 0 < Trials)
  BY CollectorAssumption
<1>. QED
  BY <1>1, <1>2, <1>3 DEF CompletedInv

\* A complete row is counted once, the last one stops the collector, and nothing
\* starts it again.
LEMMA CompletedStep == CoreInv /\ CompletedInv /\ [RestartNext]_allVars => CompletedInv'
<1>. SUFFICES ASSUME CoreInv, CompletedInv, [RestartNext]_allVars
              PROVE  CompletedInv'
  OBVIOUS
<1>t. TypeOK /\ completed \in Nat /\ Trials \in Nat
  BY CollectorAssumption DEF CoreInv, TypeOK, CollectorTypeOK
<1>1. exited' => kpc' = "stopped"
  <2>1. kpc = "stopped" => kpc' = "stopped"
    BY RowsStep
  <2>2. exited' = exited \/ kpc' = "stopped"
    BY DEF RestartNext, RunnerStep, SystemStep, runnerVars, allVars, StartLoop, PulseEn, ReadRows,
           LookAgain, RecordCapture, RecordTimeout, LeaveLoop, Finish, Abort, StopCollector,
           RunnerError, DeadlinePasses, CollectorExits, vars, collectorVars
  <2>. QED
    BY <2>1, <2>2 DEF CompletedInv
<1>2. CASE rows' = rows /\ completed' = completed /\ (kpc = "stopped" => kpc' = "stopped")
  BY <1>1, <1>2 DEF CompletedInv, CompleteRows
<1>3. ASSUME NEW r, kpc = "recv", rows' = Append(rows, r),
             completed' = (IF r.complete THEN completed + 1 ELSE completed),
             kpc' = (IF completed' < Trials THEN "recv" ELSE "stopped")
      PROVE  CompletedInv'
  <2>1. /\ CompleteRows' = IF r.complete THEN CompleteRows \cup {Len(rows) + 1} ELSE CompleteRows
        /\ DOMAIN rows = 1..Len(rows) /\ Len(rows) \in Nat
    BY <1>3, <1>t, CompleteAppend
  <2>2. IsFiniteSet(CompleteRows) /\ Len(rows) + 1 \notin CompleteRows
    BY <1>t, <2>1, InitialFinite DEF CompleteRows
  <2>3. Cardinality(CompleteRows \cup {Len(rows) + 1}) = completed + 1
    BY <2>2, FS_AddElement DEF CompletedInv
  <2>4. Cardinality(CompleteRows') = completed'
    BY <1>3, <2>1, <2>3 DEF CompletedInv
  <2>5. completed < Trials
    BY <1>3 DEF CompletedInv
  <2>6. completed' <= Trials /\ (kpc' # "stopped" => completed' < Trials)
    BY <1>3, <1>t, <2>5
  <2>. QED
    BY <1>1, <2>4, <2>6 DEF CompletedInv
<1>. QED
  BY <1>2, <1>3, RowsStep

\* A line of restart_trials.csv.
LogLine == [attempt : Nat, outcome : {"complete", "timeout"}, capture : Int]

\* The places of the rows the runner has counted are the first of the complete
\* ones, and every capture in its log is one of theirs.
Counted(D) ==
    /\ InitialPart(D)
    /\ Cardinality(D) = done
    /\ \A i \in DOMAIN log :
          log[i].outcome = "complete" => \E k \in D : log[i].capture = rows[k].capture

\* What the runner has written, place by place.
ReportInv ==
    /\ attempts \in Nat /\ done \in Nat
    /\ log \in Seq(LogLine)
    /\ \A i \in DOMAIN log : log[i].outcome = "timeout" => log[i].capture = None
    /\ rpc \in {"start", "top", "read", "check", "finish", "stopping", "ended"}
    /\ rpc \in {"start", "top", "read", "check", "finish"} => phase = "running"
    /\ rpc = "stopping" => phase = "failed"
    /\ rpc = "ended" => phase \in {"failed", "complete"}
    /\ rpc = "start" => attempts = 0 /\ log = <<>>
    /\ rpc \in {"read", "check"} => attempts > 0
    /\ rpc = "finish" => done = Trials
    /\ phase = "complete" => exited /\ completed = Trials
    /\ InitialPart(seen)
    /\ \E D : Counted(D)
    /\ OneLinePerReset

\* Nothing is written when the experiment begins.
LEMMA ReportInit == RestartInit => ReportInv
<1>. SUFFICES ASSUME RestartInit
              PROVE  ReportInv
  OBVIOUS
<1>1. /\ rpc = "start" /\ attempts = 0 /\ done = 0 /\ seen = {} /\ log = <<>>
      /\ phase = "running"
  BY DEF RestartInit
<1>2. log \in Seq(LogLine) /\ DOMAIN log = {} /\ Len(log) = 0
  BY <1>1
<1>3. Counted({})
  BY <1>1, <1>2, FS_EmptySet DEF Counted, InitialPart
<1>. QED
  BY <1>1, <1>2, <1>3 DEF ReportInv, InitialPart, OneLinePerReset

\* A line more at the end of the log.
LEMMA LogAppend ==
    ASSUME NEW s \in Seq(LogLine), NEW x \in LogLine
    PROVE  /\ Append(s, x) \in Seq(LogLine)
           /\ Len(s) \in Nat /\ Len(Append(s, x)) = Len(s) + 1
           /\ DOMAIN s = 1..Len(s) /\ DOMAIN Append(s, x) = 1..(Len(s) + 1)
           /\ \A i \in 1..Len(s) : Append(s, x)[i] = s[i]
           /\ Append(s, x)[Len(s) + 1] = x
           /\ \A i \in 1..(Len(s) + 1) : i \in 1..Len(s) \/ i = Len(s) + 1
OBVIOUS

\* Every step keeps what is written true: the runner writes one line for each
\* pulse, and gives it a row that no earlier line was given.
LEMMA ReportStep ==
    CoreInv /\ CaptureInv /\ CompletedInv /\ ReportInv /\ [RestartNext]_allVars => ReportInv'
<1>. SUFFICES ASSUME CoreInv, CaptureInv, CompletedInv, ReportInv, [RestartNext]_allVars
              PROVE  ReportInv'
  OBVIOUS
<1>t. /\ TypeOK /\ completed \in Nat /\ Trials \in Nat /\ attempts \in Nat /\ done \in Nat
      /\ log \in Seq(LogLine)
  BY CollectorAssumption DEF CoreInv, TypeOK, CollectorTypeOK, ReportInv
<1>g. ASSUME NEW A, InitialPart(A)
      PROVE  InitialPart(A)'
  BY <1>g, InitialKept DEF InitialPart
<1>d. PICK D : Counted(D)
  BY DEF ReportInv
<1>r. \A i \in DOMAIN rows : i \in DOMAIN rows' /\ rows'[i] = rows[i] /\ rows[i].capture \in Nat
  <2>1. InitialPart({})
    BY DEF InitialPart
  <2>. QED
    BY <2>1, InitialKept DEF CaptureInv
<1>e. \A k \in D : k \in DOMAIN rows
  BY <1>d DEF Counted, InitialPart, CompleteRows
<1>c. phase = "complete" /\ phase' = phase => exited' /\ completed' = Trials
  <2>2. phase = "complete" => exited /\ kpc = "stopped" /\ completed = Trials
    BY DEF ReportInv, CompletedInv
  <2>3. kpc = "stopped" => completed' = completed
    BY RowsStep
  <2>4. exited' = exited \/ exited' = TRUE
    BY DEF RestartNext, RunnerStep, SystemStep, runnerVars, allVars, StartLoop, PulseEn, ReadRows,
           LookAgain, RecordCapture, RecordTimeout, LeaveLoop, Finish, Abort, StopCollector,
           RunnerError, DeadlinePasses, CollectorExits
  <2>. QED
    BY <2>2, <2>3, <2>4
<1>l. ASSUME UNCHANGED <<log, done>>
      PROVE  (\E E : Counted(E))'
  <2>1. InitialPart(D)'
    BY <1>d, <1>g DEF Counted
  <2>2. \A i \in DOMAIN log : log[i].outcome = "complete" =>
            \E k \in D : log[i].capture = rows'[k].capture
    BY <1>d, <1>e, <1>r DEF Counted
  <2>3. Counted(D)'
    BY <1>d, <1>l, <2>1, <2>2 DEF Counted
  <2>. QED
    BY <2>3
<1>s. InitialPart(seen) /\ InitialPart(seen)'
  <2>1. InitialPart(seen)
    BY DEF ReportInv
  <2>2. seen' = seen \/ seen' = CompleteRows
    BY DEF RestartNext, RunnerStep, SystemStep, runnerVars, allVars, StartLoop, PulseEn, ReadRows,
           LookAgain, RecordCapture, RecordTimeout, LeaveLoop, Finish, Abort, StopCollector,
           RunnerError, DeadlinePasses, CollectorExits
  <2>3. InitialPart(CompleteRows)
    BY DEF InitialPart
  <2>4. ASSUME NEW A, InitialPart(A), seen' = A
        PROVE  InitialPart(seen)'
    <3>1. A \subseteq CompleteRows' /\ \A i \in A, j \in CompleteRows' \ A : i < j
      BY <2>4, InitialKept
    <3>. QED
      BY <2>4, <3>1 DEF InitialPart
  <2>. QED
    BY <2>1, <2>2, <2>3, <2>4
<1>1. CASE UNCHANGED <<rpc, attempts, done, log, phase>>
  BY <1>1, <1>c, <1>l, <1>s DEF ReportInv, OneLinePerReset
<1>2. CASE StartLoop
  <2>1. /\ rpc = "start" /\ rpc' = "top" /\ done' = Cardinality(CompleteRows)
        /\ UNCHANGED <<attempts, log, phase, rows>> /\ log = <<>> /\ attempts = 0
    BY <1>2 DEF StartLoop, ReportInv, vars, collectorVars
  <2>2. InitialPart(CompleteRows)
    BY DEF InitialPart
  <2>3. CompleteRows' = CompleteRows
    BY <2>1 DEF CompleteRows
  <2>4. Counted(CompleteRows)'
    BY <2>1, <2>2, <2>3 DEF Counted, InitialPart
  <2>5. done' \in Nat
    BY <2>1, <1>t DEF CompletedInv
  <2>6. (\E E : Counted(E))'
    BY <2>4
  <2>7. phase = "running" /\ phase' = phase
    BY <2>1 DEF ReportInv
  <2>. QED
    BY <2>1, <2>5, <2>6, <2>7, <1>s, <1>t DEF ReportInv, OneLinePerReset
<1>3. CASE PulseEn
  <2>1. /\ rpc = "top" /\ rpc' = "read" /\ attempts' = attempts + 1
        /\ UNCHANGED <<done, log, phase>>
    BY <1>3 DEF PulseEn
  <2>2. phase = "running" /\ Len(log) = attempts
    BY <2>1 DEF ReportInv, OneLinePerReset
  <2>3. OneLinePerReset'
    BY <2>1, <2>2, <1>t DEF ReportInv, OneLinePerReset
  <2>. QED
    BY <2>1, <2>2, <2>3, <1>l, <1>s, <1>t DEF ReportInv
<1>4. CASE ReadRows
  BY <1>4, <1>c, <1>l, <1>s DEF ReadRows, ReportInv, OneLinePerReset
<1>5. CASE LookAgain
  BY <1>5, <1>c, <1>l, <1>s DEF LookAgain, ReportInv, OneLinePerReset
<1>6. CASE RecordCapture
  <2>. DEFINE x == [attempt |-> attempts, outcome |-> "complete",
                    capture |-> rows[Max(seen)].capture]
  <2>1. /\ rpc = "check" /\ rpc' = "top" /\ Cardinality(seen) > done
        /\ done' = Cardinality(seen) /\ log' = Append(log, x)
        /\ UNCHANGED <<attempts, seen, phase, rows>>
    BY <1>6 DEF RecordCapture, vars, collectorVars
  <2>2. /\ Max(seen) \in seen /\ Max(seen) \notin D /\ Max(seen) \in DOMAIN rows
    BY <1>t, <1>d, <1>s, <2>1, LargerEndsLater DEF Counted
  <2>3. x \in LogLine
    BY <1>r, <1>t, <2>2 DEF LogLine
  <2>4. phase = "running" /\ Len(log) = attempts - 1 /\ attempts > 0
    BY <2>1 DEF ReportInv, OneLinePerReset
  <2>5. x.capture = rows[Max(seen)].capture /\ x.outcome = "complete" /\ x.attempt = attempts
        /\ x.capture \in Nat
    BY <1>r, <2>2
  <2>. HIDE DEF x
  <2>6. /\ log' \in Seq(LogLine) /\ Len(log') = attempts
        /\ DOMAIN log = 1..Len(log) /\ DOMAIN log' = 1..(Len(log) + 1)
        /\ \A i \in 1..Len(log) : log'[i] = log[i]
        /\ log'[Len(log) + 1] = x
        /\ \A i \in 1..(Len(log) + 1) : i \in 1..Len(log) \/ i = Len(log) + 1
    BY <1>t, <2>1, <2>3, <2>4, LogAppend
  <2>7. \A i \in 1..Len(log) : log[i].capture # x.capture
    <3>. SUFFICES ASSUME NEW i \in 1..Len(log), log[i].capture = x.capture
                  PROVE  FALSE
      OBVIOUS
    <3>1. log[i] \in LogLine
      BY <1>t
    <3>2. CASE log[i].outcome = "timeout"
      BY <2>5, <2>6, <3>2 DEF ReportInv, None
    <3>3. CASE log[i].outcome = "complete"
      <4>1. PICK k \in D : log[i].capture = rows[k].capture
        BY <1>d, <2>6, <3>3 DEF Counted
      <4>2. k = Max(seen)
        BY <1>e, <2>2, <2>5, <4>1 DEF CaptureInv, CaptureWrittenOnce
      <4>. QED
        BY <2>2, <4>2
    <3>. QED
      BY <3>1, <3>2, <3>3 DEF LogLine
  <2>8. D \subseteq seen
    <3>. SUFFICES ASSUME NEW k \in D, k \notin seen
                  PROVE  FALSE
      OBVIOUS
    <3>1. Max(seen) < k /\ k < Max(seen)
      BY <1>d, <1>s, <2>2 DEF Counted, InitialPart
    <3>2. k \in Nat /\ Max(seen) \in Nat
      BY <1>t, <1>e, <2>2 DEF TypeOK, CollectorTypeOK
    <3>. QED
      BY <3>1, <3>2
  <2>9. Counted(seen)'
    <3>1. \A i \in DOMAIN log' : log'[i].outcome = "complete" =>
              \E k \in seen : log'[i].capture = rows[k].capture
      <4>1. ASSUME NEW i \in 1..Len(log), log[i].outcome = "complete"
            PROVE  \E k \in seen : log[i].capture = rows[k].capture
        BY <1>d, <2>6, <2>8, <4>1 DEF Counted
      <4>. QED
        BY <2>2, <2>5, <2>6, <4>1
    <3>2. Cardinality(seen)' = done'
      BY <2>1
    <3>. QED
      BY <1>s, <2>1, <3>1, <3>2 DEF Counted
  <2>10. OneLinePerReset'
    <3>1. \A i \in DOMAIN log' : log'[i].attempt = i
      BY <2>4, <2>5, <2>6, <1>t DEF ReportInv, OneLinePerReset
    <3>2. \A i, j \in DOMAIN log' :
             log'[i].outcome = "complete" /\ log'[i].capture = log'[j].capture => i = j
      <4>. SUFFICES ASSUME NEW i \in DOMAIN log', NEW j \in DOMAIN log',
                           log'[i].outcome = "complete", log'[i].capture = log'[j].capture
                    PROVE  i = j
        OBVIOUS
      <4>1. CASE i \in 1..Len(log) /\ j \in 1..Len(log)
        <5>1. log'[i] = log[i] /\ log'[j] = log[j] /\ i \in DOMAIN log /\ j \in DOMAIN log
          BY <2>6, <4>1
        <5>2. log[i].outcome = "complete" /\ log[i].capture = log[j].capture
          BY <5>1
        <5>3. \A a, b \in DOMAIN log :
                 log[a].outcome = "complete" /\ log[a].capture = log[b].capture => a = b
          BY DEF ReportInv, OneLinePerReset
        <5>. QED
          BY <5>1, <5>2, <5>3
      <4>2. CASE i = Len(log) + 1 \/ j = Len(log) + 1
        BY <2>6, <2>7, <4>2
      <4>. QED
        BY <2>6, <4>1, <4>2
    <3>. QED
      BY <2>1, <2>6, <3>1, <3>2 DEF OneLinePerReset
  <2>11. \A i \in DOMAIN log' : log'[i].outcome = "timeout" => log'[i].capture = None
    BY <2>5, <2>6 DEF ReportInv
  <2>12. done' \in Nat
    BY <1>t, <1>s, <2>1, InitialFinite DEF InitialPart
  <2>13. (\E E : Counted(E))'
    BY <2>9
  <2>. QED
    BY <1>s, <1>t, <2>1, <2>4, <2>6, <2>10, <2>11, <2>12, <2>13 DEF ReportInv
<1>7. CASE RecordTimeout
  <2>. DEFINE x == [attempt |-> attempts, outcome |-> "timeout", capture |-> None]
  <2>1. /\ rpc = "check" /\ rpc' = "top" /\ log' = Append(log, x)
        /\ UNCHANGED <<attempts, done, seen, phase, rows>>
    BY <1>7 DEF RecordTimeout, vars, collectorVars
  <2>2. x \in LogLine /\ x.capture = None /\ x.outcome = "timeout" /\ x.attempt = attempts
    BY <1>t DEF LogLine, None
  <2>3. phase = "running" /\ Len(log) = attempts - 1 /\ attempts > 0
    BY <2>1 DEF ReportInv, OneLinePerReset
  <2>. HIDE DEF x
  <2>4. /\ log' \in Seq(LogLine) /\ Len(log') = attempts
        /\ DOMAIN log = 1..Len(log) /\ DOMAIN log' = 1..(Len(log) + 1)
        /\ \A i \in 1..Len(log) : log'[i] = log[i]
        /\ log'[Len(log) + 1] = x
        /\ \A i \in 1..(Len(log) + 1) : i \in 1..Len(log) \/ i = Len(log) + 1
    BY <1>t, <2>1, <2>2, <2>3, LogAppend
  <2>5. \A i \in 1..Len(log) : log[i].outcome = "complete" => log[i].capture \in Nat
    BY <1>d, <1>e, <1>r, <2>4 DEF Counted
  <2>6. OneLinePerReset'
    <3>1. \A i \in DOMAIN log' : log'[i].attempt = i
      BY <2>2, <2>3, <2>4, <1>t DEF ReportInv, OneLinePerReset
    <3>2. \A i, j \in DOMAIN log' :
             log'[i].outcome = "complete" /\ log'[i].capture = log'[j].capture => i = j
      <4>. SUFFICES ASSUME NEW i \in DOMAIN log', NEW j \in DOMAIN log',
                           log'[i].outcome = "complete", log'[i].capture = log'[j].capture
                    PROVE  i = j
        OBVIOUS
      <4>1. i \in 1..Len(log)
        BY <2>2, <2>4
      <4>2. log[i].outcome = "complete" /\ log'[i] = log[i]
        BY <2>4, <4>1
      <4>3. log[i].capture # x.capture
        BY <2>2, <2>5, <4>1, <4>2 DEF None
      <4>4. j \in 1..Len(log) /\ log'[j] = log[j]
        BY <2>4, <4>2, <4>3
      <4>. QED
        BY <2>4, <4>1, <4>2, <4>4 DEF ReportInv, OneLinePerReset
    <3>. QED
      BY <2>1, <2>4, <3>1, <3>2 DEF OneLinePerReset
  <2>7. Counted(D)'
    <3>1. \A i \in DOMAIN log' : log'[i].outcome = "complete" =>
              \E k \in D : log'[i].capture = rows[k].capture
      BY <1>d, <2>2, <2>4 DEF Counted
    <3>2. InitialPart(D)'
      BY <1>d, <1>g DEF Counted
    <3>. QED
      BY <1>d, <2>1, <3>1, <3>2 DEF Counted
  <2>8. \A i \in DOMAIN log' : log'[i].outcome = "timeout" => log'[i].capture = None
    BY <2>2, <2>4 DEF ReportInv
  <2>9. (\E E : Counted(E))'
    BY <2>7
  <2>. QED
    BY <1>s, <1>t, <2>1, <2>3, <2>4, <2>6, <2>8, <2>9 DEF ReportInv
<1>8. CASE LeaveLoop
  BY <1>8, <1>c, <1>l, <1>s DEF LeaveLoop, ReportInv, OneLinePerReset
<1>9. CASE Finish
  <2>1. /\ rpc = "finish" /\ rpc' = "ended" /\ exited /\ phase' = "complete" /\ exited' = exited
        /\ UNCHANGED <<attempts, done, seen, log, completed>>
    BY <1>9 DEF Finish, vars, collectorVars
  <2>2. completed = Trials
    <3>1. done <= completed
      <4>1. /\ D \in SUBSET CompleteRows /\ IsFiniteSet(CompleteRows)
            /\ Cardinality(D) = done /\ Cardinality(CompleteRows) = completed
        BY <1>d, <1>t, InitialFinite DEF Counted, InitialPart, CompletedInv
      <4>. QED
        BY <4>1, FS_Subset
    <3>2. done = Trials /\ completed <= Trials
      BY <2>1 DEF ReportInv, CompletedInv
    <3>. QED
      BY <1>t, <3>1, <3>2
  <2>3. phase = "running"
    BY <2>1 DEF ReportInv
  <2>. QED
    BY <1>l, <1>s, <2>1, <2>2, <2>3 DEF ReportInv, OneLinePerReset
<1>10. CASE Abort
  <2>1. /\ rpc' = "stopping" /\ phase' = "failed" /\ UNCHANGED <<attempts, done, seen, log>>
    BY <1>10 DEF Abort
  <2>. QED
    BY <1>l, <1>s, <2>1 DEF ReportInv, OneLinePerReset
<1>11. CASE RunnerError
  <2>1. /\ rpc' = "stopping" /\ phase' = "failed" /\ UNCHANGED <<done, seen, log>>
        /\ attempts' \in {attempts, attempts + 1}
    BY <1>11 DEF RunnerError
  <2>. QED
    BY <1>l, <1>s, <1>t, <2>1 DEF ReportInv, OneLinePerReset
<1>12. CASE StopCollector
  <2>1. /\ rpc = "stopping" /\ rpc' = "ended" /\ UNCHANGED <<attempts, done, seen, log, phase>>
    BY <1>12 DEF StopCollector
  <2>2. phase = "failed"
    BY <2>1 DEF ReportInv
  <2>. QED
    BY <1>l, <1>s, <2>1, <2>2 DEF ReportInv, OneLinePerReset
<1>13. CASE SystemStep \/ DeadlinePasses \/ CollectorExits \/ UNCHANGED allVars
  BY <1>13, <1>1 DEF SystemStep, DeadlinePasses, CollectorExits, allVars, runnerVars
<1>. QED
  BY <1>2, <1>3, <1>4, <1>5, <1>6, <1>7, <1>8, <1>9, <1>10, <1>11, <1>12, <1>13
     DEF RestartNext, RunnerStep

\* For any number of resets and any faults, also late datagrams: every pulse of EN
\* has its line in restart_trials.csv before the next one, no capture is given to
\* two resets, and "complete" is reported only when the collector has ended with
\* exactly the wanted number of complete rows.
THEOREM RunnerReports == RestartSpec => []ReportsAreWhole
<1>1. CompletedInv /\ ReportInv => ReportsAreWhole
  BY DEF CompletedInv, ReportInv, ReportsAreWhole, CompleteIsComplete
<1>. QED
  BY <1>1, RestartCoreInit, CompletedInit, ReportInit, RestartCoreStep, CompletedStep, ReportStep, PTL
     DEF RestartSpec

------------------------------------------------------------------------------
(* Resets and captures, without late or doubled datagrams. *)

\* The bytes of a boot.
BytesOf(b) == {b} \X Nat \X Nat

\* The board has nothing more to send in this boot, and the collector nothing to
\* read or to answer.
Resting ==
    /\ pc \in {"gap", "done", "fatal"}
    /\ toGateway = <<>>
    /\ kpc # "stim"

\* The TrialState of the board's key holds no chunk of an earlier boot, or will be
\* replaced before the next datagram is read.
Fresh ==
    \/ kpc \in {"stim", "stopped"}
    \/ <<port, 0>> \notin DOMAIN states
    \/ \A n \in DOMAIN states[<<port, 0>>].rawChunks :
          states[<<port, 0>>].rawChunks[n] \in Seq(BytesOf(boot))

\* A START is on its way.
StartComing == \E i \in DOMAIN toDevice : toDevice[i].type = "START"

\* What is on its way to the collector is of this boot, and RAW_END is the last of it.
FromThisBoot ==
    \A i \in DOMAIN toGateway :
        /\ Key(toGateway[i]) = <<port, 0>>
        /\ toGateway[i].type = "RAW_CHUNK" => toGateway[i].payload \in Seq(BytesOf(boot))
        /\ toGateway[i].type = "RAW_END" => i = Len(toGateway) /\ pc \in {"gap", "done"}
        /\ toGateway[i].type # "HELLO" => Fresh

\* Nothing of an earlier boot is left when the board is reset: it cannot reach the
\* collector, and what the collector still holds of it is replaced first.
BootInv ==
    /\ trial = 0 \/ pc = "done"
    /\ pc \in {"boot", "hello", "fatal"} => toGateway = <<>> /\ kpc # "stim"
    /\ pc = "hello" => toDevice = <<>>
    /\ pc = "wait" /\ StartComing => Fresh
    /\ pc \in {"sample", "rest", "upload"} => start.trial = 0 /\ Fresh
    /\ kpc = "stim" => Key(hello) = <<port, 0>>
    /\ FromThisBoot

\* The boot whose byte a row begins with.
FirstBoot(row) == row.raw[1][1]

\* A boot completes one row at most, and then it rests.
RowInv ==
    /\ \A i \in CompleteRows : FirstBoot(rows[i]) \in 1..boot
    /\ \A i \in CompleteRows : FirstBoot(rows[i]) = boot => Resting
    /\ \A i, j \in CompleteRows : FirstBoot(rows[i]) = FirstBoot(rows[j]) => i = j

\* The rows of D are counted, each for the reset that started its boot; the others
\* are of the boot going on.
Mapped(D) ==
    /\ Counted(D)
    /\ phase = "running" => \A i \in CompleteRows \ D : FirstBoot(rows[i]) = boot
    /\ rpc \in {"start", "top"} => CompleteRows \subseteq D
    /\ \A i \in DOMAIN log :
          log[i].outcome = "complete" =>
              \E k \in D : /\ log[i].capture = rows[k].capture
                           /\ FirstBoot(rows[k]) = log[i].attempt + 1

\* The runner pulses EN only when board and collector rest.
MapInv ==
    /\ phase = "running" => boot = attempts + 1
    /\ rpc \in {"start", "top"} => Resting
    /\ expired /\ rpc \in {"read", "check"} => Resting /\ Cardinality(CompleteRows) <= done
    /\ \E D : Mapped(D)

------------------------------------------------------------------------------
(* Whose bytes there are. *)

\* The parts of a file joined hold nothing else than the parts do.
LEMMA JoinedHold ==
    ASSUME NEW S, NEW n \in Nat \ {0}, NEW files \in [1..n -> Seq(S)]
    PROVE  FlattenSeq(files) \in Seq(S)
<1>1. PICK h : /\ h[1] = files[1]
               /\ \A i \in 2..n : h[i] = h[i - 1] \o files[i]
               /\ FlattenSeq(files) = h[n]
  BY FlattenUnfolds
<1>. DEFINE T == {k \in Nat : k + 1 \in 1..n => h[k + 1] \in Seq(S)}
<1>2. 0 \in T
  BY <1>1
<1>3. ASSUME NEW k \in T
      PROVE  k + 1 \in T
  <2>. SUFFICES ASSUME (k + 1) + 1 \in 1..n
                PROVE  h[(k + 1) + 1] \in Seq(S)
    OBVIOUS
  <2>1. k \in Nat /\ k + 1 \in 1..n /\ k + 2 \in 2..n /\ (k + 2) - 1 = k + 1 /\ (k + 1) + 1 = k + 2
    OBVIOUS
  <2>2. h[k + 1] \in Seq(S) /\ files[k + 2] \in Seq(S)
    BY <2>1
  <2>3. h[k + 2] = h[k + 1] \o files[k + 2]
    BY <1>1, <2>1
  <2>4. \A p, q \in Seq(S) : p \o q \in Seq(S)
    OBVIOUS
  <2>5. h[k + 2] \in Seq(S)
    BY <2>2, <2>3, <2>4
  <2>. QED
    BY <2>1, <2>5
<1>4. T \in SUBSET Nat
  OBVIOUS
<1>. HIDE DEF T
<1>5. T = Nat
  BY <1>2, <1>3, <1>4, SetInduction
<1>6. n - 1 \in T /\ (n - 1) + 1 = n /\ n \in 1..n
  BY <1>5
<1>. QED
  BY <1>1, <1>6 DEF T

\* A piece of a boot's buffer holds bytes of that boot.
LEMMA PieceHolds ==
    ASSUME NEW b \in Nat, NEW t \in Nat, NEW n \in Nat, NEW i \in Nat, NEW size \in Nat \ {0}
    PROVE  ChunkOf(Drawn(b, t, n), i, size) \in Seq(BytesOf(b))
<1>. DEFINE s == Drawn(b, t, n)
<1>1. s \in Seq(BytesOf(b)) /\ Len(s) = n
  BY DEF Drawn, BytesOf
<1>2. i * size \in Nat /\ (i + 1) * size \in Nat
  OBVIOUS
<1>. DEFINE from == i * size + 1
            to == IF (i + 1) * size < Len(s) THEN (i + 1) * size ELSE Len(s)
<1>3. from \in Nat \ {0} /\ to \in Nat /\ to <= Len(s)
  BY <1>1, <1>2
<1>. HIDE DEF s, from, to
<1>4. SubSeq(s, from, to) \in Seq(BytesOf(b))
  BY <1>1, <1>3
<1>. QED
  BY <1>4 DEF ChunkOf, s, from, to

\* The first bytes hold nothing else than all of them do.
LEMMA PrefixHolds ==
    ASSUME NEW S, NEW s \in Seq(S), NEW n \in Nat
    PROVE  Prefix(s, n) \in Seq(S)
BY DEF Prefix

\* After RAW_END the length of the file and the number of chunks are known.
LEMMA EndedKnows ==
    ASSUME NEW st, IsTrialState(st), NEW m \in Msg
    PROVE  /\ Ended(st, m).chunksExpected \in Nat /\ Ended(st, m).rawLen \in Nat
           /\ Ended(st, m).rawChunks = st.rawChunks
<1>1. PICK a, b, c, d, e, f :
         st = [capture |-> a, chunksExpected |-> b, rawLen |-> c, rawChunks |-> d,
               jitterChunks |-> e, result |-> f]
  BY DEF IsTrialState
<1>2. b \in Nat \cup {None} /\ c \in Nat \cup {None} /\ m.seq \in Nat /\ m.bytes \in Nat
  BY <1>1 DEF IsTrialState, Msg
<1>. DEFINE q == IF b = None THEN m.seq ELSE b
            v == [st EXCEPT !.chunksExpected = IF @ = None THEN m.seq ELSE @]
<1>3. v = [capture |-> a, chunksExpected |-> q, rawLen |-> c, rawChunks |-> d,
           jitterChunks |-> e, result |-> f]
  BY <1>1
<1>4. Ended(st, m) = [v EXCEPT !.rawLen = IF @ = None THEN m.bytes ELSE @]
  BY DEF Ended
<1>5. q \in Nat
  BY <1>2
<1>. HIDE DEF v, q
<1>. QED
  BY <1>1, <1>2, <1>3, <1>4, <1>5

\* A complete file is not empty, and holds bytes of the chunks it is joined from.
LEMMA CompleteHolds ==
    ASSUME NEW S, NEW u, u.chunksExpected \in Nat, u.rawLen \in Nat,
           \A i \in DOMAIN u.rawChunks : u.rawChunks[i] \in Seq(S),
           Finalized(u).complete
    PROVE  Finalized(u).raw \in Seq(S) /\ Finalized(u).raw # <<>>
<1>1. u.chunksExpected # None /\ u.rawLen # None
  BY DEF None
<1>. DEFINE files == [n \in 1..u.chunksExpected |-> u.rawChunks[n - 1]]
            whole == Prefix(FlattenSeq(files), u.rawLen)
<1>2. /\ u.chunksExpected > 0 /\ u.rawLen > 0
      /\ 0..(u.chunksExpected - 1) \subseteq DOMAIN u.rawChunks
  BY <1>1, Zenon DEF Finalized
<1>3. Finalized(u).raw = whole /\ Len(whole) = u.rawLen
  <2>1. Finalized(u).raw = whole
    BY <1>1, <1>2, Zenon DEF Finalized
  <2>2. Len(whole) = u.rawLen
    BY <1>1, <1>2, Zenon DEF Finalized
  <2>. QED
    BY <2>1, <2>2
<1>4. u.chunksExpected \in Nat \ {0} /\ files \in [1..u.chunksExpected -> Seq(S)]
  <2>1. \A n \in 1..u.chunksExpected : n - 1 \in 0..(u.chunksExpected - 1)
    OBVIOUS
  <2>2. \A n \in 1..u.chunksExpected : u.rawChunks[n - 1] \in Seq(S)
    BY <1>2, <2>1
  <2>. QED
    BY <1>2, <2>2
<1>. HIDE DEF files
<1>5. whole \in Seq(S)
  BY <1>4, JoinedHold, PrefixHolds
<1>. HIDE DEF whole
<1>. QED
  BY <1>2, <1>3, <1>5

\* All datagrams of send_raw_stream carry the trial's key, and RAW_END is the last.
LEMMA RestartUploadOrder ==
    ASSUME ClientTypeOK, NEW i \in DOMAIN UploadStream
    PROVE  /\ Key(UploadStream[i]) = <<port, start.trial>>
           /\ UploadStream[i].type # "HELLO"
           /\ UploadStream[i].type = "RAW_END" => i = Len(UploadStream)
<1>. DEFINE rawChunks == NumChunks(Requested(start), ChunkBytes)
            jitterChunks == NumChunks(packets_seen, JitterPerChunk)
            Chunk(n) == ChunkOf(RawBuf, n, ChunkBytes)
            Jitter(n) == ChunkOf(JitterUs, n, JitterPerChunk)
            Frame(type) == <<Upload(type, rawChunks, Requested(start), <<>>)>>
            raws == [n \in 1..rawChunks |->
                        Upload("RAW_CHUNK", n - 1, Len(Chunk(n - 1)), Chunk(n - 1))]
            jits == [n \in 1..jitterChunks |->
                        Upload("JITTER_CHUNK", n - 1, Len(Jitter(n - 1)), Jitter(n - 1))]
            last == Frame("RAW_END")[1]
            before == {Frame("RAW_BEGIN")[1]}
                         \cup {raws[n] : n \in 1..rawChunks} \cup {jits[n] : n \in 1..jitterChunks}
<1>1. rawChunks \in Nat /\ jitterChunks \in Nat
  <2>1. Requested(start) \in Nat /\ packets_seen \in Nat
    BY Clamps, ClientAssumption DEF ClientTypeOK
  <2>. QED
    BY <2>1, NumChunksType, ChunkAssumption
<1>2. /\ \A u \in before : Key(u) = <<port, start.trial>> /\ u.type \notin {"HELLO", "RAW_END"}
      /\ Key(last) = <<port, start.trial>> /\ last.type = "RAW_END"
  <2>1. \A type, q, n, pl :
           LET u == Upload(type, q, n, pl)
           IN  u.type = type /\ Key(u) = <<port, start.trial>>
    BY DEF Upload, Message, Key
  <2>2. ASSUME NEW n \in 1..rawChunks
        PROVE  Key(raws[n]) = <<port, start.trial>> /\ raws[n].type = "RAW_CHUNK"
    BY <2>1
  <2>3. ASSUME NEW n \in 1..jitterChunks
        PROVE  Key(jits[n]) = <<port, start.trial>> /\ jits[n].type = "JITTER_CHUNK"
    BY <2>1
  <2>4. /\ Key(Frame("RAW_BEGIN")[1]) = <<port, start.trial>>
        /\ Frame("RAW_BEGIN")[1].type = "RAW_BEGIN"
        /\ Key(last) = <<port, start.trial>> /\ last.type = "RAW_END"
    BY <2>1
  <2>. HIDE DEF raws, jits, Frame, last
  <2>. QED
    BY <2>2, <2>3, <2>4
<1>3. UploadStream = Frame("RAW_BEGIN") \o raws \o jits \o Frame("RAW_END")
  BY DEF UploadStream
<1>4. /\ raws \in Seq(before) /\ jits \in Seq(before) /\ Frame("RAW_BEGIN") \in Seq(before)
      /\ Frame("RAW_END") = <<last>>
  <2>1. \A n \in 1..rawChunks : raws[n] \in before
    OBVIOUS
  <2>2. \A n \in 1..jitterChunks : jits[n] \in before
    OBVIOUS
  <2>3. Frame("RAW_BEGIN")[1] \in before /\ Frame("RAW_END") = <<last>>
    OBVIOUS
  <2>. HIDE DEF before, last, Chunk, Jitter, rawChunks, jitterChunks
  <2>4. raws \in Seq(before) /\ jits \in Seq(before)
    BY <1>1, <2>1, <2>2
  <2>. QED
    BY <2>3, <2>4
<1>. HIDE DEF before, last, raws, jits, Frame
<1>. DEFINE body == Frame("RAW_BEGIN") \o raws \o jits
<1>5. body \in Seq(before) /\ UploadStream = body \o <<last>>
  <2>1. \A p, q \in Seq(before) : p \o q \in Seq(before)
    OBVIOUS
  <2>2. body \in Seq(before)
    BY <1>4, <2>1
  <2>3. UploadStream = body \o <<last>>
    BY <1>3, <1>4, Zenon
  <2>. QED
    BY <2>2, <2>3
<1>. HIDE DEF body
<1>6. /\ Len(UploadStream) = Len(body) + 1 /\ DOMAIN UploadStream = 1..(Len(body) + 1)
      /\ Len(body) \in Nat
      /\ \A n \in 1..Len(body) : UploadStream[n] \in before
      /\ UploadStream[Len(body) + 1] = last
  BY <1>5
<1>7. CASE i \in 1..Len(body)
  BY <1>2, <1>6, <1>7
<1>8. CASE i = Len(body) + 1
  BY <1>2, <1>6, <1>8
<1>. QED
  BY <1>6, <1>7, <1>8

------------------------------------------------------------------------------
(* Boots do not overlap. *)

\* The client's part: it answers a START of its own boot, uploads its own bytes,
\* and sends nothing after RAW_END.
LEMMA BootClient ==
    ASSUME CoreInv, BootInv, ClientTrials = 1, UNCHANGED collectorVars,
           \/ JoinWifi(FALSE) \/ BootFails \/ SendHello \/ ResendHello \/ DiscardUnbound
           \/ TakeStart \/ SkipInWait \/ StartTimeout \/ TakeBurst \/ SkipInSample
           \/ BurstTimeout \/ SendUpload \/ TrialFails \/ NextTrial
           \/ \E ok \in BOOLEAN : FinishSampling(ok)
    PROVE  BootInv' /\ (Resting => Resting') /\ UNCHANGED boot
<1>t. /\ TypeOK /\ ClientTypeOK /\ trial \in Nat /\ boot \in Nat
      /\ toGateway \in Seq(Msg) /\ toDevice \in Seq(Msg)
  BY ClientAssumption DEF CoreInv, TypeOK, ClientTypeOK
<1>u. UNCHANGED <<boot, port>>
  BY DEF JoinWifi, BootFails, SendHello, ResendHello, DiscardUnbound, TakeStart, SkipInWait,
         StartTimeout, TakeBurst, SkipInSample, BurstTimeout, FinishSampling, SendUpload,
         TrialFails, NextTrial, clientVars
<1>c. UNCHANGED <<kpc, hello, states>>
  BY DEF collectorVars
<1>f. Fresh <=> Fresh'
  BY <1>c, <1>u DEF Fresh
<1>h. (kpc = "stim" => Key(hello) = <<port, 0>>)'
  BY <1>c, <1>u DEF BootInv, Key
<1>k. ASSUME toGateway' = toGateway, pc \in {"gap", "done"} => pc' \in {"gap", "done"}
      PROVE  FromThisBoot'
  BY <1>k, <1>f, <1>u DEF BootInv, FromThisBoot, Key
<1>a. ASSUME NEW m \in Msg, toGateway' = Append(toGateway, m), pc \notin {"gap", "done"},
             Key(m) = <<port, 0>>,
             m.type = "RAW_CHUNK" => m.payload \in Seq(BytesOf(boot)),
             m.type = "RAW_END" => pc' \in {"gap", "done"},
             m.type # "HELLO" => Fresh
      PROVE  FromThisBoot'
  <2>1. /\ DOMAIN toGateway = 1..Len(toGateway) /\ DOMAIN toGateway' = 1..(Len(toGateway) + 1)
        /\ Len(toGateway') = Len(toGateway) + 1 /\ Len(toGateway) \in Nat
        /\ \A i \in 1..Len(toGateway) : toGateway'[i] = toGateway[i]
        /\ toGateway'[Len(toGateway) + 1] = m
        /\ \A i \in 1..(Len(toGateway) + 1) : i \in 1..Len(toGateway) \/ i = Len(toGateway) + 1
    BY <1>t, <1>a
  <2>2. ASSUME NEW i \in 1..Len(toGateway)
        PROVE  /\ Key(toGateway'[i]) = <<port, 0>>
               /\ toGateway'[i].type = "RAW_CHUNK" => toGateway'[i].payload \in Seq(BytesOf(boot))
               /\ toGateway'[i].type # "RAW_END"
               /\ toGateway'[i].type # "HELLO" => Fresh
    BY <1>a, <2>1 DEF BootInv, FromThisBoot
  <2>3. \A i \in DOMAIN toGateway' :
           /\ Key(toGateway'[i]) = <<port, 0>>
           /\ toGateway'[i].type = "RAW_CHUNK" => toGateway'[i].payload \in Seq(BytesOf(boot))
           /\ toGateway'[i].type = "RAW_END" => i = Len(toGateway') /\ pc' \in {"gap", "done"}
           /\ toGateway'[i].type # "HELLO" => Fresh
    BY <1>a, <2>1, <2>2
  <2>. QED
    BY <2>3, <1>f, <1>u DEF FromThisBoot, Key
<1>s. ASSUME toDevice # <<>>, toDevice' = Tail(toDevice)
      PROVE  /\ StartComing' => StartComing
             /\ Head(toDevice).type = "START" => StartComing
             /\ toDevice # <<>>
  <2>1. /\ \A i \in DOMAIN toDevice' : i + 1 \in DOMAIN toDevice /\ toDevice'[i] = toDevice[i + 1]
        /\ 1 \in DOMAIN toDevice /\ Head(toDevice) = toDevice[1]
    BY <1>s, <1>t
  <2>. QED
    BY <1>s, <2>1 DEF StartComing
<1>1. CASE JoinWifi(FALSE)
  <2>1. /\ pc = "boot" /\ pc' = "hello" /\ toDevice' = <<>> /\ UNCHANGED <<trial, start, toGateway>>
    BY <1>1 DEF JoinWifi
  <2>2. FromThisBoot'
    BY <2>1, <1>k
  <2>. QED
    BY <2>1, <2>2, <1>c, <1>f, <1>h, <1>u DEF BootInv, Resting
<1>2. CASE BootFails
  <2>1. pc = "boot" /\ pc' = "fatal" /\ UNCHANGED <<trial, start, toGateway>>
    BY <1>2 DEF BootFails, netVars
  <2>2. FromThisBoot'
    BY <2>1, <1>k
  <2>. QED
    BY <2>1, <2>2, <1>c, <1>f, <1>h, <1>u DEF BootInv, Resting
<1>3. CASE SendHello \/ ResendHello
  <2>1. /\ pc \in {"hello", "wait"} /\ pc' = "wait" /\ UNCHANGED <<trial, start, toDevice>>
        /\ toGateway' = Append(toGateway, Hello)
    BY <1>3 DEF SendHello, ResendHello
  <2>2. Hello \in Msg /\ Key(Hello) = <<port, 0>> /\ Hello.type = "HELLO"
    <3>1. <<>> \in Seq(Byte) /\ "HELLO" \in MsgTypes
      BY DEF MsgTypes
    <3>2. trial = 0
      BY <2>1 DEF BootInv
    <3>3. boot \in Nat /\ port \in Ports /\ BurstCount \in Nat /\ MaxSampleBytes \in Nat
      BY <1>t, ClientAssumption DEF ClientTypeOK
    <3>4. Hello \in Msg
      BY <1>t, <3>1, <3>3, MessageType DEF Hello
    <3>. QED
      BY <3>2, <3>4 DEF Hello, Message, Key
  <2>3. FromThisBoot'
    BY <2>1, <2>2, <1>a
  <2>4. pc = "hello" => ~StartComing'
    BY <2>1 DEF BootInv, StartComing
  <2>5. pc = "wait" => (StartComing' => StartComing)
    BY <2>1 DEF StartComing
  <2>. QED
    BY <2>1, <2>3, <2>4, <2>5, <1>c, <1>f, <1>h, <1>u DEF BootInv, Resting
<1>4. CASE DiscardUnbound
  <2>1. /\ UNCHANGED <<pc, trial, start, toGateway>> /\ toDevice' = Tail(toDevice)
        /\ toDevice # <<>>
    BY <1>4 DEF DiscardUnbound, clientVars
  <2>2. FromThisBoot' /\ (StartComing' => StartComing)
    BY <2>1, <1>k, <1>s
  <2>. QED
    BY <2>1, <2>2, <1>c, <1>f, <1>h, <1>u DEF BootInv, Resting
<1>5. CASE TakeStart
  <2>1. /\ pc = "wait" /\ toDevice # <<>> /\ start' = Head(toDevice) /\ pc' \in {"sample", "rest"}
        /\ Head(toDevice).type = "START" /\ Head(toDevice).trial = trial
        /\ toDevice' = Tail(toDevice) /\ UNCHANGED <<trial, toGateway>>
    BY <1>5 DEF TakeStart, ClientReceives, IsStart
  <2>2. Fresh /\ FromThisBoot' /\ trial = 0
    BY <2>1, <1>k, <1>s DEF BootInv
  <2>. QED
    BY <2>1, <2>2, <1>c, <1>f, <1>h, <1>u DEF BootInv, Resting
<1>6. CASE SkipInWait
  <2>1. /\ UNCHANGED <<pc, trial, start, toGateway>> /\ toDevice' = Tail(toDevice)
        /\ toDevice # <<>> /\ pc = "wait"
    BY <1>6 DEF SkipInWait, ClientReceives, clientVars
  <2>2. FromThisBoot' /\ (StartComing' => StartComing)
    BY <2>1, <1>k, <1>s
  <2>. QED
    BY <2>1, <2>2, <1>c, <1>f, <1>h, <1>u DEF BootInv, Resting
<1>7. CASE StartTimeout \/ TrialFails
  <2>1. /\ pc \in {"hello", "wait", "sample", "rest", "upload"} /\ pc' = "gap"
        /\ UNCHANGED <<trial, start, toGateway>>
    BY <1>7 DEF StartTimeout, TrialFails, netVars
  <2>2. FromThisBoot'
    BY <2>1, <1>k
  <2>. QED
    BY <2>1, <2>2, <1>c, <1>f, <1>h, <1>u DEF BootInv, Resting
<1>8. CASE TakeBurst \/ SkipInSample \/ BurstTimeout
  <2>1. /\ pc = "sample" /\ pc' \in {"sample", "rest"} /\ UNCHANGED <<trial, start, toGateway>>
    BY <1>8 DEF TakeBurst, SkipInSample, BurstTimeout, NextTurn, netVars
  <2>2. FromThisBoot'
    BY <2>1, <1>k
  <2>. QED
    BY <2>1, <2>2, <1>c, <1>f, <1>h, <1>u DEF BootInv, Resting
<1>9. CASE SendUpload
  <2>. DEFINE m == UploadStream[up]
  <2>1. /\ pc = "upload" /\ toGateway' = Append(toGateway, m)
        /\ pc' = (IF up = Len(UploadStream) THEN "gap" ELSE "upload")
        /\ UNCHANGED <<trial, start>>
    BY <1>9 DEF SendUpload
  <2>2. UploadStream \in Seq(Msg) /\ up \in DOMAIN UploadStream
    BY <2>1, <1>t, UploadStreamType DEF ClientTypeOK, TypeOK
  <2>3. m \in Msg
    BY <2>2
  <2>4. start.trial = 0 /\ Fresh
    BY <2>1 DEF BootInv
  <2>5. Key(m) = <<port, 0>> /\ (m.type = "RAW_END" => pc' = "gap")
    BY <1>t, <2>1, <2>2, <2>4, RestartUploadOrder
  <2>6. m.type = "RAW_CHUNK" => m.payload \in Seq(BytesOf(boot))
    <3>. SUFFICES ASSUME m.type = "RAW_CHUNK"
                  PROVE  m.payload \in Seq(BytesOf(boot))
      OBVIOUS
    <3>1. m.seq \in Nat /\ m.payload = ChunkOf(RawBuf, m.seq, ChunkBytes)
      BY <1>t, <2>2, UploadDatagrams DEF UploadFrame, UploadChunk
    <3>2. Requested(start) \in Nat
      BY <1>t, Clamps, ClientAssumption DEF ClientTypeOK
    <3>3. \A q \in Nat : ChunkOf(Drawn(boot, trial, Requested(start)), q, ChunkBytes)
                            \in Seq(BytesOf(boot))
      BY <1>t, <3>2, PieceHolds, ChunkAssumption
    <3>. HIDE DEF m
    <3>. QED
      BY <3>1, <3>3 DEF RawBuf
  <2>. HIDE DEF m
  <2>7. FromThisBoot'
    BY <2>1, <2>3, <2>4, <2>5, <2>6, <1>a
  <2>. QED
    BY <2>1, <2>4, <2>7, <1>c, <1>f, <1>h, <1>u DEF BootInv, Resting
<1>10. CASE NextTrial
  <2>1. pc = "gap" /\ trial' = trial + 1 /\ UNCHANGED <<start, toGateway>>
    BY <1>10 DEF NextTrial, netVars
  <2>2. pc' = "done"
    <3>1. trial = 0 /\ ~(0 + 1 < 1)
      BY <2>1 DEF BootInv
    <3>. QED
      BY <1>10, <3>1 DEF NextTrial
  <2>3. FromThisBoot'
    BY <2>1, <2>2, <1>k
  <2>. QED
    BY <2>1, <2>2, <2>3, <1>c, <1>f, <1>h, <1>u DEF BootInv, Resting
<1>11. ASSUME NEW ok \in BOOLEAN, FinishSampling(ok)
       PROVE  BootInv' /\ (Resting => Resting')
  <2>. DEFINE line == ResultLine(port, start.trial, packets_seen, Requested(start),
                                 start.nonce, RawBuf, JitterUs)
  <2>1. /\ pc = "rest" /\ pc' = "upload" /\ UNCHANGED <<trial, start>>
        /\ toGateway' = Append(toGateway, line) \/ toGateway' = toGateway
    BY <1>11 DEF FinishSampling
  <2>2. start.trial = 0 /\ Fresh
    BY <2>1 DEF BootInv
  <2>3. line \in Msg /\ line.type = "RESULT" /\ Key(line) = <<port, 0>>
    <3>1. /\ start \in Msg /\ packets_seen \in Nat /\ Requested(start) \in Nat /\ port \in Ports
      BY <1>t, Clamps, ClientAssumption DEF ClientTypeOK
    <3>2. /\ RawBuf \in Seq(Byte) /\ JitterUs \in Seq(Byte) /\ start.nonce \in Nat
      BY <3>1, <1>t, DrawnType DEF RawBuf, JitterUs, Msg
    <3>3. line \in Msg
      BY <2>2, <3>1, <3>2 DEF ResultLine, Message, Msg, MsgTypes
    <3>. QED
      BY <2>2, <3>3 DEF ResultLine, Message, Key
  <2>. HIDE DEF line
  <2>4. FromThisBoot'
    BY <2>1, <2>2, <2>3, <1>a, <1>k
  <2>. QED
    BY <2>1, <2>2, <2>4, <1>c, <1>f, <1>h, <1>u DEF BootInv, Resting
<1>. QED
  BY <1>u, <1>1, <1>2, <1>3, <1>4, <1>5, <1>6, <1>7, <1>8, <1>9, <1>10, <1>11

\* Which chunks a TrialState holds after one of its fields has changed.
LEMMA ChunksOfUpdate ==
    ASSUME NEW st, IsTrialState(st)
    PROVE  /\ \A r : [st EXCEPT !.result = r].rawChunks = st.rawChunks
           /\ \A d : [st EXCEPT !.jitterChunks = d].rawChunks = st.rawChunks
           /\ \A q, n : [st EXCEPT !.chunksExpected = q, !.rawLen = n].rawChunks = st.rawChunks
           /\ \A d : [st EXCEPT !.rawChunks = d].rawChunks = d
<1>1. PICK a, b, c, d, e, f :
         st = [capture |-> a, chunksExpected |-> b, rawLen |-> c, rawChunks |-> d,
               jitterChunks |-> e, result |-> f]
  BY DEF IsTrialState
<1>2. ASSUME NEW q, NEW n
      PROVE  [st EXCEPT !.chunksExpected = q, !.rawLen = n].rawChunks = st.rawChunks
  <2>. DEFINE v == [st EXCEPT !.chunksExpected = q]
  <2>1. v = [capture |-> a, chunksExpected |-> q, rawLen |-> c, rawChunks |-> d,
             jitterChunks |-> e, result |-> f]
    BY <1>1
  <2>2. [st EXCEPT !.chunksExpected = q, !.rawLen = n] = [v EXCEPT !.rawLen = n]
    OBVIOUS
  <2>. HIDE DEF v
  <2>. QED
    BY <1>1, <2>1, <2>2
<1>. QED
  BY <1>1, <1>2

\* The chunks of the board's key stay of this boot, whatever the collector does.
LEMMA FreshCollector ==
    ASSUME CoreInv, BootInv, UNCHANGED clientVars, Fresh,
           \/ RecvHello \/ SendBurst \/ StimulusDone \/ RecvUnknown \/ RecvResult
           \/ RecvBegin \/ RecvChunk \/ RecvJitter \/ RecvEnd \/ DiscardStopped \/ IdleTimeout
    PROVE  Fresh'
<1>. DEFINE m == Head(toGateway)
            Own(st) == \A n \in DOMAIN st.rawChunks : st.rawChunks[n] \in Seq(BytesOf(boot))
<1>t. /\ CollectorTypeOK /\ toGateway \in Seq(Msg) /\ UNCHANGED <<boot, port>>
      /\ states = [k \in DOMAIN states |-> states[k]]
      /\ \A k \in DOMAIN states : IsTrialState(states[k])
  BY DEF CoreInv, TypeOK, CollectorTypeOK, clientVars
<1>o. kpc = "recv" => (<<port, 0>> \in DOMAIN states => Own(states[<<port, 0>>]))
  BY DEF Fresh
<1>q. (<<port, 0>> \in DOMAIN states' => Own(states'[<<port, 0>>])) => Fresh'
  BY <1>t DEF Fresh
<1>1. CASE RecvHello \/ SendBurst \/ IdleTimeout
  BY <1>1 DEF RecvHello, SendBurst, IdleTimeout, Fresh
<1>2. CASE RecvUnknown \/ DiscardStopped
  BY <1>2, <1>t DEF RecvUnknown, DiscardStopped, collectorVars, Fresh
<1>3. CASE StimulusDone
  <2>1. Key(hello) = <<port, 0>>
    BY <1>3 DEF StimulusDone, BootInv
  <2>2. states'[<<port, 0>>].rawChunks = <<>>
    BY <1>3, <2>1 DEF StimulusDone, Put, NewTrialState
  <2>3. DOMAIN <<>> = {}
    OBVIOUS
  <2>. QED
    BY <2>2, <2>3, <1>q
<1>4. ASSUME NEW k \in DOMAIN states, NEW st, Own(states[k]) => Own(st), kpc = "recv",
             states' = [states EXCEPT ![k] = st]
      PROVE  Fresh'
  <2>1. /\ DOMAIN states' = DOMAIN states /\ states'[k] = st
        /\ \A l \in DOMAIN states : l # k => states'[l] = states[l]
    BY <1>t, <1>4
  <2>. HIDE DEF Own
  <2>. QED
    BY <2>1, <1>4, <1>o, <1>q
<1>5. ASSUME NEW type, RecvFor(type)
      PROVE  kpc = "recv" /\ m \in Msg /\ m = toGateway[1] /\ 1 \in DOMAIN toGateway
             /\ m.type = type /\ Key(m) \in DOMAIN states
  BY <1>5, <1>t DEF RecvFor, CollectorReceives
<1>6. CASE RecvResult
  <2>1. RecvFor("RESULT")
    BY <1>6 DEF RecvResult
  <2>2. PICK r : states' = [states EXCEPT ![Key(m)] = [states[Key(m)] EXCEPT !.result = r]]
    BY <1>6 DEF RecvResult
  <2>3. PICK k \in DOMAIN states : k = Key(m)
    BY <1>5, <2>1
  <2>4. [states[k] EXCEPT !.result = r].rawChunks = states[k].rawChunks
    BY <1>t, ChunksOfUpdate
  <2>5. Own(states[k]) => Own([states[k] EXCEPT !.result = r])
    BY <2>4
  <2>. HIDE DEF m, Own
  <2>. QED
    BY <1>4, <1>5, <2>1, <2>2, <2>3, <2>5
<1>7. CASE RecvBegin
  <2>1. RecvFor("RAW_BEGIN")
    BY <1>7 DEF RecvBegin
  <2>2. PICK k \in DOMAIN states : k = Key(m)
    BY <1>5, <2>1
  <2>3. PICK q, n : q = m.seq /\ n = m.bytes
    OBVIOUS
  <2>4. states' = [states EXCEPT ![k] = [states[k] EXCEPT !.chunksExpected = q, !.rawLen = n]]
    BY <1>7, <1>t, <2>2, <2>3 DEF RecvBegin
  <2>5. [states[k] EXCEPT !.chunksExpected = q, !.rawLen = n].rawChunks = states[k].rawChunks
    BY <1>t, ChunksOfUpdate
  <2>6. Own(states[k]) => Own([states[k] EXCEPT !.chunksExpected = q, !.rawLen = n])
    BY <2>5
  <2>. HIDE DEF m, Own
  <2>. QED
    BY <1>4, <1>5, <2>1, <2>4, <2>6
<1>8. CASE RecvJitter
  <2>1. RecvFor("JITTER_CHUNK")
    BY <1>8 DEF RecvJitter
  <2>2. PICK d : states' = [states EXCEPT ![Key(m)] = [states[Key(m)] EXCEPT !.jitterChunks = d]]
    BY <1>8 DEF RecvJitter
  <2>3. PICK k \in DOMAIN states : k = Key(m)
    BY <1>5, <2>1
  <2>4. [states[k] EXCEPT !.jitterChunks = d].rawChunks = states[k].rawChunks
    BY <1>t, ChunksOfUpdate
  <2>5. Own(states[k]) => Own([states[k] EXCEPT !.jitterChunks = d])
    BY <2>4
  <2>. HIDE DEF m, Own
  <2>. QED
    BY <1>4, <1>5, <2>1, <2>2, <2>3, <2>5
<1>9. CASE RecvChunk
  <2>1. RecvFor("RAW_CHUNK")
    BY <1>9 DEF RecvChunk
  <2>2. PICK k \in DOMAIN states : k = Key(m)
    BY <1>5, <2>1
  <2>3. PICK p : p = Prefix(m.payload, m.bytes)
    OBVIOUS
  <2>4. p \in Seq(BytesOf(boot))
    <3>1. m.payload \in Seq(BytesOf(boot)) /\ m.bytes \in Nat
      BY <1>5, <2>1 DEF BootInv, FromThisBoot, Msg
    <3>. HIDE DEF m
    <3>. QED
      BY <2>3, <3>1, PrefixHolds
  <2>. DEFINE d == Put(states[k].rawChunks, m.seq, p)
  <2>5. states' = [states EXCEPT ![k] = [states[k] EXCEPT !.rawChunks = d]]
    BY <1>9, <2>2, <2>3 DEF RecvChunk
  <2>6. [states[k] EXCEPT !.rawChunks = d].rawChunks = d
    BY <1>t, ChunksOfUpdate
  <2>7. Own(states[k]) => \A n \in DOMAIN d : d[n] \in Seq(BytesOf(boot))
    <3>1. /\ DOMAIN d = DOMAIN states[k].rawChunks \cup {m.seq}
          /\ \A n \in DOMAIN d : d[n] = IF n = m.seq THEN p ELSE states[k].rawChunks[n]
      BY DEF Put
    <3>. HIDE DEF d, m
    <3>. QED
      BY <2>4, <3>1
  <2>. HIDE DEF d, m
  <2>8. Own(states[k]) => Own([states[k] EXCEPT !.rawChunks = d])
    BY <2>6, <2>7
  <2>. HIDE DEF Own
  <2>. QED
    BY <1>4, <1>5, <2>1, <2>5, <2>8
<1>10. CASE RecvEnd
  <2>1. /\ kpc = "recv" /\ DOMAIN states' \subseteq DOMAIN states
        /\ \A k \in DOMAIN states' : states'[k] = states[k]
    BY <1>10, <1>t DEF RecvEnd, CollectorReceives
  <2>. HIDE DEF Own
  <2>. QED
    BY <2>1, <1>o, <1>q
<1>. QED
  BY <1>1, <1>2, <1>3, <1>6, <1>7, <1>8, <1>9, <1>10

\* The collector's part: it reads what is on its way, and a HELLO before it answers.
LEMMA BootCollector ==
    ASSUME CoreInv, BootInv, UNCHANGED clientVars,
           \/ RecvHello \/ SendBurst \/ StimulusDone \/ RecvUnknown \/ RecvResult
           \/ RecvBegin \/ RecvChunk \/ RecvJitter \/ RecvEnd \/ DiscardStopped \/ IdleTimeout
    PROVE  BootInv' /\ (Resting => Resting')
<1>t. /\ toGateway \in Seq(Msg) /\ UNCHANGED <<pc, boot, port, trial, start>>
  BY DEF CoreInv, TypeOK, clientVars
<1>f. Fresh => Fresh'
  BY FreshCollector
<1>1. \/ toGateway' = toGateway
      \/ toGateway # <<>> /\ toGateway' = Tail(toGateway)
  BY DEF RecvHello, SendBurst, StimulusDone, RecvUnknown, RecvResult, RecvBegin, RecvChunk,
         RecvJitter, RecvEnd, DiscardStopped, IdleTimeout, RecvFor, CollectorReceives, netVars
<1>2. FromThisBoot'
  <2>1. CASE toGateway' = toGateway
    BY <2>1, <1>t, <1>f DEF BootInv, FromThisBoot, Key
  <2>2. CASE toGateway # <<>> /\ toGateway' = Tail(toGateway)
    <3>1. /\ Len(toGateway') = Len(toGateway) - 1
          /\ \A i \in DOMAIN toGateway' : /\ i \in Nat /\ i + 1 \in DOMAIN toGateway
                                          /\ toGateway'[i] = toGateway[i + 1]
                                          /\ i + 1 = Len(toGateway) => i = Len(toGateway')
      BY <2>2, <1>t
    <3>2. ASSUME NEW i \in DOMAIN toGateway'
          PROVE  /\ Key(toGateway'[i]) = <<port, 0>>
                 /\ toGateway'[i].type = "RAW_CHUNK" =>
                       toGateway'[i].payload \in Seq(BytesOf(boot))
                 /\ toGateway'[i].type = "RAW_END" =>
                       i = Len(toGateway') /\ pc \in {"gap", "done"}
                 /\ toGateway'[i].type # "HELLO" => Fresh
      <4>1. PICK j \in DOMAIN toGateway : /\ toGateway'[i] = toGateway[j]
                                          /\ j = Len(toGateway) => i = Len(toGateway')
        BY <3>1
      <4>. QED
        BY <4>1 DEF BootInv, FromThisBoot
    <3>. QED
      BY <3>2, <1>t, <1>f DEF FromThisBoot, Key
  <2>. QED
    BY <1>1, <2>1, <2>2
<1>3. (kpc = "stim")' =>
          \/ kpc = "stim" /\ hello' = hello
          \/ RecvHello
  BY DEF SendBurst, StimulusDone, RecvUnknown, RecvResult, RecvBegin, RecvChunk,
         RecvJitter, RecvEnd, DiscardStopped, IdleTimeout, RecvFor, CollectorReceives,
         collectorVars
<1>4. RecvHello => toGateway # <<>> /\ Key(hello') = <<port, 0>>
  <2>. SUFFICES ASSUME RecvHello
                PROVE  toGateway # <<>> /\ Key(hello') = <<port, 0>>
    OBVIOUS
  <2>1. toGateway # <<>> /\ hello' = Head(toGateway)
    BY DEF RecvHello, CollectorReceives
  <2>2. Head(toGateway) = toGateway[1] /\ 1 \in DOMAIN toGateway
    BY <2>1, <1>t
  <2>3. \A i \in DOMAIN toGateway : Key(toGateway[i]) = <<port, 0>>
    BY DEF BootInv, FromThisBoot
  <2>. QED
    BY <2>1, <2>2, <2>3
<1>5. (kpc = "stim")' => (Key(hello) = <<port, 0>>)'
  BY <1>3, <1>4, <1>t DEF BootInv, Key
<1>6. toGateway = <<>> => toGateway' = <<>>
  BY DEF RecvHello, SendBurst, StimulusDone, RecvUnknown, RecvResult, RecvBegin, RecvChunk,
         RecvJitter, RecvEnd, DiscardStopped, IdleTimeout, RecvFor, CollectorReceives, netVars
<1>7. toGateway = <<>> /\ kpc # "stim" => (kpc # "stim")'
  BY <1>3, <1>4
<1>8. toDevice' = toDevice \/ (kpc = "stim")'
  BY DEF RecvHello, SendBurst, StimulusDone, RecvUnknown, RecvResult, RecvBegin, RecvChunk,
         RecvJitter, RecvEnd, DiscardStopped, IdleTimeout, RecvFor, CollectorReceives, netVars
<1>9. (StartComing' => StartComing) \/ Fresh'
  BY <1>8 DEF StartComing, Fresh
<1>10. pc = "hello" => toDevice' = <<>>
  BY <1>7, <1>8 DEF BootInv
<1>. QED
  BY <1>t, <1>f, <1>2, <1>5, <1>6, <1>7, <1>9, <1>10 DEF BootInv, Resting

\* A step when no datagram comes late or twice: the network may lose one.
LEMMA OnTimeCases ==
    ASSUME TypeOK, {"delay", "dup"} \cap FaultKinds = {}, [RestartNext]_allVars
    PROVE  \/ /\ UNCHANGED <<clientVars, collectorVars>>
              /\ \/ UNCHANGED toDevice
                    /\ \E i \in DOMAIN toGateway : toGateway' = RemoveAt(toGateway, i)
                 \/ UNCHANGED toGateway
                    /\ \E i \in DOMAIN toDevice : toDevice' = RemoveAt(toDevice, i)
           \/ /\ UNCHANGED collectorVars
              /\ \/ JoinWifi(FALSE) \/ BootFails \/ SendHello \/ ResendHello \/ DiscardUnbound
                 \/ TakeStart \/ SkipInWait \/ StartTimeout \/ TakeBurst \/ SkipInSample
                 \/ BurstTimeout \/ SendUpload \/ TrialFails \/ NextTrial
                 \/ \E ok \in BOOLEAN : FinishSampling(ok)
           \/ /\ UNCHANGED clientVars
              /\ \/ RecvHello \/ SendBurst \/ StimulusDone \/ RecvUnknown \/ RecvResult
                 \/ RecvBegin \/ RecvChunk \/ RecvJitter \/ RecvEnd \/ DiscardStopped
                 \/ IdleTimeout
           \/ UNCHANGED <<clientVars, collectorVars, netVars>>
           \/ StopCollector
           \/ PulseEn
<1>1. CASE SystemStep
  <2>1. CASE NetworkFault
    <3>1. PICK kind \in {"drop", "dup", "delay"} :
             /\ Fault(kind)
             /\ \/ /\ \E i \in DOMAIN toGateway : toGateway' = Perturbed(toGateway, kind, i)
                   /\ UNCHANGED toDevice
                \/ /\ \E i \in DOMAIN toDevice : toDevice' = Perturbed(toDevice, kind, i)
                   /\ UNCHANGED toGateway
      BY <2>1 DEF NetworkFault
    <3>2. kind = "drop"
      BY <3>1 DEF Fault
    <3>. QED
      BY <2>1, <3>1, <3>2 DEF NetworkFault, Perturbed
  <2>2. CASE ClientTimeout \/ CollectorStep \/ ClientError
    BY <2>2 DEF ClientTimeout, CollectorStep, ClientError
  <2>3. CASE LateDelivery
    BY <2>3 DEF LateDelivery, Fault
  <2>4. CASE ClientStep /\ boot' = boot
    <3>1. ~Reset
      <4>1. boot \in Nat
        BY DEF TypeOK, ClientTypeOK
      <4>2. boot + 1 # boot
        BY <4>1
      <4>. QED
        BY <2>4, <4>2 DEF Reset
    <3>. QED
      BY <2>4, <3>1 DEF ClientStep
  <2>5. CASE IdleTimeout /\ Fault("idle") /\ UNCHANGED clientVars
    BY <2>5
  <2>. QED
    BY <1>1, <2>1, <2>2, <2>3, <2>4, <2>5 DEF SystemStep
<1>2. CASE StartLoop \/ ReadRows \/ LookAgain \/ RecordCapture \/ RecordTimeout \/ LeaveLoop
             \/ Finish \/ Abort \/ CollectorExits
  BY <1>2 DEF StartLoop, ReadRows, LookAgain, RecordCapture, RecordTimeout, LeaveLoop,
              Finish, Abort, CollectorExits, vars
<1>3. CASE RunnerError
  BY <1>3 DEF RunnerError
<1>4. CASE DeadlinePasses
  BY <1>4 DEF DeadlinePasses
<1>5. CASE UNCHANGED allVars
  BY <1>5 DEF allVars, vars
<1>. QED
  BY <1>1, <1>2, <1>3, <1>4, <1>5 DEF RestartNext, RunnerStep

\* What is left of a channel after a loss was in it before, in the same order.
LEMMA RemovedFrom ==
    ASSUME NEW S, NEW ch \in Seq(S), NEW i \in DOMAIN ch
    PROVE  /\ RemoveAt(ch, i) \in Seq(S)
           /\ \A j \in DOMAIN RemoveAt(ch, i) :
                 \E k \in DOMAIN ch : /\ RemoveAt(ch, i)[j] = ch[k]
                                      /\ k = Len(ch) => j = Len(RemoveAt(ch, i))
<1>. DEFINE r == RemoveAt(ch, i)
<1>1. r = SubSeq(ch, 1, i - 1) \o SubSeq(ch, i + 1, Len(ch))
  BY DEF RemoveAt
<1>2. i \in 1..Len(ch) /\ Len(ch) \in Nat /\ \A j \in 1..Len(ch) : ch[j] \in S
  OBVIOUS
<1>. DEFINE a == SubSeq(ch, 1, i - 1)
            b == SubSeq(ch, i + 1, Len(ch))
<1>3. a \in Seq(S) /\ Len(a) = i - 1 /\ \A j \in 1..(i - 1) : a[j] = ch[j]
  <2>1. \A j \in 1..(i - 1) : ch[j] \in S
    BY <1>2
  <2>2. /\ a \in Seq(S) /\ Len(a) = IF 1 <= i - 1 THEN (i - 1) - 1 + 1 ELSE 0
        /\ \A j \in 1..((i - 1) - 1 + 1) : a[j] = ch[1 + j - 1]
    BY <1>2, <2>1, SubSeqProperties
  <2>. HIDE DEF a
  <2>. QED
    BY <1>2, <2>2
<1>4. b \in Seq(S) /\ Len(b) = Len(ch) - i /\ \A j \in 1..(Len(ch) - i) : b[j] = ch[i + j]
  <2>1. \A j \in (i + 1)..Len(ch) : ch[j] \in S
    BY <1>2
  <2>2. /\ b \in Seq(S) /\ Len(b) = IF i + 1 <= Len(ch) THEN Len(ch) - (i + 1) + 1 ELSE 0
        /\ \A j \in 1..(Len(ch) - (i + 1) + 1) : b[j] = ch[(i + 1) + j - 1]
    BY <1>2, <2>1, SubSeqProperties
  <2>. HIDE DEF b
  <2>. QED
    BY <1>2, <2>2
<1>. HIDE DEF a, b
<1>5. r = a \o b
  BY <1>1 DEF a, b
<1>. HIDE DEF r
<1>6. /\ r \in Seq(S) /\ Len(r) = Len(ch) - 1
      /\ \A j \in 1..(Len(ch) - 1) : r[j] = IF j < i THEN ch[j] ELSE ch[j + 1]
  <2>1. /\ r \in Seq(S) /\ Len(r) = Len(a) + Len(b)
        /\ \A j \in 1..(Len(a) + Len(b)) : r[j] = IF j <= Len(a) THEN a[j] ELSE b[j - Len(a)]
    BY <1>3, <1>4, <1>5, ConcatProperties
  <2>2. Len(r) = Len(ch) - 1
    BY <1>2, <1>3, <1>4, <2>1
  <2>3. ASSUME NEW j \in 1..(Len(ch) - 1)
        PROVE  r[j] = IF j < i THEN ch[j] ELSE ch[j + 1]
    <3>1. CASE j < i
      <4>1. j \in 1..(i - 1) /\ j \in 1..(Len(a) + Len(b)) /\ j <= Len(a)
        BY <1>2, <1>3, <1>4, <3>1
      <4>. QED
        BY <1>3, <2>1, <3>1, <4>1
    <3>2. CASE ~(j < i)
      <4>1. /\ j - (i - 1) \in 1..(Len(ch) - i) /\ j \in 1..(Len(a) + Len(b)) /\ ~(j <= Len(a))
            /\ i + (j - (i - 1)) = j + 1 /\ j - Len(a) = j - (i - 1)
        BY <1>2, <1>3, <1>4, <3>2
      <4>2. b[j - (i - 1)] = ch[i + (j - (i - 1))]
        BY <1>4, <4>1
      <4>3. r[j] = b[j - (i - 1)]
        BY <2>1, <4>1
      <4>. QED
        BY <3>2, <4>1, <4>2, <4>3
    <3>. QED
      BY <3>1, <3>2
  <2>. QED
    BY <2>1, <2>2, <2>3
<1>7. ASSUME NEW j \in 1..Len(r)
      PROVE  \E k \in DOMAIN ch : r[j] = ch[k] /\ (k = Len(ch) => j = Len(r))
  <2>1. CASE j < i
    <3>1. j \in 1..(Len(ch) - 1) /\ j \in DOMAIN ch /\ j # Len(ch)
      BY <1>2, <1>6, <2>1
    <3>2. r[j] = ch[j]
      BY <1>6, <2>1, <3>1
    <3>. QED
      BY <3>1, <3>2
  <2>2. CASE ~(j < i)
    <3>1. j \in 1..(Len(ch) - 1) /\ j + 1 \in DOMAIN ch /\ (j + 1 = Len(ch) => j = Len(r))
      BY <1>2, <1>6, <2>2
    <3>2. r[j] = ch[j + 1]
      BY <1>6, <2>2, <3>1
    <3>. QED
      BY <3>1, <3>2
  <2>. QED
    BY <2>1, <2>2
<1>8. DOMAIN r = 1..Len(r)
  BY <1>6
<1>. QED
  BY <1>6, <1>7, <1>8 DEF r

\* A boot is over, and nothing of it is left, when the next one begins: every step
\* keeps it so if the runner pulses EN only when board and collector rest.
LEMMA BootStep ==
    ASSUME ClientTrials = 1, {"delay", "dup"} \cap FaultKinds = {}, CoreInv, BootInv,
           rpc = "top" => Resting, [RestartNext]_allVars
    PROVE  /\ BootInv'
           /\ Resting /\ ~PulseEn => Resting'
           /\ boot' = boot \/ PulseEn
<1>t. TypeOK /\ toGateway \in Seq(Msg) /\ toDevice \in Seq(Msg)
  BY DEF CoreInv, TypeOK
<1>1. ASSUME UNCHANGED <<clientVars, collectorVars, toDevice>>, NEW i \in DOMAIN toGateway,
             toGateway' = RemoveAt(toGateway, i)
      PROVE  BootInv' /\ (Resting => Resting') /\ boot' = boot
  <2>1. /\ UNCHANGED <<pc, boot, port, trial, start, kpc, hello, states>>
        /\ Fresh' = Fresh /\ StartComing' = StartComing
    BY <1>1 DEF clientVars, collectorVars, Fresh, StartComing
  <2>2. \A j \in DOMAIN toGateway' :
           \E k \in DOMAIN toGateway : /\ toGateway'[j] = toGateway[k]
                                       /\ k = Len(toGateway) => j = Len(toGateway')
    BY <1>1, <1>t, RemovedFrom
  <2>3. ASSUME NEW j \in DOMAIN toGateway'
        PROVE  /\ Key(toGateway'[j]) = <<port, 0>>
               /\ toGateway'[j].type = "RAW_CHUNK" => toGateway'[j].payload \in Seq(BytesOf(boot))
               /\ toGateway'[j].type = "RAW_END" => j = Len(toGateway') /\ pc \in {"gap", "done"}
               /\ toGateway'[j].type # "HELLO" => Fresh
    <3>1. PICK k \in DOMAIN toGateway : /\ toGateway'[j] = toGateway[k]
                                        /\ k = Len(toGateway) => j = Len(toGateway')
      BY <2>2
    <3>. QED
      BY <3>1 DEF BootInv, FromThisBoot
  <2>4. FromThisBoot'
    BY <2>1, <2>3 DEF FromThisBoot, Key
  <2>5. toGateway # <<>>
    BY <1>1
  <2>. QED
    BY <2>1, <2>4, <2>5 DEF BootInv, Resting, Key
<1>2. ASSUME UNCHANGED <<clientVars, collectorVars, toGateway>>, NEW i \in DOMAIN toDevice,
             toDevice' = RemoveAt(toDevice, i)
      PROVE  BootInv' /\ (Resting => Resting') /\ boot' = boot
  <2>1. /\ UNCHANGED <<pc, boot, port, trial, start, kpc, hello, states>>
        /\ Fresh' = Fresh /\ FromThisBoot' = FromThisBoot
    BY <1>2 DEF clientVars, collectorVars, Fresh, FromThisBoot, Key
  <2>2. StartComing' => StartComing
    <3>1. \A j \in DOMAIN toDevice' : \E k \in DOMAIN toDevice : toDevice'[j] = toDevice[k]
      BY <1>2, <1>t, RemovedFrom
    <3>. QED
      BY <3>1 DEF StartComing
  <2>3. toDevice # <<>>
    BY <1>2
  <2>. QED
    BY <1>2, <2>1, <2>2, <2>3 DEF BootInv, Resting, Key
<1>3. CASE UNCHANGED <<clientVars, collectorVars, netVars>>
  BY <1>3 DEF BootInv, Resting, FromThisBoot, Fresh, StartComing, Key, clientVars, collectorVars,
              netVars
<1>4. CASE StopCollector
  <2>1. /\ UNCHANGED <<pc, boot, port, trial, start, hello, states, toGateway, toDevice>>
        /\ kpc' = "stopped"
    BY <1>4 DEF StopCollector, clientVars, netVars
  <2>2. Fresh'
    BY <2>1 DEF Fresh
  <2>3. FromThisBoot'
    BY <2>1, <2>2 DEF BootInv, FromThisBoot, Key
  <2>. QED
    BY <2>1, <2>2, <2>3 DEF BootInv, Resting
<1>5. CASE PulseEn
  <2>1. Resting /\ Reset /\ UNCHANGED collectorVars
    BY <1>5 DEF PulseEn
  <2>2. /\ pc' = "boot" /\ trial' = 0 /\ toGateway' = <<>> /\ (kpc # "stim")'
    BY <2>1 DEF Resting, Reset, netVars, collectorVars
  <2>3. FromThisBoot'
    <3>1. DOMAIN toGateway' = {}
      BY <2>2
    <3>. QED
      BY <3>1 DEF FromThisBoot
  <2>. QED
    BY <1>5, <2>2, <2>3 DEF BootInv
<1>. QED
  BY <1>t, <1>1, <1>2, <1>3, <1>4, <1>5, OnTimeCases, BootClient, BootCollector DEF clientVars

------------------------------------------------------------------------------
(* Rows of boots. *)

\* A complete row begins with a byte of the boot going on, which has then nothing
\* more to send.
LEMMA RowOfBoot ==
    ASSUME CoreInv, BootInv, RecvEnd, UNCHANGED clientVars,
           NEW row, row = Finalized(Ended(states[Key(Head(toGateway))], Head(toGateway))),
           row.complete
    PROVE  FirstBoot(row) = boot /\ ~Resting /\ Resting'
<1>. DEFINE m == Head(toGateway)
<1>1. /\ toGateway # <<>> /\ toGateway' = Tail(toGateway) /\ toGateway \in Seq(Msg)
      /\ m.type = "RAW_END" /\ Key(m) \in DOMAIN states /\ kpc = "recv" /\ (kpc # "stim")'
      /\ \A k \in DOMAIN states : IsTrialState(states[k])
  BY DEF RecvEnd, CollectorReceives, CoreInv, TypeOK, CollectorTypeOK
<1>2. m = toGateway[1] /\ 1 \in DOMAIN toGateway /\ m \in Msg
  BY <1>1
<1>3. Key(m) = <<port, 0>> /\ Fresh /\ 1 = Len(toGateway) /\ pc \in {"gap", "done"}
  BY <1>1, <1>2 DEF BootInv, FromThisBoot
<1>4. toGateway' = <<>>
  BY <1>1, <1>3
<1>5. ~Resting /\ Resting'
  BY <1>1, <1>3, <1>4 DEF Resting, clientVars
<1>. DEFINE st == states[Key(m)]
            u == Ended(st, m)
<1>6. u.chunksExpected \in Nat /\ u.rawLen \in Nat /\ u.rawChunks = st.rawChunks
  BY <1>1, <1>2, EndedKnows
<1>7. \A n \in DOMAIN st.rawChunks : st.rawChunks[n] \in Seq(BytesOf(boot))
  BY <1>1, <1>3 DEF Fresh
<1>8. row = Finalized(u)
  OBVIOUS
<1>. HIDE DEF m, st, u
<1>9. row.raw \in Seq(BytesOf(boot)) /\ row.raw # <<>>
  BY <1>6, <1>7, <1>8, CompleteHolds
<1>10. row.raw[1] \in BytesOf(boot)
  BY <1>9
<1>. QED
  BY <1>5, <1>10 DEF FirstBoot, BytesOf

\* The complete rows stay, and the only one that may be added is of the boot going on.
LEMMA RowsOnTime ==
    ASSUME {"delay", "dup"} \cap FaultKinds = {}, CoreInv, BootInv, [RestartNext]_allVars
    PROVE  /\ \A i \in DOMAIN rows : i \in DOMAIN rows' /\ rows'[i] = rows[i]
           /\ \/ CompleteRows' = CompleteRows
              \/ /\ \E k : /\ k \notin CompleteRows /\ CompleteRows' = CompleteRows \cup {k}
                           /\ FirstBoot(rows'[k]) = boot
                 /\ ~Resting /\ Resting' /\ UNCHANGED <<clientVars, runnerVars>>
<1>t. TypeOK
  BY DEF CoreInv
<1>1. CASE rows' = rows
  BY <1>1 DEF CompleteRows
<1>2. ASSUME rows' # rows
      PROVE  RecvEnd /\ UNCHANGED <<clientVars, runnerVars>>
  <2>1. UNCHANGED clientVars /\ RecvEnd
    <3>1. /\ ~UNCHANGED collectorVars /\ ~StopCollector /\ ~PulseEn
          /\ ~RecvHello /\ ~SendBurst /\ ~StimulusDone /\ ~RecvUnknown /\ ~RecvResult
          /\ ~RecvBegin /\ ~RecvChunk /\ ~RecvJitter /\ ~DiscardStopped /\ ~IdleTimeout
      BY <1>2 DEF collectorVars, StopCollector, PulseEn, RecvHello, SendBurst, StimulusDone,
                  RecvUnknown, RecvResult, RecvBegin, RecvChunk, RecvJitter, DiscardStopped,
                  IdleTimeout, RecvFor
    <3>2. ~UNCHANGED <<clientVars, collectorVars, netVars>>
      BY <3>1
    <3>. QED
      BY <1>t, <3>1, <3>2, OnTimeCases
  <2>2. SystemStep
    BY <1>2 DEF RestartNext, RunnerStep, StartLoop, PulseEn, ReadRows, LookAgain, RecordCapture,
                RecordTimeout, LeaveLoop, Finish, Abort, StopCollector, RunnerError,
                DeadlinePasses, CollectorExits, allVars, vars, collectorVars
  <2>. QED
    BY <2>1, <2>2 DEF SystemStep
<1>3. CASE rows' # rows
  <2>. DEFINE row == Finalized(Ended(states[Key(Head(toGateway))], Head(toGateway)))
  <2>1. rows' = Append(rows, row)
    BY <1>2, <1>3 DEF RecvEnd
  <2>2. row.complete => FirstBoot(row) = boot /\ ~Resting /\ Resting'
    BY <1>2, <1>3, RowOfBoot
  <2>. HIDE DEF row
  <2>3. /\ \A i \in DOMAIN rows : i \in DOMAIN rows' /\ rows'[i] = rows[i]
        /\ rows'[Len(rows) + 1] = row /\ Len(rows) + 1 \notin DOMAIN rows
        /\ CompleteRows' = IF row.complete THEN CompleteRows \cup {Len(rows) + 1}
                           ELSE CompleteRows
    <3>1. /\ DOMAIN rows = 1..Len(rows) /\ Len(rows) \in Nat
          /\ DOMAIN rows' = 1..(Len(rows) + 1)
          /\ \A i \in DOMAIN rows : rows'[i] = rows[i]
          /\ rows'[Len(rows) + 1] = row
          /\ CompleteRows' = IF row.complete THEN CompleteRows \cup {Len(rows) + 1}
                             ELSE CompleteRows
      BY <1>t, <2>1, CompleteAppend
    <3>. QED
      BY <3>1
  <2>4. Len(rows) + 1 \notin CompleteRows
    BY <2>3 DEF CompleteRows
  <2>. QED
    BY <1>2, <1>3, <2>2, <2>3, <2>4
<1>. QED
  BY <1>1, <1>3

\* EN starts a boot that no other boot was.
LEMMA PulseBoots ==
    ASSUME TypeOK, PulseEn
    PROVE  boot' = boot + 1 /\ boot \in Nat /\ boot' \notin 1..boot /\ 1..boot \subseteq 1..boot'
BY DEF PulseEn, Reset, TypeOK, ClientTypeOK

\* Each boot completes one row at most.
LEMMA RowStep ==
    ASSUME ClientTrials = 1, {"delay", "dup"} \cap FaultKinds = {}, CoreInv, BootInv, RowInv,
           rpc = "top" => Resting, [RestartNext]_allVars
    PROVE  RowInv'
<1>1. /\ Resting /\ ~PulseEn => Resting'
      /\ boot' = boot \/ PulseEn
  BY BootStep
<1>2. PulseEn => boot' \notin 1..boot /\ 1..boot \subseteq 1..boot'
  BY PulseBoots DEF CoreInv
<1>t. boot \in 1..boot /\ CompleteRows \subseteq DOMAIN rows
  BY DEF CoreInv, TypeOK, ClientTypeOK, CompleteRows
<1>3. CASE CompleteRows' = CompleteRows
  <2>1. \A i \in CompleteRows : FirstBoot(rows'[i]) = FirstBoot(rows[i])
    BY <1>t, RowsOnTime
  <2>2. ASSUME NEW i \in CompleteRows, FirstBoot(rows[i]) = boot'
        PROVE  Resting'
    <3>1. ~PulseEn
      BY <1>2, <2>2 DEF RowInv
    <3>. QED
      BY <1>1, <2>2, <3>1 DEF RowInv
  <2>3. \A i \in CompleteRows : FirstBoot(rows[i]) \in 1..boot'
    BY <1>1, <1>2 DEF RowInv
  <2>4. \A i, j \in CompleteRows : FirstBoot(rows[i]) = FirstBoot(rows[j]) => i = j
    BY DEF RowInv
  <2>5. /\ \A i \in CompleteRows' : FirstBoot(rows'[i]) \in 1..boot'
        /\ \A i \in CompleteRows' : FirstBoot(rows'[i]) = boot' => Resting'
        /\ \A i, j \in CompleteRows' : FirstBoot(rows'[i]) = FirstBoot(rows'[j]) => i = j
    BY <1>3, <2>1, <2>2, <2>3, <2>4
  <2>. QED
    BY <2>5 DEF RowInv, FirstBoot
<1>4. ASSUME NEW k, k \notin CompleteRows, CompleteRows' = CompleteRows \cup {k},
             FirstBoot(rows'[k]) = boot, ~Resting, Resting', UNCHANGED clientVars
      PROVE  RowInv'
  <2>1. \A i \in CompleteRows : FirstBoot(rows'[i]) = FirstBoot(rows[i])
    BY <1>t, RowsOnTime
  <2>2. boot' = boot
    BY <1>4 DEF clientVars
  <2>3. \A i \in CompleteRows : FirstBoot(rows[i]) \in 1..boot /\ FirstBoot(rows[i]) # boot
    BY <1>4 DEF RowInv
  <2>4. \A i, j \in CompleteRows : FirstBoot(rows[i]) = FirstBoot(rows[j]) => i = j
    BY DEF RowInv
  <2>5. /\ \A i \in CompleteRows' : FirstBoot(rows'[i]) \in 1..boot'
        /\ \A i \in CompleteRows' : FirstBoot(rows'[i]) = boot' => Resting'
        /\ \A i, j \in CompleteRows' : FirstBoot(rows'[i]) = FirstBoot(rows'[j]) => i = j
    BY <1>4, <1>t, <2>1, <2>2, <2>3, <2>4
  <2>. QED
    BY <2>5 DEF RowInv, FirstBoot
<1>. QED
  BY <1>3, <1>4, RowsOnTime

------------------------------------------------------------------------------
(* Resets and their captures. *)

\* The experiment begins with a board that has finished its trial.
LEMMA MapInit ==
    ASSUME RestartInit, BoardIdle, ClientTrials = 1
    PROVE  BootInv /\ RowInv /\ MapInv
<1>1. /\ pc = "done" /\ boot = 1 /\ rpc = "start" /\ attempts = 0 /\ done = 0 /\ log = <<>>
      /\ expired = FALSE /\ toGateway = <<>> /\ kpc # "stim" /\ rows = <<>>
  BY DEF RestartInit, CollectorInit, NetInit
<1>2. CompleteRows = {} /\ DOMAIN log = {} /\ DOMAIN toGateway = {} /\ Cardinality({}) = 0
  BY <1>1, FS_EmptySet DEF CompleteRows
<1>3. Mapped({})
  BY <1>1, <1>2 DEF Mapped, Counted, InitialPart
<1>4. Resting
  BY <1>1 DEF Resting
<1>5. BootInv
  BY <1>1, <1>2 DEF BootInv, FromThisBoot
<1>. QED
  BY <1>1, <1>2, <1>3, <1>4, <1>5 DEF RowInv, MapInv

\* The rows that are counted stay so while nothing is written.
LEMMA MappedKept ==
    ASSUME {"delay", "dup"} \cap FaultKinds = {}, CoreInv, BootInv, [RestartNext]_allVars,
           UNCHANGED <<log, done>>, CompleteRows' = CompleteRows,
           NEW D, Mapped(D),
           (phase = "running")' => CompleteRows \ D = {} \/ (phase = "running" /\ boot' = boot),
           (rpc \in {"start", "top"})' => CompleteRows \ D = {}
    PROVE  Mapped(D)'
<1>1. \A i \in CompleteRows : i \in DOMAIN rows /\ rows'[i] = rows[i]
  BY RowsOnTime DEF CompleteRows
<1>2. D \subseteq CompleteRows
  BY DEF Mapped, Counted, InitialPart
<1>3. InitialPart(D)'
  BY DEF Mapped, Counted, InitialPart
<1>4. \A i \in DOMAIN log : log[i].outcome = "complete" =>
          \E k \in D : log[i].capture = rows'[k].capture
  BY <1>1, <1>2 DEF Mapped, Counted
<1>5. Counted(D)'
  BY <1>3, <1>4 DEF Mapped, Counted
<1>6. (phase = "running")' => \A i \in CompleteRows \ D : FirstBoot(rows'[i]) = boot'
  BY <1>1 DEF Mapped
<1>7. \A i \in DOMAIN log : log[i].outcome = "complete" =>
          \E k \in D : /\ log[i].capture = rows'[k].capture
                       /\ FirstBoot(rows'[k]) = log[i].attempt + 1
  BY <1>1, <1>2 DEF Mapped
<1>. QED
  BY <1>5, <1>6, <1>7 DEF Mapped, FirstBoot

\* Board, collector and network go on: what is added is of the boot going on, and
\* nothing is once they rest.
LEMMA MapSystem ==
    ASSUME ClientTrials = 1, {"delay", "dup"} \cap FaultKinds = {}, CoreInv, BootInv, MapInv,
           [RestartNext]_allVars, UNCHANGED runnerVars
    PROVE  MapInv'
<1>1. UNCHANGED <<rpc, attempts, done, seen, expired, log, phase>>
  BY DEF runnerVars
<1>2. ~PulseEn
  BY <1>1 DEF PulseEn
<1>3. (Resting => Resting') /\ boot' = boot
  BY <1>2, BootStep DEF MapInv
<1>d. PICK D : Mapped(D)
  BY DEF MapInv
<1>4. CASE CompleteRows' = CompleteRows
  <2>1. rpc \in {"start", "top"} => CompleteRows \ D = {}
    BY <1>d DEF Mapped
  <2>2. Mapped(D)'
    BY <1>1, <1>3, <1>4, <1>d, <2>1, MappedKept
  <2>. QED
    BY <1>1, <1>3, <1>4, <2>2 DEF MapInv
<1>5. ASSUME NEW k, k \notin CompleteRows, CompleteRows' = CompleteRows \cup {k},
             FirstBoot(rows'[k]) = boot, ~Resting
      PROVE  MapInv'
  <2>1. rpc \notin {"start", "top"} /\ ~(expired /\ rpc \in {"read", "check"})
    BY <1>5 DEF MapInv
  <2>2. \A i \in CompleteRows : i \in DOMAIN rows /\ rows'[i] = rows[i]
    BY RowsOnTime DEF CompleteRows
  <2>3. D \subseteq CompleteRows /\ InitialPart(D)
    BY <1>d DEF Mapped, Counted, InitialPart
  <2>4. InitialPart(D)'
    BY <2>3, InitialKept DEF InitialPart
  <2>5. Counted(D)'
    <3>1. \A i \in DOMAIN log : log[i].outcome = "complete" =>
              \E n \in D : log[i].capture = rows'[n].capture
      BY <1>d, <2>2, <2>3 DEF Mapped, Counted
    <3>. QED
      BY <1>1, <1>d, <2>4, <3>1 DEF Mapped, Counted
  <2>6. phase = "running" => \A i \in CompleteRows' \ D : FirstBoot(rows'[i]) = boot'
    BY <1>3, <1>5, <1>d, <2>2 DEF Mapped
  <2>7. \A i \in DOMAIN log : log[i].outcome = "complete" =>
            \E n \in D : /\ log[i].capture = rows'[n].capture
                         /\ FirstBoot(rows'[n]) = log[i].attempt + 1
    BY <1>d, <2>2, <2>3 DEF Mapped
  <2>8. Mapped(D)'
    BY <1>1, <2>1, <2>5, <2>6, <2>7 DEF Mapped, FirstBoot
  <2>. QED
    BY <1>1, <1>3, <2>1, <2>8 DEF MapInv
<1>. QED
  BY <1>4, <1>5, RowsOnTime

\* A new complete row is the only one of the boot going on, and all are counted.
LEMMA NewRow ==
    ASSUME CoreInv, RowInv, phase = "running", NEW D, Mapped(D),
           NEW A, InitialPart(A), Cardinality(A) > done
    PROVE  /\ A = CompleteRows /\ D \subseteq A /\ Max(A) \in A /\ Max(A) \notin D
           /\ FirstBoot(rows[Max(A)]) = boot /\ Resting
<1>t. TypeOK /\ InitialPart(D) /\ Cardinality(D) = done
  BY DEF CoreInv, Mapped, Counted
<1>1. Max(A) \in A /\ Max(A) \notin D
  BY <1>t, LargerEndsLater
<1>2. Max(A) \in CompleteRows \ D
  BY <1>1 DEF InitialPart
<1>3. FirstBoot(rows[Max(A)]) = boot
  BY <1>2 DEF Mapped
<1>4. \A j \in CompleteRows \ D : j = Max(A)
  BY <1>2, <1>3 DEF Mapped, RowInv
<1>5. D \subseteq A
  <2>. SUFFICES ASSUME NEW k \in D, k \notin A
                PROVE  FALSE
    OBVIOUS
  <2>1. Max(A) < k /\ k < Max(A)
    BY <1>t, <1>1, <1>2 DEF InitialPart
  <2>2. k \in Nat /\ Max(A) \in Nat
    BY <1>t, <1>2, InitialFinite DEF InitialPart
  <2>. QED
    BY <2>1, <2>2
<1>6. A = CompleteRows
  BY <1>1, <1>4, <1>5 DEF InitialPart
<1>. QED
  BY <1>1, <1>2, <1>3, <1>5, <1>6 DEF RowInv

\* Every step of the runner keeps the mapping: EN is pulsed only when board and
\* collector rest and all complete rows are counted.
LEMMA MapStep ==
    ASSUME ClientTrials = 1, {"delay", "dup"} \cap FaultKinds = {}, CoreInv, CaptureInv, CompletedInv,
           ReportInv, BootInv, RowInv, MapInv, [RestartNext]_allVars
    PROVE  MapInv'
<1>t. /\ TypeOK /\ log \in Seq(LogLine) /\ attempts \in Nat /\ done \in Nat
      /\ InitialPart(seen)
  BY DEF CoreInv, ReportInv
<1>d. PICK D : Mapped(D)
  BY DEF MapInv
<1>p. rpc \in {"start", "top", "read", "check", "finish"} => phase = "running"
  BY DEF ReportInv
<1>m. rpc \in {"start", "top"} => CompleteRows \ D = {}
  BY <1>d DEF Mapped
<1>b. (Resting /\ ~PulseEn => Resting') /\ (boot' = boot \/ PulseEn)
  BY BootStep DEF MapInv
<1>1. CASE SystemStep \/ CollectorExits \/ UNCHANGED allVars
  <2>1. CASE SystemStep \/ UNCHANGED allVars
    BY <2>1, MapSystem DEF SystemStep, allVars
  <2>2. CASE CollectorExits
    <3>1. /\ UNCHANGED <<rpc, attempts, done, seen, expired, log, phase, rows, boot>>
          /\ rpc' # "read" \/ rpc = "read"
      BY <2>2 DEF CollectorExits, vars, clientVars, collectorVars
    <3>2. CompleteRows' = CompleteRows
      BY <3>1 DEF CompleteRows
    <3>3. Mapped(D)'
      BY <1>d, <1>m, <3>1, <3>2, MappedKept
    <3>4. Resting => Resting'
      BY <2>2 DEF CollectorExits, vars, clientVars, collectorVars, netVars, Resting
    <3>. QED
      BY <3>1, <3>2, <3>3, <3>4 DEF MapInv
  <2>. QED
    BY <1>1, <2>1, <2>2
<1>q. ASSUME ~SystemStep, ~PulseEn, UNCHANGED <<log, done, attempts>>, rows' = rows,
             (phase = "running")' => phase = "running",
             (rpc \in {"start", "top"})' => rpc \in {"start", "top"},
             (expired /\ rpc \in {"read", "check"})' =>
                 Resting /\ Cardinality(CompleteRows) <= done
      PROVE  MapInv'
  <2>1. CompleteRows' = CompleteRows /\ boot' = boot
    BY <1>q, <1>b DEF CompleteRows
  <2>2. Mapped(D)'
    BY <1>d, <1>m, <1>q, <2>1, MappedKept
  <2>. QED
    BY <1>b, <1>q, <2>1, <2>2 DEF MapInv
<1>2. CASE StartLoop
  <2>1. /\ rpc = "start" /\ rpc' = "top" /\ done' = Cardinality(CompleteRows)
        /\ UNCHANGED <<attempts, log, phase, rows, boot>> /\ ~PulseEn
    BY <1>2 DEF StartLoop, PulseEn, vars, clientVars, collectorVars
  <2>2. CompleteRows = D
    BY <1>d, <1>m, <2>1 DEF Mapped, Counted, InitialPart
  <2>3. done' = done
    BY <1>d, <2>1, <2>2 DEF Mapped, Counted
  <2>4. CompleteRows' = CompleteRows
    BY <2>1 DEF CompleteRows
  <2>5. Mapped(D)'
    BY <1>d, <1>m, <2>1, <2>3, <2>4, MappedKept
  <2>. QED
    BY <1>b, <2>1, <2>3, <2>4, <2>5 DEF MapInv
<1>3. CASE PulseEn
  <2>1. /\ rpc = "top" /\ rpc' = "read" /\ attempts' = attempts + 1 /\ expired' = FALSE
        /\ UNCHANGED <<done, log, phase, rows>> /\ boot' = boot + 1
    BY <1>3 DEF PulseEn, Reset, collectorVars
  <2>2. CompleteRows' = CompleteRows
    BY <2>1 DEF CompleteRows
  <2>3. Mapped(D)'
    <3>1. CompleteRows \ D = {}
      BY <1>m, <2>1
    <3>. QED
      BY <1>d, <2>1, <2>2, <3>1, MappedKept
  <2>4. boot' = attempts' + 1
    <3>1. boot = attempts + 1
      BY <1>p, <2>1 DEF MapInv
    <3>. QED
      BY <2>1, <3>1
  <2>. QED
    BY <2>1, <2>3, <2>4 DEF MapInv
<1>4. CASE ReadRows \/ LookAgain
  <2>1. /\ UNCHANGED <<log, done, attempts, rows, phase, expired>> /\ rpc' \in {"read", "check"}
        /\ rpc \in {"read", "check"} /\ ~PulseEn
    BY <1>4 DEF ReadRows, LookAgain, PulseEn, vars, collectorVars
  <2>. QED
    BY <1>1, <1>q, <2>1 DEF MapInv
<1>5. CASE RecordCapture
  <2>. DEFINE x == [attempt |-> attempts, outcome |-> "complete",
                    capture |-> rows[Max(seen)].capture]
  <2>1. /\ rpc = "check" /\ rpc' = "top" /\ Cardinality(seen) > done
        /\ done' = Cardinality(seen) /\ log' = Append(log, x)
        /\ UNCHANGED <<attempts, seen, phase, rows, boot>> /\ ~PulseEn
    BY <1>5 DEF RecordCapture, PulseEn, vars, clientVars, collectorVars
  <2>2. phase = "running" /\ boot = attempts + 1
    BY <1>p, <2>1 DEF MapInv
  <2>3. /\ seen = CompleteRows /\ D \subseteq seen /\ Max(seen) \in seen
        /\ FirstBoot(rows[Max(seen)]) = boot /\ Resting
    BY <1>t, <1>d, <2>1, <2>2, NewRow
  <2>4. CompleteRows' = CompleteRows
    BY <2>1 DEF CompleteRows
  <2>5. x.capture = rows[Max(seen)].capture /\ x.attempt = attempts /\ x \in LogLine
    <3>1. rows[Max(seen)].capture \in Int
      BY <2>3 DEF CaptureInv, CompleteRows
    <3>. QED
      BY <1>t, <3>1 DEF LogLine
  <2>. HIDE DEF x
  <2>6. /\ DOMAIN log = 1..Len(log) /\ DOMAIN log' = 1..(Len(log) + 1)
        /\ \A i \in 1..Len(log) : log'[i] = log[i]
        /\ log'[Len(log) + 1] = x
        /\ \A i \in 1..(Len(log) + 1) : i \in 1..Len(log) \/ i = Len(log) + 1
    BY <1>t, <2>1, <2>5, LogAppend
  <2>7. \A i \in DOMAIN log' : log'[i].outcome = "complete" =>
            \E k \in seen : /\ log'[i].capture = rows[k].capture
                            /\ FirstBoot(rows[k]) = log'[i].attempt + 1
    <3>1. ASSUME NEW i \in 1..Len(log), log[i].outcome = "complete"
          PROVE  \E k \in seen : /\ log[i].capture = rows[k].capture
                                 /\ FirstBoot(rows[k]) = log[i].attempt + 1
      BY <1>d, <2>3, <2>6, <3>1 DEF Mapped
    <3>2. \E k \in seen : /\ x.capture = rows[k].capture
                          /\ FirstBoot(rows[k]) = x.attempt + 1
      BY <2>2, <2>3, <2>5
    <3>. QED
      BY <2>6, <3>1, <3>2
  <2>8. InitialPart(seen)'
    BY <1>t, <2>1, <2>4 DEF InitialPart
  <2>9. Counted(seen)'
    BY <2>1, <2>7, <2>8 DEF Counted
  <2>10. Mapped(seen)'
    BY <2>1, <2>3, <2>4, <2>7, <2>9 DEF Mapped, FirstBoot
  <2>. QED
    BY <1>b, <2>1, <2>2, <2>3, <2>10 DEF MapInv
<1>6. CASE RecordTimeout
  <2>. DEFINE x == [attempt |-> attempts, outcome |-> "timeout", capture |-> None]
  <2>1. /\ rpc = "check" /\ rpc' = "top" /\ log' = Append(log, x) /\ expired
        /\ UNCHANGED <<attempts, done, phase, rows, boot>> /\ ~PulseEn
    BY <1>6 DEF RecordTimeout, PulseEn, vars, clientVars, collectorVars
  <2>2. Resting /\ Cardinality(CompleteRows) <= done /\ boot = attempts + 1
    BY <1>p, <2>1 DEF MapInv
  <2>3. CompleteRows = D
    <3>1. /\ D \in SUBSET CompleteRows /\ IsFiniteSet(CompleteRows) /\ Cardinality(D) = done
          /\ Cardinality(CompleteRows) \in Nat
      BY <1>t, <1>d, InitialFinite DEF Mapped, Counted, InitialPart
    <3>2. Cardinality(D) <= Cardinality(CompleteRows)
      BY <3>1, FS_Subset
    <3>3. Cardinality(D) = Cardinality(CompleteRows)
      BY <1>t, <2>2, <3>1, <3>2
    <3>. QED
      BY <3>1, <3>3, FS_Subset
  <2>4. CompleteRows' = CompleteRows
    BY <2>1 DEF CompleteRows
  <2>5. x \in LogLine /\ x.outcome = "timeout"
    BY <1>t DEF LogLine, None
  <2>. HIDE DEF x
  <2>6. /\ DOMAIN log = 1..Len(log) /\ DOMAIN log' = 1..(Len(log) + 1)
        /\ \A i \in 1..Len(log) : log'[i] = log[i]
        /\ log'[Len(log) + 1] = x
        /\ \A i \in 1..(Len(log) + 1) : i \in 1..Len(log) \/ i = Len(log) + 1
    BY <1>t, <2>1, <2>5, LogAppend
  <2>7. \A i \in DOMAIN log' : log'[i].outcome = "complete" =>
            \E k \in D : /\ log'[i].capture = rows[k].capture
                         /\ FirstBoot(rows[k]) = log'[i].attempt + 1
    BY <1>d, <2>5, <2>6 DEF Mapped
  <2>8. InitialPart(D)'
    BY <1>d, <2>4 DEF Mapped, Counted, InitialPart
  <2>9. Counted(D)'
    BY <1>d, <2>1, <2>7, <2>8 DEF Mapped, Counted
  <2>10. Mapped(D)'
    BY <2>1, <2>3, <2>4, <2>7, <2>9 DEF Mapped, FirstBoot
  <2>. QED
    BY <1>b, <2>1, <2>2, <2>10 DEF MapInv
<1>7. CASE LeaveLoop \/ Finish
  <2>1. /\ UNCHANGED <<log, done, attempts, rows>> /\ rpc' \in {"finish", "ended"} /\ ~PulseEn
        /\ (phase = "running")' => phase = "running"
    BY <1>7 DEF LeaveLoop, Finish, PulseEn, vars, collectorVars
  <2>. QED
    BY <1>1, <1>q, <2>1
<1>8. CASE Abort \/ StopCollector
  <2>1. /\ UNCHANGED <<log, done, attempts, rows>> /\ rpc' \in {"stopping", "ended"} /\ ~PulseEn
        /\ (phase = "running")' => phase = "running"
    BY <1>8 DEF Abort, StopCollector, PulseEn, vars, collectorVars
  <2>. QED
    BY <1>1, <1>q, <2>1
<1>9. CASE RunnerError
  <2>1. /\ UNCHANGED <<log, done, rows, boot>> /\ rpc' = "stopping" /\ phase' = "failed"
    BY <1>9 DEF RunnerError, clientVars, collectorVars
  <2>2. CompleteRows' = CompleteRows
    BY <2>1 DEF CompleteRows
  <2>3. Mapped(D)'
    BY <1>d, <1>m, <2>1, <2>2, MappedKept
  <2>. QED
    BY <2>1, <2>3 DEF MapInv
<1>10. CASE DeadlinePasses
  <2>1. /\ UNCHANGED <<log, done, attempts, rows, rpc, phase>> /\ ~PulseEn
        /\ rpc \in {"read", "check"}
        /\ pc \in {"done", "fatal"} /\ NothingComing /\ Cardinality(CompleteRows) <= done
    BY <1>10 DEF DeadlinePasses, PulseEn, Fault, collectorVars
  <2>. QED
    BY <1>1, <1>q, <2>1 DEF Resting, NothingComing
<1>. QED
  BY <1>1, <1>2, <1>3, <1>4, <1>5, <1>6, <1>7, <1>8, <1>9, <1>10 DEF RestartNext, RunnerStep

\* For any number of resets, attempts, trials and faults: if the board is at rest
\* when the experiment begins, makes one trial per boot, and no datagram or timeout
\* comes late or twice, the capture written next to a reset holds the bytes of the
\* boot that this reset started.
THEOREM ResetsAreMapped ==
    ASSUME BoardIdle, ClientTrials = 1, {"delay", "dup"} \cap FaultKinds = {}
    PROVE  RestartSpec => []ResetMapsToItsCapture
<1>. DEFINE Inv == CoreInv /\ CaptureInv /\ CompletedInv /\ ReportInv /\ BootInv /\ RowInv /\ MapInv
<1>1. RestartInit => Inv
  BY RestartCoreInit, CompletedInit, ReportInit, MapInit
<1>2. Inv /\ [RestartNext]_allVars => Inv'
  <2>. SUFFICES ASSUME Inv, [RestartNext]_allVars
                PROVE  Inv'
    OBVIOUS
  <2>1. rpc = "top" => Resting
    BY DEF MapInv
  <2>. QED
    BY <2>1, RestartCoreStep, CompletedStep, ReportStep, BootStep, RowStep, MapStep
<1>3. Inv => ResetMapsToItsCapture
  <2>. SUFFICES ASSUME Inv, NEW i \in DOMAIN log, log[i].outcome = "complete"
                PROVE  BootOf(log[i].capture) = {log[i].attempt + 1}
    BY DEF ResetMapsToItsCapture
  <2>1. PICK D : Mapped(D)
    BY DEF MapInv
  <2>2. PICK k \in D : log[i].capture = rows[k].capture /\ FirstBoot(rows[k]) = log[i].attempt + 1
    BY <2>1 DEF Mapped
  <2>3. k \in DOMAIN rows /\ rows[k].complete
    BY <2>1 DEF Mapped, Counted, InitialPart, CompleteRows
  <2>4. {j \in DOMAIN rows : rows[j].complete /\ rows[j].capture = log[i].capture} = {k}
    BY <2>2, <2>3 DEF CaptureInv, CaptureWrittenOnce
  <2>. QED
    BY <2>2, <2>4 DEF BootOf, FirstBoot
<1>. HIDE DEF Inv
<1>. QED
  BY <1>1, <1>2, <1>3, PTL DEF RestartSpec
==============================================================================
