------------------------------ MODULE TebProofs ------------------------------
(***************************************************************************)
(* Proofs about TebBootstrap and TebBench.  Of the boots: types, the       *)
(* binding of every seed to its boot's HELLO, and the freshness of         *)
(* capsules between two power cycles.  Of the benchmark: how many boots    *)
(* slow ones cut short, what parse_log makes of the log, and that its      *)
(* count of seeded runs and the server's count of capsules agree.          *)
(***************************************************************************)
EXTENDS TebBench, SequenceFacts, FiniteSetTheorems

------------------------------------------------------------------------------
(* Channels and counters. *)

\* What a datagram channel holds after an arrival, a loss, a repetition or
\* damage was in it before, or is the damaged datagram.
LEMMA ChannelOps ==
    ASSUME NEW S, NEW ch \in Seq(S)
    PROVE  /\ ch # <<>> => Tail(ch) \in Seq(S) /\ Head(ch) \in S
           /\ \A i \in DOMAIN ch : /\ ch[i] \in S
                                   /\ RemoveAt(ch, i) \in Seq(S)
                                   /\ Append(ch, ch[i]) \in Seq(S)
                                   /\ \A e \in S : [ch EXCEPT ![i] = e] \in Seq(S)
<1>1. ch # <<>> => Tail(ch) \in Seq(S) /\ Head(ch) \in S
  OBVIOUS
<1>2. ASSUME NEW i \in DOMAIN ch
      PROVE  /\ ch[i] \in S
             /\ RemoveAt(ch, i) \in Seq(S)
             /\ Append(ch, ch[i]) \in Seq(S)
             /\ \A e \in S : [ch EXCEPT ![i] = e] \in Seq(S)
  <2>1. ch[i] \in S
    OBVIOUS
  <2>2. RemoveAt(ch, i) \in Seq(S)
    BY DEF RemoveAt
  <2>. QED
    BY <2>1, <2>2
<1>. QED
  BY <1>1, <1>2

\* A channel of some datagrams is a channel of more.
LEMMA ChannelMono ==
    ASSUME NEW S, NEW T, S \subseteq T, NEW ch \in Seq(S)
    PROVE  ch \in Seq(T)
OBVIOUS

\* The counter is a uint32_t.
LEMMA CounterType ==
    /\ 0 \in Counters /\ 1 \in Counters
    /\ \A v \in Counters : (v + 1) % CounterMod \in Counters
BY TebAssumption DEF Counters

\* Below the width nothing wraps.
LEMMA NoWrap ==
    ASSUME NEW v \in Nat, v < CounterMod
    PROVE  v % CounterMod = v
BY TebAssumption

\* The values RAM has after a reset.
LEMMA RamType ==
    /\ NoHello \in HelloFields
    /\ [sram |-> None, timing |-> None] \in Samples
BY CounterType DEF NoHello, HelloFields, Samples

\* Messages are built of their parts.
LEMMA CapsuleType ==
    ASSUME NEW h \in HelloMsgs, NEW n \in Nat
    PROVE  CapsuleFor(h, n) \in Capsules
BY DEF CapsuleFor, HelloMsgs, Capsules, Bodies, HelloFields

\* Damage leaves a capsule's source, origin and signature alone.
LEMMA DamageType ==
    ASSUME NEW c \in Capsules, NEW d \in Damaged(c)
    PROVE  /\ d \in Capsules
           /\ d.port = c.port /\ d.origin = c.origin /\ d.signature = c.signature
<1>1. c.body \in Bodies /\ c.signature \in Bodies
  BY DEF Capsules
<1>2. ASSUME NEW b \in Bodies, d = [c EXCEPT !.body = b]
      PROVE  /\ d \in Capsules
             /\ d.port = c.port /\ d.origin = c.origin /\ d.signature = c.signature
  BY <1>2 DEF Capsules
<1>3. /\ [c.body EXCEPT !.wellFormed = FALSE] \in Bodies
      /\ [c.body EXCEPT !.sequence = 0] \in Bodies
      /\ [c.body EXCEPT !.counter = 0] \in Bodies
      /\ [c.body EXCEPT !.helloHash = NoHello] \in Bodies
  BY <1>1, CounterType, RamType DEF Bodies
<1>4. \/ d = [c EXCEPT !.body = [c.body EXCEPT !.wellFormed = FALSE]]
      \/ d = [c EXCEPT !.body = [c.body EXCEPT !.sequence = 0]]
      \/ d = [c EXCEPT !.body = [c.body EXCEPT !.counter = 0]]
      \/ d = [c EXCEPT !.body = [c.body EXCEPT !.helloHash = NoHello]]
  BY DEF Damaged
<1>. QED
  BY <1>2, <1>3, <1>4

------------------------------------------------------------------------------
(* Type correctness. *)

\* The initial values have their types.
LEMMA TypeInit == Init => TypeOK
BY TebAssumption, CounterType, RamType
   DEF Init, TypeOK, Pcs

\* No step uses more faults than there are.
LEMMA FaultType ==
    ASSUME TypeOK, \/ UNCHANGED faults
                   \/ \E kind \in FaultKinds : Fault(kind)
    PROVE  faults' \in 0..MaxFaults /\ faults <= faults' /\ faults' \in Nat
BY TebAssumption DEF TypeOK, Fault

\* Every step keeps the types.
LEMMA TypeStep == TypeOK /\ [Next]_vars => TypeOK'
<1>. SUFFICES ASSUME TypeOK, [Next]_vars
              PROVE  TypeOK'
  OBVIOUS
<1>f. (UNCHANGED faults \/ \E kind \in FaultKinds : Fault(kind)) =>
         faults' \in 0..MaxFaults /\ faults <= faults' /\ faults' \in Nat
  BY FaultType
<1>1. CASE StoreMagic
  <2>1. NextCounter \in Counters
    BY CounterType DEF NextCounter, TypeOK
  <2>2. retained' \in [magic : BOOLEAN, value : Counters, check : Counters \cup {None}]
    BY <1>1 DEF StoreMagic, TypeOK
  <2>. QED
    BY <1>1, <2>1, <2>2 DEF StoreMagic, TypeOK, Pcs, serverVars
<1>2. CASE StoreValue
  <2>1. retained' \in [magic : BOOLEAN, value : Counters, check : Counters \cup {None}]
    BY <1>2 DEF StoreValue, TypeOK
  <2>. QED
    BY <1>2, <2>1 DEF StoreValue, TypeOK, Pcs, serverVars
<1>3. CASE StoreCheck
  <2>1. retained' \in [magic : BOOLEAN, value : Counters, check : Counters \cup {None}]
    BY <1>3 DEF StoreCheck, TypeOK
  <2>. QED
    BY <1>3, <2>1 DEF StoreCheck, TypeOK, Pcs, serverVars
<1>4. CASE DiscardCredit
  BY <1>4 DEF DiscardCredit, TypeOK, Pcs, serverVars, memoryVars
<1>5. CASE CaptureSram
  <2>1. puf' \in Samples
    BY <1>5 DEF CaptureSram, TypeOK, Samples
  <2>. QED
    BY <1>5, <2>1 DEF CaptureSram, TypeOK, Pcs, serverVars, memoryVars
<1>6. CASE CaptureTiming
  <2>1. puf' \in Samples
    BY <1>6 DEF CaptureTiming, TypeOK, Samples
  <2>. QED
    BY <1>6, <2>1 DEF CaptureTiming, TypeOK, Pcs, serverVars
<1>7. CASE BuildHello
  <2>1. hello' \in HelloFields
    BY <1>7 DEF BuildHello, TypeOK, Samples, HelloFields
  <2>. QED
    BY <1>7, <2>1 DEF BuildHello, TypeOK, Pcs, serverVars, memoryVars
<1>8. CASE JoinWifi
  <2>1. faults' \in 0..MaxFaults /\ faults <= faults' /\ faults' \in Nat
    BY <1>8, <1>f DEF JoinWifi, Fault
  <2>. QED
    BY <1>8, <2>1 DEF JoinWifi, TypeOK, Pcs, serverVars, memoryVars
<1>9. CASE SendHello
  <2>1. HelloMsg(hello) \in HelloMsgs
    BY DEF HelloMsg, HelloMsgs, Origins, TypeOK
  <2>. QED
    BY <1>9, <2>1 DEF SendHello, TypeOK, Pcs, serverVars, memoryVars
<1>10. CASE RecvCapsule
  <2>1. Head(toBoard) \in Capsules /\ Tail(toBoard) \in Seq(Capsules)
    BY <1>10, ChannelOps DEF RecvCapsule, TypeOK
  <2>. QED
    BY <1>10, <2>1 DEF RecvCapsule, TypeOK, Pcs, serverVars, memoryVars
<1>11. CASE DiscardUnbound
  BY <1>11, ChannelOps DEF DiscardUnbound, TypeOK, serverVars, memoryVars, deviceVars
<1>12. CASE RecvTimeout
  <2>1. faults' \in 0..MaxFaults /\ faults <= faults' /\ faults' \in Nat
    BY <1>12, <1>f DEF RecvTimeout, Fault
  <2>. QED
    BY <1>12, <2>1 DEF RecvTimeout, TypeOK, Pcs, serverVars, memoryVars
<1>13. CASE AcceptCapsule
  BY <1>13 DEF AcceptCapsule, TypeOK, Pcs, serverVars, memoryVars
<1>14. CASE AddEntropy
  <2>1. [boot |-> boot, power |-> power, hello |-> hello, capsule |-> got,
         seed |-> Seed] \in SeedRecords
    BY <1>14 DEF AddEntropy, TypeOK, SeedRecords, Seed, Samples, Capsules, Bodies
  <2>. QED
    BY <1>14, <2>1, TebAssumption DEF AddEntropy, TypeOK, Pcs, serverVars, memoryVars
<1>15. CASE StepFails
  <2>1. faults' \in 0..MaxFaults /\ faults <= faults' /\ faults' \in Nat
    BY <1>15, <1>f DEF StepFails, Fault
  <2>. QED
    BY <1>15, <2>1 DEF StepFails, TypeOK, Pcs, serverVars, memoryVars
<1>16. CASE WarmReset \/ PowerCycle
  <2>1. /\ bpc' \in Pcs /\ counter' \in Counters /\ puf' \in Samples /\ hello' \in HelloFields
        /\ port' \in Ports /\ got' \in Capsules \cup {NoCapsule} /\ credited' \in Nat
    BY <1>16, RamType, CounterType, TebAssumption DEF WarmReset, PowerCycle, Rebooted, Pcs
  <2>2. /\ retained' \in [magic : BOOLEAN, value : Counters, check : Counters \cup {None}]
        /\ area' \in Startups \cup {Filled}
    <3>1. \/ retained' = retained /\ area' = area
          \/ /\ retained' = [magic |-> FALSE, value |-> 0, check |-> None]
             /\ area' \in Startups
      BY <1>16 DEF WarmReset, PowerCycle
    <3>2. [magic |-> FALSE, value |-> 0, check |-> None]
             \in [magic : BOOLEAN, value : Counters, check : Counters \cup {None}]
      BY CounterType
    <3>3. retained \in [magic : BOOLEAN, value : Counters, check : Counters \cup {None}]
          /\ area \in Startups \cup {Filled}
      BY DEF TypeOK
    <3>. QED
      BY <3>1, <3>2, <3>3
  <2>3. power' \in Nat /\ boot' \in 1..MaxBoots /\ torn' \subseteq Nat
    <3>1. /\ power' \in {power, power + 1}
          /\ boot < MaxBoots /\ boot' = boot + 1
          /\ torn' \in {torn, torn \cup {power}}
      BY <1>16 DEF WarmReset, PowerCycle
    <3>. QED
      BY <3>1, TebAssumption DEF TypeOK
  <2>4. /\ UNCHANGED <<serving, sequence, built, toServer, toBoard, seeds, faults>>
        /\ earlier' = faults /\ bpc' = "start"
    BY <1>16 DEF WarmReset, PowerCycle, Rebooted, serverVars
  <2>. QED
    BY <2>1, <2>2, <2>3, <2>4 DEF TypeOK
<1>17. CASE ServeHello
  <2>1. Head(toServer) \in HelloMsgs /\ Tail(toServer) \in Seq(HelloMsgs)
    BY <1>17, ChannelOps DEF ServeHello, TypeOK
  <2>2. sequence + 1 \in Nat
    BY DEF TypeOK
  <2>3. CapsuleFor(Head(toServer), sequence + 1) \in Capsules
    BY <2>1, <2>2, CapsuleType
  <2>. QED
    BY <1>17, <2>1, <2>2, <2>3 DEF ServeHello, TypeOK, memoryVars, deviceVars
<1>18. CASE ServeFails
  <2>1. faults' \in 0..MaxFaults /\ faults <= faults' /\ faults' \in Nat
    BY <1>18, <1>f DEF ServeFails, Fault
  <2>2. Tail(toServer) \in Seq(HelloMsgs)
    BY <1>18, ChannelOps DEF ServeFails, TypeOK
  <2>. QED
    BY <1>18, <2>1, <2>2 DEF ServeFails, TypeOK, memoryVars, deviceVars
<1>19. CASE RejectHello
  BY <1>19, ChannelOps DEF RejectHello, TypeOK, serverVars, memoryVars, deviceVars
<1>20. CASE NetworkFault
  <2>1. faults' \in 0..MaxFaults /\ faults <= faults' /\ faults' \in Nat
    BY <1>20, <1>f DEF NetworkFault, Fault
  <2>2. toServer' \in Seq(HelloMsgs)
    <3>1. \/ toServer' = toServer
          \/ \E i \in DOMAIN toServer : toServer' = RemoveAt(toServer, i)
          \/ \E i \in DOMAIN toServer : toServer' = Append(toServer, toServer[i])
      BY <1>20 DEF NetworkFault
    <3>2. toServer \in Seq(HelloMsgs)
      BY DEF TypeOK
    <3>. QED
      BY <3>1, <3>2, ChannelOps
  <2>3. toBoard' \in Seq(Capsules)
    <3>1. \/ toBoard' = toBoard
          \/ \E i \in DOMAIN toBoard : toBoard' = RemoveAt(toBoard, i)
          \/ \E i \in DOMAIN toBoard : toBoard' = Append(toBoard, toBoard[i])
          \/ \E i \in DOMAIN toBoard : \E c \in Damaged(toBoard[i]) :
                toBoard' = [toBoard EXCEPT ![i] = c]
      BY <1>20 DEF NetworkFault
    <3>2. toBoard \in Seq(Capsules)
      BY DEF TypeOK
    <3>3. ASSUME NEW i \in DOMAIN toBoard, NEW c \in Damaged(toBoard[i])
          PROVE  [toBoard EXCEPT ![i] = c] \in Seq(Capsules)
      <4>1. toBoard[i] \in Capsules
        BY <3>2, ChannelOps
      <4>2. c \in Capsules
        BY <4>1, DamageType
      <4>. QED
        BY <3>2, <4>2, ChannelOps
    <3>4. \A i \in DOMAIN toBoard : /\ RemoveAt(toBoard, i) \in Seq(Capsules)
                                    /\ Append(toBoard, toBoard[i]) \in Seq(Capsules)
      BY <3>2, ChannelOps
    <3>. QED
      BY <3>1, <3>2, <3>3, <3>4, Zenon
  <2>. QED
    BY <1>20, <2>1, <2>2, <2>3 DEF NetworkFault, TypeOK, memoryVars, deviceVars, serverVars
<1>21. CASE UNCHANGED vars
  BY <1>21 DEF vars, TypeOK, memoryVars, deviceVars, serverVars
<1>. QED
  BY <1>1, <1>2, <1>3, <1>4, <1>5, <1>6, <1>7, <1>8, <1>9, <1>10, <1>11, <1>12, <1>13, <1>14,
     <1>15, <1>16, <1>17, <1>18, <1>19, <1>20, <1>21 DEF Next, BoardStep

\* The types hold in every reachable state: the counter keeps its width through
\* every reset, wrapped or torn, and a capsule is only looked at once it is there.
THEOREM TebTypeCorrect == Spec => []TypeOK
BY TypeInit, TypeStep, PTL DEF Spec

------------------------------------------------------------------------------
(* Every seed is bound to its boot. *)

\* The capsule as the server signed it.
Restored(c) ==
    [port |-> c.port, origin |-> c.origin, body |-> c.signature, signature |-> c.signature]

\* The capsules somebody built.
Issued == {c \in Capsules : Restored(c) \in built}

\* Every capsule on its way or received is one the server built, but for damage
\* to its body; and the secrets in hand are the ones HELLO committed to.
BindInv ==
    /\ toBoard \in Seq(Issued)
    /\ bpc \in {"accept", "add"} => got \in Issued
    /\ bpc = "add" => CapsuleOk(got)
    /\ bpc \in {"wifi", "send", "wait", "accept", "add"} =>
          hello.sram = puf.sram /\ hello.timing = puf.timing
    /\ SeedIsBound

\* An undamaged capsule that was issued was built.
LEMMA IntactIsBuilt ==
    ASSUME NEW c \in Issued, c.signature = c.body
    PROVE  c \in built
<1>1. c \in Capsules /\ Restored(c) \in built
  BY DEF Issued
<1>2. c = Restored(c)
  BY <1>1 DEF Restored, Capsules
<1>. QED
  BY <1>1, <1>2

\* Damage does not change what was issued.
LEMMA DamageIssued ==
    ASSUME NEW c \in Issued, NEW d \in Damaged(c)
    PROVE  d \in Issued
BY DamageType DEF Issued, Restored

\* Every step keeps seeds bound to HELLOs.
LEMMA BindStep == TypeOK /\ BindInv /\ [Next]_vars => BindInv'
<1>. SUFFICES ASSUME TypeOK, BindInv, [Next]_vars
              PROVE  BindInv'
  OBVIOUS
<1>ops. toBoard \in Seq(Issued)
  BY DEF BindInv
<1>grow. built \subseteq built' => Issued \subseteq Issued'
  BY DEF Issued
<1>same. ASSUME UNCHANGED <<built, toBoard, got, seeds>>,
                bpc' \notin {"accept", "add", "send", "wait", "wifi"}
         PROVE  BindInv'
  BY <1>same DEF BindInv, Issued, SeedIsBound
<1>1. CASE StoreMagic \/ StoreValue \/ StoreCheck \/ DiscardCredit \/ CaptureSram \/ CaptureTiming
           \/ RecvTimeout \/ StepFails
  BY <1>1, <1>same DEF StoreMagic, StoreValue, StoreCheck, DiscardCredit, CaptureSram,
     CaptureTiming, RecvTimeout, StepFails, serverVars
<1>2. CASE BuildHello
  BY <1>2 DEF BuildHello, BindInv, Issued, SeedIsBound, serverVars, memoryVars
<1>3. CASE JoinWifi
  <2>1. toBoard' \in Seq(Issued')
    <3>1. Issued' = Issued
      BY <1>3 DEF JoinWifi, serverVars, Issued
    <3>2. <<>> \in Seq(Issued)
      OBVIOUS
    <3>3. toBoard' \in {toBoard, <<>>}
      BY <1>3 DEF JoinWifi
    <3>. QED
      BY <3>1, <3>2, <3>3, <1>ops
  <2>. QED
    BY <1>3, <2>1 DEF JoinWifi, BindInv, SeedIsBound, serverVars
<1>4. CASE SendHello
  BY <1>4 DEF SendHello, BindInv, Issued, SeedIsBound, serverVars
<1>5. CASE RecvCapsule
  <2>1. Issued' = Issued
    BY <1>5 DEF RecvCapsule, serverVars, Issued
  <2>2. Head(toBoard) \in Issued /\ Tail(toBoard) \in Seq(Issued)
    BY <1>5, <1>ops, ChannelOps DEF RecvCapsule
  <2>. QED
    BY <1>5, <2>1, <2>2 DEF RecvCapsule, BindInv, SeedIsBound, serverVars
<1>6. CASE DiscardUnbound
  <2>1. Issued' = Issued
    BY <1>6 DEF DiscardUnbound, serverVars, Issued
  <2>2. Tail(toBoard) \in Seq(Issued)
    BY <1>6, <1>ops, ChannelOps DEF DiscardUnbound
  <2>. QED
    BY <1>6, <2>1, <2>2 DEF DiscardUnbound, BindInv, SeedIsBound, serverVars, deviceVars,
       CapsuleOk, Parses, Verifies
<1>7. CASE AcceptCapsule
  BY <1>7 DEF AcceptCapsule, BindInv, Issued, SeedIsBound, serverVars, CapsuleOk, Parses, Verifies
<1>8. CASE AddEntropy
  <2>1. Issued' = Issued /\ UNCHANGED <<built, toBoard>> /\ bpc' = "seeded"
    BY <1>8 DEF AddEntropy, serverVars, Issued
  <2>2. got \in built
    BY <1>8, IntactIsBuilt DEF AddEntropy, BindInv, CapsuleOk, Parses, Verifies
  <2>3. got.body.helloHash = hello /\ hello.sram = puf.sram /\ hello.timing = puf.timing
    BY <1>8 DEF AddEntropy, BindInv, CapsuleOk, Parses, Verifies
  <2>4. SeedIsBound'
    <3>1. SUFFICES ASSUME NEW s \in seeds'
                   PROVE  /\ s.capsule \in built
                          /\ s.capsule.body.helloHash = s.hello
                          /\ s.seed = [sram |-> s.hello.sram, timing |-> s.hello.timing,
                                       beacon |-> s.capsule.body.sequence, salt |-> s.hello]
      BY <2>1 DEF SeedIsBound
    <3>2. CASE s \in seeds
      BY <3>2 DEF BindInv, SeedIsBound
    <3>3. CASE s = [boot |-> boot, power |-> power, hello |-> hello, capsule |-> got,
                    seed |-> Seed]
      <4>1. /\ s.capsule = got /\ s.hello = hello
            /\ s.seed = [sram |-> puf.sram, timing |-> puf.timing,
                         beacon |-> got.body.sequence, salt |-> got.body.helloHash]
        BY <3>3 DEF Seed
      <4>. QED
        BY <4>1, <2>2, <2>3
    <3>. QED
      BY <1>8, <3>2, <3>3 DEF AddEntropy
  <2>. QED
    BY <2>1, <2>4 DEF BindInv
<1>9. CASE WarmReset \/ PowerCycle
  <2>1. UNCHANGED <<built, toBoard, seeds>> /\ bpc' = "start"
    BY <1>9 DEF WarmReset, PowerCycle, Rebooted, serverVars
  <2>. QED
    BY <2>1 DEF BindInv, Issued, SeedIsBound
<1>10. CASE ServeHello
  <2>1. /\ built' = built \cup {CapsuleFor(Head(toServer), sequence + 1)}
        /\ toBoard' = Append(toBoard, CapsuleFor(Head(toServer), sequence + 1))
        /\ UNCHANGED <<deviceVars, seeds>>
    BY <1>10 DEF ServeHello
  <2>2. CapsuleFor(Head(toServer), sequence + 1) \in Capsules
    <3>1. Head(toServer) \in HelloMsgs /\ sequence + 1 \in Nat
      BY <1>10, ChannelOps DEF ServeHello, TypeOK
    <3>. QED
      BY <3>1, CapsuleType
  <2>3. Restored(CapsuleFor(Head(toServer), sequence + 1)) = CapsuleFor(Head(toServer), sequence + 1)
    BY DEF Restored, CapsuleFor
  <2>4. Issued \subseteq Issued' /\ CapsuleFor(Head(toServer), sequence + 1) \in Issued'
    BY <2>1, <2>2, <2>3, <1>grow DEF Issued
  <2>5. toBoard' \in Seq(Issued')
    BY <2>1, <2>4, <1>ops, ChannelMono
  <2>6. SeedIsBound'
    BY <2>1 DEF SeedIsBound, BindInv
  <2>. QED
    BY <2>1, <2>4, <2>5, <2>6 DEF BindInv, deviceVars, CapsuleOk, Parses, Verifies
<1>11. CASE ServeFails \/ RejectHello
  BY <1>11 DEF ServeFails, RejectHello, BindInv, Issued, SeedIsBound, serverVars, deviceVars,
     CapsuleOk, Parses, Verifies
<1>12. CASE NetworkFault
  <2>1. UNCHANGED <<deviceVars, built, seeds>>
    BY <1>12 DEF NetworkFault, serverVars
  <2>2. Issued' = Issued
    BY <2>1 DEF Issued
  <2>3. \/ toBoard' = toBoard
        \/ \E i \in DOMAIN toBoard : toBoard' = RemoveAt(toBoard, i)
        \/ \E i \in DOMAIN toBoard : toBoard' = Append(toBoard, toBoard[i])
        \/ \E i \in DOMAIN toBoard : \E c \in Damaged(toBoard[i]) :
              toBoard' = [toBoard EXCEPT ![i] = c]
    BY <1>12 DEF NetworkFault
  <2>4. toBoard' \in Seq(Issued)
    <3>1. ASSUME NEW i \in DOMAIN toBoard, NEW c \in Damaged(toBoard[i])
          PROVE  [toBoard EXCEPT ![i] = c] \in Seq(Issued)
      <4>1. toBoard[i] \in Issued
        BY <1>ops, ChannelOps
      <4>2. c \in Issued
        BY <4>1, DamageIssued
      <4>. QED
        BY <1>ops, <4>2, ChannelOps
    <3>2. \A i \in DOMAIN toBoard : /\ RemoveAt(toBoard, i) \in Seq(Issued)
                                    /\ Append(toBoard, toBoard[i]) \in Seq(Issued)
      BY <1>ops, ChannelOps
    <3>. QED
      BY <2>3, <1>ops, <3>1, <3>2, Zenon
  <2>. QED
    BY <2>1, <2>2, <2>4 DEF BindInv, SeedIsBound, deviceVars, CapsuleOk, Parses, Verifies
<1>13. CASE UNCHANGED vars
  BY <1>13 DEF vars, deviceVars, serverVars, BindInv, Issued, SeedIsBound, CapsuleOk, Parses,
     Verifies
<1>. QED
  BY <1>1, <1>2, <1>3, <1>4, <1>5, <1>6, <1>7, <1>8, <1>9, <1>10, <1>11, <1>12, <1>13
     DEF Next, BoardStep

\* Seeds stay bound in every reachable state.
LEMMA BindHolds == Spec => []BindInv
<1>1. Init => BindInv
  BY DEF Init, BindInv, SeedIsBound
<1>. QED
  BY <1>1, TebTypeCorrect, BindStep, PTL DEF Spec

\* Whatever UDP does and whenever the board is reset, a seed in a pool comes from
\* an undamaged capsule that the server built for a HELLO with this boot's
\* counter, uptime and commitments.
THEOREM SeedsBound == Spec => []SeedIsBound
<1>1. BindInv => SeedIsBound
  BY DEF BindInv
<1>. QED
  BY <1>1, BindHolds, PTL

------------------------------------------------------------------------------
(* No capsule serves two boots of a power cycle. *)

\* What holds of every HELLO sent so far, by its origin o and its counter n: the
\* retained counter is valid and has reached n, and a later boot of the same
\* power cycle has a greater one.
Past(o, n) ==
    /\ o.boot <= boot
    /\ o.power <= power
    /\ bpc \in {"start", "value", "check", "refill", "puf", "fill", "hello", "wifi", "send"} =>
          o.boot # boot
    /\ o.power = power /\ power \notin torn =>
          /\ bpc # "check" => CounterValid /\ n <= retained.value
          /\ bpc \notin {"start", "failed"} /\ o.boot # boot => n < counter

\* The retained counter through the three stores, by the place of main.
CounterInv ==
    /\ retained.value <= boot /\ counter <= boot
    /\ bpc \in {"start", "value"} => retained.value < boot
    /\ bpc \in {"value", "check"} => retained.magic
    /\ bpc = "check" => retained.value = counter
    /\ bpc \notin {"start", "value", "check", "failed"} => CounterValid /\ retained.value = counter
    /\ bpc \in {"wifi", "send", "wait", "accept", "add"} => hello.counter = counter

\* The hello messages of sessions that are past.
Heard == {h \in HelloMsgs : Past(h.origin, h.fields.counter)}

\* The inductive invariant of freshness.
FreshInv ==
    /\ CounterInv
    /\ toServer \in Seq(Heard)
    /\ \A c \in built : Past(c.origin, c.signature.counter)
    /\ OwnCapsule

\* The counter through every step, as long as it cannot wrap.
LEMMA CounterStep ==
    ASSUME TypeOK, CounterInv, MaxBoots < CounterMod, [Next]_vars
    PROVE  CounterInv'
<1>b. boot \in Nat /\ boot < CounterMod /\ retained.value \in Nat /\ counter \in Nat
  BY TebAssumption DEF TypeOK, Counters
<1>r. retained = [magic |-> retained.magic, value |-> retained.value, check |-> retained.check]
  BY DEF TypeOK
<1>1. CASE StoreMagic
  <2>1. NextCounter <= boot
    <3>1. (retained.value + 1) % CounterMod = retained.value + 1
      <4>1. retained.value + 1 \in Nat /\ retained.value + 1 < CounterMod
        BY <1>1, <1>b, TebAssumption DEF StoreMagic, CounterInv
      <4>. QED
        BY <4>1, NoWrap
    <3>. QED
      BY <1>1, <3>1, <1>b DEF StoreMagic, CounterInv, NextCounter, TypeOK
  <2>2. /\ retained'.magic /\ retained'.value = retained.value
        /\ counter' = NextCounter /\ bpc' = "value" /\ bpc = "start" /\ boot' = boot
    BY <1>1, <1>r DEF StoreMagic
  <2>. QED
    BY <2>1, <2>2, <1>b DEF CounterInv
<1>2. CASE StoreValue
  <2>1. /\ retained'.magic = retained.magic /\ retained'.value = counter
        /\ counter' = counter /\ bpc' = "check" /\ bpc = "value" /\ boot' = boot
    BY <1>2, <1>r DEF StoreValue
  <2>. QED
    BY <2>1, <1>b DEF CounterInv
<1>3. CASE StoreCheck
  <2>1. /\ retained'.magic = retained.magic /\ retained'.value = retained.value
        /\ retained'.check = counter
        /\ counter' = counter /\ bpc' = "refill" /\ bpc = "check" /\ boot' = boot
    BY <1>3, <1>r DEF StoreCheck
  <2>. QED
    BY <2>1, <1>b DEF CounterInv, CounterValid
<1>4. CASE BuildHello
  BY <1>4 DEF BuildHello, CounterInv, CounterValid, memoryVars
<1>5. CASE DiscardCredit \/ CaptureSram \/ CaptureTiming \/ JoinWifi \/ SendHello \/ RecvCapsule
           \/ RecvTimeout \/ AcceptCapsule \/ AddEntropy \/ StepFails
  <2>1. /\ UNCHANGED <<retained, boot, counter, hello>>
        /\ bpc # "check" \/ bpc' = "failed"
        /\ bpc' \in {"puf", "fill", "hello", "send", "wait", "accept", "add", "seeded", "failed"}
        /\ bpc' # "failed" => bpc \notin {"start", "value", "check", "failed"}
        /\ bpc' \in {"send", "wait", "accept", "add"} =>
              bpc \in {"wifi", "send", "wait", "accept", "add"}
    BY <1>5 DEF DiscardCredit, CaptureSram, CaptureTiming, JoinWifi, SendHello, RecvCapsule,
       RecvTimeout, AcceptCapsule, AddEntropy, StepFails, memoryVars
  <2>. QED
    BY <2>1 DEF CounterInv, CounterValid
<1>6. CASE WarmReset \/ PowerCycle
  <2>1. /\ retained'.value \in {retained.value, 0} /\ counter' = 0 /\ bpc' = "start"
        /\ boot' = boot + 1
    BY <1>6 DEF WarmReset, PowerCycle, Rebooted
  <2>. QED
    BY <2>1, <1>b DEF CounterInv
<1>7. CASE DiscardUnbound \/ ServeHello \/ ServeFails \/ RejectHello \/ NetworkFault \/ UNCHANGED vars
  <2>1. UNCHANGED <<retained, boot, counter, hello, bpc>>
    BY <1>7 DEF DiscardUnbound, ServeHello, ServeFails, RejectHello, NetworkFault, vars,
       memoryVars, deviceVars
  <2>. QED
    BY <2>1 DEF CounterInv, CounterValid
<1>. QED
  BY <1>1, <1>2, <1>3, <1>4, <1>5, <1>6, <1>7 DEF Next, BoardStep

\* What holds of a HELLO goes on to hold, through resets included.
LEMMA PastStep ==
    ASSUME TypeOK, CounterInv, MaxBoots < CounterMod, [Next]_vars,
           NEW o \in Origins, NEW n \in Counters, Past(o, n)
    PROVE  Past(o, n)'
<1>b. boot \in Nat /\ boot < CounterMod /\ retained.value \in Nat /\ counter \in Nat /\ power \in Nat
  BY TebAssumption DEF TypeOK, Counters
<1>o. o.boot \in Nat /\ o.power \in Nat /\ n \in Nat
  BY TebAssumption DEF Origins, Counters
<1>r. retained = [magic |-> retained.magic, value |-> retained.value, check |-> retained.check]
  BY DEF TypeOK
<1>1. CASE StoreMagic
  <2>1. CounterValid => NextCounter = retained.value + 1
    <3>1. retained.value + 1 \in Nat /\ retained.value + 1 < CounterMod
      BY <1>1, <1>b, TebAssumption DEF StoreMagic, CounterInv
    <3>2. (retained.value + 1) % CounterMod = retained.value + 1
      BY <3>1, NoWrap
    <3>. QED
      BY <3>2 DEF NextCounter
  <2>2. /\ retained'.magic /\ retained'.value = retained.value /\ retained'.check = retained.check
        /\ counter' = NextCounter /\ bpc' = "value" /\ bpc = "start"
        /\ UNCHANGED <<boot, power, torn>>
    BY <1>1, <1>r DEF StoreMagic
  <2>. QED
    BY <2>1, <2>2, <1>b, <1>o DEF Past, CounterValid
<1>2. CASE StoreValue
  <2>1. /\ counter' = counter /\ bpc' = "check" /\ bpc = "value"
        /\ UNCHANGED <<boot, power, torn>>
    BY <1>2 DEF StoreValue
  <2>. QED
    BY <2>1 DEF Past
<1>3. CASE StoreCheck
  <2>1. /\ retained'.magic = retained.magic /\ retained'.value = retained.value
        /\ retained'.check = counter
        /\ counter' = counter /\ bpc' = "refill" /\ bpc = "check"
        /\ UNCHANGED <<boot, power, torn>>
    BY <1>3, <1>r DEF StoreCheck
  <2>. QED
    BY <2>1, <1>b, <1>o DEF Past, CounterInv, CounterValid
<1>4. CASE DiscardCredit \/ CaptureSram \/ CaptureTiming \/ BuildHello \/ JoinWifi \/ SendHello
           \/ RecvCapsule \/ RecvTimeout \/ AcceptCapsule \/ AddEntropy \/ StepFails
  <2>1. /\ UNCHANGED <<retained, boot, counter, power, torn>>
        /\ bpc # "check"
        /\ bpc' # "failed" => bpc \notin {"start", "failed"}
        /\ bpc' \notin {"start", "value", "check"}
        /\ bpc' \in {"refill", "puf", "fill", "hello", "wifi", "send"} =>
              bpc \in {"refill", "puf", "fill", "hello", "wifi", "send"}
    BY <1>4 DEF DiscardCredit, CaptureSram, CaptureTiming, BuildHello, JoinWifi, SendHello,
       RecvCapsule, RecvTimeout, AcceptCapsule, AddEntropy, StepFails, memoryVars
  <2>. QED
    BY <2>1 DEF Past, CounterValid
<1>5. CASE WarmReset
  <2>1. /\ UNCHANGED <<retained, power>> /\ bpc' = "start" /\ boot' = boot + 1
        /\ torn \subseteq torn' /\ (bpc = "check" => power \in torn')
    BY <1>5 DEF WarmReset, Rebooted
  <2>. QED
    BY <2>1, <1>b, <1>o DEF Past, CounterValid
<1>6. CASE PowerCycle
  <2>1. bpc' = "start" /\ boot' = boot + 1 /\ power' = power + 1
    BY <1>6 DEF PowerCycle, Rebooted
  <2>. QED
    BY <2>1, <1>b, <1>o DEF Past
<1>7. CASE DiscardUnbound \/ ServeHello \/ ServeFails \/ RejectHello \/ NetworkFault \/ UNCHANGED vars
  <2>1. UNCHANGED <<retained, boot, counter, power, torn, bpc>>
    BY <1>7 DEF DiscardUnbound, ServeHello, ServeFails, RejectHello, NetworkFault, vars,
       memoryVars, deviceVars
  <2>. QED
    BY <2>1 DEF Past, CounterValid
<1>. QED
  BY <1>1, <1>2, <1>3, <1>4, <1>5, <1>6, <1>7 DEF Next, BoardStep

\* Every step keeps capsules fresh.
LEMMA FreshStep ==
    ASSUME TypeOK, BindInv, FreshInv, MaxBoots < CounterMod, [Next]_vars
    PROVE  FreshInv'
<1>1. CounterInv'
  BY CounterStep DEF FreshInv
<1>2. \A o \in Origins, n \in Counters : Past(o, n) => Past(o, n)'
  BY PastStep DEF FreshInv
<1>3. Heard \subseteq Heard'
  BY <1>2 DEF Heard, HelloMsgs, HelloFields
<1>4. toServer \in Seq(Heard) /\ toServer \in Seq(Heard')
  BY <1>3, ChannelMono DEF FreshInv
<1>5. \A c \in built : Past(c.origin, c.signature.counter)'
  BY <1>2 DEF FreshInv, TypeOK, Capsules, Bodies
<1>6. toServer' \in Seq(Heard')
  <2>1. CASE SendHello
    <3>1. HelloMsg(hello) \in HelloMsgs
      BY DEF HelloMsg, HelloMsgs, Origins, TypeOK
    <3>2. HelloMsg(hello).origin = [boot |-> boot, power |-> power]
          /\ HelloMsg(hello).fields.counter = counter
      BY <2>1 DEF HelloMsg, SendHello, FreshInv, CounterInv
    <3>3. Past([boot |-> boot, power |-> power], counter)'
      <4>1. /\ UNCHANGED <<retained, boot, power, torn, counter>> /\ bpc' = "wait"
            /\ CounterValid /\ retained.value = counter
        BY <2>1 DEF SendHello, memoryVars, FreshInv, CounterInv
      <4>2. boot \in Nat /\ power \in Nat /\ counter \in Nat
        BY TebAssumption DEF TypeOK, Counters
      <4>. QED
        BY <4>1, <4>2 DEF Past, CounterValid
    <3>4. HelloMsg(hello) \in Heard'
      <4>1. UNCHANGED <<counter, boot, power>>
        BY <2>1 DEF SendHello, memoryVars
      <4>. QED
        BY <3>1, <3>2, <3>3, <4>1 DEF Heard
    <3>. QED
      BY <2>1, <1>4, <3>4 DEF SendHello
  <2>2. CASE ServeHello \/ ServeFails \/ RejectHello
    <3>1. toServer # <<>> /\ toServer' = Tail(toServer)
      BY <2>2 DEF ServeHello, ServeFails, RejectHello
    <3>. QED
      BY <3>1, <1>4, ChannelOps
  <2>3. CASE NetworkFault
    <3>1. \/ toServer' = toServer
          \/ \E i \in DOMAIN toServer : toServer' = RemoveAt(toServer, i)
          \/ \E i \in DOMAIN toServer : toServer' = Append(toServer, toServer[i])
      BY <2>3 DEF NetworkFault
    <3>2. \A i \in DOMAIN toServer : /\ RemoveAt(toServer, i) \in Seq(Heard')
                                     /\ Append(toServer, toServer[i]) \in Seq(Heard')
      BY <1>4, ChannelOps
    <3>. QED
      BY <3>1, <3>2, <1>4, Zenon
  <2>4. CASE ~(SendHello \/ ServeHello \/ ServeFails \/ RejectHello \/ NetworkFault)
    <3>1. toServer' = toServer
      BY <2>4 DEF Next, BoardStep, StoreMagic, StoreValue, StoreCheck, DiscardCredit, CaptureSram,
         CaptureTiming, BuildHello, JoinWifi, RecvCapsule, DiscardUnbound, RecvTimeout,
         AcceptCapsule, AddEntropy, StepFails, WarmReset, PowerCycle, vars
    <3>. QED
      BY <3>1, <1>4
  <2>. QED
    BY <2>1, <2>2, <2>3, <2>4
<1>7. \A c \in built' : Past(c.origin, c.signature.counter)'
  <2>1. CASE ServeHello
    <3>1. PICK h \in Heard : h = Head(toServer)
      BY <2>1, <1>4, ChannelOps DEF ServeHello
    <3>2. PICK c : c = CapsuleFor(h, sequence + 1)
      OBVIOUS
    <3>3. built' = built \cup {c}
      BY <2>1, <3>1, <3>2 DEF ServeHello
    <3>4. c.origin = h.origin /\ c.signature.counter = h.fields.counter
      BY <3>2 DEF CapsuleFor
    <3>5. Past(h.origin, h.fields.counter)'
      BY <1>2 DEF Heard, HelloMsgs, HelloFields
    <3>6. Past(c.origin, c.signature.counter)'
      BY <3>4, <3>5 DEF Past
    <3>. QED
      BY <3>3, <3>6, <1>5
  <2>2. CASE ~ServeHello
    <3>1. built' = built
      BY <2>2 DEF Next, BoardStep, StoreMagic, StoreValue, StoreCheck, DiscardCredit, CaptureSram,
         CaptureTiming, BuildHello, JoinWifi, SendHello, RecvCapsule, DiscardUnbound, RecvTimeout,
         AcceptCapsule, AddEntropy, StepFails, WarmReset, PowerCycle, ServeFails, RejectHello,
         NetworkFault, vars, serverVars
    <3>. QED
      BY <3>1, <1>5
  <2>. QED
    BY <2>1, <2>2
<1>8. OwnCapsule'
  <2>1. torn \subseteq torn'
    BY DEF Next, BoardStep, StoreMagic, StoreValue, StoreCheck, DiscardCredit, CaptureSram,
       CaptureTiming, BuildHello, JoinWifi, SendHello, RecvCapsule, DiscardUnbound, RecvTimeout,
       AcceptCapsule, AddEntropy, StepFails, WarmReset, PowerCycle, ServeHello, ServeFails,
       RejectHello, NetworkFault, vars, memoryVars
  <2>2. CASE AddEntropy
    <3>1. got \in built /\ got.signature.counter = counter
      <4>1. got \in Issued /\ CapsuleOk(got) /\ hello.counter = counter
        BY <2>2 DEF AddEntropy, BindInv, FreshInv, CounterInv
      <4>. QED
        BY <4>1, IntactIsBuilt DEF CapsuleOk, Parses, Verifies
    <3>2. got.origin.power = power /\ power \notin torn => got.origin.boot = boot
      <4>1. Past(got.origin, counter)
        BY <3>1 DEF FreshInv
      <4>2. counter \in Nat
        BY TebAssumption DEF TypeOK, Counters
      <4>. QED
        BY <2>2, <4>1, <4>2 DEF Past, AddEntropy
    <3>3. SUFFICES ASSUME NEW s \in seeds',
                          s.capsule.origin.power = s.power, s.power \notin torn'
                   PROVE  s.capsule.origin.boot = s.boot
      BY DEF OwnCapsule
    <3>4. CASE s \in seeds
      BY <3>3, <3>4, <2>1 DEF FreshInv, OwnCapsule
    <3>5. CASE s = [boot |-> boot, power |-> power, hello |-> hello, capsule |-> got,
                    seed |-> Seed]
      <4>1. s.capsule = got /\ s.power = power /\ s.boot = boot
        BY <3>5
      <4>. QED
        BY <4>1, <3>2, <3>3, <2>1
    <3>. QED
      BY <2>2, <3>4, <3>5 DEF AddEntropy
  <2>3. CASE ~AddEntropy
    <3>1. seeds' = seeds
      BY <2>3 DEF Next, BoardStep, StoreMagic, StoreValue, StoreCheck, DiscardCredit, CaptureSram,
         CaptureTiming, BuildHello, JoinWifi, SendHello, RecvCapsule, DiscardUnbound, RecvTimeout,
         AcceptCapsule, StepFails, WarmReset, PowerCycle, ServeHello, ServeFails, RejectHello,
         NetworkFault, vars
    <3>. QED
      BY <3>1, <2>1 DEF FreshInv, OwnCapsule
  <2>. QED
    BY <2>2, <2>3
<1>. QED
  BY <1>1, <1>6, <1>7, <1>8 DEF FreshInv

\* Between two power cycles a seeded boot uses the capsule built for its own
\* HELLO, however many resets, repetitions and late answers there are, provided
\* that no reset fell between the stores of the counter and that it did not wrap.
THEOREM CapsulesFresh == Spec => []OwnCapsule
<1>1. Init => (MaxBoots < CounterMod => FreshInv)
  BY TebAssumption DEF Init, FreshInv, CounterInv, OwnCapsule
<1>2. TypeOK /\ BindInv /\ (MaxBoots < CounterMod => FreshInv) /\ [Next]_vars
         => (MaxBoots < CounterMod => FreshInv)'
  BY FreshStep
<1>3. (MaxBoots < CounterMod => FreshInv) => OwnCapsule
  BY DEF FreshInv, OwnCapsule
<1>. QED
  BY <1>1, <1>2, <1>3, TebTypeCorrect, BindHolds, PTL DEF Spec

------------------------------------------------------------------------------
(* The credit of a boot is that of its seed. *)

\* Where main is before it reads the SRAM area.
BeforeCapture == {"start", "value", "check", "refill", "puf"}

\* Where main is when the driver's credit is gone and no capsule has been added.
Uncredited == {"puf", "fill", "hello", "wifi", "send", "wait", "accept", "add"}

\* Until its seed is added a boot has no credit (once the driver's is discarded)
\* and no seed; then it has one of each.  No seed is from a boot yet to come.
CreditInv ==
    /\ bpc \in BeforeCapture => puf.sram = None
    /\ DisableLocalRefill =>
          /\ bpc \in Uncredited => credited = 0
          /\ bpc = "failed" /\ puf.sram # None => credited = 0
          /\ bpc = "seeded" => credited = CreditBits
    /\ \A s \in seeds : s.boot <= boot
    /\ bpc # "seeded" => \A s \in seeds : s.boot # boot
    /\ bpc = "seeded" => \E r \in seeds : \A s \in seeds : s.boot = boot <=> s = r

\* Every step keeps credit and seeds together.
LEMMA CreditStep == TypeOK /\ CreditInv /\ [Next]_vars => CreditInv'
<1>. SUFFICES ASSUME TypeOK, CreditInv, [Next]_vars
              PROVE  CreditInv'
  OBVIOUS
<1>b. boot \in Nat /\ \A s \in seeds : s.boot \in Nat
  BY TebAssumption DEF TypeOK, SeedRecords
<1>d. DisableLocalRefill' = DisableLocalRefill
  BY DEF DisableLocalRefill
<1>1. CASE StoreMagic \/ StoreValue \/ StoreCheck
  BY <1>1, <1>d DEF StoreMagic, StoreValue, StoreCheck, CreditInv, BeforeCapture, Uncredited
<1>2. CASE DiscardCredit
  BY <1>2, <1>d DEF DiscardCredit, CreditInv, BeforeCapture, Uncredited, memoryVars
<1>3. CASE \/ CaptureSram \/ CaptureTiming \/ BuildHello \/ JoinWifi \/ SendHello \/ RecvCapsule
           \/ RecvTimeout \/ AcceptCapsule
  <2>1. /\ UNCHANGED <<boot, seeds, credited>>
        /\ bpc \in Uncredited
        /\ bpc' \in (Uncredited \cup {"failed"}) \ BeforeCapture
    BY <1>3 DEF CaptureSram, CaptureTiming, BuildHello, JoinWifi, SendHello, RecvCapsule,
       RecvTimeout, AcceptCapsule, memoryVars, Uncredited, BeforeCapture
  <2>. QED
    BY <2>1, <1>d DEF CreditInv, Uncredited
<1>4. CASE StepFails
  BY <1>4, <1>d DEF StepFails, CreditInv, BeforeCapture, Uncredited, memoryVars
<1>5. CASE AddEntropy
  <2>1. PICK r : /\ r = [boot |-> boot, power |-> power, hello |-> hello, capsule |-> got,
                         seed |-> Seed]
                 /\ seeds' = seeds \cup {r} /\ UNCHANGED boot
                 /\ credited' = credited + CreditBits /\ bpc = "add" /\ bpc' = "seeded"
    BY <1>5 DEF AddEntropy, memoryVars
  <2>2. r.boot = boot
    BY <2>1
  <2>3. \A s \in seeds : s.boot # boot
    BY <2>1 DEF CreditInv
  <2>4. \A s \in seeds' : s.boot = boot' <=> s = r
    BY <2>1, <2>2, <2>3
  <2>5. DisableLocalRefill => credited' = CreditBits
    BY <2>1, TebAssumption DEF CreditInv, Uncredited
  <2>6. \A s \in seeds' : s.boot <= boot'
    BY <2>1, <2>2, <1>b DEF CreditInv
  <2>. QED
    BY <2>1, <2>4, <2>5, <2>6, <1>d DEF CreditInv, BeforeCapture, Uncredited
<1>6. CASE WarmReset \/ PowerCycle
  <2>1. /\ bpc' = "start" /\ puf'.sram = None /\ boot' = boot + 1 /\ UNCHANGED seeds
    BY <1>6 DEF WarmReset, PowerCycle, Rebooted
  <2>. QED
    BY <2>1, <1>b, <1>d DEF CreditInv, Uncredited
<1>7. CASE DiscardUnbound \/ ServeHello \/ ServeFails \/ RejectHello \/ NetworkFault \/ UNCHANGED vars
  <2>1. UNCHANGED <<boot, seeds, credited, bpc, puf>>
    BY <1>7 DEF DiscardUnbound, ServeHello, ServeFails, RejectHello, NetworkFault, vars,
       memoryVars, deviceVars
  <2>. QED
    BY <2>1, <1>d DEF CreditInv
<1>. QED
  BY <1>1, <1>2, <1>3, <1>4, <1>5, <1>6, <1>7 DEF Next, BoardStep

\* Once the driver's credit is discarded, a boot's credit is that of the one
\* capsule it has derived a seed from, or none: no error path keeps credit, and no
\* boot spends two capsules.
THEOREM CreditIsTrue == Spec => []CreditIsTheCapsules
<1>1. Init => CreditInv
  BY DEF Init, CreditInv, BeforeCapture, Uncredited
<1>2. TypeOK /\ CreditInv => CreditIsTheCapsules
  <2>. SUFFICES ASSUME TypeOK, CreditInv, puf.sram # None, DisableLocalRefill
                PROVE  credited = CreditBits * Cardinality({s \in seeds : s.boot = boot})
    BY DEF CreditIsTheCapsules
  <2>. DEFINE own == Cardinality({s \in seeds : s.boot = boot})
  <2>0. SUFFICES credited = CreditBits * own
    OBVIOUS
  <2>1. CASE bpc = "seeded"
    <3>1. PICK r \in seeds : \A s \in seeds : s.boot = boot <=> s = r
      BY <2>1 DEF CreditInv
    <3>2. {s \in seeds : s.boot = boot} = {r}
      BY <3>1
    <3>3. Cardinality({r}) = 1
      BY FS_Singleton
    <3>4. credited = CreditBits /\ CreditBits \in Nat
      BY <2>1, TebAssumption DEF CreditInv
    <3>5. own = 1
      BY <3>2, <3>3, Zenon
    <3>. QED
      BY <3>4, <3>5
  <2>2. CASE bpc # "seeded"
    <3>1. credited = 0
      BY <2>2 DEF CreditInv, TypeOK, Pcs, BeforeCapture, Uncredited
    <3>2. {s \in seeds : s.boot = boot} = {}
      BY <2>2 DEF CreditInv
    <3>3. Cardinality({}) = 0 /\ CreditBits \in Nat
      BY FS_EmptySet, TebAssumption
    <3>4. own = 0
      BY <3>2, <3>3, Zenon
    <3>. QED
      BY <3>1, <3>3, <3>4
  <2>. QED
    BY <2>1, <2>2
<1>. QED
  BY <1>1, <1>2, CreditStep, TebTypeCorrect, PTL DEF Spec

------------------------------------------------------------------------------
(* A boot is not failed by what earlier boots left behind. *)

\* As long as nothing has gone wrong in this boot, the network holds its own HELLO
\* or the answer to it and nothing else, and the answer is acceptable.
QuietInv ==
    faults = earlier /\ DeviceProfile = serving =>
        /\ bpc # "failed"
        /\ bpc = "send" => toServer = <<>> /\ toBoard = <<>>
        /\ bpc = "wait" =>
              \/ toServer = <<HelloMsg(hello)>> /\ toBoard = <<>>
              \/ /\ toServer = <<>>
                 /\ \E n \in Nat : toBoard = <<CapsuleFor(HelloMsg(hello), n)>>
        /\ bpc = "accept" => \E n \in Nat : got = CapsuleFor(HelloMsg(hello), n)

\* The server's answer to a HELLO passes every check of the boot that sent it.
LEMMA OwnAnswerOk ==
    ASSUME NEW n \in Nat, got = CapsuleFor(HelloMsg(hello), n)
    PROVE  CapsuleOk(got)
BY DEF CapsuleFor, HelloMsg, CapsuleOk, Parses, Verifies

\* Every step that is no fault keeps the exchange of HELLO and capsule undisturbed.
LEMMA QuietStep == TypeOK /\ QuietInv /\ [Next]_vars => QuietInv'
<1>. SUFFICES ASSUME TypeOK, QuietInv, [Next]_vars, (faults = earlier /\ DeviceProfile = serving)'
              PROVE  /\ bpc' # "failed"
                     /\ bpc' = "send" => toServer' = <<>> /\ toBoard' = <<>>
                     /\ bpc' = "wait" =>
                           \/ toServer' = <<HelloMsg(hello)'>> /\ toBoard' = <<>>
                           \/ /\ toServer' = <<>>
                              /\ \E n \in Nat : toBoard' = <<CapsuleFor(HelloMsg(hello)', n)>>
                     /\ bpc' = "accept" => \E n \in Nat : got' = CapsuleFor(HelloMsg(hello)', n)
  BY DEF QuietInv, CapsuleFor
<1>f. faults \in Nat /\ earlier \in Nat /\ earlier <= faults
  BY TebAssumption DEF TypeOK
<1>1. CASE WarmReset \/ PowerCycle
  <2>1. bpc' = "start"
    BY <1>1 DEF WarmReset, PowerCycle, Rebooted
  <2>. QED
    BY <2>1
<1>2. CASE ~(WarmReset \/ PowerCycle)
  <2>1. UNCHANGED <<earlier, serving, boot, power, port>>
    BY <1>2 DEF Next, BoardStep, StoreMagic, StoreValue, StoreCheck, DiscardCredit, CaptureSram,
       CaptureTiming, BuildHello, JoinWifi, SendHello, RecvCapsule, DiscardUnbound, RecvTimeout,
       AcceptCapsule, AddEntropy, StepFails, ServeHello, ServeFails, RejectHello, NetworkFault,
       vars, memoryVars, deviceVars, serverVars
  <2>2. UNCHANGED faults \/ faults' = faults + 1
    BY <1>2 DEF Next, BoardStep, StoreMagic, StoreValue, StoreCheck, DiscardCredit, CaptureSram,
       CaptureTiming, BuildHello, JoinWifi, SendHello, RecvCapsule, DiscardUnbound, RecvTimeout,
       AcceptCapsule, AddEntropy, StepFails, ServeHello, ServeFails, RejectHello, NetworkFault,
       vars, Fault
  <2>3. UNCHANGED faults /\ faults = earlier /\ DeviceProfile = serving
    BY <2>1, <2>2, <1>f
  <2>4. ~Fault("late") /\ ~Fault("error") /\ ~Fault("drop") /\ ~Fault("dup") /\ ~Fault("damage")
    BY <2>3, <1>f DEF Fault
  <2>q. /\ bpc # "failed"
        /\ bpc = "send" => toServer = <<>> /\ toBoard = <<>>
        /\ bpc = "wait" =>
              \/ toServer = <<HelloMsg(hello)>> /\ toBoard = <<>>
              \/ /\ toServer = <<>>
                 /\ \E n \in Nat : toBoard = <<CapsuleFor(HelloMsg(hello), n)>>
        /\ bpc = "accept" => \E n \in Nat : got = CapsuleFor(HelloMsg(hello), n)
    BY <2>3 DEF QuietInv
  <2>h. UNCHANGED hello => HelloMsg(hello)' = HelloMsg(hello)
    BY <2>1 DEF HelloMsg
  <2>5. CASE \/ StoreMagic \/ StoreValue \/ StoreCheck \/ DiscardCredit \/ CaptureSram
             \/ CaptureTiming \/ BuildHello \/ AddEntropy
    BY <2>5 DEF StoreMagic, StoreValue, StoreCheck, DiscardCredit, CaptureSram, CaptureTiming,
       BuildHello, AddEntropy
  <2>6. CASE JoinWifi
    BY <2>6, <2>4 DEF JoinWifi
  <2>7. CASE SendHello
    <3>1. toServer' = <<HelloMsg(hello)>> /\ toBoard' = <<>> /\ UNCHANGED hello /\ bpc' = "wait"
      BY <2>7, <2>q DEF SendHello
    <3>. QED
      BY <3>1, <2>h
  <2>8. CASE RecvCapsule
    <3>1. PICK n \in Nat : toBoard = <<CapsuleFor(HelloMsg(hello), n)>>
      BY <2>8, <2>q DEF RecvCapsule
    <3>2. got' = CapsuleFor(HelloMsg(hello), n) /\ UNCHANGED hello /\ bpc' = "accept"
      BY <2>8, <3>1 DEF RecvCapsule
    <3>. QED
      BY <3>2, <2>h
  <2>9. CASE RecvTimeout
    BY <2>9, <2>4, <2>q DEF RecvTimeout
  <2>10. CASE AcceptCapsule
    BY <2>10, <2>q, OwnAnswerOk DEF AcceptCapsule
  <2>11. CASE StepFails \/ ServeFails \/ NetworkFault
    BY <2>11, <2>4 DEF StepFails, ServeFails, NetworkFault
  <2>12. CASE DiscardUnbound \/ RejectHello \/ ServeHello
    <3>1. UNCHANGED <<bpc, hello, got>>
      BY <2>12 DEF DiscardUnbound, RejectHello, ServeHello, deviceVars
    <3>2. CASE bpc = "wait" /\ toServer = <<HelloMsg(hello)>> /\ toBoard = <<>>
      <4>1. HelloMsg(hello).profile = serving
        BY <2>3 DEF HelloMsg
      <4>2. ServeHello
        BY <2>12, <3>2, <4>1 DEF DiscardUnbound, RejectHello
      <4>3. toServer' = <<>> /\ toBoard' = <<CapsuleFor(HelloMsg(hello), sequence + 1)>>
        BY <4>2, <3>2 DEF ServeHello
      <4>4. sequence + 1 \in Nat
        BY DEF TypeOK
      <4>. QED
        BY <3>1, <3>2, <4>3, <4>4, <2>h
    <3>3. CASE bpc = "wait" /\ toServer = <<>>
      <4>1. PICK n \in Nat : toBoard = <<CapsuleFor(HelloMsg(hello), n)>>
        BY <3>3, <2>q
      <4>2. Head(toBoard).port = port
        BY <4>1 DEF CapsuleFor, HelloMsg
      <4>. QED
        BY <2>12, <3>3, <4>2 DEF DiscardUnbound, RejectHello, ServeHello
    <3>4. CASE bpc = "send"
      BY <2>12, <3>4, <2>q DEF DiscardUnbound, RejectHello, ServeHello
    <3>5. CASE bpc \notin {"wait", "send"}
      BY <3>1, <3>5, <2>q, <2>h
    <3>. QED
      BY <3>2, <3>3, <3>4, <3>5, <2>q
  <2>13. CASE UNCHANGED vars
    <3>1. UNCHANGED <<bpc, hello, got, toServer, toBoard>>
      BY <2>13 DEF vars, deviceVars
    <3>. QED
      BY <3>1, <2>q, <2>h
  <2>. QED
    BY <1>2, <2>5, <2>6, <2>7, <2>8, <2>9, <2>10, <2>11, <2>12, <2>13 DEF Next, BoardStep
<1>. QED
  BY <1>1, <1>2

\* Whatever earlier boots left behind - a torn counter, a filled area, answers
\* nobody waited for - a boot that nothing goes wrong in does not fail.
THEOREM OnlyFaultsFail == Spec => []FailsOnlyByFault
<1>1. Init => QuietInv
  BY DEF Init, QuietInv
<1>2. TypeOK /\ QuietInv => FailsOnlyByFault
  BY TebAssumption DEF TypeOK, QuietInv, FailsOnlyByFault
<1>. QED
  BY <1>1, <1>2, QuietStep, TebTypeCorrect, PTL DEF Spec

------------------------------------------------------------------------------
(* parse_log, line by line. *)

\* parse_log's state before the first line.
NothingParsed == [runs |-> <<>>, current |-> NoRun]

\* parse_log goes through the log line by line: h[i] is its state after i lines.
LEMMA ParseUnfolds ==
    ASSUME NEW S, NEW log \in Seq(S)
    PROVE  \E h : /\ h[0] = NothingParsed
                  /\ \A i \in 1..Len(log) : h[i] = ParseLine(h[i - 1], log[i])
                  /\ FoldLeft(ParseLine, NothingParsed, log) = h[Len(log)]
<1>. DEFINE n == Len(log)
            Step(f, s) == IF s = {} THEN NothingParsed
                          ELSE ParseLine(f[s \ {Max(s)}], log[Max(s)])
            Is(f, k) == /\ f = [s \in SUBSET (1..k) |-> f[s]]
                        /\ \A s \in SUBSET (1..k) : f[s] = Step(f, s)
            T == {k \in Nat : \E f : Is(f, k)}
<1>n. n \in Nat /\ DOMAIN log = 1..n
  OBVIOUS
<1>1. T = Nat
  <2>1. 0 \in T
    <3>. DEFINE g == [s \in SUBSET (1..0) |-> NothingParsed]
    <3>1. \A s \in SUBSET (1..0) : s = {}
      OBVIOUS
    <3>2. Is(g, 0)
      BY <3>1
    <3>. HIDE DEF Is, g
    <3>. QED
      BY <3>2
  <2>2. ASSUME NEW k \in T
        PROVE  k + 1 \in T
    <3>1. PICK f : Is(f, k)
      OBVIOUS
    <3>2. k \in Nat
      OBVIOUS
    <3>. DEFINE g == [s \in SUBSET (1..(k + 1)) |-> IF k + 1 \in s THEN Step(f, s) ELSE f[s]]
    <3>3. ASSUME NEW s \in SUBSET (1..(k + 1)), s # {}
          PROVE  /\ Max(s) \in s
                 /\ s \ {Max(s)} \in SUBSET (1..k)
      <4>1. s \in SUBSET Nat /\ \A x \in s : x <= k + 1
        BY <3>2
      <4>2. Max(s) \in s /\ \A x \in s : x <= Max(s)
        BY <3>2, <3>3, <4>1, MaxOfBounded
      <4>3. ASSUME NEW x \in s \ {Max(s)}
            PROVE  x \in 1..k
        <5>1. /\ x \in Nat /\ x >= 1 /\ Max(s) \in Nat /\ Max(s) <= k + 1
              /\ x <= Max(s) /\ x # Max(s)
          BY <3>2, <4>2
        <5>. QED
          BY <3>2, <5>1
      <4>. QED
        BY <4>2, <4>3
    <3>. HIDE DEF T
    <3>4. ASSUME NEW s \in SUBSET (1..(k + 1))
          PROVE  g[s] = Step(g, s)
      <4>1. CASE s = {}
        <5>1. g[s] = f[s] /\ f[s] = Step(f, s)
          <6>1. s \in SUBSET (1..k) /\ k + 1 \notin s
            BY <4>1
          <6>2. \A q \in SUBSET (1..k) : f[q] = Step(f, q)
            BY <3>1
          <6>. HIDE DEF Step
          <6>. QED
            BY <6>1, <6>2
        <5>. QED
          BY <4>1, <5>1
      <4>2. CASE s # {}
        <5>. DEFINE rest == s \ {Max(s)}
        <5>1. rest \in SUBSET (1..k) /\ k + 1 \notin rest
          BY <3>2, <3>3, <4>2
        <5>2. g[rest] = f[rest]
          <6>1. rest \in SUBSET (1..(k + 1))
            OBVIOUS
          <6>. HIDE DEF rest, Step
          <6>. QED
            BY <5>1, <6>1
        <5>3. Step(g, s) = Step(f, s)
          BY <5>2
        <5>4. g[s] = Step(f, s)
          <6>1. CASE k + 1 \in s
            BY <6>1
          <6>2. CASE k + 1 \notin s
            <7>1. s \in SUBSET (1..k)
              <8>1. ASSUME NEW x \in s PROVE x \in 1..k
                <9>1. x \in 1..(k + 1) /\ x # k + 1
                  BY <6>2
                <9>. QED
                  BY <3>2, <9>1
              <8>. QED
                BY <8>1
            <7>2. \A q \in SUBSET (1..k) : f[q] = Step(f, q)
              BY <3>1
            <7>. HIDE DEF Step
            <7>. QED
              BY <6>2, <7>1, <7>2
          <6>. QED
            BY <6>1, <6>2
        <5>. HIDE DEF Step, g
        <5>. QED
          BY <5>3, <5>4
      <4>. QED
        BY <4>1, <4>2
    <3>5. g = [s \in SUBSET (1..(k + 1)) |-> g[s]]
      OBVIOUS
    <3>. HIDE DEF g, Step
    <3>6. Is(g, k + 1)
      BY <3>4, <3>5
    <3>. HIDE DEF Is
    <3>7. k + 1 \in Nat
      BY <3>2
    <3>. QED
      BY <3>6, <3>7 DEF T
  <2>3. T \in SUBSET Nat
    OBVIOUS
  <2>. HIDE DEF T
  <2>. QED
    BY <2>1, <2>2, <2>3, SetInduction
<1>2. PICK f : Is(f, n)
  BY <1>n, <1>1
<1>. HIDE DEF T
<1>3. f = [s \in SUBSET (DOMAIN log) |-> Step(f, s)]
  <2>1. f = [s \in SUBSET (1..n) |-> f[s]] /\ \A s \in SUBSET (1..n) : f[s] = Step(f, s)
    BY <1>2
  <2>. HIDE DEF Step
  <2>. QED
    BY <2>1, <1>n
<1>4. PICK h : /\ h = [s \in SUBSET (DOMAIN log) |-> Step(h, s)]
               /\ FoldLeft(ParseLine, NothingParsed, log) = h[DOMAIN log]
  BY <1>3 DEF FoldLeft, MapThenFoldSet
<1>. DEFINE g == [i \in 0..n |-> h[1..i]]
<1>5. \A s \in SUBSET (1..n) : h[s] = Step(h, s)
  <2>. HIDE DEF Step
  <2>. QED
    BY <1>4, <1>n
<1>6. g[0] = NothingParsed
  <2>1. 1..0 = {} /\ 0 \in 0..n /\ {} \in SUBSET (1..n)
    BY <1>n
  <2>2. g[0] = h[{}]
    BY <2>1
  <2>. QED
    BY <1>5, <2>1, <2>2
<1>7. ASSUME NEW i \in 1..n
      PROVE  g[i] = ParseLine(g[i - 1], log[i])
  <2>0. i \in Nat /\ 1 <= i /\ i <= n /\ i \in 0..n /\ i - 1 \in 0..n
    BY <1>n
  <2>1. 1..i \in SUBSET (1..n) /\ 1..i # {} /\ i \in 0..n /\ i - 1 \in 0..n /\ i \in Nat
    <3>1. 1 \in 1..i
      BY <2>0
    <3>2. 1..i \subseteq 1..n
      BY <2>0, <1>n
    <3>. QED
      BY <2>0, <3>1, <3>2
  <2>2. Max(1..i) = i
    <3>1. 1..i \in SUBSET Nat /\ \A x \in 1..i : x <= i
      BY <2>1
    <3>2. Max(1..i) \in 1..i /\ \A x \in 1..i : x <= Max(1..i)
      BY <2>1, <3>1, MaxOfBounded
    <3>3. i \in 1..i
      BY <2>1
    <3>4. i <= Max(1..i) /\ Max(1..i) <= i /\ Max(1..i) \in Nat
      BY <3>2, <3>3, <2>1
    <3>. QED
      BY <3>4, <2>1
  <2>3. (1..i) \ {i} = 1..(i - 1)
    BY <2>1
  <2>4. h[1..i] = ParseLine(h[1..(i - 1)], log[i])
    BY <1>5, <2>1, <2>2, <2>3
  <2>5. g[i] = h[1..i] /\ g[i - 1] = h[1..(i - 1)]
    BY <2>1
  <2>. QED
    BY <2>4, <2>5
<1>8. g[n] = h[DOMAIN log]
  BY <1>n
<1>. HIDE DEF g
<1>. QED
  BY <1>4, <1>6, <1>7, <1>8

------------------------------------------------------------------------------
(* What a step of the board prints. *)

\* The lines main prints, and what the host makes of one by tearing it.
Kinds == {"banner", "error", "request", "result_failed", "result_seeded",
          "result_torn", "fragment", "rest"}

\* A line with the boot that printed it.
Lines == [boot : Nat, kind : Kinds]

\* Main has not come to a decision.
Undecided == bpc \notin {"seeded", "failed"}

\* The types of what the host and the serial line keep.
BenchTypeOK ==
    /\ hpc \in {"reset", "capture", "part", "pause", "done"}
    /\ hpc = "part" => serial # <<>>
    /\ serial \in Seq(Lines)
    /\ text \in Seq(Lines)
    /\ slow \in Nat
    /\ cut \in Nat
    /\ boot \in Nat

\* What a torn line can be taken for.
Pieces(line) == CutOff(line) \cup {"fragment"}

\* The host ends a run in the middle of a line, and writes its own line behind it.
LineTorn ==
    /\ serial # <<>>
    /\ \E kind \in Pieces(Head(serial)) :
          /\ text' = Append(text, [boot |-> Head(serial).boot, kind |-> kind])
          /\ serial' = <<[boot |-> Head(serial).boot, kind |-> "rest"]>> \o Tail(serial)

\* Main prints the banner first; a line that tells how it ended is the last.
LEMMA Prints ==
    ASSUME SystemStep
    PROVE  /\ boot' = boot /\ serial' = serial \o Printed
           /\ UNCHANGED <<hpc, run, text, slow, cut>>
           /\ \/ Printed = <<>> /\ bpc' = bpc /\ seeds' = seeds
              \/ /\ Printed = <<>> /\ seeds' = seeds
                 /\ Undecided /\ Undecided' /\ bpc # "start" /\ bpc' # "start"
              \/ /\ Printed = <<Line("banner")>> /\ seeds' = seeds
                 /\ bpc = "start" /\ bpc' = "value"
              \/ /\ Printed = <<Line("banner"), Line("error")>> /\ seeds' = seeds
                 /\ bpc = "start" /\ bpc' = "failed"
              \/ /\ Printed = <<Line("request")>> /\ seeds' = seeds
                 /\ Undecided /\ bpc # "start" /\ bpc' = "failed"
              \/ /\ Printed = <<Line("error"), Line("result_failed")>> /\ seeds' = seeds
                 /\ Undecided /\ bpc # "start" /\ bpc' = "failed"
              \/ /\ Printed = <<Line("error")>> /\ seeds' = seeds
                 /\ Undecided /\ bpc # "start" /\ bpc' = "failed"
              \/ /\ Printed = <<Line("result_seeded")>>
                 /\ Undecided /\ bpc # "start" /\ bpc' = "seeded"
                 /\ \E s : s.boot = boot /\ seeds' = seeds \cup {s}
<1>1. serial' = serial \o Printed /\ UNCHANGED <<hpc, run, text, slow, cut>>
  BY DEF SystemStep
<1>2. CASE StoreMagic
  BY <1>1, <1>2 DEF StoreMagic, Printed
<1>3. CASE StoreValue \/ StoreCheck \/ DiscardCredit \/ CaptureSram \/ CaptureTiming
  BY <1>1, <1>3 DEF StoreValue, StoreCheck, DiscardCredit, CaptureSram, CaptureTiming, Printed,
     Undecided, memoryVars
<1>4. CASE BuildHello \/ JoinWifi \/ SendHello \/ RecvCapsule
  BY <1>1, <1>4 DEF BuildHello, JoinWifi, SendHello, RecvCapsule, Printed, Undecided, memoryVars
<1>5. CASE DiscardUnbound
  BY <1>1, <1>5 DEF DiscardUnbound, Printed, memoryVars, deviceVars
<1>6. CASE RecvTimeout
  BY <1>1, <1>6 DEF RecvTimeout, Printed, Undecided, memoryVars
<1>7. CASE AcceptCapsule
  BY <1>1, <1>7 DEF AcceptCapsule, Printed, Undecided, memoryVars
<1>8. CASE AddEntropy
  <2>1. /\ bpc = "add" /\ bpc' = "seeded" /\ boot' = boot
        /\ Printed = <<Line("result_seeded")>>
    BY <1>8 DEF AddEntropy, Printed, memoryVars
  <2>2. \E s : s.boot = boot /\ seeds' = seeds \cup {s}
    <3>. DEFINE s == [boot |-> boot, power |-> power, hello |-> hello, capsule |-> got,
                      seed |-> Seed]
    <3>1. s.boot = boot
      OBVIOUS
    <3>2. seeds' = seeds \cup {s}
      BY <1>8 DEF AddEntropy
    <3>. HIDE DEF s
    <3>. QED
      BY <3>1, <3>2
  <2>. QED
    BY <1>1, <2>1, <2>2 DEF Undecided
<1>9. CASE StepFails
  <2>1. /\ bpc \in {"start", "refill", "wifi", "send", "wait", "accept", "add"}
        /\ bpc' = "failed" /\ boot' = boot /\ seeds' = seeds
    BY <1>9 DEF StepFails, memoryVars
  <2>. QED
    BY <1>1, <2>1 DEF Printed, Undecided
<1>10. CASE ServeHello \/ ServeFails \/ RejectHello \/ NetworkFault
  <2>1. UNCHANGED <<bpc, boot, seeds>>
    BY <1>10 DEF ServeHello, ServeFails, RejectHello, NetworkFault, deviceVars, memoryVars
  <2>. QED
    BY <1>1, <2>1 DEF Printed
<1>. QED
  BY <1>2, <1>3, <1>4, <1>5, <1>6, <1>7, <1>8, <1>9, <1>10 DEF SystemStep, BoardStep

\* The printed lines are lines.
LEMMA PrintedTypes ==
    ASSUME BenchTypeOK
    PROVE  /\ \A kind \in Kinds : Line(kind) \in Lines
           /\ {"banner", "error", "request", "result_failed", "result_seeded"} \subseteq Kinds
BY DEF BenchTypeOK, Line, Lines, Kinds

\* A line read off the front.
LEMMA FirstLine ==
    ASSUME NEW S, NEW s \in Seq(S), s # <<>>
    PROVE  /\ Head(s) \in S /\ Tail(s) \in Seq(S) /\ Head(s) = s[1]
           /\ Len(s) \in Nat /\ Len(s) >= 1
           /\ DOMAIN s = 1..Len(s) /\ DOMAIN Tail(s) = 1..(Len(s) - 1)
           /\ \A i \in 1..(Len(s) - 1) : Tail(s)[i] = s[i + 1]
OBVIOUS

\* One line and two lines more at the end.
\* One line more at the end, or none.
LEMMA OneLine ==
    ASSUME NEW S, NEW s \in Seq(S), NEW x \in S
    PROVE  s \o <<x>> = Append(s, x) /\ Append(s, x) \in Seq(S) /\ s \o <<>> = s
OBVIOUS

\* Two lines more at the end.
LEMMA TwoLines ==
    ASSUME NEW S, NEW s \in Seq(S), NEW x \in S, NEW y \in S
    PROVE  /\ s \o <<x, y>> = Append(Append(s, x), y)
           /\ Append(s, x) \in Seq(S) /\ Append(Append(s, x), y) \in Seq(S)
<1>1. Append(s, x) \in Seq(S) /\ Append(Append(s, x), y) \in Seq(S)
  OBVIOUS
<1>2. /\ DOMAIN (s \o <<x, y>>) = DOMAIN Append(Append(s, x), y)
      /\ s \o <<x, y>> \in Seq(S)
  OBVIOUS
<1>3. \A i \in DOMAIN (s \o <<x, y>>) : (s \o <<x, y>>)[i] = Append(Append(s, x), y)[i]
  OBVIOUS
<1>. QED
  BY <1>1, <1>2, <1>3

\* The host reads a line.
LineRead ==
    /\ serial # <<>>
    /\ text' = Append(text, Head(serial))
    /\ serial' = Tail(serial)

\* What is torn is a line as the types have it.
LEMMA PieceTypes ==
    ASSUME NEW line \in Lines
    PROVE  /\ Pieces(line) \subseteq Kinds \ {"banner", "result_failed", "result_seeded"}
           /\ \A kind \in Kinds : [boot |-> line.boot, kind |-> kind] \in Lines
           /\ \A kind \in Kinds : [line EXCEPT !.kind = kind] = [boot |-> line.boot, kind |-> kind]
<1>1. line.kind \in Kinds /\ line.boot \in Nat
  BY DEF Lines
<1>2. CutOff(line) \subseteq Kinds \ {"banner", "result_failed", "result_seeded"}
  <2>1. CASE line.kind \in {"result_failed", "result_seeded"}
    BY <2>1 DEF CutOff, Kinds
  <2>2. CASE line.kind = "banner"
    BY <2>2 DEF CutOff, Kinds
  <2>3. CASE line.kind \notin {"result_failed", "result_seeded", "banner"}
    <3>1. CutOff(line) = {line.kind}
      BY <2>3 DEF CutOff
    <3>. QED
      BY <1>1, <2>3, <3>1
  <2>. QED
    BY <2>1, <2>2, <2>3
<1>3. Pieces(line) \subseteq Kinds \ {"banner", "result_failed", "result_seeded"}
  BY <1>2 DEF Pieces, Kinds
<1>4. \A kind \in Kinds : [boot |-> line.boot, kind |-> kind] \in Lines
  BY <1>1 DEF Lines
<1>5. \A kind \in Kinds : [line EXCEPT !.kind = kind] = [boot |-> line.boot, kind |-> kind]
  BY DEF Lines
<1>. QED
  BY <1>3, <1>4, <1>5

\* A torn line leaves two lines.
LEMMA TornTypes ==
    ASSUME BenchTypeOK, LineTorn
    PROVE  text' \in Seq(Lines) /\ serial' \in Seq(Lines)
<1>1. serial \in Seq(Lines) /\ text \in Seq(Lines) /\ serial # <<>>
  BY DEF BenchTypeOK, LineTorn
<1>2. Head(serial) \in Lines /\ Tail(serial) \in Seq(Lines)
  BY <1>1, FirstLine
<1>. DEFINE rest == [boot |-> Head(serial).boot, kind |-> "rest"]
<1>3. rest \in Lines
  <2>1. "rest" \in Kinds
    BY DEF Kinds
  <2>. QED
    BY <1>2, <2>1, PieceTypes
<1>4. PICK kind \in Pieces(Head(serial)) :
         /\ text' = Append(text, [boot |-> Head(serial).boot, kind |-> kind])
         /\ serial' = <<rest>> \o Tail(serial)
  BY DEF LineTorn
<1>5. [boot |-> Head(serial).boot, kind |-> kind] \in Lines
  BY <1>2, PieceTypes
<1>6. \A x \in Lines : \A s \in Seq(Lines) : <<x>> \o s \in Seq(Lines) /\ Append(s, x) \in Seq(Lines)
  OBVIOUS
<1>. HIDE DEF rest
<1>. QED
  BY <1>1, <1>2, <1>3, <1>4, <1>5, <1>6

\* What the host does while it captures: it reads a line, or tears it, or neither.
LEMMA HostReads ==
    ASSUME BenchTypeOK, ReadLine \/ ReadRest \/ ReadPart \/ CaptureTimeout
    PROVE  /\ hpc \in {"capture", "part"} /\ hpc' \in {"capture", "part", "pause"}
           /\ slow' \in {slow, slow + 1}
           /\ UNCHANGED <<cut, boot, bpc, seeds>>
           /\ hpc' = "part" => serial # <<>>
           /\ \/ /\ serial' = serial /\ text' = text
                 /\ \/ slow' = slow /\ hpc' = "part"
                    \/ slow' = slow /\ hpc' = "pause" /\ Decided /\ serial = <<>>
                    \/ slow' = slow + 1
              \/ /\ LineRead /\ hpc' # "part" /\ slow' = slow
                 /\ hpc' = "pause" => IsEnd(Head(serial))
              \/ /\ LineTorn /\ hpc' = "pause"
                 /\ slow' = slow => IsEnd(Head(serial))
<1>t. serial \in Seq(Lines) /\ (hpc = "part" => serial # <<>>)
  BY DEF BenchTypeOK
<1>1. CASE ReadLine
  BY <1>1 DEF ReadLine, LineRead, vars, deviceVars, memoryVars
<1>2. CASE ReadRest
  BY <1>2, <1>t DEF ReadRest, LineRead, vars, deviceVars, memoryVars
<1>3. ASSUME NEW kind \in Pieces(Head(serial)), serial # <<>>, EndBehindPart(kind)
      PROVE  LineTorn /\ hpc' = "pause"
  <2>1. Head(serial) \in Lines
    BY <1>t, <1>3, FirstLine
  <2>2. kind \in Kinds /\ "rest" \in Kinds
    BY <2>1, PieceTypes DEF Kinds
  <2>3. /\ [Head(serial) EXCEPT !.kind = kind] = [boot |-> Head(serial).boot, kind |-> kind]
        /\ [Head(serial) EXCEPT !.kind = "rest"] = [boot |-> Head(serial).boot, kind |-> "rest"]
    BY <2>1, <2>2, PieceTypes
  <2>. QED
    BY <1>3, <2>3 DEF EndBehindPart, LineTorn
<1>4. CASE ReadPart
  <2>1. /\ hpc = "capture" /\ serial # <<>>
        /\ UNCHANGED <<slow, cut, boot, bpc, seeds>>
        /\ \/ hpc' = "part" /\ serial' = serial /\ text' = text
           \/ /\ IsEnd(Head(serial))
              /\ \E kind \in CutOff(Head(serial)) : EndBehindPart(kind)
    BY <1>4 DEF ReadPart, deviceVars, memoryVars
  <2>2. CASE /\ IsEnd(Head(serial))
             /\ \E kind \in CutOff(Head(serial)) : EndBehindPart(kind)
    <3>1. LineTorn /\ hpc' = "pause"
      BY <2>1, <2>2, <1>3 DEF Pieces
    <3>. QED
      BY <2>1, <2>2, <3>1
  <2>. QED
    BY <2>1, <2>2
<1>5. CASE CaptureTimeout
  <2>1. /\ UNCHANGED <<cut, boot, bpc, seeds>>
        /\ \/ /\ hpc = "capture" /\ hpc' = "pause" /\ serial' = serial /\ text' = text
              /\ \/ Decided /\ serial = <<>> /\ slow' = slow
                 \/ slow' = slow + 1
           \/ /\ hpc = "part" /\ slow' = slow + 1
              /\ \E kind \in Pieces(Head(serial)) : EndBehindPart(kind)
    BY <1>5, Zenon DEF CaptureTimeout, Pieces, deviceVars, memoryVars
  <2>2. CASE /\ hpc = "part" /\ slow' = slow + 1
             /\ \E kind \in Pieces(Head(serial)) : EndBehindPart(kind)
    <3>1. LineTorn /\ hpc' = "pause"
      BY <2>2, <1>t, <1>3
    <3>2. slow' # slow
      BY <2>2 DEF BenchTypeOK
    <3>. QED
      BY <2>1, <2>2, <3>1, <3>2
  <2>. QED
    BY <2>1, <2>2
<1>. QED
  BY <1>1, <1>2, <1>4, <1>5

\* The collection starts with the types.
LEMMA BenchTypeInit == BenchInit => BenchTypeOK
BY DEF BenchInit, Init, BenchTypeOK

\* Every step of the benchmark keeps the types.
LEMMA BenchTypeStep == BenchTypeOK /\ [BenchNext]_allVars => BenchTypeOK'
<1>. SUFFICES ASSUME BenchTypeOK, [BenchNext]_allVars
              PROVE  BenchTypeOK'
  OBVIOUS
<1>1. CASE SystemStep
  <2>1. /\ boot' = boot /\ serial' = serial \o Printed
        /\ UNCHANGED <<hpc, text, slow, cut>>
        /\ \/ Printed = <<>>
           \/ \E x \in Kinds : Printed = <<Line(x)>>
           \/ \E x, y \in Kinds : Printed = <<Line(x), Line(y)>>
    BY <1>1, Prints DEF Kinds
  <2>2. serial' \in Seq(Lines)
    <3>1. serial \in Seq(Lines)
      BY DEF BenchTypeOK
    <3>2. CASE Printed = <<>>
      BY <2>1, <3>1, <3>2, FirstLine
    <3>3. ASSUME NEW x \in Kinds, Printed = <<Line(x)>>
          PROVE  serial' \in Seq(Lines)
      <4>1. Line(x) \in Lines
        BY PrintedTypes
      <4>2. serial' = serial \o <<Line(x)>>
        BY <2>1, <3>3
      <4>. QED
        BY <3>1, <4>1, <4>2, OneLine
    <3>4. ASSUME NEW x \in Kinds, NEW y \in Kinds, Printed = <<Line(x), Line(y)>>
          PROVE  serial' \in Seq(Lines)
      <4>1. Line(x) \in Lines /\ Line(y) \in Lines
        BY PrintedTypes
      <4>2. serial' = serial \o <<Line(x), Line(y)>>
        BY <2>1, <3>4
      <4>. QED
        BY <3>1, <4>1, <4>2, TwoLines
    <3>. QED
      BY <2>1, <3>2, <3>3, <3>4
  <2>3. hpc' = "part" => serial' # <<>>
    <3>1. serial \in Seq(Lines)
      BY DEF BenchTypeOK
    <3>2. serial # <<>> => serial' # <<>>
      <4>1. \A k \in Kinds : Line(k) \in Lines
        BY PrintedTypes
      <4>2. \A x, y \in Lines : serial # <<>> =>
               serial \o <<>> # <<>> /\ serial \o <<x>> # <<>> /\ serial \o <<x, y>> # <<>>
        BY <3>1, OneLine, TwoLines
      <4>3. Kinds # {} /\ "banner" \in Kinds
        BY DEF Kinds
      <4>. QED
        BY <2>1, <4>1, <4>2, <4>3
    <3>. QED
      BY <2>1, <3>2 DEF BenchTypeOK
  <2>. QED
    BY <2>1, <2>2, <2>3 DEF BenchTypeOK
<1>2. CASE StartRun
  BY <1>2 DEF StartRun, WarmReset, BenchTypeOK
<1>3. CASE ReadLine \/ ReadRest \/ ReadPart \/ CaptureTimeout
  <2>1. /\ hpc' \in {"capture", "part", "pause"} /\ slow' \in {slow, slow + 1}
        /\ cut' = cut /\ boot' = boot /\ (hpc' = "part" => serial # <<>>)
        /\ \/ serial' = serial /\ text' = text
           \/ LineRead /\ hpc' # "part"
           \/ LineTorn /\ hpc' # "part"
    BY <1>3, HostReads
  <2>2. CASE serial' = serial /\ text' = text
    BY <2>1, <2>2 DEF BenchTypeOK
  <2>3. CASE LineRead /\ hpc' # "part"
    <3>1. Head(serial) \in Lines /\ Tail(serial) \in Seq(Lines)
      BY <2>3, FirstLine DEF LineRead, BenchTypeOK
    <3>2. text' \in Seq(Lines) /\ serial' \in Seq(Lines)
      BY <2>3, <3>1 DEF LineRead, BenchTypeOK
    <3>. QED
      BY <2>1, <2>3, <3>2 DEF BenchTypeOK
  <2>4. CASE LineTorn /\ hpc' # "part"
    <3>1. text' \in Seq(Lines) /\ serial' \in Seq(Lines)
      BY <2>4, TornTypes
    <3>. QED
      BY <2>1, <2>4, <3>1 DEF BenchTypeOK
  <2>. QED
    BY <2>1, <2>2, <2>3, <2>4
<1>5. CASE NextRun
  BY <1>5 DEF NextRun, BenchTypeOK, vars, memoryVars
<1>6. CASE UNCHANGED allVars
  BY <1>6 DEF allVars, benchVars, vars, memoryVars, BenchTypeOK
<1>. QED
  BY <1>1, <1>2, <1>3, <1>5, <1>6 DEF BenchNext

------------------------------------------------------------------------------
(* Slow boots. *)

\* The lines that can end a run.
Ends(lines) == {i \in DOMAIN lines : IsEnd(lines[i])}

\* The boot may still print one.
Going == IF bpc \in {"seeded", "failed"} THEN 0 ELSE 1

\* The lines waiting that can end a run, with the one of a boot still going on.
Pending == Cardinality(Ends(serial)) + Going

\* A run takes one line that ends a run off the serial line and starts a boot that
\* prints at most one.  So a run leaves as many as it found, but for one given up
\* on; and a reset cuts no more boots than there are such lines to come.
CutInv ==
    /\ hpc \in {"capture", "part"} => cut <= slow + 1 /\ cut + Pending <= slow + 2
    /\ hpc \notin {"capture", "part"} => cut + Pending <= slow + 1

\* There are finitely many of them.
LEMMA EndsType ==
    ASSUME NEW s \in Seq(Lines)
    PROVE  IsFiniteSet(Ends(s)) /\ Cardinality(Ends(s)) \in Nat
<1>1. IsFiniteSet(1..Len(s)) /\ Ends(s) \in SUBSET (1..Len(s))
  BY FS_Interval DEF Ends
<1>2. IsFiniteSet(Ends(s))
  BY <1>1, FS_Subset
<1>. QED
  BY <1>2, FS_CardinalityType

\* A line more at the end adds itself to them.
LEMMA EndsAppend ==
    ASSUME NEW s \in Seq(Lines), NEW x \in Lines
    PROVE  Cardinality(Ends(Append(s, x))) = Cardinality(Ends(s)) + (IF IsEnd(x) THEN 1 ELSE 0)
<1>1. /\ Len(s) \in Nat /\ DOMAIN s = 1..Len(s) /\ DOMAIN Append(s, x) = 1..(Len(s) + 1)
      /\ Append(s, x)[Len(s) + 1] = x
      /\ \A i \in 1..Len(s) : Append(s, x)[i] = s[i]
  OBVIOUS
<1>2. IsFiniteSet(Ends(s)) /\ Len(s) + 1 \notin Ends(s) /\ Cardinality(Ends(s)) \in Nat
  <2>1. Len(s) + 1 \notin DOMAIN s
    BY <1>1
  <2>. QED
    BY <2>1, EndsType DEF Ends
<1>3. CASE IsEnd(x)
  <2>1. Ends(Append(s, x)) = Ends(s) \cup {Len(s) + 1}
    BY <1>1, <1>3 DEF Ends
  <2>. QED
    BY <2>1, <1>2, <1>3, FS_AddElement
<1>4. CASE ~IsEnd(x)
  <2>1. Ends(Append(s, x)) = Ends(s)
    BY <1>1, <1>4 DEF Ends
  <2>. QED
    BY <2>1, <1>2, <1>4
<1>. QED
  BY <1>3, <1>4

\* A line taken off the front is one less of them.
LEMMA EndsTail ==
    ASSUME NEW s \in Seq(Lines), s # <<>>
    PROVE  Cardinality(Ends(Tail(s))) + (IF IsEnd(Head(s)) THEN 1 ELSE 0) <= Cardinality(Ends(s))
<1>1. /\ Len(s) \in Nat /\ Len(s) >= 1 /\ DOMAIN s = 1..Len(s)
      /\ DOMAIN Tail(s) = 1..(Len(s) - 1) /\ Head(s) = s[1] /\ Tail(s) \in Seq(Lines)
      /\ \A i \in 1..(Len(s) - 1) : Tail(s)[i] = s[i + 1]
  BY FirstLine
<1>. DEFINE T == Ends(Tail(s))
            U == Ends(s) \ {1}
            f == [i \in T |-> i + 1]
<1>2. f \in Injection(T, U)
  <2>1. \A i \in T : i \in 1..(Len(s) - 1) /\ IsEnd(s[i + 1])
    BY <1>1 DEF Ends
  <2>2. \A i \in T : i \in Nat /\ i + 1 \in U
    BY <1>1, <2>1 DEF Ends
  <2>3. f \in [T -> U] /\ \A a, b \in T : f[a] = f[b] => a = b
    BY <2>2
  <2>. QED
    BY <2>3 DEF Injection, IsInjective
<1>3. /\ IsFiniteSet(Ends(s)) /\ Cardinality(Ends(s)) \in Nat
      /\ Cardinality(T) \in Nat
  BY <1>1, EndsType
<1>4. /\ IsFiniteSet(U)
      /\ Cardinality(U) = IF 1 \in Ends(s) THEN Cardinality(Ends(s)) - 1 ELSE Cardinality(Ends(s))
  BY <1>3, FS_RemoveElement
<1>5. Cardinality(T) <= Cardinality(U)
  BY <1>2, <1>4, FS_Injection
<1>6. 1 \in Ends(s) <=> IsEnd(Head(s))
  BY <1>1 DEF Ends
<1>. QED
  BY <1>3, <1>4, <1>5, <1>6

\* So is a line torn: its rest is none of them.
LEMMA EndsTorn ==
    ASSUME NEW s \in Seq(Lines), s # <<>>, NEW x \in Lines, ~IsEnd(x)
    PROVE  Cardinality(Ends(<<x>> \o Tail(s))) + (IF IsEnd(Head(s)) THEN 1 ELSE 0)
              <= Cardinality(Ends(s))
<1>1. /\ Len(s) \in Nat /\ Len(s) >= 1 /\ DOMAIN s = 1..Len(s)
      /\ DOMAIN (<<x>> \o Tail(s)) = 1..Len(s) /\ Head(s) = s[1]
      /\ (<<x>> \o Tail(s))[1] = x
      /\ \A i \in 1..Len(s) : i # 1 => (<<x>> \o Tail(s))[i] = s[i]
  <2>1. /\ Len(s) \in Nat /\ Len(s) >= 1 /\ DOMAIN s = 1..Len(s) /\ Head(s) = s[1]
        /\ Tail(s) \in Seq(Lines) /\ Len(Tail(s)) = Len(s) - 1
        /\ \A i \in 1..(Len(s) - 1) : Tail(s)[i] = s[i + 1]
    OBVIOUS
  <2>2. /\ <<x>> \in Seq(Lines) /\ Len(<<x>>) = 1 /\ <<x>>[1] = x
    OBVIOUS
  <2>3. ASSUME NEW a \in Seq(Lines), NEW b \in Seq(Lines), Len(a) = 1, Len(b) = Len(s) - 1
        PROVE  /\ DOMAIN (a \o b) = 1..Len(s) /\ (a \o b)[1] = a[1]
               /\ \A i \in 1..Len(s) : i # 1 => (a \o b)[i] = b[i - 1]
    <3>1. /\ a \o b \in Seq(Lines) /\ DOMAIN (a \o b) = 1..(Len(a) + Len(b))
          /\ \A i \in 1..(Len(a) + Len(b)) :
                (a \o b)[i] = IF i <= Len(a) THEN a[i] ELSE b[i - Len(a)]
      OBVIOUS
    <3>2. Len(a) + Len(b) = Len(s)
      <4>. HIDE DEF Lines
      <4>1. \A n \in Nat : 1 + (n - 1) = n
        OBVIOUS
      <4>2. Len(s) \in Nat
        BY <2>1
      <4>. QED
        BY <4>1, <4>2, <2>3
    <3>3. 1 \in 1..Len(s) /\ 1 <= 1 /\ \A i \in 1..Len(s) : i # 1 => ~(i <= 1)
      BY <2>1
    <3>. QED
      BY <2>3, <3>1, <3>2, <3>3
  <2>4. \A i \in 1..Len(s) : i # 1 => i - 1 \in 1..(Len(s) - 1) /\ (i - 1) + 1 = i
    BY <2>1
  <2>5. /\ DOMAIN (<<x>> \o Tail(s)) = 1..Len(s) /\ (<<x>> \o Tail(s))[1] = x
        /\ \A i \in 1..Len(s) : i # 1 => (<<x>> \o Tail(s))[i] = Tail(s)[i - 1]
    BY <2>1, <2>2, <2>3
  <2>. QED
    BY <2>1, <2>4, <2>5
<1>2. Ends(<<x>> \o Tail(s)) = Ends(s) \ {1}
  BY <1>1 DEF Ends
<1>3. IsFiniteSet(Ends(s)) /\ Cardinality(Ends(s)) \in Nat
  BY EndsType
<1>4. Cardinality(Ends(s) \ {1})
         = IF 1 \in Ends(s) THEN Cardinality(Ends(s)) - 1 ELSE Cardinality(Ends(s))
  BY <1>3, FS_RemoveElement
<1>5. 1 \in Ends(s) <=> IsEnd(Head(s))
  BY <1>1 DEF Ends
<1>. DEFINE whole == Cardinality(Ends(s))
            left == Cardinality(Ends(<<x>> \o Tail(s)))
<1>6. left = IF IsEnd(Head(s)) THEN whole - 1 ELSE whole
  BY <1>2, <1>4, <1>5
<1>7. whole \in Nat
  BY <1>3
<1>. HIDE DEF left, whole
<1>8. left + (IF IsEnd(Head(s)) THEN 1 ELSE 0) <= whole
  BY <1>6, <1>7
<1>. QED
  BY <1>8 DEF left, whole

\* What a line of the kind adds to them.
EndLine(kind) == IF IsEnd(Line(kind)) THEN 1 ELSE 0

\* Of two lines the first is none that ends a run.
LEMMA NoneOfTwo ==
    ASSUME NEW c \in Nat, NEW first, NEW second, first = 0, second \in {0, 1}
    PROVE  c + first + second = c + second
OBVIOUS

\* At most one more waits, and then none is to come.
LEMMA OneFewer ==
    ASSUME NEW c \in Nat, NEW more \in {0, 1}, NEW g \in {0, 1}, more = 0 \/ g = 0
    PROVE  c + more + g <= c + 1
OBVIOUS

\* What main prints ends at most the run of its boot, when it comes to a decision.
LEMMA PendingKept ==
    ASSUME BenchTypeOK, SystemStep
    PROVE  Pending' <= Pending
<1>s. serial \in Seq(Lines)
  BY DEF BenchTypeOK
<1>k. \A k \in Kinds : /\ Line(k) \in Lines
                       /\ EndLine(k) \in {0, 1}
  BY PrintedTypes DEF EndLine
<1>n. Cardinality(Ends(serial)) \in Nat
  BY <1>s, EndsType
<1>0. ASSUME Printed = <<>>
      PROVE  Cardinality(Ends(serial')) = Cardinality(Ends(serial))
  BY <1>0, <1>s, Prints, FirstLine
<1>1. ASSUME NEW k \in Kinds, Printed = <<Line(k)>>
      PROVE  Cardinality(Ends(serial')) = Cardinality(Ends(serial)) + EndLine(k)
  <2>1. serial' = serial \o <<Line(k)>>
    BY <1>1, Prints
  <2>2. Line(k) \in Lines
    BY <1>k
  <2>3. serial' = Append(serial, Line(k))
    BY <1>s, <2>1, <2>2, OneLine
  <2>. QED
    BY <1>s, <2>2, <2>3, EndsAppend DEF EndLine
<1>2. ASSUME NEW k \in Kinds, NEW l \in Kinds, Printed = <<Line(k), Line(l)>>
      PROVE  Cardinality(Ends(serial')) = Cardinality(Ends(serial)) + EndLine(k) + EndLine(l)
  <2>1. serial' = Append(Append(serial, Line(k)), Line(l)) /\ Append(serial, Line(k)) \in Seq(Lines)
    <3>1. serial' = serial \o <<Line(k), Line(l)>>
      BY <1>2, Prints
    <3>. QED
      BY <1>s, <1>k, <3>1, TwoLines
  <2>2. /\ Cardinality(Ends(serial')) = Cardinality(Ends(Append(serial, Line(k)))) + EndLine(l)
        /\ Cardinality(Ends(Append(serial, Line(k)))) = Cardinality(Ends(serial)) + EndLine(k)
    BY <2>1, <1>s, <1>k, EndsAppend DEF EndLine
  <2>. QED
    BY <2>2
<1>3. Pending' = Cardinality(Ends(serial')) + Going'
  BY DEF Pending, Ends, IsEnd
<1>4. /\ EndLine("banner") = 0 /\ EndLine("error") = 0
      /\ EndLine("request") = 1 /\ EndLine("result_failed") = 1 /\ EndLine("result_seeded") = 1
  BY DEF EndLine, IsEnd, Line
<1>u. Pending = Cardinality(Ends(serial)) + Going /\ Going' \in {0, 1}
  BY DEF Pending, Going
<1>5. \/ Printed = <<>> /\ Going' = Going
      \/ Printed = <<Line("banner")>> /\ Going = 1
      \/ Printed = <<Line("banner"), Line("error")>> /\ Going = 1
      \/ \E k \in {"error", "request", "result_seeded"} :
            Printed = <<Line(k)>> /\ Going = 1 /\ Going' = 0
      \/ Printed = <<Line("error"), Line("result_failed")>> /\ Going = 1 /\ Going' = 0
  BY Prints DEF Undecided, Going
<1>6. {"banner", "error", "request", "result_failed", "result_seeded"} \subseteq Kinds
  BY DEF Kinds
<1>c. PICK c \in Nat : c = Cardinality(Ends(serial))
  BY <1>n
<1>d. PICK d : d = Cardinality(Ends(serial'))
  OBVIOUS
<1>e. Pending = c + Going /\ Pending' = d + Going'
  BY <1>c, <1>d, <1>u, <1>3
<1>7. CASE d = c /\ Going' = Going
  BY <1>7, <1>e
<1>8. ASSUME NEW more \in {0, 1}, d = c + more, Going = 1, more = 0 \/ Going' = 0
      PROVE  Pending' <= Pending
  <2>1. c + more + Going' <= c + 1
    BY <1>8, <1>u, OneFewer
  <2>. QED
    BY <1>8, <1>e, <2>1
<1>9. CASE Printed = <<>> /\ Going' = Going
  BY <1>0, <1>7, <1>9, <1>c, <1>d
<1>10. CASE Printed = <<Line("banner")>> /\ Going = 1
  BY <1>10, <1>1, <1>4, <1>6, <1>8, <1>c, <1>d
<1>11. CASE Printed = <<Line("banner"), Line("error")>> /\ Going = 1
  <2>1. d = c + EndLine("banner") + EndLine("error")
    BY <1>11, <1>2, <1>6, <1>c, <1>d
  <2>2. EndLine("banner") = 0 /\ EndLine("error") = 0
    BY <1>4
  <2>3. d = c + EndLine("error")
    BY <2>1, <2>2, NoneOfTwo
  <2>. QED
    BY <1>8, <1>11, <2>2, <2>3
<1>12. ASSUME NEW k \in {"error", "request", "result_seeded"},
              Printed = <<Line(k)>>, Going = 1, Going' = 0
       PROVE  Pending' <= Pending
  <2>1. k \in Kinds /\ EndLine(k) \in {0, 1}
    BY <1>4, <1>6
  <2>. QED
    BY <1>12, <1>1, <2>1, <1>8, <1>c, <1>d
<1>13. CASE Printed = <<Line("error"), Line("result_failed")>> /\ Going = 1 /\ Going' = 0
  <2>1. d = c + EndLine("error") + EndLine("result_failed")
    BY <1>13, <1>2, <1>6, <1>c, <1>d
  <2>2. EndLine("error") = 0 /\ EndLine("result_failed") = 1
    BY <1>4
  <2>3. d = c + EndLine("result_failed")
    BY <2>1, <2>2, NoneOfTwo
  <2>. QED
    BY <1>8, <1>13, <2>2, <2>3
<1>. QED
  BY <1>5, <1>9, <1>10, <1>11, <1>12, <1>13

\* No boot is cut before the first reset.
LEMMA CutInit == BenchInit => CutInv
<1>1. BenchInit => Ends(serial) = {}
  BY DEF BenchInit, Ends
<1>2. BenchInit => Pending = 1
  <2>1. BenchInit => Cardinality(Ends(serial)) = 0 /\ bpc = "start"
    BY <1>1, FS_EmptySet DEF BenchInit, Init
  <2>. QED
    BY <2>1 DEF Pending, Going
<1>. QED
  BY <1>2 DEF BenchInit, CutInv

\* Every step of board, network and host keeps the bound: a run takes one line
\* that ends a run, or is given up on.
LEMMA CutStep == BenchTypeOK /\ CutInv /\ [BenchNext]_allVars => CutInv'
<1>. SUFFICES ASSUME BenchTypeOK, CutInv, [BenchNext]_allVars
              PROVE  CutInv'
  OBVIOUS
<1>s. serial \in Seq(Lines) /\ cut \in Nat /\ slow \in Nat
  BY DEF BenchTypeOK
<1>n. Cardinality(Ends(serial)) \in Nat
  BY <1>s, EndsType
<1>p. Pending' = Cardinality(Ends(serial')) + Going'
  BY DEF Pending, Ends, IsEnd
<1>q. Going \in {0, 1} /\ Pending \in Nat
  <2>1. Going \in {0, 1}
    BY DEF Going
  <2>. QED
    BY <2>1, <1>n DEF Pending
<1>same. ASSUME UNCHANGED <<serial, bpc>>
         PROVE  Pending' = Pending
  BY <1>same, <1>p DEF Pending, Going
<1>1. CASE SystemStep
  <2>1. Pending' <= Pending /\ UNCHANGED <<hpc, slow, cut>>
    BY <1>1, PendingKept, Prints
  <2>2. Pending' \in Int
    <3>1. serial' \in Seq(Lines)
      BY <1>1, BenchTypeStep DEF BenchNext, BenchTypeOK
    <3>. QED
      BY <3>1, <1>p, EndsType
  <2>. QED
    BY <2>1, <2>2, <1>s, <1>p, <1>q DEF CutInv
<1>2. CASE StartRun
  <2>1. /\ hpc = "reset" /\ hpc' = "capture" /\ serial' = serial /\ slow' = slow
        /\ bpc' = "start" /\ cut' = cut + Going
    BY <1>2 DEF StartRun, WarmReset, Rebooted, Decided, Going, BenchTypeOK
  <2>2. Going' = 1
    BY <2>1 DEF Going
  <2>3. Pending' = Cardinality(Ends(serial)) + 1
    BY <2>1, <2>2, <1>p
  <2>. QED
    BY <2>1, <2>3, <1>n, <1>q, <1>s DEF CutInv, Pending
<1>3. CASE ReadLine \/ ReadRest \/ ReadPart \/ CaptureTimeout
  <2>1. /\ hpc \in {"capture", "part"} /\ hpc' \in {"capture", "part", "pause"}
        /\ slow' \in {slow, slow + 1} /\ UNCHANGED <<cut, bpc>>
        /\ \/ /\ serial' = serial
              /\ \/ slow' = slow /\ hpc' = "part"
                 \/ slow' = slow /\ Decided /\ serial = <<>>
                 \/ slow' = slow + 1
           \/ LineRead /\ slow' = slow /\ (hpc' = "pause" => IsEnd(Head(serial)))
           \/ LineTorn /\ hpc' = "pause" /\ (slow' = slow => IsEnd(Head(serial)))
    BY <1>3, HostReads
  <2>2. Going' = Going
    BY <2>1 DEF Going
  <2>3. CASE LineRead /\ slow' = slow /\ (hpc' = "pause" => IsEnd(Head(serial)))
    <3>1. /\ Cardinality(Ends(serial')) + (IF IsEnd(Head(serial)) THEN 1 ELSE 0)
               <= Cardinality(Ends(serial))
          /\ Cardinality(Ends(serial')) \in Nat
      BY <2>3, <1>s, EndsTail, FirstLine, EndsType DEF LineRead
    <3>. QED
      BY <2>1, <2>2, <2>3, <3>1, <1>n, <1>p, <1>q, <1>s DEF CutInv, Pending
  <2>4. CASE LineTorn /\ hpc' = "pause" /\ (slow' = slow => IsEnd(Head(serial)))
    <3>1. /\ Cardinality(Ends(serial')) + (IF IsEnd(Head(serial)) THEN 1 ELSE 0)
               <= Cardinality(Ends(serial))
          /\ Cardinality(Ends(serial')) \in Nat
      <4>. DEFINE rest == [boot |-> Head(serial).boot, kind |-> "rest"]
      <4>1. serial # <<>> /\ serial' = <<rest>> \o Tail(serial)
        BY <2>4 DEF LineTorn
      <4>2. rest \in Lines /\ ~IsEnd(rest)
        <5>1. Head(serial) \in Lines /\ "rest" \in Kinds
          BY <1>s, <4>1, FirstLine DEF Kinds
        <5>. QED
          BY <5>1, PieceTypes DEF IsEnd
      <4>3. serial' \in Seq(Lines)
        BY <2>4, TornTypes
      <4>. HIDE DEF rest
      <4>. QED
        BY <1>s, <4>1, <4>2, <4>3, EndsTorn, EndsType
    <3>. QED
      BY <2>1, <2>2, <2>4, <3>1, <1>n, <1>p, <1>q, <1>s DEF CutInv, Pending
  <2>5. CASE serial' = serial /\ slow' = slow /\ Decided /\ serial = <<>>
    <3>1. Pending = 0
      <4>1. Ends(serial) = {} /\ Going = 0
        BY <2>5 DEF Ends, Decided, Going
      <4>. QED
        BY <4>1, FS_EmptySet DEF Pending
    <3>. QED
      BY <2>1, <2>5, <3>1, <1>same, <1>s, <1>q DEF CutInv
  <2>6. CASE serial' = serial /\ slow' = slow + 1
    BY <2>1, <2>6, <1>same, <1>s, <1>p, <1>q DEF CutInv
  <2>7. CASE serial' = serial /\ slow' = slow /\ hpc' = "part"
    BY <2>1, <2>7, <1>same, <1>s, <1>p, <1>q DEF CutInv
  <2>. QED
    BY <2>1, <2>3, <2>4, <2>5, <2>6, <2>7
<1>5. CASE NextRun
  <2>1. /\ hpc = "pause" /\ hpc' \notin {"capture", "part"} /\ UNCHANGED <<serial, bpc, slow, cut>>
    BY <1>5 DEF NextRun, vars, deviceVars
  <2>. QED
    BY <2>1, <1>same, <1>s, <1>p, <1>q DEF CutInv
<1>6. CASE UNCHANGED allVars
  <2>1. UNCHANGED <<hpc, serial, bpc, slow, cut>>
    BY <1>6 DEF allVars, benchVars, vars, deviceVars
  <2>. QED
    BY <2>1, <1>same, <1>s, <1>p, <1>q DEF CutInv
<1>. QED
  BY <1>1, <1>2, <1>3, <1>5, <1>6 DEF BenchNext

\* For any number of runs, however the lines are split and however late they come:
\* a reset of capture_run cuts a boot short at most once for each run given up on,
\* and once for the boot that was going on before the first run.
THEOREM SlowBootsCost == BenchSpec => []SlowBootCostsOne
<1>1. BenchTypeOK /\ CutInv => SlowBootCostsOne
  <2>. SUFFICES ASSUME BenchTypeOK, CutInv
                PROVE  cut <= slow + 1
    BY DEF SlowBootCostsOne
  <2>1. cut \in Nat /\ slow \in Nat /\ Pending \in Nat
    BY EndsType DEF BenchTypeOK, Pending, Going
  <2>. QED
    BY <2>1 DEF CutInv
<1>. QED
  BY <1>1, BenchTypeInit, CutInit, BenchTypeStep, CutStep, PTL DEF BenchSpec

------------------------------------------------------------------------------
(* The log. *)

\* Lines of the firmware's result.
Results == {"result_failed", "result_seeded"}

\* Lines of a boot that has not told its end.
Openings == {"banner", "fragment", "rest"}

\* Of two lines the earlier is of no later boot, and of an earlier one if it is a
\* line of the firmware's result or the later is a banner.
Before(a, b) ==
    /\ a.boot <= b.boot
    /\ a.kind \in Results \/ b.kind = "banner" => a.boot < b.boot

\* The lines of the boots, one boot after the other.  A boot's first line is its
\* banner, unless that was torn.
Chain(lines) ==
    /\ \A i, j \in 1..Len(lines) : i < j => Before(lines[i], lines[j])
    /\ \A i \in 1..Len(lines) : lines[i].kind \notin {"banner", "fragment"} =>
          i # 1 /\ lines[i - 1].boot = lines[i].boot

\* A line tells the truth about the boot that printed it; sd are the seeds.
LineTrue(line, sd) ==
    /\ line.kind = "result_seeded" => \E s \in sd : s.boot = line.boot
    /\ line.kind \in {"error", "request", "result_failed"} => \A s \in sd : s.boot # line.boot

\* The lines of the boots up to b, whose main is at pc.
LogOK(lines, b, pc, sd) ==
    /\ Chain(lines)
    /\ \A i \in 1..Len(lines) : lines[i].boot <= b /\ LineTrue(lines[i], sd)
    /\ pc = "start" => \A i \in 1..Len(lines) : lines[i].boot < b
    /\ pc # "start" => lines # <<>> /\ lines[Len(lines)].boot = b
    /\ pc \notin {"seeded", "failed"} =>
          \A i \in 1..Len(lines) : lines[i].boot = b => lines[i].kind \in Openings
    /\ \A s \in sd : s.boot \in Nat /\ s.boot <= b /\ (s.boot = b => pc = "seeded")

\* All that was printed: what the host has logged and what it has not read.
Output == text \o serial

\* What is printed so far is the lines of the boots.
LogInv == LogOK(Output, boot, bpc, seeds)

\* The output is made of lines.
LEMMA OutputType == BenchTypeOK => Output \in Seq(Lines)
BY DEF BenchTypeOK, Output

\* One more line keeps the chain.
LEMMA ChainAppend ==
    ASSUME NEW s \in Seq(Lines), Chain(s), NEW x \in Lines,
           \A i \in 1..Len(s) : Before(s[i], x),
           x.kind \notin {"banner", "fragment"} => s # <<>> /\ s[Len(s)].boot = x.boot
    PROVE  /\ Chain(Append(s, x))
           /\ Append(s, x) \in Seq(Lines) /\ Append(s, x) # <<>>
           /\ Len(Append(s, x)) = Len(s) + 1 /\ Append(s, x)[Len(s) + 1] = x
           /\ \A i \in 1..Len(s) : Append(s, x)[i] = s[i]
           /\ Len(s) \in Nat
<1>1. /\ Append(s, x) \in Seq(Lines) /\ Append(s, x) # <<>>
      /\ Len(Append(s, x)) = Len(s) + 1 /\ Append(s, x)[Len(s) + 1] = x
      /\ \A i \in 1..Len(s) : Append(s, x)[i] = s[i]
      /\ Len(s) \in Nat
  OBVIOUS
<1>. DEFINE t == Append(s, x)
            n == Len(s)
<1>2. /\ n \in Nat /\ Len(t) = n + 1 /\ t[n + 1] = x /\ \A i \in 1..n : t[i] = s[i]
  BY <1>1
<1>3. s # <<>> => n \in 1..n
  BY <1>2
<1>4. Chain(s) /\ \A i \in 1..n : Before(s[i], x)
  OBVIOUS
<1>5. x.kind \notin {"banner", "fragment"} => s # <<>> /\ s[n].boot = x.boot
  OBVIOUS
<1>. HIDE DEF t, n
<1>6. ASSUME NEW i \in 1..(n + 1), NEW j \in 1..(n + 1), i < j
      PROVE  Before(t[i], t[j])
  <2>1. i \in 1..n /\ (j \in 1..n \/ j = n + 1)
    BY <1>2, <1>6
  <2>2. CASE j \in 1..n
    BY <1>2, <1>4, <1>6, <2>1, <2>2 DEF Chain, n
  <2>3. CASE j = n + 1
    BY <1>2, <1>4, <2>1, <2>3
  <2>. QED
    BY <2>1, <2>2, <2>3
<1>7. ASSUME NEW i \in 1..(n + 1), t[i].kind \notin {"banner", "fragment"}
      PROVE  i # 1 /\ t[i - 1].boot = t[i].boot
  <2>1. CASE i \in 1..n
    <3>1. i # 1 /\ s[i - 1].boot = s[i].boot
      BY <1>2, <1>4, <1>7, <2>1 DEF Chain, n
    <3>2. i - 1 \in 1..n
      BY <1>2, <2>1, <3>1
    <3>. QED
      BY <1>2, <2>1, <3>1, <3>2
  <2>2. CASE i = n + 1
    <3>1. s # <<>> /\ s[n].boot = x.boot
      BY <1>2, <1>5, <1>7, <2>2
    <3>2. n \in 1..n /\ i - 1 = n /\ i # 1
      BY <1>2, <1>3, <2>2, <3>1
    <3>. QED
      BY <1>2, <2>2, <3>1, <3>2
  <2>. QED
    BY <1>2, <2>1, <2>2
<1>8. Chain(t)
  BY <1>2, <1>6, <1>7 DEF Chain
<1>. QED
  BY <1>1, <1>8 DEF t

\* A line read by the host moves from the serial line to the log.
LEMMA OutputMoves ==
    ASSUME NEW t \in Seq(Lines), NEW s \in Seq(Lines), s # <<>>
    PROVE  Append(t, Head(s)) \o Tail(s) = t \o s
<1>1. /\ Append(t, Head(s)) \o Tail(s) \in Seq(Lines) /\ t \o s \in Seq(Lines)
      /\ Len(Append(t, Head(s)) \o Tail(s)) = Len(t \o s)
  OBVIOUS
<1>2. \A i \in 1..Len(t \o s) : (Append(t, Head(s)) \o Tail(s))[i] = (t \o s)[i]
  OBVIOUS
<1>. QED
  BY <1>1, <1>2

\* Where the line is that becomes line i when line p is torn in two.
Source(i, p) == IF i <= p THEN i ELSE i - 1

\* M is L with its line p, which is first, torn into x and y.
TornAt(L, M, p, first, x, y) ==
    /\ L \in Seq(Lines) /\ M \in Seq(Lines)
    /\ p \in 1..Len(L) /\ L[p] = first /\ Len(M) = Len(L) + 1
    /\ M[p] = x /\ M[p + 1] = y
    /\ \A i \in 1..Len(M) : i # p /\ i # p + 1 => M[i] = L[Source(i, p)]

\* A line torn by the host becomes two lines of the output.
LEMMA OutputTorn ==
    ASSUME NEW t \in Seq(Lines), NEW s \in Seq(Lines), s # <<>>,
           NEW x \in Lines, NEW y \in Lines
    PROVE  TornAt(t \o s, Append(t, x) \o (<<y>> \o Tail(s)), Len(t) + 1, Head(s), x, y)
<1>1. /\ Len(t) \in Nat /\ Len(s) \in Nat /\ Len(s) >= 1 /\ Head(s) = s[1]
      /\ Tail(s) \in Seq(Lines) /\ Len(Tail(s)) = Len(s) - 1
      /\ \A i \in 1..(Len(s) - 1) : Tail(s)[i] = s[i + 1]
  OBVIOUS
<1>2. \A a, b \in Seq(Lines) :
         /\ a \o b \in Seq(Lines) /\ Len(a \o b) = Len(a) + Len(b)
         /\ \A i \in 1..(Len(a) + Len(b)) :
               (a \o b)[i] = IF i <= Len(a) THEN a[i] ELSE b[i - Len(a)]
  OBVIOUS
<1>3. /\ <<y>> \in Seq(Lines) /\ Len(<<y>>) = 1 /\ <<y>>[1] = y
      /\ Append(t, x) \in Seq(Lines) /\ Len(Append(t, x)) = Len(t) + 1
      /\ Append(t, x)[Len(t) + 1] = x
      /\ \A i \in 1..Len(t) : Append(t, x)[i] = t[i]
  OBVIOUS
<1>. DEFINE n == Len(t)
            m == Len(s)
            u == Append(t, x)
            r == Tail(s)
            v == <<y>> \o r
            L == t \o s
            M == u \o v
<1>4. /\ n \in Nat /\ m \in Nat /\ m >= 1 /\ s[1] = Head(s)
      /\ r \in Seq(Lines) /\ Len(r) = m - 1 /\ \A i \in 1..(m - 1) : r[i] = s[i + 1]
  BY <1>1
<1>5. /\ u \in Seq(Lines) /\ Len(u) = n + 1 /\ u[n + 1] = x /\ \A i \in 1..n : u[i] = t[i]
  BY <1>3
<1>6. /\ v \in Seq(Lines) /\ Len(v) = 1 + Len(r)
      /\ \A i \in 1..(1 + Len(r)) : v[i] = IF i <= 1 THEN <<y>>[i] ELSE r[i - 1]
  <2>. HIDE DEF r
  <2>. QED
    BY <1>2, <1>3, <1>4
<1>7. /\ L \in Seq(Lines) /\ Len(L) = n + m
      /\ \A i \in 1..(n + m) : L[i] = IF i <= n THEN t[i] ELSE s[i - n]
  BY <1>2
<1>8. /\ M \in Seq(Lines) /\ Len(M) = Len(u) + Len(v)
      /\ \A i \in 1..(Len(u) + Len(v)) : M[i] = IF i <= Len(u) THEN u[i] ELSE v[i - Len(u)]
  <2>. HIDE DEF u, v
  <2>. QED
    BY <1>2, <1>5, <1>6
<1>9. <<y>>[1] = y
  BY <1>3
<1>. HIDE DEF n, m, u, r, v, L, M
<1>10. /\ Len(v) = m /\ Len(M) = (n + m) + 1
       /\ v[1] = y /\ \A i \in 1..m : i # 1 => v[i] = s[i]
  <2>1. Len(v) = m
    BY <1>4, <1>6
  <2>2. Len(M) = (n + m) + 1
    BY <1>4, <1>5, <1>8, <2>1
  <2>3. v[1] = y
    BY <1>4, <1>6, <1>9
  <2>4. ASSUME NEW i \in 1..m, i # 1
        PROVE  v[i] = s[i]
    <3>1. ~(i <= 1) /\ i \in 1..(1 + Len(r)) /\ i - 1 \in 1..(m - 1) /\ (i - 1) + 1 = i
      BY <1>4, <2>4
    <3>. QED
      BY <1>4, <1>6, <3>1
  <2>. QED
    BY <2>1, <2>2, <2>3, <2>4
<1>11. n + 1 \in 1..Len(L) /\ L[n + 1] = Head(s)
  <2>1. n + 1 \in 1..(n + m) /\ ~(n + 1 <= n) /\ (n + 1) - n = 1
    BY <1>4
  <2>. QED
    BY <1>4, <1>7, <2>1
<1>12. M[n + 1] = x /\ M[(n + 1) + 1] = y
  <2>1. /\ n + 1 \in 1..(Len(u) + Len(v)) /\ n + 1 <= Len(u)
        /\ (n + 1) + 1 \in 1..(Len(u) + Len(v)) /\ ~((n + 1) + 1 <= Len(u))
        /\ ((n + 1) + 1) - Len(u) = 1
    BY <1>4, <1>5, <1>10
  <2>. QED
    BY <1>5, <1>8, <1>10, <2>1
<1>13. ASSUME NEW i \in 1..Len(M), i # n + 1, i # (n + 1) + 1
       PROVE  M[i] = L[Source(i, n + 1)]
  <2>1. i \in 1..(Len(u) + Len(v)) /\ i \in Nat /\ i >= 1 /\ i <= (n + m) + 1
    BY <1>4, <1>5, <1>8, <1>10
  <2>2. CASE i <= n
    <3>1. /\ i <= Len(u) /\ i \in 1..n /\ i <= n + 1 /\ i \in 1..(n + m)
      BY <1>4, <1>5, <2>1, <2>2
    <3>2. M[i] = u[i]
      BY <1>8, <2>1, <3>1
    <3>3. L[i] = t[i]
      BY <1>7, <2>2, <3>1
    <3>4. Source(i, n + 1) = i
      BY <3>1 DEF Source
    <3>. QED
      BY <1>5, <3>1, <3>2, <3>3, <3>4
  <2>3. CASE ~(i <= n)
    <3>1. /\ ~(i <= n + 1) /\ ~(i <= Len(u)) /\ i - Len(u) \in 1..m /\ i - Len(u) # 1
          /\ i - 1 \in 1..(n + m) /\ ~(i - 1 <= n) /\ (i - 1) - n = i - Len(u)
      <4>1. Len(u) = n + 1 /\ Len(v) = m /\ Len(u) + Len(v) = (n + m) + 1
        BY <1>4, <1>5, <1>10
      <4>. QED
        BY <1>4, <1>13, <2>1, <2>3, <4>1
    <3>2. M[i] = v[i - Len(u)]
      BY <1>8, <2>1, <3>1
    <3>3. L[i - 1] = s[i - Len(u)]
      BY <1>7, <3>1
    <3>4. Source(i, n + 1) = i - 1
      BY <3>1 DEF Source
    <3>. QED
      BY <1>10, <3>1, <3>2, <3>3, <3>4
  <2>. QED
    BY <2>2, <2>3
<1>. QED
  <2>1. TornAt(L, M, n + 1, Head(s), x, y)
    BY <1>7, <1>8, <1>10, <1>11, <1>12, <1>13 DEF TornAt
  <2>. QED
    BY <2>1 DEF n, u, r, v, L, M

\* What main prints comes after all that was printed.
LEMMA OutputGrows ==
    ASSUME NEW t \in Seq(Lines), NEW s \in Seq(Lines), NEW p \in Seq(Lines)
    PROVE  t \o (s \o p) = (t \o s) \o p
OBVIOUS

\* The last line, and the types of a line's fields.
LEMMA LastOf ==
    ASSUME NEW s \in Seq(Lines)
    PROVE  /\ Len(s) \in Nat
           /\ s # <<>> => Len(s) \in 1..Len(s)
           /\ \A i \in 1..Len(s) : s[i] \in Lines /\ s[i].boot \in Nat
           /\ \A i \in 1..(Len(s) + 1) : i \in 1..Len(s) \/ i = Len(s) + 1
<1>1. Len(s) \in Nat
  OBVIOUS
<1>2. s # <<>> => Len(s) \in 1..Len(s)
  OBVIOUS
<1>3. \A i \in 1..Len(s) : s[i] \in Lines
  OBVIOUS
<1>4. \A line \in Lines : line.boot \in Nat
  BY DEF Lines
<1>5. \A i \in 1..(Len(s) + 1) : i \in 1..Len(s) \/ i = Len(s) + 1
  BY <1>1
<1>. QED
  BY <1>1, <1>2, <1>3, <1>4, <1>5

\* A boot does not come after itself.
LEMMA NotAfterItself == \A n \in Nat : n <= n
OBVIOUS

\* No later boot is this one or an earlier one.
LEMMA OrEarlier == \A c, b \in Nat : c <= b /\ c # b => c < b
OBVIOUS

\* Nothing is printed before the first boot.
LEMMA LogInit == BenchInit => LogInv
<1>1. BenchInit => Output = <<>> /\ bpc = "start" /\ seeds = {}
  BY DEF BenchInit, Init, Output
<1>. QED
  BY <1>1 DEF LogInv, LogOK, Chain

\* main's banner opens the lines of its boot.
LEMMA LogBanner ==
    ASSUME NEW L \in Seq(Lines), NEW b \in Nat, NEW sd, LogOK(L, b, "start", sd)
    PROVE  LogOK(Append(L, [boot |-> b, kind |-> "banner"]), b, "value", sd)
<1>. DEFINE x == [boot |-> b, kind |-> "banner"]
<1>1. x \in Lines /\ x.kind = "banner" /\ x.boot = b
  BY DEF Lines, Kinds
<1>2. \A i \in 1..Len(L) : Before(L[i], x)
  <2>1. \A i \in 1..Len(L) : L[i].boot \in Nat /\ L[i].boot < b
    BY LastOf DEF LogOK
  <2>2. \A c \in Nat : c < b => c <= b
    OBVIOUS
  <2>. QED
    BY <1>1, <2>1, <2>2 DEF Before
<1>3. LineTrue(x, sd)
  BY <1>1 DEF LineTrue
<1>. HIDE DEF x
<1>4. /\ Chain(Append(L, x))
      /\ Append(L, x) # <<>>
      /\ Len(Append(L, x)) = Len(L) + 1 /\ Append(L, x)[Len(L) + 1] = x
      /\ \A i \in 1..Len(L) : Append(L, x)[i] = L[i]
      /\ Len(L) \in Nat
  BY <1>1, <1>2, ChainAppend DEF LogOK
<1>5. \A i \in 1..(Len(L) + 1) : i \in 1..Len(L) \/ i = Len(L) + 1
  BY LastOf
<1>6. \A i \in 1..Len(L) : L[i].boot \in Nat /\ L[i].boot < b
  BY LastOf DEF LogOK
<1>7. LogOK(Append(L, x), b, "value", sd)
  <2>1. \A i \in 1..Len(L) : L[i].boot # b
    BY <1>6
  <2>2. "banner" \in Openings
    BY DEF Openings
  <2>. QED
    BY <1>1, <1>3, <1>4, <1>5, <1>6, <2>1, <2>2 DEF LogOK
<1>. QED
  BY <1>7 DEF x

\* A line of failure follows the banner or the error before it, and its boot derives
\* no seed.
LEMMA LogFails ==
    ASSUME NEW L \in Seq(Lines), NEW b \in Nat, NEW sd, NEW pc, LogOK(L, b, pc, sd),
           NEW kind \in {"error", "request", "result_failed"},
           \/ pc \notin {"start", "seeded", "failed"}
           \/ pc = "failed" /\ \A i \in 1..Len(L) : L[i].boot = b => L[i].kind \notin Results
    PROVE  LET M == Append(L, [boot |-> b, kind |-> kind])
           IN  /\ LogOK(M, b, "failed", sd)
               /\ M \in Seq(Lines)
               /\ kind # "result_failed" =>
                     \A i \in 1..Len(M) : M[i].boot = b => M[i].kind \notin Results
<1>. DEFINE x == [boot |-> b, kind |-> kind]
<1>1. x \in Lines /\ x.kind = kind /\ x.boot = b
  BY DEF Lines, Kinds
<1>0. \A i \in 1..Len(L) : L[i].boot = b => L[i].kind \notin Results
  <2>1. CASE pc = "failed" /\ \A i \in 1..Len(L) : L[i].boot = b => L[i].kind \notin Results
    BY <2>1
  <2>2. CASE pc \notin {"start", "seeded", "failed"}
    <3>1. \A i \in 1..Len(L) : L[i].boot = b => L[i].kind \in Openings
      BY <2>2 DEF LogOK
    <3>2. Openings \cap Results = {}
      BY DEF Openings, Results
    <3>. QED
      BY <3>1, <3>2
  <2>. QED
    BY <2>1, <2>2
<1>2. /\ L # <<>> /\ L[Len(L)].boot = b
      /\ \A i \in 1..Len(L) : Before(L[i], x)
  <2>1. L # <<>> /\ L[Len(L)].boot = b
    BY DEF LogOK
  <2>2. \A i \in 1..Len(L) : L[i].boot \in Nat /\ L[i].boot <= b
    BY LastOf DEF LogOK
  <2>3. \A c \in Nat : c <= b /\ c # b => c < b
    BY OrEarlier
  <2>4. x.kind # "banner"
    BY <1>1
  <2>. HIDE DEF x
  <2>. QED
    BY <1>0, <1>1, <2>1, <2>2, <2>3, <2>4 DEF Before
<1>3. LineTrue(x, sd)
  BY <1>1 DEF LineTrue, LogOK
<1>. HIDE DEF x
<1>4. /\ Chain(Append(L, x)) /\ Append(L, x) \in Seq(Lines)
      /\ Append(L, x) # <<>>
      /\ Len(Append(L, x)) = Len(L) + 1 /\ Append(L, x)[Len(L) + 1] = x
      /\ \A i \in 1..Len(L) : Append(L, x)[i] = L[i]
      /\ Len(L) \in Nat
  BY <1>1, <1>2, ChainAppend DEF LogOK
<1>5. \A i \in 1..(Len(L) + 1) : i \in 1..Len(L) \/ i = Len(L) + 1
  BY LastOf
<1>6. \A s \in sd : s.boot \in Nat /\ s.boot <= b /\ s.boot # b
  BY DEF LogOK
<1>7. LogOK(Append(L, x), b, "failed", sd)
  <2>. DEFINE M == Append(L, x)
  <2>1. \A i \in 1..Len(M) : M[i].boot <= b /\ LineTrue(M[i], sd)
    <3>. SUFFICES ASSUME NEW i \in 1..(Len(L) + 1)
                  PROVE  M[i].boot <= b /\ LineTrue(M[i], sd)
      BY <1>4
    <3>1. CASE i \in 1..Len(L)
      BY <3>1, <1>4 DEF LogOK
    <3>2. CASE i = Len(L) + 1
      <4>1. M[i] = x
        BY <3>2, <1>4
      <4>2. x.boot <= b
        BY <1>1, NotAfterItself, Zenon
      <4>. HIDE DEF M
      <4>. QED
        BY <4>1, <4>2, <1>3
    <3>. QED
      BY <3>1, <3>2, <1>5
  <2>2. M # <<>> /\ M[Len(M)].boot = b
    BY <1>1, <1>4
  <2>. HIDE DEF M
  <2>3. LogOK(M, b, "failed", sd)
    <3>1. Chain(M)
      BY <1>4 DEF M
    <3>. QED
      BY <2>1, <2>2, <3>1, <1>6 DEF LogOK
  <2>. QED
    BY <2>3 DEF M
<1>8. kind # "result_failed" =>
         \A i \in 1..Len(Append(L, x)) :
            Append(L, x)[i].boot = b => Append(L, x)[i].kind \notin Results
  BY <1>0, <1>1, <1>4, <1>5 DEF Results
<1>. QED
  BY <1>4, <1>7, <1>8 DEF x

\* The result line of a seeded boot is its last, and the seed is there.
LEMMA LogSeeded ==
    ASSUME NEW L \in Seq(Lines), NEW b \in Nat, NEW sd, NEW pc, LogOK(L, b, pc, sd),
           pc \notin {"start", "seeded", "failed"}, NEW s, s.boot = b
    PROVE  LogOK(Append(L, [boot |-> b, kind |-> "result_seeded"]), b, "seeded", sd \cup {s})
<1>. DEFINE x == [boot |-> b, kind |-> "result_seeded"]
<1>1. x \in Lines /\ x.kind = "result_seeded" /\ x.boot = b
  BY DEF Lines, Kinds
<1>2. /\ L # <<>> /\ L[Len(L)].boot = b
      /\ \A i \in 1..Len(L) : Before(L[i], x)
  <2>1. L # <<>> /\ L[Len(L)].boot = b
    BY DEF LogOK
  <2>2. \A i \in 1..Len(L) : L[i].boot \in Nat /\ L[i].boot <= b
    BY LastOf DEF LogOK
  <2>3. \A c \in Nat : c <= b /\ c # b => c < b
    BY OrEarlier
  <2>4. \A i \in 1..Len(L) : L[i].boot = b => L[i].kind \notin Results
    BY DEF LogOK, Openings, Results
  <2>5. x.kind # "banner"
    BY <1>1
  <2>. HIDE DEF x
  <2>. QED
    BY <1>1, <2>1, <2>2, <2>3, <2>4, <2>5 DEF Before
<1>3. LineTrue(x, sd \cup {s})
  BY <1>1 DEF LineTrue
<1>. HIDE DEF x
<1>4. /\ Chain(Append(L, x)) /\ Append(L, x) \in Seq(Lines)
      /\ Append(L, x) # <<>>
      /\ Len(Append(L, x)) = Len(L) + 1 /\ Append(L, x)[Len(L) + 1] = x
      /\ \A i \in 1..Len(L) : Append(L, x)[i] = L[i]
      /\ Len(L) \in Nat
  BY <1>1, <1>2, ChainAppend DEF LogOK
<1>5. \A i \in 1..(Len(L) + 1) : i \in 1..Len(L) \/ i = Len(L) + 1
  BY LastOf
<1>6. \A i \in 1..Len(L) : LineTrue(L[i], sd \cup {s}) /\ L[i].boot <= b
  <2>. SUFFICES ASSUME NEW i \in 1..Len(L)
                PROVE  LineTrue(L[i], sd \cup {s})
    BY DEF LogOK
  <2>1. LineTrue(L[i], sd)
    BY DEF LogOK
  <2>2. L[i].boot = b => L[i].kind \in Openings
    BY DEF LogOK
  <2>. QED
    BY <2>1, <2>2 DEF LineTrue, Openings
<1>7. \A r \in sd \cup {s} : r.boot \in Nat /\ r.boot <= b
  BY DEF LogOK
<1>8. LogOK(Append(L, x), b, "seeded", sd \cup {s})
  BY <1>1, <1>3, <1>4, <1>5, <1>6, <1>7 DEF LogOK
<1>. QED
  BY <1>8 DEF x

\* Tearing a line keeps what is known of the lines.
LEMMA LogTorn ==
    ASSUME NEW L \in Seq(Lines), NEW b \in Nat, NEW pc, NEW sd, LogOK(L, b, pc, sd),
           NEW p \in 1..Len(L), NEW M \in Seq(Lines), Len(M) = Len(L) + 1,
           NEW kind \in Pieces(L[p]),
           M[p] = [boot |-> L[p].boot, kind |-> kind],
           M[p + 1] = [boot |-> L[p].boot, kind |-> "rest"],
           \A i \in 1..Len(M) : i # p /\ i # p + 1 => M[i] = L[Source(i, p)]
    PROVE  LogOK(M, b, pc, sd)
<1>. DEFINE n == Len(L)
            Src(i) == Source(i, p)
<1>1. n \in Nat /\ p \in Nat /\ p >= 1 /\ p <= n /\ Len(M) = n + 1
  <2>1. Len(L) \in Nat
    OBVIOUS
  <2>. QED
    BY <2>1
<1>2. ASSUME NEW i \in 1..(n + 1)
      PROVE  /\ Src(i) \in 1..n /\ M[i].boot = L[Src(i)].boot
             /\ \/ i # p /\ i # p + 1 /\ M[i] = L[Src(i)]
                \/ i = p /\ Src(i) = p /\ M[i].kind = kind
                \/ i = p + 1 /\ Src(i) = p /\ M[i].kind = "rest"
  <2>1. Src(i) \in 1..n
    BY <1>1 DEF Source
  <2>2. CASE i # p /\ i # p + 1
    BY <1>1, <2>1, <2>2
  <2>3. CASE i = p
    <3>1. Src(i) = p
      BY <1>1, <2>3 DEF Source
    <3>. QED
      BY <2>1, <2>3, <3>1
  <2>4. CASE i = p + 1
    <3>1. Src(i) = p /\ i # p
      BY <1>1, <2>4 DEF Source
    <3>. QED
      BY <2>1, <2>4, <3>1
  <2>. QED
    BY <2>2, <2>3, <2>4
<1>k. /\ kind \in Kinds \ {"banner", "result_failed", "result_seeded"}
      /\ L[p].kind = "banner" => kind = "fragment"
      /\ kind \in {"error", "request", "rest"} => L[p].kind = kind
      /\ kind = "result_torn" => L[p].kind \in {"result_failed", "result_seeded", "result_torn"}
      /\ L[p].kind \in Openings => kind \in Openings
  <2>1. L[p] \in Lines /\ kind \in Pieces(L[p])
    BY LastOf
  <2>2. kind \in Kinds \ {"banner", "result_failed", "result_seeded"}
    BY <2>1, PieceTypes
  <2>3. CASE L[p].kind \in {"result_failed", "result_seeded"}
    BY <2>1, <2>2, <2>3 DEF Pieces, CutOff, Openings
  <2>4. CASE L[p].kind = "banner"
    BY <2>1, <2>2, <2>4 DEF Pieces, CutOff, Openings
  <2>5. CASE L[p].kind \notin {"result_failed", "result_seeded", "banner"}
    <3>1. kind = L[p].kind \/ kind = "fragment"
      BY <2>1, <2>5 DEF Pieces, CutOff
    <3>. QED
      BY <2>2, <2>5, <3>1 DEF Openings
  <2>. QED
    BY <2>3, <2>4, <2>5
<1>c. Chain(L)
  BY DEF LogOK
<1>t. \A i \in 1..n : L[i].boot \in Nat
  BY LastOf
<1>3. ASSUME NEW i \in 1..(n + 1), NEW j \in 1..(n + 1), i < j
      PROVE  Before(M[i], M[j])
  <2>. DEFINE a == Src(i)
              d == Src(j)
  <2>1. /\ a \in 1..n /\ d \in 1..n /\ M[i].boot = L[a].boot /\ M[j].boot = L[d].boot
        /\ L[a].boot \in Nat /\ L[d].boot \in Nat
    BY <1>2, <1>t
  <2>2. M[i].kind \in Results => M[i] = L[a]
    BY <1>2, <1>k DEF Results
  <2>3. M[j].kind = "banner" => M[j] = L[d]
    BY <1>2, <1>k
  <2>4. CASE i = p /\ j = p + 1
    <3>1. M[i].kind \notin Results /\ M[j].kind # "banner" /\ a = d
      BY <1>1, <1>2, <1>k, <2>4 DEF Results
    <3>. HIDE DEF a, d
    <3>. QED
      BY <2>1, <3>1 DEF Before
  <2>5. CASE ~(i = p /\ j = p + 1)
    <3>1. a < d
      BY <1>1, <1>3, <2>5 DEF Source
    <3>2. Before(L[a], L[d])
      BY <1>c, <2>1, <3>1 DEF Chain
    <3>. HIDE DEF a, d
    <3>. QED
      BY <2>1, <2>2, <2>3, <3>2 DEF Before
  <2>. QED
    BY <2>4, <2>5
<1>4. ASSUME NEW i \in 1..(n + 1), M[i].kind \notin {"banner", "fragment"}
      PROVE  i # 1 /\ M[i - 1].boot = M[i].boot
  <2>1. CASE i = p + 1
    BY <1>1, <2>1
  <2>2. CASE i # p + 1
    <3>1. L[Src(i)].kind \notin {"banner", "fragment"}
      <4>1. CASE i = p
        <5>1. Src(i) = p /\ M[i].kind = kind
          BY <1>1, <1>2, <4>1
        <5>2. kind \in {"error", "request", "rest", "result_torn"}
          BY <1>4, <1>k, <5>1 DEF Kinds
        <5>3. L[p].kind \notin {"banner", "fragment"}
          BY <1>k, <5>2
        <5>. QED
          BY <5>1, <5>3
      <4>2. CASE i # p
        BY <1>2, <1>4, <2>2, <4>2
      <4>. QED
        BY <4>1, <4>2
    <3>2. Src(i) # 1 /\ L[Src(i) - 1].boot = L[Src(i)].boot
      BY <1>2, <1>c, <3>1 DEF Chain
    <3>3. i # 1 /\ i - 1 \in 1..(n + 1) /\ Src(i - 1) = Src(i) - 1
      BY <1>1, <2>2, <3>2 DEF Source
    <3>4. M[i - 1].boot = L[Src(i - 1)].boot /\ M[i].boot = L[Src(i)].boot
      BY <1>2, <3>3
    <3>. QED
      BY <3>2, <3>3, <3>4
  <2>. QED
    BY <2>1, <2>2
<1>5. Chain(M)
  BY <1>1, <1>3, <1>4 DEF Chain
<1>6. ASSUME NEW i \in 1..(n + 1)
      PROVE  M[i].boot <= b /\ LineTrue(M[i], sd)
  <2>1. L[Src(i)].boot <= b /\ LineTrue(L[Src(i)], sd) /\ M[i].boot = L[Src(i)].boot
    BY <1>2 DEF LogOK
  <2>2. CASE i # p /\ i # p + 1
    BY <1>2, <2>1, <2>2
  <2>3. CASE i = p
    <3>1. M[i].kind = kind /\ Src(i) = p
      BY <1>1, <1>2, <2>3
    <3>2. M[i].boot = L[p].boot /\ L[p].boot <= b /\ LineTrue(L[p], sd)
      BY <2>1, <3>1
    <3>3. kind # "result_seeded" /\ kind # "result_failed"
      BY <1>k
    <3>4. kind \in {"error", "request"} => L[p].kind = kind
      BY <1>k
    <3>. HIDE DEF Src
    <3>5. LineTrue(M[i], sd)
      BY <3>1, <3>2, <3>3, <3>4, Zenon DEF LineTrue
    <3>. QED
      BY <2>1, <3>5
  <2>4. CASE i = p + 1
    <3>1. M[i].kind = "rest" /\ M[i].boot <= b
      BY <1>1, <1>2, <2>1, <2>4
    <3>2. LineTrue(M[i], sd)
      BY <3>1 DEF LineTrue
    <3>. QED
      BY <3>1, <3>2
  <2>. QED
    BY <2>2, <2>3, <2>4
<1>7. pc = "start" => \A i \in 1..(n + 1) : M[i].boot < b
  BY <1>2 DEF LogOK
<1>8. pc # "start" => M # <<>> /\ M[Len(M)].boot = b
  <2>1. n + 1 \in 1..(n + 1) /\ Src(n + 1) = n
    BY <1>1 DEF Source
  <2>2. M[n + 1].boot = L[n].boot
    BY <1>2, <2>1
  <2>3. M # <<>>
    BY <1>1
  <2>. QED
    BY <1>1, <2>2, <2>3 DEF LogOK
<1>9. pc \notin {"seeded", "failed"} =>
         \A i \in 1..(n + 1) : M[i].boot = b => M[i].kind \in Openings
  <2>. SUFFICES ASSUME pc \notin {"seeded", "failed"}, NEW i \in 1..(n + 1), M[i].boot = b
                PROVE  M[i].kind \in Openings
    OBVIOUS
  <2>1. Src(i) \in 1..n /\ L[Src(i)].boot = b
    BY <1>2
  <2>2. L[Src(i)].kind \in Openings
    BY <2>1 DEF LogOK
  <2>3. "rest" \in Openings
    BY DEF Openings
  <2>. QED
    BY <1>2, <2>2, <2>3, <1>k
<1>10. \A s \in sd : s.boot \in Nat /\ s.boot <= b /\ (s.boot = b => pc = "seeded")
  BY DEF LogOK
<1>. HIDE DEF Src
<1>. QED
  BY <1>1, <1>5, <1>6, <1>7, <1>8, <1>9, <1>10 DEF LogOK

\* A reset keeps the lines printed so far; the next ones belong to a later boot.
LEMMA LogReset ==
    ASSUME NEW L \in Seq(Lines), NEW b \in Nat, NEW sd, NEW pc, LogOK(L, b, pc, sd)
    PROVE  LogOK(L, b + 1, "start", sd)
<1>1. \A i \in 1..Len(L) : L[i].boot \in Nat /\ L[i].boot <= b
  BY LastOf DEF LogOK
<1>2. \A i \in 1..Len(L) : L[i].boot < b + 1 /\ L[i].boot <= b + 1 /\ L[i].boot # b + 1
  BY <1>1
<1>3. \A s \in sd : s.boot \in Nat /\ s.boot <= b + 1 /\ s.boot # b + 1
  BY DEF LogOK
<1>. QED
  BY <1>2, <1>3 DEF LogOK

\* The output when the host tears the line it is reading.
LEMMA TornOutput ==
    ASSUME BenchTypeOK, LineTorn
    PROVE  \E kind \in Pieces(Output[Len(text) + 1]) :
              /\ Len(text) + 1 \in 1..Len(Output)
              /\ Output' \in Seq(Lines) /\ Len(Output') = Len(Output) + 1
              /\ text' = Append(text, [boot |-> Output[Len(text) + 1].boot, kind |-> kind])
              /\ Output'[Len(text) + 1] = [boot |-> Output[Len(text) + 1].boot, kind |-> kind]
              /\ Output'[(Len(text) + 1) + 1]
                    = [boot |-> Output[Len(text) + 1].boot, kind |-> "rest"]
              /\ \A i \in 1..Len(Output') : i # Len(text) + 1 /\ i # (Len(text) + 1) + 1 =>
                    Output'[i] = Output[Source(i, Len(text) + 1)]
<1>1. serial \in Seq(Lines) /\ text \in Seq(Lines) /\ serial # <<>>
  BY DEF BenchTypeOK, LineTorn
<1>. DEFINE first == Head(serial)
            rest == [boot |-> first.boot, kind |-> "rest"]
<1>2. first \in Lines
  BY <1>1, FirstLine
<1>3. PICK kind \in Pieces(first) :
         /\ text' = Append(text, [boot |-> first.boot, kind |-> kind])
         /\ serial' = <<rest>> \o Tail(serial)
  BY DEF LineTorn
<1>. DEFINE x == [boot |-> first.boot, kind |-> kind]
<1>4. x \in Lines /\ rest \in Lines
  <2>1. kind \in Kinds /\ "rest" \in Kinds
    BY <1>2, PieceTypes DEF Kinds
  <2>. QED
    BY <1>2, <2>1, PieceTypes
<1>5. Output = text \o serial /\ Output' = Append(text, x) \o (<<rest>> \o Tail(serial))
  BY <1>3 DEF Output
<1>6. kind \in Pieces(first) /\ text' = Append(text, x)
  BY <1>3
<1>7. first = Head(serial) /\ x = [boot |-> first.boot, kind |-> kind]
      /\ rest = [boot |-> first.boot, kind |-> "rest"]
  OBVIOUS
<1>. HIDE DEF x, rest, first
<1>. DEFINE L == Output
            M == Output'
            p == Len(text) + 1
<1>8. TornAt(L, M, p, first, x, rest)
  <2>1. TornAt(text \o serial, Append(text, x) \o (<<rest>> \o Tail(serial)), Len(text) + 1,
               Head(serial), x, rest)
    BY <1>1, <1>4, OutputTorn
  <2>. QED
    BY <1>5, <1>7, <2>1
<1>. QED
  BY <1>6, <1>7, <1>8 DEF TornAt

\* Every step keeps the log.
LEMMA LogStep == BenchTypeOK /\ LogInv /\ [BenchNext]_allVars => LogInv'
<1>. SUFFICES ASSUME BenchTypeOK, LogInv, [BenchNext]_allVars
              PROVE  LogInv'
  OBVIOUS
<1>o. Output \in Seq(Lines) /\ serial \in Seq(Lines) /\ text \in Seq(Lines) /\ boot \in Nat
  BY OutputType DEF BenchTypeOK
<1>l. LogOK(Output, boot, bpc, seeds)
  BY DEF LogInv
<1>p. LogInv' = LogOK(Output', boot', bpc', seeds')
  BY DEF LogInv
<1>two. \A s \in Seq(Lines) : \A x, y \in Lines :
           s \o <<x, y>> = Append(Append(s, x), y) /\ Append(s, x) \in Seq(Lines)
  BY TwoLines
<1>same. ASSUME UNCHANGED <<Output, boot, bpc, seeds>>
         PROVE  LogInv'
  BY <1>same, <1>l, <1>p
<1>1. CASE SystemStep
  <2>1. Output' = Output \o Printed
    <3>1. /\ serial' = serial \o Printed /\ text' = text
          /\ \/ Printed = <<>>
             \/ \E x \in Kinds : Printed = <<Line(x)>>
             \/ \E x, y \in Kinds : Printed = <<Line(x), Line(y)>>
      BY <1>1, Prints DEF Kinds
    <3>2. \A k \in Kinds : Line(k) \in Lines
      BY PrintedTypes
    <3>3. Printed \in Seq(Lines)
      <4>1. \A x, y \in Lines : <<>> \in Seq(Lines) /\ <<x>> \in Seq(Lines) /\ <<x, y>> \in Seq(Lines)
        OBVIOUS
      <4>2. <<>> \in Seq(Lines)
        OBVIOUS
      <4>. QED
        BY <3>1, <3>2, <4>1, <4>2
    <3>4. text \o (serial \o Printed) = (text \o serial) \o Printed
      BY <3>3, <1>o, OutputGrows
    <3>. QED
      BY <3>1, <3>4 DEF Output
  <2>2. \A k \in Kinds : Line(k) \in Lines /\ Line(k) = [boot |-> boot, kind |-> k]
    BY PrintedTypes DEF Line
  <2>3. boot' = boot
    BY <1>1, Prints
  <2>4. CASE Printed = <<>> /\ seeds' = seeds /\ (bpc' = bpc \/ (/\ Undecided /\ Undecided'
                                                      /\ bpc # "start" /\ bpc' # "start"))
    <3>1. <<>> \in Seq(Lines) /\ Output \o <<>> = Output
      BY <1>o
    <3>2. Output' = Output
      BY <2>1, <2>4, <3>1
    <3>. QED
      BY <2>3, <2>4, <3>2, <1>l, <1>p DEF LogOK, Undecided
  <2>5. CASE /\ Printed = <<Line("banner")>> /\ seeds' = seeds
             /\ bpc = "start" /\ bpc' = "value"
    <3>1. Line("banner") \in Lines /\ Line("banner") = [boot |-> boot, kind |-> "banner"]
      BY <2>2 DEF Kinds
    <3>2. Output' = Append(Output, Line("banner"))
      BY <2>1, <2>5, <3>1, <1>o, OneLine
    <3>. QED
      BY <2>3, <2>5, <3>1, <3>2, <1>l, <1>p, <1>o, LogBanner
  <2>6. CASE /\ Printed = <<Line("banner"), Line("error")>> /\ seeds' = seeds
             /\ bpc = "start" /\ bpc' = "failed"
    <3>1. /\ Line("banner") \in Lines /\ Line("banner") = [boot |-> boot, kind |-> "banner"]
          /\ Line("error") \in Lines /\ Line("error") = [boot |-> boot, kind |-> "error"]
      BY <2>2 DEF Kinds
    <3>. DEFINE M == Append(Output, Line("banner"))
    <3>2. Output' = Append(M, Line("error")) /\ M \in Seq(Lines)
      BY <2>1, <2>6, <3>1, <1>o, TwoLines
    <3>3. LogOK(M, boot, "value", seeds)
      BY <2>6, <3>1, <1>l, <1>o, LogBanner
    <3>. HIDE DEF M
    <3>4. LogOK(Append(M, [boot |-> boot, kind |-> "error"]), boot, "failed", seeds)
      <4>1. "error" \in {"error", "request", "result_failed"}
            /\ "value" \notin {"start", "seeded", "failed"}
        OBVIOUS
      <4>. QED
        BY <3>2, <3>3, <4>1, <1>o, LogFails
    <3>. QED
      BY <2>3, <2>6, <3>1, <3>2, <3>4, <1>p
  <2>7. ASSUME NEW k \in {"request", "error"}, Printed = <<Line(k)>>, seeds' = seeds,
               Undecided, bpc # "start", bpc' = "failed"
        PROVE  LogInv'
    <3>1. Line(k) \in Lines /\ Line(k) = [boot |-> boot, kind |-> k]
      BY <2>2 DEF Kinds
    <3>2. Output' = Append(Output, Line(k))
      BY <2>1, <2>7, <3>1, <1>o, OneLine
    <3>3. LogOK(Append(Output, [boot |-> boot, kind |-> k]), boot, "failed", seeds)
      BY <2>7, <1>l, <1>o, LogFails DEF Undecided
    <3>. QED
      BY <2>3, <2>7, <3>1, <3>2, <3>3, <1>p
  <2>8. CASE /\ Printed = <<Line("error"), Line("result_failed")>> /\ seeds' = seeds
             /\ Undecided /\ bpc # "start" /\ bpc' = "failed"
    <3>1. /\ Line("error") \in Lines /\ Line("error") = [boot |-> boot, kind |-> "error"]
          /\ Line("result_failed") \in Lines
          /\ Line("result_failed") = [boot |-> boot, kind |-> "result_failed"]
      BY <2>2 DEF Kinds
    <3>. DEFINE M == Append(Output, [boot |-> boot, kind |-> "error"])
    <3>2. Output' = Append(M, Line("result_failed")) /\ M \in Seq(Lines)
      <4>1. M = Append(Output, Line("error"))
        BY <3>1
      <4>. HIDE DEF M
      <4>. QED
        <5>1. Output' = Output \o <<Line("error"), Line("result_failed")>>
          BY <2>1, <2>8
        <5>2. /\ Output \o <<Line("error"), Line("result_failed")>>
                    = Append(Append(Output, Line("error")), Line("result_failed"))
              /\ Append(Output, Line("error")) \in Seq(Lines)
          <6>1. Line("error") \in Lines /\ Line("result_failed") \in Lines
            BY <3>1
          <6>. QED
            BY <6>1, <1>o, <1>two, Zenon
        <5>. QED
          BY <4>1, <5>1, <5>2
    <3>3. /\ LogOK(M, boot, "failed", seeds)
          /\ \A i \in 1..Len(M) : M[i].boot = boot => M[i].kind \notin Results
      <4>1. bpc \notin {"start", "seeded", "failed"}
        BY <2>8 DEF Undecided
      <4>2. "error" \in {"error", "request", "result_failed"}
        OBVIOUS
      <4>. QED
        BY <4>1, <4>2, <1>l, <1>o, LogFails
    <3>. HIDE DEF M
    <3>4. LogOK(Append(M, [boot |-> boot, kind |-> "result_failed"]), boot, "failed", seeds)
      BY <3>2, <3>3, <1>o, LogFails
    <3>. QED
      BY <2>3, <2>8, <3>1, <3>2, <3>4, <1>p
  <2>9. CASE /\ Printed = <<Line("result_seeded")>>
             /\ Undecided /\ bpc # "start" /\ bpc' = "seeded"
             /\ \E s : s.boot = boot /\ seeds' = seeds \cup {s}
    <3>1. /\ Line("result_seeded") \in Lines
          /\ Line("result_seeded") = [boot |-> boot, kind |-> "result_seeded"]
      BY <2>2 DEF Kinds
    <3>2. Output' = Append(Output, Line("result_seeded"))
      BY <2>1, <2>9, <3>1, <1>o, OneLine
    <3>3. PICK s : s.boot = boot /\ seeds' = seeds \cup {s}
      BY <2>9
    <3>4. LogOK(Append(Output, [boot |-> boot, kind |-> "result_seeded"]), boot, "seeded",
                seeds \cup {s})
      BY <2>9, <3>3, <1>l, <1>o, LogSeeded DEF Undecided
    <3>. QED
      BY <2>3, <2>9, <3>1, <3>2, <3>3, <3>4, <1>p
  <2>. QED
    BY <1>1, <2>4, <2>5, <2>6, <2>7, <2>8, <2>9, Prints
<1>2. CASE StartRun
  <2>1. /\ UNCHANGED <<text, serial, seeds>> /\ boot' = boot + 1 /\ bpc' = "start"
    BY <1>2 DEF StartRun, WarmReset, Rebooted
  <2>2. Output' = Output
    BY <2>1 DEF Output
  <2>. QED
    BY <2>1, <2>2, <1>l, <1>o, <1>p, LogReset
<1>3. CASE ReadLine \/ ReadRest \/ ReadPart \/ CaptureTimeout
  <2>1. /\ UNCHANGED <<bpc, boot, seeds>>
        /\ (serial' = serial /\ text' = text) \/ LineRead \/ LineTorn
    BY <1>3, HostReads
  <2>2. CASE serial' = serial /\ text' = text
    BY <2>1, <2>2, <1>same DEF Output
  <2>3. CASE LineRead
    <3>1. Output' = Output
      BY <2>3, <1>o, OutputMoves DEF Output, LineRead
    <3>. QED
      BY <2>1, <3>1, <1>same
  <2>4. CASE LineTorn
    <3>1. PICK kind \in Pieces(Output[Len(text) + 1]) :
             /\ Len(text) + 1 \in 1..Len(Output)
             /\ Output' \in Seq(Lines) /\ Len(Output') = Len(Output) + 1
             /\ Output'[Len(text) + 1] = [boot |-> Output[Len(text) + 1].boot, kind |-> kind]
             /\ Output'[(Len(text) + 1) + 1]
                   = [boot |-> Output[Len(text) + 1].boot, kind |-> "rest"]
             /\ \A i \in 1..Len(Output') : i # Len(text) + 1 /\ i # (Len(text) + 1) + 1 =>
                   Output'[i] = Output[Source(i, Len(text) + 1)]
      BY <2>4, TornOutput
    <3>. DEFINE M == Output'
                p == Len(text) + 1
    <3>2. LogOK(M, boot, bpc, seeds)
      <4>1. /\ M \in Seq(Lines) /\ Len(M) = Len(Output) + 1 /\ p \in 1..Len(Output)
            /\ M[p] = [boot |-> Output[p].boot, kind |-> kind]
            /\ M[p + 1] = [boot |-> Output[p].boot, kind |-> "rest"]
            /\ \A i \in 1..Len(M) : i # p /\ i # p + 1 => M[i] = Output[Source(i, p)]
            /\ kind \in Pieces(Output[p])
        BY <3>1
      <4>. HIDE DEF M, p
      <4>. QED
        BY <4>1, <1>l, <1>o, LogTorn
    <3>. QED
      BY <2>1, <3>2, <1>p
  <2>. QED
    BY <2>1, <2>2, <2>3, <2>4
<1>5. CASE NextRun
  BY <1>5, <1>same DEF NextRun, vars, deviceVars, memoryVars, Output
<1>6. CASE UNCHANGED allVars
  BY <1>6, <1>same DEF allVars, benchVars, vars, deviceVars, memoryVars, Output
<1>. QED
  BY <1>1, <1>2, <1>3, <1>5, <1>6 DEF BenchNext

------------------------------------------------------------------------------
(* The parsed runs. *)

\* A run as parse_log keeps it.
ParsedRun ==
    [boots : SUBSET Nat, result : {"none", "incomplete", "failed", "seeded", "torn"}]

\* A run whose result is true and whose lines are one boot's, but for the boots T
\* with torn lines.
RunOK(r, T, sd) ==
    /\ \E o \in Nat : r.boots \subseteq T \cup {o}
    /\ r.result = "seeded" => \E s \in sd : s.boot \in r.boots
    /\ r.result \in {"failed", "torn"} => \A s \in sd : s.boot \in r.boots => s.boot \in T

\* The closed runs: boots of their own, none after boot b.
RunsOK(rs, b, T, sd) ==
    /\ rs \in Seq(ParsedRun)
    /\ \A j \in DOMAIN rs : RunOK(rs[j], T, sd) /\ \A c \in rs[j].boots : c <= b
    /\ \A j, k \in DOMAIN rs : j # k => rs[j].boots \cap rs[k].boots = {}

\* Of boots that got a seed the first i lines do not tell it.
Untold(boots, lines, i) ==
    \A k \in 1..i : lines[k].kind = "result_seeded" => lines[k].boot \notin boots

\* Boot o opened the run that is open at a line of boot b; only boots with torn
\* lines came in after it, and all the closed runs are earlier.
OpenedBy(o, st, b, T, sd) ==
    /\ o <= b
    /\ \A c \in st.current.boots : o <= c /\ c <= b /\ (c = o \/ c \in T)
    /\ RunsOK(st.runs, o - 1, T, sd)

\* parse_log's state after i of the lines: a run is open to which the boot of line i
\* belongs, or that boot has had its result line, unless it has a torn line.
ParseOK(st, lines, i, T, sd) ==
    /\ i = 0 => st.runs = <<>> /\ st.current = NoRun
    /\ i > 0 /\ st.current # NoRun =>
          /\ st.current \in ParsedRun
          /\ RunOK(st.current, T, sd)
          /\ lines[i].boot \in st.current.boots \cup T
          /\ Untold(st.current.boots, lines, i)
          /\ \E o \in Nat : OpenedBy(o, st, lines[i].boot, T, sd)
    /\ i > 0 /\ st.current = NoRun =>
          /\ lines[i].kind \in Results \/ lines[i].boot \in T
          /\ RunsOK(st.runs, lines[i].boot, T, sd)

\* The lines of boots, of which those in T have torn ones; what a boot before the
\* last line's told of its seed is told in them.
LinesOK(lines, T, sd) ==
    /\ Chain(lines)
    /\ \A i \in 1..Len(lines) : LineTrue(lines[i], sd)
    /\ \A i \in 1..Len(lines) :
          lines[i].kind \in {"result_torn", "fragment"} => lines[i].boot \in T
    /\ \A s \in sd : \A i \in 1..Len(lines) :
          s.boot < lines[i].boot /\ s.boot \notin T =>
             \E k \in 1..i : lines[k].kind = "result_seeded" /\ lines[k].boot = s.boot

\* A run of later boots is closed.
LEMMA RunCloses ==
    ASSUME NEW T, NEW sd, NEW rs, NEW o \in Nat, NEW b \in Nat, RunsOK(rs, o - 1, T, sd),
           NEW r \in ParsedRun, RunOK(r, T, sd), o <= b,
           \A c \in r.boots : o <= c /\ c <= b
    PROVE  RunsOK(Append(rs, r), b, T, sd)
<1>1. /\ rs \in Seq(ParsedRun) /\ Append(rs, r) \in Seq(ParsedRun)
      /\ DOMAIN rs = 1..Len(rs) /\ DOMAIN Append(rs, r) = 1..(Len(rs) + 1) /\ Len(rs) \in Nat
      /\ \A j \in 1..Len(rs) : Append(rs, r)[j] = rs[j]
      /\ Append(rs, r)[Len(rs) + 1] = r
  BY DEF RunsOK
<1>2. \A j \in 1..(Len(rs) + 1) : j \in 1..Len(rs) \/ j = Len(rs) + 1
  BY <1>1
<1>3. ASSUME NEW j \in 1..Len(rs)
      PROVE  /\ RunOK(rs[j], T, sd)
             /\ \A c \in rs[j].boots : c \in Nat /\ c <= b /\ ~(o <= c)
  <2>1. /\ RunOK(rs[j], T, sd) /\ \A c \in rs[j].boots : c <= o - 1
        /\ rs[j].boots \subseteq Nat
    <3>1. rs[j] \in ParsedRun
      BY <1>1
    <3>2. rs[j].boots \subseteq Nat
      BY <3>1 DEF ParsedRun
    <3>. QED
      BY <1>1, <3>2 DEF RunsOK
  <2>2. \A c \in Nat : c <= o - 1 => c <= b /\ ~(o <= c)
    OBVIOUS
  <2>. QED
    BY <2>1, <2>2
<1>5. \A j \in 1..Len(rs) : rs[j].boots \cap r.boots = {}
  BY <1>3
<1>6. \A j, k \in 1..Len(rs) : j # k => rs[j].boots \cap rs[k].boots = {}
  BY <1>1 DEF RunsOK
<1>7. ASSUME NEW j \in 1..(Len(rs) + 1)
      PROVE  /\ RunOK(Append(rs, r)[j], T, sd)
             /\ \A c \in Append(rs, r)[j].boots : c <= b
  BY <1>1, <1>2, <1>3
<1>8. ASSUME NEW j \in 1..(Len(rs) + 1), NEW k \in 1..(Len(rs) + 1), j # k
      PROVE  Append(rs, r)[j].boots \cap Append(rs, r)[k].boots = {}
  BY <1>1, <1>2, <1>5, <1>6, <1>8
<1>. QED
  BY <1>1, <1>7, <1>8 DEF RunsOK

\* Earlier boots are earlier.
LEMMA RunsLater ==
    ASSUME NEW T, NEW sd, NEW rs, NEW b \in Int, NEW c \in Int, b <= c, RunsOK(rs, b, T, sd)
    PROVE  RunsOK(rs, c, T, sd)
<1>1. ASSUME NEW j \in DOMAIN rs, NEW d \in rs[j].boots
      PROVE  d <= c
  <2>1. rs[j].boots \subseteq Nat /\ d <= b
    <3>1. rs[j] \in ParsedRun
      BY DEF RunsOK
    <3>2. rs[j].boots \subseteq Nat
      BY <3>1 DEF ParsedRun
    <3>. QED
      BY <3>2 DEF RunsOK
  <2>. QED
    BY <2>1
<1>. QED
  BY <1>1 DEF RunsOK

\* What parse_log does with a line.
LEMMA ParseCases ==
    ASSUME NEW st, NEW line \in Lines
    PROVE  /\ line.kind = "banner" =>
                ParseLine(st, line) =
                   [runs |-> IF st.current = NoRun THEN st.runs ELSE Append(st.runs, st.current),
                    current |-> [boots |-> {line.boot}, result |-> "incomplete"]]
           /\ line.kind \in {"fragment", "rest"} => ParseLine(st, line) = st
           /\ line.kind # "banner" /\ st.current = NoRun => ParseLine(st, line) = st
           /\ line.kind \in {"error", "request"} /\ st.current # NoRun =>
                ParseLine(st, line) =
                   [runs |-> st.runs,
                    current |-> [boots |-> st.current.boots \cup {line.boot},
                                 result |-> "failed"]]
           /\ line.kind \in {"result_failed", "result_seeded", "result_torn"}
                 /\ st.current # NoRun =>
                ParseLine(st, line) =
                   [runs |-> Append(st.runs, [boots |-> st.current.boots \cup {line.boot},
                                              result |-> ResultOf(line)]),
                    current |-> NoRun]
<1>0. \A S, x : [boots |-> S \cup {line.boot}, result |-> x] # NoRun
  <2>. SUFFICES ASSUME NEW S, NEW x, [boots |-> S \cup {line.boot}, result |-> x] = NoRun
                PROVE  FALSE
    OBVIOUS
  <2>1. S \cup {line.boot} = {}
    BY DEF NoRun
  <2>. QED
    BY <2>1
<1>1. CASE line.kind = "banner"
  BY <1>1 DEF ParseLine, NoMatch
<1>2. CASE line.kind \in {"fragment", "rest"}
  BY <1>2 DEF ParseLine, NoMatch
<1>3. CASE line.kind # "banner" /\ st.current = NoRun
  BY <1>3 DEF ParseLine, NoMatch
<1>4. CASE line.kind \in {"error", "request"} /\ st.current # NoRun
  <2>. DEFINE open == [boots |-> st.current.boots \cup {line.boot}, result |-> st.current.result]
              last == [boots |-> st.current.boots \cup {line.boot}, result |-> "failed"]
  <2>1. [open EXCEPT !.result = "failed"] = last
    OBVIOUS
  <2>3. ParseLine(st, line) =
           [runs |-> st.runs, current |-> [open EXCEPT !.result = "failed"]]
    BY <1>4 DEF ParseLine, NoMatch
  <2>. QED
    BY <1>4, <2>1, <2>3
<1>5. CASE line.kind \in {"result_failed", "result_seeded", "result_torn"} /\ st.current # NoRun
  <2>. DEFINE open == [boots |-> st.current.boots \cup {line.boot}, result |-> st.current.result]
              last == [boots |-> st.current.boots \cup {line.boot}, result |-> ResultOf(line)]
  <2>1. [open EXCEPT !.result = ResultOf(line)] = last
    OBVIOUS
  <2>3. ParseLine(st, line) =
           [runs |-> IF [open EXCEPT !.result = ResultOf(line)] = NoRun
                       THEN st.runs ELSE Append(st.runs, [open EXCEPT !.result = ResultOf(line)]),
            current |-> NoRun]
    BY <1>5 DEF ParseLine, NoMatch
  <2>4. last # NoRun
    BY <1>0
  <2>. QED
    BY <1>5, <2>1, <2>3, <2>4
<1>. QED
  BY <1>1, <1>2, <1>3, <1>4, <1>5

\* Where a line stands among the others.
LEMMA LineBefore ==
    ASSUME NEW lines \in Seq(Lines), Chain(lines), NEW i \in 1..Len(lines)
    PROVE  /\ lines[i] \in Lines /\ lines[i].boot \in Nat /\ lines[i].kind \in Kinds
           /\ i \in Nat /\ i > 0 /\ i # 0
           /\ i = 1 => i - 1 = 0
           /\ i # 1 => /\ i - 1 \in 1..Len(lines) /\ i - 1 > 0 /\ i - 1 # 0
                       /\ lines[i - 1].boot \in Nat
                       /\ Before(lines[i - 1], lines[i])
                       /\ lines[i - 1].boot <= lines[i].boot
           /\ \A k \in 1..i : k = i \/ (k \in 1..(i - 1) /\ Before(lines[k], lines[i]))
           /\ \A k \in 1..i : k \in 1..Len(lines)
           /\ lines[i].kind \notin {"banner", "fragment"} =>
                 /\ i # 1 /\ lines[i - 1].boot = lines[i].boot
                 /\ lines[i - 1].kind \notin Results
<1>1. lines[i] \in Lines /\ lines[i].boot \in Nat /\ Len(lines) \in Nat
  BY LastOf
<1>2. lines[i].kind \in Kinds
  BY <1>1 DEF Lines
<1>3. /\ i \in Nat /\ i > 0 /\ i # 0 /\ (i = 1 => i - 1 = 0)
      /\ i # 1 => i - 1 \in 1..Len(lines) /\ i - 1 > 0 /\ i - 1 # 0 /\ i - 1 < i
      /\ \A k \in 1..i : k \in 1..Len(lines) /\ (k = i \/ (k \in 1..(i - 1) /\ k < i))
  BY <1>1
<1>4. i # 1 => /\ lines[i - 1].boot \in Nat
               /\ Before(lines[i - 1], lines[i])
  BY <1>3, LastOf DEF Chain
<1>5. i # 1 => lines[i - 1].boot <= lines[i].boot
  BY <1>4 DEF Before
<1>6. \A k \in 1..i : k = i \/ (k \in 1..(i - 1) /\ Before(lines[k], lines[i]))
  BY <1>3 DEF Chain
<1>7. lines[i].kind \notin {"banner", "fragment"} => i # 1 /\ lines[i - 1].boot = lines[i].boot
  BY DEF Chain
<1>8. lines[i].kind \notin {"banner", "fragment"} => lines[i - 1].kind \notin Results
  <2>1. \A c \in Nat : ~(c < c)
    OBVIOUS
  <2>. QED
    BY <1>1, <1>4, <1>7, <2>1 DEF Before
<1>. QED
  BY <1>1, <1>2, <1>3, <1>4, <1>5, <1>6, <1>7, <1>8

\* A banner closes the open run and opens its boot's.
LEMMA ParseBanner ==
    ASSUME NEW lines \in Seq(Lines), NEW T, NEW sd, LinesOK(lines, T, sd),
           NEW i \in 1..Len(lines), lines[i].kind = "banner",
           NEW st, ParseOK(st, lines, i - 1, T, sd)
    PROVE  ParseOK(ParseLine(st, lines[i]), lines, i, T, sd)
<1>. DEFINE line == lines[i]
            b == line.boot
            next == ParseLine(st, line)
            new == [boots |-> {b}, result |-> "incomplete"]
            closed == IF st.current = NoRun THEN st.runs ELSE Append(st.runs, st.current)
<1>0. Chain(lines)
  BY DEF LinesOK
<1>1. line \in Lines /\ b \in Nat /\ i \in Nat /\ i > 0 /\ i # 0
  BY <1>0, LineBefore
<1>2. next = [runs |-> closed, current |-> new]
  BY <1>1, ParseCases
<1>3. RunsOK(closed, b - 1, T, sd)
  <2>1. CASE i = 1
    <3>1. st.runs = <<>> /\ st.current = NoRun
      BY <2>1 DEF ParseOK
    <3>2. RunsOK(<<>>, b - 1, T, sd)
      BY DEF RunsOK
    <3>. QED
      BY <3>1, <3>2
  <2>2. CASE i # 1
    <3>. DEFINE a == lines[i - 1].boot
    <3>1. a \in Nat /\ Before(lines[i - 1], line) /\ i - 1 > 0
      BY <1>0, <2>2, LineBefore
    <3>2. a < b /\ a <= b - 1 /\ b - 1 \in Int
      <4>1. a < b
        BY <3>1 DEF Before
      <4>. QED
        BY <1>1, <3>1, <4>1
    <3>3. CASE st.current = NoRun
      <4>1. RunsOK(st.runs, a, T, sd)
        BY <3>1, <3>3 DEF ParseOK
      <4>. QED
        BY <3>1, <3>2, <3>3, <4>1, RunsLater
    <3>4. CASE st.current # NoRun
      <4>1. /\ st.current \in ParsedRun /\ RunOK(st.current, T, sd)
            /\ \E o \in Nat : OpenedBy(o, st, a, T, sd)
        BY <3>1, <3>4 DEF ParseOK
      <4>2. PICK o \in Nat : OpenedBy(o, st, a, T, sd)
        BY <4>1
      <4>3. RunsOK(Append(st.runs, st.current), a, T, sd)
        <5>. HIDE DEF a
        <5>. QED
          BY <3>1, <4>1, <4>2, RunCloses DEF OpenedBy
      <4>. QED
        BY <3>1, <3>2, <3>4, <4>3, RunsLater
    <3>. QED
      BY <3>3, <3>4
  <2>. QED
    BY <2>1, <2>2
<1>4. new \in ParsedRun /\ RunOK(new, T, sd) /\ new # NoRun
  <2>1. {b} \in SUBSET Nat /\ {b} # {} /\ {b} \subseteq T \cup {b}
    BY <1>1
  <2>2. new # NoRun
    BY DEF NoRun
  <2>. QED
    BY <1>1, <2>1, <2>2 DEF ParsedRun, RunOK
<1>5. Untold({b}, lines, i)
  <2>. SUFFICES ASSUME NEW k \in 1..i, lines[k].kind = "result_seeded"
                PROVE  lines[k].boot # b
    BY DEF Untold
  <2>1. k \in 1..Len(lines) /\ Before(lines[k], line)
    BY <1>0, LineBefore
  <2>2. lines[k].boot \in Nat /\ lines[k].boot < b
    BY <1>0, <2>1, LineBefore DEF Before
  <2>. QED
    BY <1>1, <2>2
<1>6. OpenedBy(b, next, b, T, sd)
  <2>1. b <= b
    BY <1>1
  <2>. QED
    BY <1>2, <1>3, <2>1 DEF OpenedBy
<1>7. next.current = new /\ next.runs = closed /\ new.boots = {b}
  BY <1>2
<1>. HIDE DEF next, new, closed
<1>. QED
  BY <1>1, <1>4, <1>5, <1>6, <1>7 DEF ParseOK, next

\* A line that nothing matches, or that comes without a run open, changes nothing.
LEMMA ParseSkips ==
    ASSUME NEW lines \in Seq(Lines), NEW T, NEW sd, LinesOK(lines, T, sd),
           NEW i \in 1..Len(lines), lines[i].kind # "banner",
           NEW st, ParseOK(st, lines, i - 1, T, sd),
           lines[i].kind \in {"fragment", "rest"} \/ st.current = NoRun
    PROVE  ParseOK(st, lines, i, T, sd)
<1>. DEFINE line == lines[i]
            b == line.boot
<1>0. Chain(lines)
  BY DEF LinesOK
<1>1. line \in Lines /\ b \in Nat /\ i \in Nat /\ i > 0 /\ i # 0
  BY <1>0, LineBefore
<1>2. line.kind = "fragment" => b \in T
  BY DEF LinesOK
<1>3. CASE i = 1
  <2>1. st.runs = <<>> /\ st.current = NoRun
    BY <1>3 DEF ParseOK
  <2>2. b \in T
    BY <1>0, <1>2, <1>3, LineBefore
  <2>3. RunsOK(<<>>, b, T, sd)
    BY DEF RunsOK
  <2>. QED
    BY <1>1, <2>1, <2>2, <2>3 DEF ParseOK
<1>4. CASE i # 1
  <2>. DEFINE a == lines[i - 1].boot
  <2>1. /\ i - 1 > 0 /\ a \in Nat /\ a <= b
        /\ line.kind # "fragment" => a = b /\ lines[i - 1].kind \notin Results
    BY <1>0, <1>4, LineBefore
  <2>2. CASE st.current = NoRun
    <3>1. /\ lines[i - 1].kind \in Results \/ a \in T
          /\ RunsOK(st.runs, a, T, sd)
      BY <2>1, <2>2 DEF ParseOK
    <3>2. RunsOK(st.runs, b, T, sd)
      BY <1>1, <2>1, <3>1, RunsLater
    <3>3. b \in T
      BY <1>2, <2>1, <3>1
    <3>. QED
      BY <1>1, <2>2, <3>2, <3>3 DEF ParseOK
  <2>3. CASE st.current # NoRun
    <3>1. line.kind \in {"fragment", "rest"}
      BY <2>3
    <3>2. /\ st.current \in ParsedRun
          /\ RunOK(st.current, T, sd)
          /\ a \in st.current.boots \cup T
          /\ Untold(st.current.boots, lines, i - 1)
          /\ \E o \in Nat : OpenedBy(o, st, a, T, sd)
      BY <2>1, <2>3 DEF ParseOK
    <3>3. b \in st.current.boots \cup T
      BY <1>2, <2>1, <3>1, <3>2
    <3>4. Untold(st.current.boots, lines, i)
      <4>. SUFFICES ASSUME NEW k \in 1..i, lines[k].kind = "result_seeded"
                    PROVE  lines[k].boot \notin st.current.boots
        BY DEF Untold
      <4>1. k \in 1..(i - 1)
        BY <1>0, <3>1, LineBefore
      <4>. QED
        BY <3>2, <4>1 DEF Untold
    <3>5. PICK o \in Nat : OpenedBy(o, st, a, T, sd)
      BY <3>2
    <3>6. OpenedBy(o, st, b, T, sd)
      <4>1. st.current.boots \subseteq Nat
        BY <3>2 DEF ParsedRun
      <4>2. \A c \in Nat : c <= a => c <= b
        BY <1>1, <2>1
      <4>. HIDE DEF a, b
      <4>. QED
        BY <3>5, <4>1, <4>2 DEF OpenedBy
    <3>. QED
      BY <1>1, <2>3, <3>2, <3>3, <3>4, <3>6 DEF ParseOK
  <2>. QED
    BY <2>2, <2>3
<1>. QED
  BY <1>3, <1>4

\* What is known when a line of a boot is matched into the open run.
LEMMA ParseInto ==
    ASSUME NEW lines \in Seq(Lines), NEW T, NEW sd, LinesOK(lines, T, sd),
           NEW i \in 1..Len(lines), lines[i].kind \notin {"banner", "fragment"},
           NEW st, ParseOK(st, lines, i - 1, T, sd), st.current # NoRun
    PROVE  LET b == lines[i].boot
               S == st.current.boots \cup {b}
           IN  /\ S \in SUBSET Nat
               /\ Untold(st.current.boots, lines, i - 1)
               /\ \E o \in Nat : /\ o <= b /\ S \subseteq T \cup {o}
                                 /\ \A c \in S : o <= c /\ c <= b /\ (c = o \/ c \in T)
                                 /\ RunsOK(st.runs, o - 1, T, sd)
               /\ lines[i].kind # "result_seeded" =>
                     \A s \in sd : s.boot \in S => s.boot \in T \/ s.boot = b
               /\ lines[i].kind \in {"error", "request", "result_failed", "result_torn"} =>
                     \A s \in sd : s.boot \in S => s.boot \in T
<1>. DEFINE line == lines[i]
            b == line.boot
            a == lines[i - 1].boot
            S == st.current.boots \cup {b}
<1>0. Chain(lines)
  BY DEF LinesOK
<1>1. /\ b \in Nat /\ i \in Nat /\ i - 1 > 0 /\ a = b
  BY <1>0, LineBefore
<1>2. /\ st.current \in ParsedRun
      /\ a \in st.current.boots \cup T
      /\ Untold(st.current.boots, lines, i - 1)
      /\ \E o \in Nat : OpenedBy(o, st, a, T, sd)
  BY <1>1 DEF ParseOK
<1>3. S \in SUBSET Nat
  BY <1>1, <1>2 DEF ParsedRun
<1>4. PICK o \in Nat : OpenedBy(o, st, a, T, sd)
  BY <1>2
<1>. HIDE DEF a
<1>5. /\ o <= b /\ RunsOK(st.runs, o - 1, T, sd)
      /\ \A c \in st.current.boots : o <= c /\ c <= b /\ (c = o \/ c \in T)
  BY <1>1, <1>4 DEF OpenedBy
<1>6. \A c \in S : o <= c /\ c <= b /\ (c = o \/ c \in T)
  <2>1. b \in st.current.boots \/ b \in T
    BY <1>1, <1>2
  <2>2. b <= b
    BY <1>1
  <2>. QED
    BY <1>5, <2>1, <2>2
<1>7. S \subseteq T \cup {o}
  BY <1>6
<1>8. ASSUME line.kind # "result_seeded", NEW s \in sd, s.boot \in S, s.boot \notin T, s.boot # b
      PROVE  FALSE
  <2>1. s.boot \in st.current.boots /\ s.boot \in Nat /\ s.boot <= b
    BY <1>3, <1>6, <1>8
  <2>2. s.boot < b
    BY <1>1, <1>8, <2>1
  <2>3. PICK k \in 1..i : lines[k].kind = "result_seeded" /\ lines[k].boot = s.boot
    BY <1>8, <2>2 DEF LinesOK
  <2>4. k \in 1..(i - 1)
    BY <1>0, <1>8, <2>3, LineBefore
  <2>. QED
    BY <1>2, <2>1, <2>3, <2>4 DEF Untold
<1>9. line.kind \in {"error", "request", "result_failed", "result_torn"} =>
         \A s \in sd : s.boot = b => s.boot \in T
  <2>1. LineTrue(line, sd) /\ (line.kind = "result_torn" => b \in T)
    BY DEF LinesOK
  <2>. QED
    BY <2>1 DEF LineTrue
<1>10. /\ line.kind # "result_seeded" =>
             \A s \in sd : s.boot \in S => s.boot \in T \/ s.boot = b
       /\ line.kind \in {"error", "request", "result_failed", "result_torn"} =>
             \A s \in sd : s.boot \in S => s.boot \in T
  <2>1. line.kind \in {"error", "request", "result_failed", "result_torn"} =>
           line.kind # "result_seeded"
    OBVIOUS
  <2>. HIDE DEF S, b, line
  <2>. QED
    BY <1>8, <1>9, <2>1
<1>11. \E p \in Nat : /\ p <= b /\ S \subseteq T \cup {p}
                      /\ \A c \in S : p <= c /\ c <= b /\ (c = p \/ c \in T)
                      /\ RunsOK(st.runs, p - 1, T, sd)
  <2>. HIDE DEF S, b, line
  <2>. QED
    BY <1>5, <1>6, <1>7
<1>. QED
  BY <1>2, <1>3, <1>10, <1>11

\* A line of a boot is parsed into the run it belongs to.
LEMMA ParseStep ==
    ASSUME NEW lines \in Seq(Lines), NEW T, NEW sd, LinesOK(lines, T, sd),
           NEW i \in 1..Len(lines), NEW st, ParseOK(st, lines, i - 1, T, sd)
    PROVE  ParseOK(ParseLine(st, lines[i]), lines, i, T, sd)
<1>. DEFINE line == lines[i]
            b == line.boot
            next == ParseLine(st, line)
            S == st.current.boots \cup {b}
            Run(result) == [boots |-> S, result |-> result]
<1>0. Chain(lines)
  BY DEF LinesOK
<1>1. line \in Lines /\ b \in Nat /\ line.kind \in Kinds /\ i \in Nat /\ i > 0 /\ i # 0
  BY <1>0, LineBefore
<1>2. CASE line.kind = "banner"
  BY <1>2, ParseBanner
<1>3. CASE line.kind # "banner" /\ (line.kind \in {"fragment", "rest"} \/ st.current = NoRun)
  <2>1. next = st
    BY <1>1, <1>3, ParseCases
  <2>2. ParseOK(st, lines, i, T, sd)
    BY <1>3, ParseSkips
  <2>. QED
    BY <2>1, <2>2
<1>4. CASE line.kind \notin {"banner", "fragment", "rest"} /\ st.current # NoRun
  <2>1. /\ S \in SUBSET Nat
        /\ Untold(st.current.boots, lines, i - 1)
        /\ \E o \in Nat : /\ o <= b /\ S \subseteq T \cup {o}
                          /\ \A c \in S : o <= c /\ c <= b /\ (c = o \/ c \in T)
                          /\ RunsOK(st.runs, o - 1, T, sd)
        /\ line.kind \in {"error", "request", "result_failed", "result_torn"} =>
              \A s \in sd : s.boot \in S => s.boot \in T
    BY <1>4, ParseInto
  <2>2. PICK o \in Nat : /\ o <= b /\ S \subseteq T \cup {o}
                         /\ \A c \in S : o <= c /\ c <= b /\ (c = o \/ c \in T)
                         /\ RunsOK(st.runs, o - 1, T, sd)
    BY <2>1
  <2>3. LineTrue(line, sd) /\ (line.kind = "result_torn" => b \in T)
    BY DEF LinesOK
  <2>4. b \in S /\ S # {}
    OBVIOUS
  <2>5. CASE line.kind \in {"error", "request"}
    <3>1. next = [runs |-> st.runs, current |-> Run("failed")]
      BY <1>1, <1>4, <2>5, ParseCases
    <3>2. next.current = Run("failed") /\ next.runs = st.runs
      BY <3>1
    <3>3. Run("failed") \in ParsedRun /\ RunOK(Run("failed"), T, sd) /\ Run("failed") # NoRun
      <4>1. Run("failed") # NoRun
        BY <2>4 DEF NoRun
      <4>. QED
        BY <2>1, <2>2, <2>5, <4>1 DEF ParsedRun, RunOK
    <3>4. Untold(S, lines, i)
      <4>. SUFFICES ASSUME NEW k \in 1..i, lines[k].kind = "result_seeded", lines[k].boot \in S
                    PROVE  FALSE
        BY DEF Untold
      <4>1. k \in 1..(i - 1) /\ k \in 1..Len(lines)
        BY <1>0, <2>5, LineBefore
      <4>2. lines[k].boot = b
        BY <2>1, <4>1 DEF Untold
      <4>3. LineTrue(lines[k], sd)
        BY <4>1 DEF LinesOK
      <4>. QED
        BY <2>3, <2>5, <4>2, <4>3 DEF LineTrue
    <3>5. OpenedBy(o, next, b, T, sd)
      <4>1. next.current.boots = S
        BY <3>2
      <4>. HIDE DEF next, S, b, line
      <4>. QED
        BY <2>2, <3>2, <4>1 DEF OpenedBy
    <3>6. Run("failed").boots = S
      OBVIOUS
    <3>. HIDE DEF next, Run, S
    <3>. QED
      BY <1>1, <2>4, <3>2, <3>3, <3>4, <3>5, <3>6 DEF ParseOK, next
  <2>6. CASE line.kind \in {"result_failed", "result_seeded", "result_torn"}
    <3>. DEFINE last == Run(ResultOf(line))
    <3>1. next = [runs |-> Append(st.runs, last), current |-> NoRun]
      BY <1>1, <1>4, <2>6, ParseCases
    <3>2. /\ line.kind = "result_failed" => ResultOf(line) = "failed"
          /\ line.kind = "result_seeded" => ResultOf(line) = "seeded"
          /\ line.kind = "result_torn" => ResultOf(line) = "torn"
      BY DEF ResultOf
    <3>3. last \in ParsedRun /\ RunOK(last, T, sd)
      <4>1. ResultOf(line) \in {"failed", "seeded", "torn"}
        BY <2>6, <3>2
      <4>2. last.boots = S /\ last.result = ResultOf(line)
        OBVIOUS
      <4>3. last \in ParsedRun
        BY <2>1, <4>1 DEF ParsedRun
      <4>4. ResultOf(line) = "seeded" => \E s \in sd : s.boot \in S
        <5>1. ResultOf(line) = "seeded" => line.kind = "result_seeded"
          BY <2>6, <3>2
        <5>2. line.kind = "result_seeded" => \E s \in sd : s.boot = b
          BY <2>3 DEF LineTrue
        <5>. QED
          BY <2>4, <5>1, <5>2
      <4>5. ResultOf(line) \in {"failed", "torn"} => \A s \in sd : s.boot \in S => s.boot \in T
        <5>1. ResultOf(line) \in {"failed", "torn"} =>
                 line.kind \in {"error", "request", "result_failed", "result_torn"}
          BY <2>6, <3>2
        <5>. HIDE DEF line, S
        <5>. QED
          BY <2>1, <5>1
      <4>6. \E p \in Nat : S \subseteq T \cup {p}
        BY <2>2
      <4>. HIDE DEF last, S, line
      <4>. QED
        BY <4>2, <4>3, <4>4, <4>5, <4>6 DEF RunOK
    <3>4. RunsOK(Append(st.runs, last), b, T, sd)
      <4>1. last.boots = S
        OBVIOUS
      <4>. HIDE DEF last, S, b, line
      <4>. QED
        BY <1>1, <2>2, <3>3, <4>1, RunCloses
    <3>5. line.kind \in Results \/ b \in T
      BY <2>3, <2>6 DEF Results
    <3>6. next.runs = Append(st.runs, last) /\ next.current = NoRun
      BY <3>1
    <3>. HIDE DEF next, last
    <3>. QED
      BY <1>1, <3>4, <3>5, <3>6 DEF ParseOK, next
  <2>. QED
    BY <1>1, <1>4, <2>5, <2>6 DEF Kinds
<1>. QED
  BY <1>2, <1>3, <1>4

\* A run with a seed to which boot b belongs.
RunFor(rs, b) == \E j \in DOMAIN rs : rs[j].result = "seeded" /\ b \in rs[j].boots

\* Runs are only ever added.
LEMMA RunsKept ==
    ASSUME NEW rs \in Seq(ParsedRun), NEW r
    PROVE  /\ \A b : RunFor(rs, b) => RunFor(Append(rs, r), b)
           /\ \A b : r.result = "seeded" /\ b \in r.boots => RunFor(Append(rs, r), b)
<1>1. /\ DOMAIN rs = 1..Len(rs) /\ DOMAIN Append(rs, r) = 1..(Len(rs) + 1) /\ Len(rs) \in Nat
      /\ \A j \in 1..Len(rs) : Append(rs, r)[j] = rs[j]
      /\ Append(rs, r)[Len(rs) + 1] = r
  OBVIOUS
<1>2. Len(rs) + 1 \in 1..(Len(rs) + 1) /\ \A j \in 1..Len(rs) : j \in 1..(Len(rs) + 1)
  BY <1>1
<1>. QED
  BY <1>1, <1>2 DEF RunFor

\* A line closes no run wrongly: the runs closed before it stay, and a result line
\* of a boot that got its seed closes the boot's run.
LEMMA ParseKeeps ==
    ASSUME NEW lines \in Seq(Lines), NEW T, NEW sd, LinesOK(lines, T, sd),
           NEW i \in 1..Len(lines), NEW st, ParseOK(st, lines, i - 1, T, sd)
    PROVE  /\ \A b : RunFor(st.runs, b) => RunFor(ParseLine(st, lines[i]).runs, b)
           /\ lines[i].kind = "result_seeded" /\ lines[i].boot \notin T =>
                 RunFor(ParseLine(st, lines[i]).runs, lines[i].boot)
<1>. DEFINE line == lines[i]
            next == ParseLine(st, line)
            Run(result) == [boots |-> st.current.boots \cup {line.boot}, result |-> result]
<1>. SUFFICES /\ \A b : RunFor(st.runs, b) => RunFor(next.runs, b)
              /\ line.kind = "result_seeded" /\ line.boot \notin T => RunFor(next.runs, line.boot)
  OBVIOUS
<1>0. Chain(lines)
  BY DEF LinesOK
<1>1. line \in Lines /\ line.kind \in Kinds /\ i \in Nat
  BY <1>0, LineBefore
<1>2. st.runs \in Seq(ParsedRun)
  <2>1. CASE i = 1
    <3>1. i - 1 = 0 /\ <<>> \in Seq(ParsedRun)
      BY <2>1
    <3>2. st.runs = <<>>
      BY <3>1 DEF ParseOK
    <3>. QED
      BY <3>1, <3>2
  <2>2. CASE i # 1
    <3>1. i - 1 > 0
      BY <1>0, <2>2, LineBefore
    <3>2. CASE st.current = NoRun
      BY <3>1, <3>2 DEF ParseOK, RunsOK
    <3>3. CASE st.current # NoRun
      <4>1. \E o \in Nat : OpenedBy(o, st, lines[i - 1].boot, T, sd)
        BY <3>1, <3>3 DEF ParseOK
      <4>. QED
        BY <4>1 DEF OpenedBy, RunsOK
    <3>. QED
      BY <3>2, <3>3
  <2>. QED
    BY <2>1, <2>2
<1>3. line.kind = "result_seeded" /\ line.boot \notin T => st.current # NoRun
  <2>. SUFFICES ASSUME line.kind = "result_seeded", line.boot \notin T, st.current = NoRun
                PROVE  FALSE
    OBVIOUS
  <2>1. /\ i - 1 > 0 /\ lines[i - 1].boot = line.boot /\ lines[i - 1].kind \notin Results
    BY <1>0, LineBefore
  <2>. QED
    BY <2>1 DEF ParseOK
<1>4. CASE line.kind = "banner"
  <2>. DEFINE closed == IF st.current = NoRun THEN st.runs ELSE Append(st.runs, st.current)
  <2>1. next = [runs |-> closed, current |-> [boots |-> {line.boot}, result |-> "incomplete"]]
    BY <1>1, <1>4, ParseCases
  <2>2. next.runs = closed
    BY <2>1
  <2>. HIDE DEF next
  <2>. QED
    BY <1>2, <1>4, <2>2, RunsKept DEF next
<1>5. CASE line.kind # "banner" /\ (line.kind \in {"fragment", "rest"} \/ st.current = NoRun)
  <2>1. next = st
    BY <1>1, <1>5, ParseCases
  <2>2. ~(line.kind = "result_seeded" /\ line.boot \notin T)
    BY <1>3, <1>5
  <2>. HIDE DEF next, line
  <2>. QED
    BY <2>1, <2>2
<1>6. CASE line.kind \in {"error", "request"} /\ st.current # NoRun
  <2>1. next = [runs |-> st.runs, current |-> Run("failed")]
    BY <1>1, <1>6, ParseCases
  <2>2. line.kind # "result_seeded" /\ next.runs = st.runs
    BY <1>6, <2>1
  <2>. HIDE DEF next, line
  <2>. QED
    BY <2>2
<1>7. CASE line.kind \in {"result_failed", "result_seeded", "result_torn"} /\ st.current # NoRun
  <2>1. next = [runs |-> Append(st.runs, Run(ResultOf(line))), current |-> NoRun]
    BY <1>1, <1>7, ParseCases
  <2>2. next.runs = Append(st.runs, Run(ResultOf(line)))
    BY <2>1
  <2>3. line.kind = "result_seeded" => Run(ResultOf(line)).result = "seeded"
    BY DEF ResultOf
  <2>4. line.boot \in Run(ResultOf(line)).boots
    OBVIOUS
  <2>. HIDE DEF next, Run, line
  <2>. QED
    BY <1>2, <2>2, <2>3, <2>4, RunsKept
<1>. QED
  BY <1>1, <1>4, <1>5, <1>6, <1>7 DEF Kinds

\* Every boot that is logged as seeded, and has no torn line, has its run.
AllFound(lines, n, rs, T) ==
    \A i \in 1..n :
       lines[i].kind = "result_seeded" /\ lines[i].boot \notin T => RunFor(rs, lines[i].boot)

\* So are all lines of a log, and no seeded boot is missed.
LEMMA ParsedIsOK ==
    ASSUME NEW lines \in Seq(Lines), NEW T, NEW sd, LinesOK(lines, T, sd)
    PROVE  /\ ParseOK(FoldLeft(ParseLine, NothingParsed, lines), lines, Len(lines), T, sd)
           /\ AllFound(lines, Len(lines), FoldLeft(ParseLine, NothingParsed, lines).runs, T)
<1>1. PICK h : /\ h[0] = NothingParsed
               /\ \A i \in 1..Len(lines) : h[i] = ParseLine(h[i - 1], lines[i])
               /\ FoldLeft(ParseLine, NothingParsed, lines) = h[Len(lines)]
  BY ParseUnfolds
<1>. DEFINE Done == {n \in Nat : n <= Len(lines) => /\ ParseOK(h[n], lines, n, T, sd)
                                                      /\ AllFound(lines, n, h[n].runs, T)}
<1>2. 0 \in Done
  <2>1. AllFound(lines, 0, h[0].runs, T)
    <3>1. 1..0 = {}
      OBVIOUS
    <3>. QED
      BY <3>1 DEF AllFound
  <2>2. ParseOK(h[0], lines, 0, T, sd)
    BY <1>1 DEF ParseOK, NothingParsed
  <2>. QED
    BY <2>1, <2>2
<1>3. ASSUME NEW n \in Done
      PROVE  n + 1 \in Done
  <2>. SUFFICES ASSUME n + 1 <= Len(lines)
                PROVE  /\ ParseOK(h[n + 1], lines, n + 1, T, sd)
                       /\ AllFound(lines, n + 1, h[n + 1].runs, T)
    OBVIOUS
  <2>1. n \in Nat /\ n + 1 \in 1..Len(lines) /\ n <= Len(lines) /\ (n + 1) - 1 = n
    OBVIOUS
  <2>2. ParseOK(h[n], lines, n, T, sd) /\ AllFound(lines, n, h[n].runs, T)
    BY <2>1
  <2>. HIDE DEF Done
  <2>3. h[n + 1] = ParseLine(h[n], lines[n + 1])
    BY <1>1, <2>1
  <2>4. ParseOK(h[n], lines, (n + 1) - 1, T, sd)
    BY <2>1, <2>2
  <2>6. /\ \A b : RunFor(h[n].runs, b) => RunFor(h[n + 1].runs, b)
        /\ lines[n + 1].kind = "result_seeded" /\ lines[n + 1].boot \notin T =>
              RunFor(h[n + 1].runs, lines[n + 1].boot)
    BY <2>1, <2>3, <2>4, ParseKeeps
  <2>7. AllFound(lines, n + 1, h[n + 1].runs, T)
    <3>1. \A i \in 1..(n + 1) : i \in 1..n \/ i = n + 1
      BY <2>1
    <3>. QED
      BY <2>2, <2>6, <3>1 DEF AllFound
  <2>. QED
    BY <2>1, <2>3, <2>4, <2>7, ParseStep
<1>4. Done = Nat
  <2>1. Done \in SUBSET Nat
    OBVIOUS
  <2>. HIDE DEF Done
  <2>. QED
    BY <2>1, <1>2, <1>3, SetInduction
<1>5. Len(lines) \in Done
  BY <1>4
<1>6. Len(lines) \in Nat /\ Len(lines) <= Len(lines)
  OBVIOUS
<1>7. /\ ParseOK(h[Len(lines)], lines, Len(lines), T, sd)
      /\ AllFound(lines, Len(lines), h[Len(lines)].runs, T)
  BY <1>5, <1>6
<1>. QED
  BY <1>1, <1>7

------------------------------------------------------------------------------
(* What the boots told. *)

\* The boots that got a seed.
SeededBoots == {s.boot : s \in seeds}

\* What a step adds to the output, and to the seeds, unless it tears a line.
LEMMA OutputStep ==
    ASSUME BenchTypeOK, [BenchNext]_allVars, ~LineTorn
    PROVE  \E p \in Seq(Lines) :
              /\ Output' = Output \o p
              /\ \/ seeds' = seeds
                 \/ /\ p = <<Line("result_seeded")>> /\ Undecided /\ boot' = boot
                    /\ \E s : s.boot = boot /\ seeds' = seeds \cup {s}
<1>o. Output \in Seq(Lines) /\ serial \in Seq(Lines) /\ text \in Seq(Lines)
  BY OutputType DEF BenchTypeOK
<1>n. <<>> \in Seq(Lines) /\ Output \o <<>> = Output
  BY <1>o
<1>1. CASE SystemStep
  <2>1. /\ serial' = serial \o Printed /\ text' = text /\ boot' = boot
        /\ \/ Printed = <<>>
           \/ \E x \in Kinds : Printed = <<Line(x)>>
           \/ \E x, y \in Kinds : Printed = <<Line(x), Line(y)>>
    BY <1>1, Prints DEF Kinds
  <2>2. \A k \in Kinds : Line(k) \in Lines
    BY PrintedTypes
  <2>3. Printed \in Seq(Lines)
    <3>1. \A x, y \in Lines : <<x>> \in Seq(Lines) /\ <<x, y>> \in Seq(Lines)
      OBVIOUS
    <3>. QED
      BY <1>n, <2>1, <2>2, <3>1
  <2>4. Output' = Output \o Printed
    <3>1. text \o (serial \o Printed) = (text \o serial) \o Printed
      BY <1>o, <2>3, OutputGrows
    <3>. QED
      BY <2>1, <3>1 DEF Output
  <2>5. \/ seeds' = seeds
        \/ /\ Printed = <<Line("result_seeded")>> /\ Undecided
           /\ \E s : s.boot = boot /\ seeds' = seeds \cup {s}
    BY <1>1, Prints
  <2>. QED
    BY <2>1, <2>3, <2>4, <2>5
<1>2. CASE ReadLine \/ ReadRest \/ ReadPart \/ CaptureTimeout
  <2>1. seeds' = seeds /\ ((serial' = serial /\ text' = text) \/ LineRead)
    BY <1>2, HostReads
  <2>2. Output' = Output
    BY <2>1, <1>o, OutputMoves DEF Output, LineRead
  <2>. QED
    BY <1>n, <2>1, <2>2
<1>3. CASE StartRun \/ NextRun \/ UNCHANGED allVars
  <2>1. serial' = serial /\ text' = text /\ seeds' = seeds
    BY <1>3 DEF StartRun, WarmReset, NextRun, allVars, benchVars, vars
  <2>2. Output' = Output
    BY <2>1 DEF Output
  <2>. QED
    BY <1>n, <2>1, <2>2
<1>. QED
  BY <1>1, <1>2, <1>3 DEF BenchNext

\* Boots with torn lines are so for good.
LEMMA TornStay ==
    ASSUME BenchTypeOK, [BenchNext]_allVars
    PROVE  TornBoots \subseteq TornBoots'
<1>1. text' = text \/ \E x \in Lines : text' = Append(text, x)
  <2>1. CASE SystemStep
    BY <2>1 DEF SystemStep
  <2>2. CASE ReadLine \/ ReadRest \/ ReadPart \/ CaptureTimeout
    <3>1. serial \in Seq(Lines)
      BY DEF BenchTypeOK
    <3>2. text' = text \/ LineRead \/ LineTorn
      BY <2>2, HostReads
    <3>3. CASE LineRead
      BY <3>1, <3>3, FirstLine DEF LineRead
    <3>4. CASE LineTorn
      <4>1. Head(serial) \in Lines
        BY <3>1, <3>4, FirstLine DEF LineTorn
      <4>2. PICK kind \in Pieces(Head(serial)) :
               text' = Append(text, [boot |-> Head(serial).boot, kind |-> kind])
        BY <3>4 DEF LineTorn
      <4>3. [boot |-> Head(serial).boot, kind |-> kind] \in Lines
        BY <4>1, PieceTypes
      <4>. QED
        BY <4>2, <4>3
    <3>. QED
      BY <3>2, <3>3, <3>4
  <2>3. CASE StartRun \/ NextRun \/ UNCHANGED allVars
    BY <2>3 DEF StartRun, NextRun, allVars, benchVars
  <2>. QED
    BY <2>1, <2>2, <2>3 DEF BenchNext
<1>2. text \in Seq(Lines)
  BY DEF BenchTypeOK
<1>3. Range(text) \subseteq Range(text')
  <2>1. \A x \in Lines : \A i \in DOMAIN text :
           i \in DOMAIN Append(text, x) /\ Append(text, x)[i] = text[i]
    BY <1>2
  <2>. QED
    BY <1>1, <2>1 DEF Range
<1>. QED
  BY <1>3 DEF TornBoots

\* A line of the firmware's result of which the host reads a part makes its boot one
\* with a torn line.
LEMMA TornIsTorn ==
    ASSUME BenchTypeOK, LineTorn
    PROVE  Output[Len(text) + 1].kind \in Results =>
              Output[Len(text) + 1].boot \in TornBoots'
<1>. SUFFICES ASSUME Output[Len(text) + 1].kind \in Results
              PROVE  Output[Len(text) + 1].boot \in TornBoots'
  OBVIOUS
<1>. DEFINE first == Output[Len(text) + 1]
<1>1. PICK kind \in Pieces(first) : text' = Append(text, [boot |-> first.boot, kind |-> kind])
  BY TornOutput
<1>. DEFINE x == [boot |-> first.boot, kind |-> kind]
<1>2. kind \in {"result_torn", "fragment"}
  BY <1>1 DEF Pieces, CutOff, Results
<1>3. text \in Seq(Lines) /\ Len(text) + 1 \in 1..Len(Output) /\ Output \in Seq(Lines)
  BY TornOutput, OutputType DEF BenchTypeOK
<1>4. x \in Range(text')
  <2>1. first \in Lines
    BY <1>3, LastOf
  <2>2. x \in Lines
    BY <1>2, <2>1, PieceTypes DEF Kinds
  <2>. HIDE DEF x
  <2>3. Len(text) + 1 \in DOMAIN Append(text, x) /\ Append(text, x)[Len(text) + 1] = x
    BY <1>3, <2>2
  <2>. QED
    BY <1>1, <2>3 DEF Range, x
<1>5. x.boot = first.boot /\ x.kind = kind
  OBVIOUS
<1>. HIDE DEF x
<1>. QED
  BY <1>2, <1>4, <1>5 DEF TornBoots

\* A seeded boot has said so, unless the host tore a line of it.
Told(lines, b) == \E i \in 1..Len(lines) : lines[i].kind = "result_seeded" /\ lines[i].boot = b

ToldInv == \A b \in SeededBoots : b \in TornBoots \/ Told(Output, b)

\* A torn line leaves what the other lines tell.
LEMMA ToldTorn ==
    ASSUME BenchTypeOK, ToldInv, LineTorn, [BenchNext]_allVars
    PROVE  ToldInv'
<1>1. Output \in Seq(Lines)
  BY OutputType
<1>. DEFINE p == Len(text) + 1
<1>2. /\ p \in 1..Len(Output) /\ Output' \in Seq(Lines) /\ Len(Output') = Len(Output) + 1
      /\ \A i \in 1..Len(Output') : i # p /\ i # p + 1 => Output'[i] = Output[Source(i, p)]
  BY TornOutput
<1>3. SeededBoots' = SeededBoots
  <2>1. CASE SystemStep
    <3>1. text' = text /\ text \in Seq(Lines)
      BY <2>1 DEF SystemStep, BenchTypeOK
    <3>2. \E kind \in Pieces(Output[p]) :
             text' = Append(text, [boot |-> Output[p].boot, kind |-> kind])
      BY TornOutput
    <3>3. \A x : Append(text, x) # text
      <4>1. \A x : Len(Append(text, x)) = Len(text) + 1 /\ Len(text) \in Nat
        BY <3>1
      <4>. QED
        BY <4>1
    <3>. QED
      BY <3>1, <3>2, <3>3
  <2>2. CASE ReadLine \/ ReadRest \/ ReadPart \/ CaptureTimeout
    BY <2>2, HostReads DEF SeededBoots
  <2>3. CASE StartRun \/ NextRun \/ UNCHANGED allVars
    BY <2>3 DEF StartRun, WarmReset, NextRun, allVars, benchVars, vars, SeededBoots
  <2>. QED
    BY <2>1, <2>2, <2>3 DEF BenchNext
<1>4. ASSUME NEW i \in 1..Len(Output), i # p
      PROVE  \E j \in 1..Len(Output') : Output'[j] = Output[i]
  <2>1. CASE i < p
    <3>1. i \in 1..Len(Output') /\ i # p + 1 /\ Source(i, p) = i
      BY <1>1, <1>2, <2>1 DEF Source
    <3>. QED
      BY <1>2, <1>4, <3>1
  <2>2. CASE i > p
    <3>1. /\ i + 1 \in 1..Len(Output') /\ i + 1 # p /\ i + 1 # p + 1
          /\ Source(i + 1, p) = i
      BY <1>1, <1>2, <2>2 DEF Source
    <3>. QED
      BY <1>2, <3>1
  <2>. QED
    BY <1>1, <1>2, <1>4, <2>1, <2>2
<1>5. Output[p].kind = "result_seeded" => Output[p].boot \in TornBoots'
  BY TornIsTorn DEF Results
<1>6. TornBoots \subseteq TornBoots'
  BY TornStay
<1>7. ASSUME NEW b, Told(Output, b)
      PROVE  b \in TornBoots' \/ Told(Output', b)
  <2>1. PICK i \in 1..Len(Output) : Output[i].kind = "result_seeded" /\ Output[i].boot = b
    BY <1>7 DEF Told
  <2>. HIDE DEF p
  <2>2. CASE i = p
    BY <1>5, <2>1, <2>2
  <2>3. CASE i # p
    BY <1>4, <2>1, <2>3 DEF Told
  <2>. QED
    BY <2>2, <2>3
<1>. HIDE DEF p
<1>. QED
  BY <1>3, <1>6, <1>7 DEF ToldInv

LEMMA ToldInit == BenchInit => ToldInv
BY DEF BenchInit, Init, ToldInv, SeededBoots

LEMMA ToldStep == BenchTypeOK /\ ToldInv /\ [BenchNext]_allVars => ToldInv'
<1>. SUFFICES ASSUME BenchTypeOK, ToldInv, [BenchNext]_allVars, ~LineTorn
              PROVE  ToldInv'
  BY ToldTorn
<1>0. TornBoots \subseteq TornBoots'
  BY TornStay
<1>1. PICK p \in Seq(Lines) :
         /\ Output' = Output \o p
         /\ \/ seeds' = seeds
            \/ /\ p = <<Line("result_seeded")>> /\ Undecided /\ boot' = boot
               /\ \E s : s.boot = boot /\ seeds' = seeds \cup {s}
  BY OutputStep
<1>2. Output \in Seq(Lines)
  BY OutputType
<1>3. /\ Len(Output \o p) = Len(Output) + Len(p) /\ Len(Output) \in Nat /\ Len(p) \in Nat
      /\ \A i \in 1..Len(Output) : (Output \o p)[i] = Output[i] /\ i \in 1..Len(Output \o p)
  BY <1>2
<1>4. \A b : Told(Output, b) => Told(Output', b)
  BY <1>1, <1>3 DEF Told
<1>5. CASE seeds' = seeds
  BY <1>0, <1>4, <1>5 DEF ToldInv, SeededBoots
<1>6. CASE seeds' # seeds
  <2>1. p = <<Line("result_seeded")>>
    BY <1>1, <1>6
  <2>2. PICK s : s.boot = boot /\ seeds' = seeds \cup {s}
    BY <1>1, <1>6
  <2>3. Told(Output', boot)
    <3>. DEFINE x == Line("result_seeded")
    <3>0. x \in Lines
      BY PrintedTypes
    <3>1. Len(Output) + 1 \in 1..Len(Output') /\ Output'[Len(Output) + 1] = x
      <4>. HIDE DEF x
      <4>1. Output' = Append(Output, x) /\ Append(Output, x) \in Seq(Lines)
        BY <1>1, <1>2, <2>1, <3>0, OneLine DEF x
      <4>2. Len(Append(Output, x)) = Len(Output) + 1 /\ Append(Output, x)[Len(Output) + 1] = x
        BY <1>2
      <4>. QED
        BY <1>3, <4>1, <4>2
    <3>2. Line("result_seeded").kind = "result_seeded" /\ Line("result_seeded").boot = boot
      BY DEF Line
    <3>. QED
      BY <3>1, <3>2 DEF Told
  <2>4. SeededBoots' = SeededBoots \cup {boot}
    BY <2>2 DEF SeededBoots
  <2>. QED
    BY <1>0, <1>4, <2>3, <2>4 DEF ToldInv
<1>. QED
  BY <1>5, <1>6

\* The log so far is the lines of boots.
LEMMA TextOK ==
    ASSUME BenchTypeOK, LogInv, ToldInv
    PROVE  text \in Seq(Lines) /\ LinesOK(text, TornBoots, seeds)
<1>1. /\ text \in Seq(Lines) /\ Output \in Seq(Lines) /\ Len(text) \in Nat /\ Len(Output) \in Nat
      /\ Len(text) <= Len(Output) /\ \A i \in 1..Len(text) : Output[i] = text[i]
  BY DEF BenchTypeOK, Output
<1>2. Chain(Output) /\ \A i \in 1..Len(Output) : LineTrue(Output[i], seeds)
  BY DEF LogInv, LogOK
<1>3. \A i \in 1..Len(text) :
         i \in 1..Len(Output) /\ i \in Nat /\ (i # 1 => i - 1 \in 1..Len(text))
  BY <1>1
<1>4. Chain(text)
  BY <1>1, <1>2, <1>3 DEF Chain
<1>5. \A i \in 1..Len(text) : LineTrue(text[i], seeds)
  BY <1>1, <1>2, <1>3
<1>6. ASSUME NEW i \in 1..Len(text), text[i].kind \in {"result_torn", "fragment"}
      PROVE  text[i].boot \in TornBoots
  <2>1. text[i] \in Range(text)
    BY <1>1 DEF Range
  <2>. QED
    BY <1>6, <2>1 DEF TornBoots
<1>7. ASSUME NEW s \in seeds, NEW i \in 1..Len(text),
             s.boot < text[i].boot, s.boot \notin TornBoots
      PROVE  \E k \in 1..i : text[k].kind = "result_seeded" /\ text[k].boot = s.boot
  <2>1. PICK k \in 1..Len(Output) :
           Output[k].kind = "result_seeded" /\ Output[k].boot = s.boot
    BY <1>7 DEF ToldInv, SeededBoots, Told
  <2>2. Output[k].boot \in Nat /\ Output[i].boot \in Nat /\ Output[i] = text[i]
    BY <1>1, <1>3, LastOf
  <2>3. ~(i < k)
    <3>. SUFFICES ASSUME i < k
                  PROVE  FALSE
      OBVIOUS
    <3>1. Output[i].boot <= Output[k].boot
      BY <1>2, <1>3 DEF Chain, Before
    <3>. QED
      BY <1>7, <2>1, <2>2, <3>1
  <2>4. k \in 1..i /\ k \in 1..Len(text)
    BY <1>1, <1>3, <2>3
  <2>. QED
    BY <1>1, <2>1, <2>4
<1>. QED
  BY <1>1, <1>4, <1>5, <1>6, <1>7 DEF LinesOK

\* What parse_log finds in the log so far: boots with their true results, and every
\* boot that is logged as seeded, but for those with torn lines.
LEMMA LogParsed ==
    ASSUME BenchTypeOK, LogInv, ToldInv
    PROVE  /\ \E b \in Int : RunsOK(ParsedRuns, b, TornBoots, seeds)
           /\ AllFound(text, Len(text), ParsedRuns, TornBoots)
<1>. DEFINE T == TornBoots
            st == FoldLeft(ParseLine, NothingParsed, text)
            n == Len(text)
<1>1. text \in Seq(Lines) /\ LinesOK(text, T, seeds)
  BY TextOK
<1>2. /\ ParseOK(st, text, n, T, seeds) /\ n \in Nat
      /\ AllFound(text, n, st.runs, T)
  BY <1>1, ParsedIsOK
<1>3. ParsedRuns = IF st.current = NoRun THEN st.runs ELSE Append(st.runs, st.current)
  BY DEF ParsedRuns, NothingParsed
<1>. HIDE DEF st, T
<1>4. /\ \E b \in Int : RunsOK(ParsedRuns, b, T, seeds)
      /\ st.runs \in Seq(ParsedRun)
  <2>1. CASE n = 0
    <3>1. ParsedRuns = <<>> /\ st.runs = <<>>
      BY <1>2, <1>3, <2>1 DEF ParseOK
    <3>2. RunsOK(<<>>, 0, T, seeds) /\ <<>> \in Seq(ParsedRun)
      BY DEF RunsOK
    <3>. QED
      BY <3>1, <3>2
  <2>2. CASE n > 0
    <3>1. text[n].boot \in Nat
      BY <1>1, <1>2, <2>2, LastOf
    <3>2. CASE st.current = NoRun
      BY <1>2, <1>3, <2>2, <3>1, <3>2 DEF ParseOK, RunsOK
    <3>3. CASE st.current # NoRun
      <4>. DEFINE b == text[n].boot
      <4>1. st.current \in ParsedRun /\ RunOK(st.current, T, seeds)
        BY <1>2, <2>2, <3>3 DEF ParseOK
      <4>2. PICK o \in Nat : OpenedBy(o, st, b, T, seeds)
        BY <1>2, <2>2, <3>3 DEF ParseOK
      <4>. HIDE DEF b
      <4>3. /\ RunsOK(st.runs, o - 1, T, seeds) /\ o <= b
            /\ \A c \in st.current.boots : o <= c /\ c <= b
        BY <4>2 DEF OpenedBy
      <4>4. b \in Nat
        BY <3>1 DEF b
      <4>5. RunsOK(Append(st.runs, st.current), b, T, seeds)
        BY <4>1, <4>3, <4>4, RunCloses
      <4>6. st.runs \in Seq(ParsedRun)
        BY <4>3 DEF RunsOK
      <4>. QED
        BY <1>3, <3>3, <4>4, <4>5, <4>6
    <3>. QED
      BY <3>2, <3>3
  <2>. QED
    BY <1>2, <2>1, <2>2
<1>. HIDE DEF n
<1>5. AllFound(text, n, ParsedRuns, T)
  <2>1. \A b : RunFor(st.runs, b) => RunFor(ParsedRuns, b)
    BY <1>3, <1>4, RunsKept
  <2>. QED
    BY <1>2, <2>1 DEF AllFound
<1>. QED
  BY <1>4, <1>5 DEF n, T

\* For any number of runs, resets at any line, slow boots, late, split and torn lines
\* and any faults: every run parse_log finds in the log so far has the lines of one
\* boot, and of no other but such of which the host tore a line; no boot is in two runs;
\* a run reported as seeded has a boot that derived its seed, and one reported as failed
\* or with another word has none, but such of which the host tore a line.
THEOREM ParsedRunsAreBoots == BenchSpec => []RunsAreTrue
<1>1. BenchTypeOK /\ LogInv /\ ToldInv => RunsAreTrue
  <2>. SUFFICES ASSUME BenchTypeOK, LogInv, ToldInv
                PROVE  RunsAreTrue
    OBVIOUS
  <2>1. PICK b \in Int : RunsOK(ParsedRuns, b, TornBoots, seeds)
    BY LogParsed
  <2>2. RunsAreBoots
    <3>1. ASSUME NEW i \in DOMAIN ParsedRuns
          PROVE  Cardinality(ParsedRuns[i].boots \ TornBoots) <= 1
      <4>. DEFINE own == ParsedRuns[i].boots \ TornBoots
      <4>1. PICK o \in Nat : ParsedRuns[i].boots \subseteq TornBoots \cup {o}
        BY <2>1 DEF RunsOK, RunOK
      <4>2. own \subseteq {o}
        BY <4>1
      <4>3. own = {} \/ own = {o}
        BY <4>2
      <4>. HIDE DEF own
      <4>4. Cardinality(own) \in {0, 1}
        BY <4>3, FS_EmptySet, FS_Singleton
      <4>. QED
        BY <4>4 DEF own
    <3>. QED
      BY <2>1, <3>1 DEF RunsAreBoots, RunsOK
  <2>3. ResultsAreTrue
    <3>. SUFFICES ASSUME NEW r \in Range(ParsedRuns)
                  PROVE  /\ r.result = "seeded" => \E s \in seeds : s.boot \in r.boots
                         /\ r.result \in {"failed", "torn"} =>
                               \A s \in seeds : s.boot \in r.boots => s.boot \in TornBoots
      BY DEF ResultsAreTrue
    <3>1. PICK j \in DOMAIN ParsedRuns : r = ParsedRuns[j]
      BY DEF Range
    <3>. QED
      BY <2>1, <3>1 DEF RunsOK, RunOK
  <2>. QED
    BY <2>2, <2>3 DEF RunsAreTrue
<1>. QED
  BY <1>1, BenchTypeInit, LogInit, ToldInit, BenchTypeStep, LogStep, ToldStep,
     PTL DEF BenchSpec

------------------------------------------------------------------------------
(* The two counts of the benchmark. *)

\* A step of the host that is a fault is no step of board, server or network.
OnlyFault ==
    /\ \E kind \in FaultKinds : Fault(kind)
    /\ UNCHANGED <<deviceVars, memoryVars, serverVars, toServer, toBoard, seeds>>

LEMMA BenchMoves == [BenchNext]_allVars => [Next]_vars \/ OnlyFault
<1>. SUFFICES ASSUME [BenchNext]_allVars
              PROVE  [Next]_vars \/ OnlyFault
  OBVIOUS
<1>1. CASE SystemStep
  BY <1>1 DEF SystemStep, Next
<1>2. CASE StartRun
  BY <1>2 DEF StartRun, Next
<1>3. CASE ReadLine \/ ReadRest
  BY <1>3, Zenon DEF ReadLine, ReadRest
<1>4. CASE ReadPart \/ CaptureTimeout
  <2>1. (\E kind \in FaultKinds : Fault(kind)) \/ UNCHANGED faults
    BY <1>4, Zenon DEF ReadPart, CaptureTimeout, Fault
  <2>2. UNCHANGED <<deviceVars, memoryVars, serverVars, toServer, toBoard, seeds>>
    BY <1>4 DEF ReadPart, CaptureTimeout
  <2>. QED
    BY <2>1, <2>2, Zenon DEF OnlyFault, Fault, vars
<1>5. CASE NextRun \/ UNCHANGED allVars
  BY <1>5 DEF NextRun, allVars
<1>. QED
  BY <1>1, <1>2, <1>3, <1>4, <1>5 DEF BenchNext

\* So the invariants of the boots hold in the benchmark too.
LEMMA BootsGoOn == TypeOK /\ QuietInv /\ [BenchNext]_allVars => (TypeOK /\ QuietInv)'
<1>. SUFFICES ASSUME TypeOK, QuietInv, OnlyFault
              PROVE  TypeOK' /\ QuietInv'
  BY BenchMoves, TypeStep, QuietStep
<1>1. UNCHANGED <<deviceVars, memoryVars, serverVars, toServer, toBoard, seeds>>
  BY DEF OnlyFault
<1>2. faults' \in 0..MaxFaults /\ faults' = faults + 1 /\ faults \in Nat /\ earlier \in 0..faults
  BY FaultType DEF OnlyFault, Fault, TypeOK
<1>3. TypeOK'
  BY <1>1, <1>2 DEF TypeOK, deviceVars, memoryVars, serverVars
<1>4. faults' # earlier'
  BY <1>1, <1>2 DEF memoryVars
<1>. QED
  BY <1>3, <1>4 DEF QuietInv

\* There are no more of them than boots, and the boot going on is none of them.
LEMMA BootsSeeded ==
    ASSUME BenchTypeOK, LogInv
    PROVE  /\ IsFiniteSet(SeededBoots) /\ Cardinality(SeededBoots) \in Nat
           /\ Undecided => boot \notin SeededBoots
<1>1. /\ boot \in Nat
      /\ \A s \in seeds : s.boot \in Nat /\ s.boot <= boot /\ (s.boot = boot => bpc = "seeded")
  BY DEF BenchTypeOK, LogInv, LogOK
<1>2. IsFiniteSet(0..boot)
  <2>1. 0 \in Int /\ boot \in Int
    BY <1>1
  <2>. QED
    BY <2>1, FS_Interval, Zenon
<1>3. SeededBoots \in SUBSET (0..boot)
  BY <1>1 DEF SeededBoots
<1>4. IsFiniteSet(SeededBoots)
  BY <1>2, <1>3, FS_Subset
<1>. QED
  BY <1>1, <1>4, FS_CardinalityType DEF SeededBoots, Undecided

\* What is left of a channel with a datagram less, one more or one damaged.
LEMMA ChannelLengths ==
    ASSUME NEW S, NEW ch \in Seq(S)
    PROVE  /\ Len(ch) \in Nat /\ Len(<<>>) = 0
           /\ ch # <<>> => Len(Tail(ch)) = Len(ch) - 1
           /\ \A x \in S : Len(Append(ch, x)) = Len(ch) + 1
           /\ \A i \in DOMAIN ch : Len(RemoveAt(ch, i)) = Len(ch) - 1
           /\ \A i \in DOMAIN ch : \A x \in S : Len([ch EXCEPT ![i] = x]) = Len(ch)
<1>1. ASSUME NEW i \in DOMAIN ch
      PROVE  Len(RemoveAt(ch, i)) = Len(ch) - 1
  <2>1. /\ i \in 1..Len(ch) /\ Len(ch) \in Nat
        /\ SubSeq(ch, 1, i - 1) \in Seq(S) /\ Len(SubSeq(ch, 1, i - 1)) = i - 1
        /\ SubSeq(ch, i + 1, Len(ch)) \in Seq(S) /\ Len(SubSeq(ch, i + 1, Len(ch))) = Len(ch) - i
    OBVIOUS
  <2>2. \A a, b \in Seq(S) : Len(a \o b) = Len(a) + Len(b)
    OBVIOUS
  <2>3. Len(SubSeq(ch, 1, i - 1) \o SubSeq(ch, i + 1, Len(ch))) = (i - 1) + (Len(ch) - i)
    BY <2>1, <2>2
  <2>4. RemoveAt(ch, i) = SubSeq(ch, 1, i - 1) \o SubSeq(ch, i + 1, Len(ch))
    BY DEF RemoveAt
  <2>5. (i - 1) + (Len(ch) - i) = Len(ch) - 1
    BY <2>1
  <2>. QED
    BY <2>3, <2>4, <2>5
<1>2. /\ Len(ch) \in Nat /\ Len(<<>>) = 0
      /\ ch # <<>> => Len(Tail(ch)) = Len(ch) - 1
      /\ \A x \in S : Len(Append(ch, x)) = Len(ch) + 1
      /\ \A i \in DOMAIN ch : \A x \in S : Len([ch EXCEPT ![i] = x]) = Len(ch)
  OBVIOUS
<1>. QED
  BY <1>1, <1>2

\* A capsule in main's hands.
Holding == IF bpc \in {"accept", "add"} THEN 1 ELSE 0

\* How many capsules more than seeds and cut boots there may be: one for every
\* fault before this boot and one for its own exchange, or for the fault that
\* ended it.
Allowance ==
    IF bpc \in {"wait", "accept", "add"} THEN earlier + 1
    ELSE IF bpc = "failed" THEN faults
    ELSE earlier

\* With S boots seeded, B capsules built, n of them on the way to the board or in
\* its hands, m HELLOs on the way, c boots cut and an allowance of a: every seed
\* took a capsule off the network; and if the server is the board's, every HELLO
\* that brought a capsule about was the only one of its boot.
Balanced(S, B, n, m, c, a, own) ==
    /\ S + n <= B
    /\ own => B + m <= S + c + a

LEMMA BalanceMoves ==
    ASSUME NEW S \in Nat, NEW B \in Nat, NEW n \in Nat, NEW m \in Nat, NEW c \in Nat,
           NEW a \in Nat, NEW own, Balanced(S, B, n, m, c, a, own)
    PROVE  /\ \A k, l, d \in Nat : k <= n /\ (own => l + a <= m + d) => Balanced(S, B, k, l, c, d, own)
           /\ \A d \in Nat : n > 0 /\ a <= d + 1 => Balanced(S + 1, B, n - 1, m, c, d, own)
           /\ m > 0 => Balanced(S, B + 1, n + 1, m - 1, c, a, own)
           /\ \A k, e, d \in Nat : k <= n /\ (own => c + a <= e + d) => Balanced(S, B, k, m, e, d, own)
BY DEF Balanced

CountInv ==
    /\ IsFiniteSet(built)
    /\ \A c \in built : c.body.sequence <= sequence
    /\ DeviceProfile # serving => built = {}
    /\ Balanced(Cardinality(SeededBoots), Cardinality(built), Len(toBoard) + Holding,
                Len(toServer), cut, Allowance, DeviceProfile = serving)

LEMMA CountInit == BenchInit => CountInv
<1>. SUFFICES ASSUME BenchInit
              PROVE  CountInv
  OBVIOUS
<1>1. /\ built = {} /\ SeededBoots = {} /\ toBoard = <<>> /\ toServer = <<>> /\ cut = 0
      /\ Holding = 0 /\ Allowance = 0
  BY DEF BenchInit, Init, SeededBoots, Holding, Allowance
<1>2. Cardinality({}) = 0 /\ IsFiniteSet({}) /\ Len(<<>>) = 0
  BY FS_EmptySet
<1>3. \A own : Balanced(0, 0, 0 + 0, 0, 0, 0, own)
  BY DEF Balanced
<1>. QED
  BY <1>1, <1>2, <1>3 DEF CountInv

LEMMA CountTypes ==
    ASSUME TypeOK, BenchTypeOK, LogInv, IsFiniteSet(built)
    PROVE  /\ Len(toBoard) \in Nat /\ Len(toServer) \in Nat /\ cut \in Nat
           /\ faults \in Nat /\ earlier \in Nat /\ earlier <= faults /\ sequence \in Nat
           /\ Cardinality(built) \in Nat /\ Cardinality(SeededBoots) \in Nat
           /\ Len(toBoard) + Holding \in Nat /\ Allowance \in Nat
<1>1. faults \in Nat /\ earlier \in 0..faults
  BY TebAssumption DEF TypeOK
<1>2. earlier \in Nat /\ earlier <= faults
  BY <1>1
<1>3. Len(toBoard) \in Nat /\ Len(toServer) \in Nat /\ cut \in Nat /\ sequence \in Nat
  BY DEF TypeOK, BenchTypeOK
<1>4. Cardinality(built) \in Nat
  BY FS_CardinalityType
<1>5. Holding \in Nat
  BY DEF Holding
<1>6. Len(toBoard) + Holding \in Nat
  BY <1>3, <1>5
<1>7. Allowance \in Nat
  BY <1>1, <1>2 DEF Allowance
<1>8. Cardinality(SeededBoots) \in Nat
  BY BootsSeeded
<1>. QED
  BY <1>1, <1>2, <1>3, <1>4, <1>6, <1>7, <1>8

\* Without doubled datagrams no step of the benchmark upsets the counts.
LEMMA CountStep ==
    ASSUME "dup" \notin FaultKinds, TypeOK, TypeOK', BenchTypeOK, LogInv, QuietInv', CountInv,
           [BenchNext]_allVars
    PROVE  CountInv'
<1>. DEFINE S == Cardinality(SeededBoots)
            B == Cardinality(built)
            n == Len(toBoard)
            m == Len(toServer)
            own == DeviceProfile = serving
<1>t. /\ n \in Nat /\ m \in Nat /\ cut \in Nat
      /\ faults \in Nat /\ earlier \in Nat /\ earlier <= faults /\ sequence \in Nat
      /\ B \in Nat /\ S \in Nat /\ n + Holding \in Nat /\ Allowance \in Nat
  BY CountTypes DEF CountInv
<1>c. /\ IsFiniteSet(built)
      /\ \A c \in built : c.body.sequence <= sequence
      /\ DeviceProfile # serving => built = {}
      /\ Balanced(S, B, n + Holding, m, cut, Allowance, own)
  BY DEF CountInv
<1>f. /\ faults' \in Nat /\ earlier' \in Nat /\ earlier' <= faults'
      /\ DeviceProfile = serving' /\ bpc' = "failed" => earlier' + 1 <= faults'
  <2>1. faults' \in Nat /\ earlier' \in 0..faults'
    BY TebAssumption DEF TypeOK
  <2>2. \A f \in Nat : \A e \in 0..f : e \in Nat /\ e <= f /\ (e # f => e + 1 <= f)
    OBVIOUS
  <2>3. faults' = earlier' /\ DeviceProfile = serving' => bpc' # "failed"
    BY Zenon DEF QuietInv
  <2>. QED
    BY <2>1, <2>2, <2>3
\* Steps that leave capsules built, seeds and cut boots as they are.
<1>keep. ASSUME UNCHANGED <<built, serving, seeds, cut>>,
                sequence' = sequence \/ sequence' = sequence + 1,
                NEW k \in Nat, NEW l \in Nat, NEW d \in Nat,
                Len(toBoard') + Holding' = k, Len(toServer') = l, Allowance' = d,
                k <= n + Holding, own => l + Allowance <= m + d
         PROVE  CountInv'
  <2>1. SeededBoots' = SeededBoots
    BY <1>keep DEF SeededBoots
  <2>2. \A c \in built : c.body.sequence <= sequence'
    <3>1. \A c \in built : c.body.sequence \in Nat
      BY DEF TypeOK, Capsules, Bodies
    <3>2. \A a, b \in Nat : a <= b => a <= b + 1
      OBVIOUS
    <3>. QED
      BY <1>t, <1>c, <1>keep, <3>1, <3>2
  <2>3. Balanced(S, B, k, l, cut, d, own)
    <3>. HIDE DEF S, B, n, m, own
    <3>. QED
      BY <1>t, <1>c, <1>keep, BalanceMoves
  <2>. QED
    BY <1>c, <1>keep, <2>1, <2>2, <2>3 DEF CountInv
<1>1. CASE SystemStep
  <2>0. cut' = cut
    BY <1>1 DEF SystemStep
  <2>1. CASE StoreMagic \/ StoreValue \/ StoreCheck \/ DiscardCredit \/ CaptureSram
             \/ CaptureTiming \/ BuildHello
    <3>1. /\ UNCHANGED <<built, sequence, serving, seeds, toBoard, toServer, earlier>>
          /\ bpc \in {"start", "value", "check", "refill", "puf", "fill", "hello"}
          /\ bpc' \in {"value", "check", "refill", "puf", "fill", "hello", "wifi"}
      BY <2>1 DEF StoreMagic, StoreValue, StoreCheck, DiscardCredit, CaptureSram, CaptureTiming,
         BuildHello, memoryVars, serverVars
    <3>2. Holding = 0 /\ Holding' = 0 /\ Allowance = earlier /\ Allowance' = earlier
      BY <3>1 DEF Holding, Allowance
    <3>3. n + 0 \in Nat /\ n + 0 <= n + 0 /\ m + earlier <= m + earlier
      BY <1>t
    <3>. QED
      BY <1>keep, <1>t, <2>0, <3>1, <3>2, <3>3
  <2>2. CASE JoinWifi
    <3>1. /\ UNCHANGED <<built, sequence, serving, seeds, toServer, earlier>>
          /\ bpc = "wifi" /\ bpc' = "send" /\ (toBoard' = <<>> \/ toBoard' = toBoard)
      BY <2>2 DEF JoinWifi, memoryVars, serverVars
    <3>2. Holding = 0 /\ Holding' = 0 /\ Allowance = earlier /\ Allowance' = earlier
      BY <3>1 DEF Holding, Allowance
    <3>3. Len(<<>>) + 0 = 0 /\ 0 \in Nat /\ 0 <= n + 0 /\ n + 0 \in Nat /\ n + 0 <= n + 0
          /\ m + earlier <= m + earlier
      BY <1>t
    <3>. QED
      BY <1>keep, <1>t, <2>0, <3>1, <3>2, <3>3
  <2>3. CASE SendHello
    <3>1. /\ UNCHANGED <<built, sequence, serving, seeds, toBoard, earlier>>
          /\ bpc = "send" /\ bpc' = "wait" /\ toServer' = Append(toServer, HelloMsg(hello))
      BY <2>3 DEF SendHello, memoryVars, serverVars
    <3>2. Holding = 0 /\ Holding' = 0 /\ Allowance = earlier /\ Allowance' = earlier + 1
      BY <3>1 DEF Holding, Allowance
    <3>3. Len(toServer') = m + 1
      <4>1. toServer \in Seq(HelloMsgs) /\ toServer' \in Seq(HelloMsgs)
        BY DEF TypeOK
      <4>. QED
        BY <3>1, <4>1
    <3>4. n + 0 \in Nat /\ n + 0 <= n + 0 /\ m + 1 \in Nat /\ earlier + 1 \in Nat
          /\ (m + 1) + earlier <= m + (earlier + 1)
      BY <1>t
    <3>. QED
      BY <1>keep, <1>t, <2>0, <3>1, <3>2, <3>3, <3>4
  <2>4. CASE RecvCapsule
    <3>1. /\ UNCHANGED <<built, sequence, serving, seeds, toServer, earlier>>
          /\ bpc = "wait" /\ bpc' = "accept" /\ toBoard # <<>> /\ toBoard' = Tail(toBoard)
      BY <2>4 DEF RecvCapsule, memoryVars, serverVars
    <3>2. Holding = 0 /\ Holding' = 1 /\ Allowance = earlier + 1 /\ Allowance' = earlier + 1
      BY <3>1 DEF Holding, Allowance
    <3>3. Len(toBoard') = n - 1
      BY <3>1, ChannelLengths DEF TypeOK
    <3>4. (n - 1) + 1 = n /\ n <= n + 0 /\ earlier + 1 \in Nat
          /\ m + (earlier + 1) <= m + (earlier + 1)
      BY <1>t
    <3>. QED
      BY <1>keep, <1>t, <2>0, <3>1, <3>2, <3>3, <3>4
  <2>5. CASE DiscardUnbound
    <3>1. /\ UNCHANGED <<built, sequence, serving, seeds, toServer, earlier, bpc, faults>>
          /\ toBoard # <<>> /\ toBoard' = Tail(toBoard)
      BY <2>5 DEF DiscardUnbound, memoryVars, serverVars, deviceVars
    <3>2. Holding' = Holding /\ Allowance' = Allowance /\ Holding \in Nat
      BY <3>1 DEF Holding, Allowance
    <3>3. Len(toBoard') = n - 1 /\ n - 1 \in Nat
      <4>1. toBoard \in Seq(Capsules)
        BY DEF TypeOK
      <4>. QED
        BY <3>1, <4>1
    <3>4. /\ (n - 1) + Holding \in Nat /\ (n - 1) + Holding <= n + Holding
          /\ m + Allowance <= m + Allowance
      BY <1>t, <3>2, <3>3
    <3>. QED
      BY <1>keep, <1>t, <2>0, <3>1, <3>2, <3>3, <3>4
  <2>6. ASSUME /\ UNCHANGED <<built, sequence, serving, seeds, toServer, toBoard, earlier>>
               /\ bpc' = "failed" /\ bpc \notin {"failed"}
        PROVE  CountInv'
    <3>1. Holding \in Nat /\ Holding' = 0 /\ Allowance \in {earlier, earlier + 1}
          /\ Allowance' = faults'
      BY <2>6 DEF Holding, Allowance
    <3>2. own => earlier + 1 <= faults'
      BY <1>f, <2>6
    <3>3. PICK f \in Nat : f = faults'
      BY <1>f
    <3>4. n + 0 \in Nat /\ n + 0 <= n + Holding /\ (own => m + Allowance <= m + f)
      BY <1>t, <3>1, <3>2, <3>3
    <3>. QED
      BY <1>keep, <1>t, <2>0, <2>6, <3>1, <3>3, <3>4
  <2>7. CASE RecvTimeout \/ StepFails
    BY <2>6, <2>7 DEF RecvTimeout, StepFails, memoryVars, serverVars
  <2>8. CASE AcceptCapsule
    <3>1. /\ UNCHANGED <<built, sequence, serving, seeds, toServer, toBoard, earlier>>
          /\ bpc = "accept" /\ bpc' \in {"add", "failed"}
      BY <2>8 DEF AcceptCapsule, memoryVars, serverVars
    <3>2. CASE bpc' = "failed"
      BY <2>6, <3>1, <3>2
    <3>3. CASE bpc' = "add"
      <4>1. Holding = 1 /\ Holding' = 1 /\ Allowance = earlier + 1 /\ Allowance' = earlier + 1
        BY <3>1, <3>3 DEF Holding, Allowance
      <4>2. n + 1 \in Nat /\ n + 1 <= n + 1 /\ earlier + 1 \in Nat
            /\ m + (earlier + 1) <= m + (earlier + 1)
        BY <1>t
      <4>. QED
        BY <1>keep, <1>t, <2>0, <3>1, <4>1, <4>2
    <3>. QED
      BY <3>1, <3>2, <3>3
  <2>9. CASE AddEntropy
    <3>1. PICK s : s.boot = boot /\ seeds' = seeds \cup {s}
      <4>. DEFINE s == [boot |-> boot, power |-> power, hello |-> hello, capsule |-> got,
                        seed |-> Seed]
      <4>1. s.boot = boot /\ seeds' = seeds \cup {s}
        BY <2>9 DEF AddEntropy
      <4>. QED
        BY <4>1
    <3>2. /\ UNCHANGED <<built, sequence, serving, toServer, toBoard, earlier>>
          /\ bpc = "add" /\ bpc' = "seeded"
      BY <2>9 DEF AddEntropy, memoryVars, serverVars
    <3>3. Holding = 1 /\ Holding' = 0 /\ Allowance = earlier + 1 /\ Allowance' = earlier
      BY <3>2 DEF Holding, Allowance
    <3>4. SeededBoots' = SeededBoots \cup {boot} /\ boot \notin SeededBoots
          /\ IsFiniteSet(SeededBoots)
      <4>1. SeededBoots' = SeededBoots \cup {boot}
        BY <3>1 DEF SeededBoots
      <4>. QED
        BY <3>2, <4>1, BootsSeeded DEF Undecided
    <3>5. Cardinality(SeededBoots') = S + 1
      BY <3>4, FS_AddElement
    <3>6. Balanced(S + 1, B, (n + 1) - 1, m, cut, earlier, own)
      <4>1. n + 1 \in Nat /\ n + 1 > 0 /\ earlier + 1 \in Nat /\ earlier + 1 <= earlier + 1
        BY <1>t
      <4>. HIDE DEF S, B, n, m, own
      <4>. QED
        BY <1>t, <1>c, <3>3, <4>1, BalanceMoves
    <3>7. (n + 1) - 1 = n + 0
      BY <1>t
    <3>. QED
      BY <1>c, <2>0, <3>2, <3>3, <3>5, <3>6, <3>7 DEF CountInv
  <2>10. CASE ServeHello
    <3>. DEFINE c0 == CapsuleFor(Head(toServer), sequence')
    <3>1. /\ UNCHANGED <<bpc, earlier, serving, seeds, faults>>
          /\ toServer # <<>> /\ Head(toServer).profile = serving
          /\ sequence' = sequence + 1 /\ built' = built \cup {c0}
          /\ toBoard' = Append(toBoard, c0) /\ toServer' = Tail(toServer)
      BY <2>10 DEF ServeHello, deviceVars, memoryVars
    <3>2. SeededBoots' = SeededBoots /\ Holding' = Holding /\ Allowance' = Allowance
          /\ Holding \in Nat
      BY <3>1 DEF SeededBoots, Holding, Allowance
    <3>3. own
      <4>1. Head(toServer) \in HelloMsgs
        BY <3>1 DEF TypeOK
      <4>. QED
        BY <3>1, <4>1 DEF HelloMsgs
    <3>4. c0 \notin built /\ \A c \in built' : c.body.sequence <= sequence'
      <4>1. c0.body.sequence = sequence + 1
        BY <3>1 DEF CapsuleFor
      <4>2. \A c \in built : c.body.sequence \in Nat
        BY DEF TypeOK, Capsules, Bodies
      <4>3. \A a, b \in Nat : a <= b => a <= b + 1 /\ a # b + 1
        OBVIOUS
      <4>4. \A b \in Nat : b + 1 <= b + 1
        OBVIOUS
      <4>. HIDE DEF c0
      <4>. QED
        BY <1>t, <1>c, <3>1, <4>1, <4>2, <4>3, <4>4
    <3>5. IsFiniteSet(built') /\ Cardinality(built') = B + 1
      <4>. HIDE DEF c0
      <4>. QED
        BY <1>c, <3>1, <3>4, FS_AddElement
    <3>6. Len(toBoard') = n + 1 /\ Len(toServer') = m - 1 /\ m > 0
      <4>1. toBoard \in Seq(Capsules) /\ toBoard' \in Seq(Capsules)
            /\ toServer \in Seq(HelloMsgs)
        BY DEF TypeOK
      <4>. HIDE DEF c0
      <4>. QED
        BY <3>1, <4>1
    <3>7. Balanced(S, B + 1, (n + Holding) + 1, m - 1, cut, Allowance, own)
      <4>. HIDE DEF S, B, n, m, own
      <4>. QED
        BY <1>t, <1>c, <3>6, BalanceMoves
    <3>8. (n + Holding) + 1 = (n + 1) + Holding
      BY <1>t, <3>2
    <3>. QED
      BY <1>c, <2>0, <3>1, <3>2, <3>3, <3>4, <3>5, <3>6, <3>7, <3>8 DEF CountInv
  <2>11. ASSUME UNCHANGED <<built, serving, seeds, bpc, earlier>>,
                sequence' = sequence \/ sequence' = sequence + 1,
                faults' = faults \/ faults' = faults + 1,
                Len(toBoard') \in 0..n, Len(toServer') \in 0..m
         PROVE  CountInv'
    <3>1. Holding' = Holding /\ Holding \in Nat
      BY <2>11 DEF Holding
    <3>2. /\ \/ Allowance' = Allowance
             \/ Allowance = faults /\ Allowance' = faults + 1
      BY <2>11 DEF Allowance
    <3>3. PICK d \in Nat : d = Allowance' /\ Allowance <= d
      <4>1. Allowance <= Allowance /\ faults + 1 \in Nat /\ faults <= faults + 1
        BY <1>t
      <4>. QED
        BY <1>t, <3>2, <4>1
    <3>4. PICK x \in 0..n, y \in 0..m : x = Len(toBoard') /\ y = Len(toServer')
      BY <2>11
    <3>5. x + Holding \in Nat /\ x + Holding <= n + Holding /\ y \in Nat
          /\ (own => y + Allowance <= m + d)
      BY <1>t, <3>1, <3>3, <3>4
    <3>. QED
      BY <1>keep, <1>t, <2>0, <2>11, <3>1, <3>3, <3>4, <3>5
  <2>12. toServer \in Seq(HelloMsgs) /\ toBoard \in Seq(Capsules)
    BY DEF TypeOK
  <2>13. n \in 0..n /\ m \in 0..m /\ (n > 0 => n - 1 \in 0..n) /\ (m > 0 => m - 1 \in 0..m)
    BY <1>t
  <2>14. (toServer # <<>> => m > 0 /\ Len(Tail(toServer)) = m - 1)
    BY <2>12
  <2>15. CASE ServeFails
    BY <2>11, <2>13, <2>14, <2>15 DEF ServeFails, deviceVars, memoryVars, Fault
  <2>16. CASE RejectHello
    BY <2>11, <2>13, <2>14, <2>16 DEF RejectHello, deviceVars, memoryVars, serverVars
  <2>17. CASE NetworkFault
    <3>1. UNCHANGED <<built, serving, seeds, bpc, earlier, sequence>> /\ faults' = faults + 1
      BY <2>17 DEF NetworkFault, deviceVars, memoryVars, serverVars, Fault
    <3>2. \A i \in DOMAIN toServer : m > 0 /\ Len(RemoveAt(toServer, i)) = m - 1
      <4>1. \A i \in DOMAIN toServer : m > 0
        BY <2>12
      <4>. QED
        BY <2>12, <4>1, ChannelLengths
    <3>3. \A i \in DOMAIN toBoard : n > 0 /\ Len(RemoveAt(toBoard, i)) = n - 1
      <4>1. \A i \in DOMAIN toBoard : n > 0
        BY <2>12
      <4>. QED
        BY <2>12, <4>1, ChannelLengths
    <3>4. \A i \in DOMAIN toBoard : \A c : Len([toBoard EXCEPT ![i] = c]) = n
      BY <2>12
    <3>5. \/ UNCHANGED toBoard /\ \E i \in DOMAIN toServer : toServer' = RemoveAt(toServer, i)
          \/ UNCHANGED toServer /\ \E i \in DOMAIN toBoard : toBoard' = RemoveAt(toBoard, i)
          \/ /\ UNCHANGED toServer
             /\ \E i \in DOMAIN toBoard : \E c : toBoard' = [toBoard EXCEPT ![i] = c]
      BY <2>17 DEF NetworkFault, Fault
    <3>6. Len(toBoard') \in 0..n /\ Len(toServer') \in 0..m
      BY <2>13, <3>2, <3>3, <3>4, <3>5
    <3>. QED
      BY <2>11, <3>1, <3>6
  <2>. QED
    BY <1>1, <2>1, <2>2, <2>3, <2>4, <2>5, <2>7, <2>8, <2>9, <2>10, <2>15, <2>16, <2>17
    DEF SystemStep, BoardStep
<1>2. CASE StartRun
  <2>1. /\ UNCHANGED <<built, sequence, serving, seeds, toServer, toBoard>>
        /\ bpc' = "start" /\ earlier' = faults /\ cut' = IF Decided THEN cut ELSE cut + 1
    BY <1>2 DEF StartRun, WarmReset, Rebooted, serverVars
  <2>2. Holding \in Nat /\ Holding' = 0 /\ Allowance' = faults
    BY <2>1 DEF Holding, Allowance
  <2>3. PICK e \in Nat : e = cut' /\ (own => cut + Allowance <= e + faults)
    <3>1. CASE Decided
      <4>1. Allowance \in {earlier, faults}
        BY <3>1 DEF Decided, Allowance
      <4>2. cut + Allowance <= cut + faults
        BY <1>t, <4>1
      <4>. QED
        BY <1>t, <2>1, <3>1, <4>2
    <3>2. CASE ~Decided
      <4>1. Allowance \in {earlier, earlier + 1}
        BY <3>2 DEF Decided, Allowance
      <4>2. cut + Allowance <= (cut + 1) + faults /\ cut + 1 \in Nat
        BY <1>t, <4>1
      <4>. QED
        BY <2>1, <3>2, <4>2
    <3>. QED
      BY <3>1, <3>2
  <2>4. n + 0 \in Nat /\ n + 0 <= n + Holding
    BY <1>t, <2>2
  <2>5. Balanced(S, B, n + 0, m, e, faults, own)
    <3>. HIDE DEF S, B, n, m, own
    <3>. QED
      BY <1>t, <1>c, <2>3, <2>4, BalanceMoves
  <2>6. SeededBoots' = SeededBoots
    BY <2>1 DEF SeededBoots
  <2>. QED
    BY <1>c, <2>1, <2>2, <2>3, <2>5, <2>6 DEF CountInv
<1>3. CASE ReadLine \/ ReadPart \/ ReadRest \/ CaptureTimeout \/ NextRun \/ UNCHANGED allVars
  <2>1. /\ UNCHANGED <<built, sequence, serving, seeds, toServer, toBoard, bpc, earlier, cut>>
        /\ faults' = faults \/ faults' = faults + 1
    BY <1>3 DEF ReadLine, ReadPart, ReadRest, CaptureTimeout, NextRun, allVars, benchVars, vars,
       deviceVars, memoryVars, serverVars, Fault
  <2>2. Holding' = Holding /\ Holding \in Nat
    BY <2>1 DEF Holding
  <2>3. \/ Allowance' = Allowance
        \/ Allowance = faults /\ Allowance' = faults + 1
    BY <2>1 DEF Allowance
  <2>4. PICK d \in Nat : d = Allowance' /\ Allowance <= d
    <3>1. Allowance <= Allowance /\ faults + 1 \in Nat /\ faults <= faults + 1
      BY <1>t
    <3>. QED
      BY <1>t, <2>3, <3>1
  <2>5. n + Holding \in Nat /\ n + Holding <= n + Holding /\ (own => m + Allowance <= m + d)
    BY <1>t, <2>2, <2>4
  <2>. QED
    BY <1>keep, <1>t, <2>1, <2>2, <2>4, <2>5
<1>. QED
  BY <1>1, <1>2, <1>3 DEF BenchNext

\* The two counts, from the lines and the messages behind them.
LEMMA CountsAgree ==
    ASSUME TypeOK, BenchTypeOK, LogInv, ToldInv, CountInv
    PROVE  LogsAgree
<1>. DEFINE runs == ParsedRuns
            ok == {i \in DOMAIN runs : runs[i].result = "seeded"}
            f == [i \in ok |-> CHOOSE c : c \in SeededBoots /\ c \in runs[i].boots]
            D == {c \in SeededBoots \ TornBoots : \E i \in ok : c \in runs[i].boots}
            g == [c \in D |-> CHOOSE i : i \in ok /\ c \in runs[i].boots]
            going == IF Decided THEN {} ELSE {boot}
            unread == ({line.boot : line \in Range(serial)} \cup going) \cup TornBoots
<1>1. PICK b \in Int : RunsOK(ParsedRuns, b, TornBoots, seeds)
  BY LogParsed
<1>2. IsFiniteSet(ok) /\ Cardinality(ok) \in Nat
  <2>1. runs \in Seq(ParsedRun) /\ DOMAIN runs = 1..Len(runs) /\ 1 \in Int /\ Len(runs) \in Int
    BY <1>1 DEF RunsOK
  <2>2. IsFiniteSet(DOMAIN runs)
    BY <2>1, FS_Interval, Zenon
  <2>3. ok \in SUBSET (DOMAIN runs)
    OBVIOUS
  <2>. HIDE DEF ok, runs
  <2>. QED
    BY <2>2, <2>3, FS_Subset, FS_CardinalityType
\* Every seeded run has a seeded boot of its own.
<1>3. \A i \in ok : f[i] \in runs[i].boots /\ f[i] \in SeededBoots
  <2>. SUFFICES ASSUME NEW i \in ok
                PROVE  f[i] \in runs[i].boots /\ f[i] \in SeededBoots
    OBVIOUS
  <2>1. RunOK(runs[i], TornBoots, seeds) /\ runs[i].result = "seeded"
    BY <1>1 DEF RunsOK
  <2>2. \E c : c \in SeededBoots /\ c \in runs[i].boots
    BY <2>1 DEF RunOK, SeededBoots
  <2>3. f[i] = CHOOSE c : c \in SeededBoots /\ c \in runs[i].boots
    OBVIOUS
  <2>. HIDE DEF f, runs, ok
  <2>. QED
    BY <2>2, <2>3
<1>r. \A i, j \in ok : i # j => runs[i].boots \cap runs[j].boots = {}
  <2>1. \A i \in ok : i \in DOMAIN runs
    OBVIOUS
  <2>. HIDE DEF ok
  <2>. QED
    BY <1>1, <2>1 DEF RunsOK
<1>4. ASSUME NEW i \in ok, NEW j \in ok, f[i] = f[j]
      PROVE  i = j
  <2>. HIDE DEF f, runs, ok
  <2>. QED
    BY <1>3, <1>4, <1>r
<1>5. /\ IsFiniteSet(SeededBoots) /\ Cardinality(SeededBoots) \in Nat
      /\ ~Decided => boot \notin SeededBoots
  BY BootsSeeded DEF Undecided, Decided
<1>6. DOMAIN f = ok /\ f = [i \in ok |-> f[i]]
  OBVIOUS
<1>7. Cardinality(ok) <= Cardinality(SeededBoots)
  <2>. HIDE DEF f, runs, ok
  <2>1. f \in [ok -> SeededBoots]
    BY <1>3, <1>6
  <2>2. f \in Injection(ok, SeededBoots)
    BY <1>4, <2>1 DEF Injection, IsInjective
  <2>. QED
    BY <1>5, <2>2, FS_Injection
\* Every seeded boot without a torn line has a run of its own, if it is in any.
<1>8. IsFiniteSet(D) /\ Cardinality(D) <= Cardinality(ok) /\ Cardinality(D) \in Nat
  <2>1. \A c \in D : g[c] \in ok /\ c \in runs[g[c]].boots
    <3>. SUFFICES ASSUME NEW c \in D
                  PROVE  g[c] \in ok /\ c \in runs[g[c]].boots
      OBVIOUS
    <3>1. \E i : i \in ok /\ c \in runs[i].boots
      OBVIOUS
    <3>2. g[c] = CHOOSE i : i \in ok /\ c \in runs[i].boots
      OBVIOUS
    <3>. HIDE DEF g, D, runs, ok
    <3>. QED
      BY <3>1, <3>2
  <2>2. ASSUME NEW c \in D, NEW d \in D, g[c] = g[d]
        PROVE  c = d
    <3>1. \E o \in Nat : runs[g[c]].boots \subseteq TornBoots \cup {o}
      <4>1. g[c] \in DOMAIN runs
        BY <2>1
      <4>. QED
        BY <1>1, <4>1 DEF RunsOK, RunOK
    <3>2. c \notin TornBoots /\ d \notin TornBoots
      OBVIOUS
    <3>. HIDE DEF g, D, runs, ok
    <3>. QED
      BY <2>1, <2>2, <3>1, <3>2
  <2>3. D \in SUBSET SeededBoots
    OBVIOUS
  <2>4. DOMAIN g = D /\ g = [c \in D |-> g[c]]
    OBVIOUS
  <2>. HIDE DEF g, runs, ok, D
  <2>5. g \in [D -> ok]
    BY <2>1, <2>4
  <2>6. g \in Injection(D, ok)
    BY <2>2, <2>5 DEF Injection, IsInjective
  <2>. QED
    BY <1>2, <1>5, <2>3, <2>6, FS_Injection, FS_Subset, FS_CardinalityType
\* Every seeded boot has its run, or a torn line, or is in what is not yet read.
<1>9. SeededBoots \subseteq D \cup unread
  <2>. SUFFICES ASSUME NEW c \in SeededBoots, c \notin TornBoots
                PROVE  c \in D \cup unread
    OBVIOUS
  <2>1. text \in Seq(Lines) /\ serial \in Seq(Lines)
    BY DEF BenchTypeOK
  <2>2. PICK i \in 1..Len(Output) : Output[i].kind = "result_seeded" /\ Output[i].boot = c
    BY DEF ToldInv, Told
  <2>3. \/ i \in 1..Len(text) /\ Output[i] = text[i]
        \/ \E j \in 1..Len(serial) : Output[i] = serial[j]
    <3>1. /\ Len(text) \in Nat /\ Len(serial) \in Nat /\ Len(Output) = Len(text) + Len(serial)
          /\ \A k \in 1..Len(text) : Output[k] = text[k]
          /\ \A k \in 1..(Len(text) + Len(serial)) :
                k > Len(text) => Output[k] = serial[k - Len(text)]
      BY <2>1 DEF Output
    <3>2. i > Len(text) => i - Len(text) \in 1..Len(serial)
      BY <3>1
    <3>3. i \in 1..(Len(text) + Len(serial)) /\ (~(i > Len(text)) => i \in 1..Len(text))
      BY <3>1
    <3>. QED
      BY <3>1, <3>2, <3>3
  <2>4. CASE i \in 1..Len(text) /\ Output[i] = text[i]
    <3>1. RunFor(runs, c)
      BY <2>2, <2>4, LogParsed DEF AllFound
    <3>2. PICK j \in DOMAIN runs : runs[j].result = "seeded" /\ c \in runs[j].boots
      BY <3>1 DEF RunFor
    <3>3. j \in ok
      BY <3>2
    <3>. HIDE DEF runs, ok
    <3>. QED
      BY <3>2, <3>3
  <2>5. ASSUME NEW j \in 1..Len(serial), Output[i] = serial[j]
        PROVE  c \in D \cup unread
    <3>1. serial[j].boot = c
      BY <2>2, <2>5
    <3>2. serial[j] \in Range(serial)
      <4>1. j \in DOMAIN serial
        BY <2>1
      <4>. HIDE DEF unread
      <4>. QED
        BY <4>1 DEF Range
    <3>. QED
      BY <3>1, <3>2
  <2>. QED
    BY <2>3, <2>4, <2>5
<1>10. IsFiniteSet(unread) /\ Cardinality(unread) \in Nat
  <2>1. boot \in Nat /\ \A i \in 1..Len(Output) : Output[i].boot <= boot
    BY DEF LogInv, LogOK, BenchTypeOK
  <2>2. ASSUME NEW line \in Range(serial)
        PROVE  line.boot \in 0..boot
    <3>1. text \in Seq(Lines) /\ serial \in Seq(Lines)
      BY DEF BenchTypeOK
    <3>2. PICK j \in 1..Len(serial) : line = serial[j]
      BY <3>1 DEF Range
    <3>3. /\ Len(text) + j \in 1..Len(Output) /\ Output[Len(text) + j] = serial[j]
      <4>1. /\ Len(text) \in Nat /\ Len(serial) \in Nat /\ Len(Output) = Len(text) + Len(serial)
            /\ \A k \in 1..(Len(text) + Len(serial)) :
                  k > Len(text) => Output[k] = serial[k - Len(text)]
        BY <3>1 DEF Output
      <4>2. Len(text) + j \in 1..(Len(text) + Len(serial)) /\ Len(text) + j > Len(text)
            /\ (Len(text) + j) - Len(text) = j
        BY <4>1
      <4>. QED
        BY <4>1, <4>2
    <3>4. serial[j] \in Lines
      BY <3>1
    <3>5. line.boot \in Nat
      BY <3>2, <3>4 DEF Lines
    <3>. QED
      BY <2>1, <3>2, <3>3, <3>5
  <2>3. IsFiniteSet(0..boot)
    <3>1. 0 \in Int /\ boot \in Int
      BY <2>1
    <3>. QED
      BY <3>1, FS_Interval, Zenon
  <2>4. boot \in 0..boot
    BY <2>1
  <2>t. TornBoots \in SUBSET (0..boot)
    <3>. SUFFICES ASSUME NEW line \in Range(text)
                  PROVE  line.boot \in 0..boot
      BY DEF TornBoots
    <3>1. text \in Seq(Lines) /\ serial \in Seq(Lines)
      BY DEF BenchTypeOK
    <3>2. PICK j \in 1..Len(text) : line = text[j]
      BY <3>1 DEF Range
    <3>3. j \in 1..Len(Output) /\ Output[j] = text[j]
      BY <3>1 DEF Output
    <3>4. line.boot \in Nat
      BY <3>1, <3>2, LastOf
    <3>. QED
      BY <2>1, <3>2, <3>3, <3>4
  <2>5. unread \in SUBSET (0..boot)
    BY <2>2, <2>4, <2>t
  <2>. HIDE DEF unread
  <2>. QED
    BY <2>3, <2>5, FS_Subset, FS_CardinalityType
<1>11. Cardinality(SeededBoots \cup going) <= Cardinality(ok) + Cardinality(unread)
  <2>1. SeededBoots \cup going \in SUBSET (D \cup unread)
    BY <1>9
  <2>. HIDE DEF D, unread, ok, going
  <2>2. /\ IsFiniteSet(D \cup unread)
        /\ Cardinality(D \cup unread) = Cardinality(D) + Cardinality(unread) - Cardinality(D \cap unread)
    BY <1>8, <1>10, FS_Union
  <2>3. Cardinality(D \cap unread) \in Nat
    <3>1. D \cap unread \in SUBSET D
      OBVIOUS
    <3>. QED
      BY <1>8, <3>1, FS_Subset, FS_CardinalityType
  <2>4. Cardinality(SeededBoots \cup going) <= Cardinality(D \cup unread)
        /\ Cardinality(SeededBoots \cup going) \in Nat
    <3>1. IsFiniteSet(SeededBoots \cup going)
      BY <2>1, <2>2, FS_Subset
    <3>. QED
      BY <2>1, <2>2, <3>1, FS_Subset, FS_CardinalityType
  <2>. QED
    BY <1>2, <1>8, <1>10, <2>2, <2>3, <2>4
<1>12. /\ Decided => Cardinality(SeededBoots) <= Cardinality(ok) + Cardinality(unread)
       /\ ~Decided => Cardinality(SeededBoots) + 1 <= Cardinality(ok) + Cardinality(unread)
  <2>1. CASE Decided
    <3>1. SeededBoots \cup going = SeededBoots
      BY <2>1
    <3>. HIDE DEF going, ok, unread
    <3>. QED
      BY <1>11, <2>1, <3>1
  <2>2. CASE ~Decided
    <3>1. SeededBoots \cup going = SeededBoots \cup {boot}
      BY <2>2
    <3>2. Cardinality(SeededBoots \cup {boot}) = Cardinality(SeededBoots) + 1
      BY <1>5, <2>2, FS_AddElement
    <3>. HIDE DEF going, ok, unread
    <3>. QED
      BY <1>11, <2>2, <3>1, <3>2
  <2>. QED
    BY <2>1, <2>2
<1>13. unread = ({line.boot : line \in Range(serial)} \cup (IF Decided THEN {} ELSE {boot}))
                   \cup TornBoots
  OBVIOUS
<1>. HIDE DEF f, g, D, going
<1>14. /\ Cardinality(ok) <= Cardinality(built)
       /\ Cardinality(built) <= Cardinality(ok) + faults + cut + Cardinality(unread)
  <2>. DEFINE S == Cardinality(SeededBoots)
              B == Cardinality(built)
              k == Cardinality(ok)
              u == Cardinality(unread)
              n == Len(toBoard) + Holding
              m == Len(toServer)
              own == DeviceProfile = serving
  <2>1. /\ S \in Nat /\ B \in Nat /\ n \in Nat /\ m \in Nat /\ cut \in Nat /\ k \in Nat
        /\ u \in Nat /\ faults \in Nat /\ Allowance \in Nat
    BY <1>2, <1>10, CountTypes DEF CountInv
  <2>2. Balanced(S, B, n, m, cut, Allowance, own) /\ (~own => built = {})
    BY DEF CountInv
  <2>3. k <= S /\ (Decided => S <= k + u) /\ (~Decided => S + 1 <= k + u)
    BY <1>7, <1>12
  <2>4. Allowance <= faults \/ (~Decided /\ Allowance <= faults + 1)
    <3>1. earlier \in Nat /\ earlier <= faults
      BY CountTypes DEF CountInv
    <3>2. earlier + 1 <= faults + 1 /\ faults <= faults
      BY <2>1, <3>1
    <3>3. Allowance = earlier \/ Allowance = faults \/ (~Decided /\ Allowance = earlier + 1)
      BY DEF Allowance, Decided
    <3>. QED
      BY <3>1, <3>2, <3>3
  <2>5. ~own => B = 0
    BY <2>2, FS_EmptySet
  <2>. HIDE DEF S, B, k, u, n, m, own
  <2>6. k <= B
    BY <2>1, <2>2, <2>3 DEF Balanced
  <2>7. CASE own
    <3>1. B + m <= S + cut + Allowance
      BY <2>2, <2>7 DEF Balanced
    <3>2. CASE Allowance <= faults
      <4>1. S <= k + u
        BY <2>1, <2>3
      <4>. QED
        BY <2>1, <2>6, <3>1, <3>2, <4>1 DEF B, k, u
    <3>3. CASE ~Decided /\ Allowance <= faults + 1
      BY <2>1, <2>3, <2>6, <3>1, <3>3 DEF B, k, u
    <3>. QED
      BY <2>4, <3>2, <3>3
  <2>8. CASE ~own
    BY <2>1, <2>5, <2>6, <2>8 DEF B, k, u
  <2>. QED
    BY <2>7, <2>8
<1>15. Summary.runs_seeded = Cardinality(ok) /\ Summary.served = Cardinality(built)
  BY DEF Summary, ServerCapsulesServed
<1>. HIDE DEF ok, runs, unread
<1>. QED
  BY <1>13, <1>14, <1>15 DEF LogsAgree

\* Unless a datagram is doubled: for any number of runs and every other fault, the
\* collector's log never has more seeded runs than the server's log has capsules, and
\* when the collection is over the capsules that no run accounts for are at most
\* one for each fault, each boot reset early, and each boot left unread or with a torn
\* line.  (A doubled
\* answer can seed a second boot if two resets have torn the retained counter.)
THEOREM LogsDoAgree == "dup" \notin FaultKinds => (BenchSpec => []LogsAgree)
<1>. DEFINE Counted == TypeOK /\ QuietInv /\ BenchTypeOK /\ LogInv /\ ToldInv /\ CountInv
<1>. SUFFICES ASSUME "dup" \notin FaultKinds
              PROVE  BenchSpec => []LogsAgree
  OBVIOUS
<1>1. BenchInit => Counted
  <2>1. BenchInit => Init
    BY DEF BenchInit
  <2>2. Init => QuietInv
    BY DEF Init, QuietInv
  <2>. QED
    BY <2>1, <2>2, TypeInit, BenchTypeInit, LogInit, ToldInit, CountInit
<1>2. Counted /\ [BenchNext]_allVars => Counted'
  <2>. SUFFICES ASSUME Counted, [BenchNext]_allVars
                PROVE  Counted'
    OBVIOUS
  <2>1. TypeOK' /\ QuietInv'
    BY BootsGoOn
  <2>2. BenchTypeOK' /\ LogInv' /\ ToldInv'
    BY BenchTypeStep, LogStep, ToldStep
  <2>3. CountInv'
    BY <2>1, CountStep
  <2>. QED
    BY <2>1, <2>2, <2>3
<1>3. Counted => LogsAgree
  BY CountsAgree
<1>. QED
  BY <1>1, <1>2, <1>3, PTL DEF BenchSpec

=============================================================================
