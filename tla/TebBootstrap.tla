----------------------------- MODULE TebBootstrap -----------------------------
(***************************************************************************)
(* The entropy-capsule bootstrap: a board without credited entropy sends   *)
(* one BOOT_HELLO, waits for one capsule, checks it and adds the derived   *)
(* seed to the entropy pool (src/main.c); a gateway answers each HELLO     *)
(* with a freshly signed capsule (server/).  The board may be reset at any *)
(* point, warm or by a power cycle, and UDP may lose, repeat, delay or     *)
(* damage a datagram.                                                      *)
(*                                                                         *)
(* SHA-256 and HKDF are injective, so a digest is the digested value.  A   *)
(* signature is the value that was signed.  Each capsule carries a beacon  *)
(* (or KEM ciphertext) that no other one has; it is named by the capsule's *)
(* sequence number.  The origin of a datagram, the boot it was sent by or  *)
(* is an answer to, is on no wire and no guard reads it.                   *)
(***************************************************************************)
EXTENDS Integers, Sequences, FiniteSets, SequencesExt

CONSTANTS
    Ports,             \* UDP source ports the network stack may pick
    Uptimes,           \* k_uptime_get_32 when HELLO is built
    Timings,           \* what capture_timing may measure
    Startups,          \* what the SRAM area may hold after power-up
    Filled,            \* what capture_sram leaves in it
    DeviceProfile,     \* TEB_SELECTED_PROFILE of the firmware
    ServerProfiles,    \* which servers may have been started: --server-profile
    CounterMod,        \* 2^32: the boot counter is a uint32_t
    CreditBits,        \* TEB_CAPSULE_CREDIT_BITS
    LocalCredit,       \* what the driver credits for its own bytes at start-up
    AllowLocalRefill,  \* build.sh --allow-local-refill
    FaultKinds,        \* the network's "drop", "dup", "late" and "damage", "error" of a
                       \* call, "split" of a serial line (TebBench): which may happen
    MaxFaults,         \* bound: how many faults there are
    MaxBoots           \* bound: how many times the board boots

ASSUME TebAssumption ==
    /\ Ports # {} /\ Uptimes # {} /\ Timings # {} /\ Startups # {}
    /\ ServerProfiles # {}
    /\ CounterMod \in Nat \ {0, 1}
    /\ CreditBits \in Nat \ {0}
    /\ LocalCredit \in Nat
    /\ AllowLocalRefill \in BOOLEAN
    /\ FaultKinds \subseteq {"drop", "dup", "late", "damage", "error", "split"}
    /\ MaxFaults \in Nat
    /\ MaxBoots \in Nat \ {0}

VARIABLES
    retained,  \* retained_boot_counter, in memory that a warm reset keeps
    area,      \* sram_puf_area, likewise
    power,     \* power cycles so far
    torn,      \* power cycles in which a reset hit between two stores of retained
    boot,      \* boots so far
    bpc,       \* where main is
    counter,   \* boot_counter
    puf,       \* the captured sram and timing secrets
    hello,     \* hello_fields as built
    port,      \* source port of the socket
    got,       \* the received capsule
    credited,  \* entropy bits credited to the pool in this boot
    toServer,  \* HELLOs on the way or in the server's socket, oldest first
    toBoard,   \* capsules on the way to the board, oldest first
    serving,   \* the profile of the running server
    sequence,  \* the server's sequence number
    built,     \* every capsule the server has built
    seeds,     \* every seed a boot added to its pool
    faults,
    earlier    \* the faults there had been when this boot began

deviceVars == <<bpc, counter, puf, hello, port, got, credited>>
memoryVars == <<retained, area, power, torn, boot, earlier>>
serverVars == <<serving, sequence, built>>
vars == <<deviceVars, memoryVars, serverVars, toServer, toBoard, seeds, faults>>

None == -1

\* "start": main begins; "value", "check": inside next_boot_counter; "refill":
\* before the local credit is dealt with; "puf", "fill": inside capture_sram;
\* "hello": HELLO is built; "wifi": joining; "send", "wait": inside
\* request_capsule; "accept", "add": inside accept_capsule; "seeded", "failed":
\* main has returned.
Pcs == {"start", "value", "check", "refill", "puf", "fill", "hello", "wifi", "send", "wait",
        "accept", "add", "seeded", "failed"}

Decided == bpc \in {"seeded", "failed"}

NoHello == [counter |-> 0, uptime |-> None, sram |-> None, timing |-> None]

NoCapsule ==
    [port |-> None, origin |-> None, signature |-> None,
     body |-> [wellFormed |-> FALSE, counter |-> 0, sequence |-> 0, helloHash |-> NoHello]]

\* RAM after a reset: main starts over.
Rebooted(p) ==
    /\ bpc' = "start"
    /\ counter' = 0
    /\ puf' = [sram |-> None, timing |-> None]
    /\ hello' = NoHello
    /\ port' = p
    /\ got' = NoCapsule
    /\ credited' = LocalCredit

Init ==
    /\ retained = [magic |-> FALSE, value |-> 0, check |-> None]
    /\ area \in Startups
    /\ power = 1
    /\ torn = {}
    /\ boot = 1
    /\ bpc = "start"
    /\ counter = 0
    /\ puf = [sram |-> None, timing |-> None]
    /\ hello = NoHello
    /\ port \in Ports
    /\ got = NoCapsule
    /\ credited = LocalCredit
    /\ toServer = <<>>
    /\ toBoard = <<>>
    /\ serving \in ServerProfiles
    /\ sequence = 0
    /\ built = {}
    /\ seeds = {}
    /\ faults = 0
    /\ earlier = 0

Fault(kind) ==
    /\ kind \in FaultKinds
    /\ faults < MaxFaults
    /\ faults' = faults + 1

------------------------------------------------------------------------------
\* next_boot_counter: a valid counter is continued, anything else starts at 1.
CounterValid == retained.magic /\ retained.check = retained.value

\* Mutant: the retained counter is not looked at.
NextCounterForgets == 1

NextCounter == IF CounterValid THEN (retained.value + 1) % CounterMod ELSE 1

\* The stores of next_boot_counter: magic, value, check.
StoreMagic ==
    /\ bpc = "start"
    /\ counter' = NextCounter
    /\ retained' = [retained EXCEPT !.magic = TRUE]
    /\ bpc' = "value"
    /\ UNCHANGED <<area, power, torn, boot, earlier, puf, hello, port, got, credited, serverVars,
                   toServer, toBoard, seeds, faults>>

StoreValue ==
    /\ bpc = "value"
    /\ retained' = [retained EXCEPT !.value = counter]
    /\ bpc' = "check"
    /\ UNCHANGED <<area, power, torn, boot, earlier, counter, puf, hello, port, got, credited,
                   serverVars, toServer, toBoard, seeds, faults>>

StoreCheck ==
    /\ bpc = "check"
    /\ retained' = [retained EXCEPT !.check = counter]
    /\ bpc' = "refill"
    /\ UNCHANGED <<area, power, torn, boot, earlier, counter, puf, hello, port, got, credited,
                   serverVars, toServer, toBoard, seeds, faults>>

\* build.sh and CMakeLists.txt: the flag sets the variable to "0", and CMake's
\* if(NOT ...) takes "0" for unset and puts the default "1".
DisableLocalRefill ==
    LET flag == IF AllowLocalRefill THEN "0" ELSE "1"
    IN  (IF flag \in {"", "0"} THEN "1" ELSE flag) = "1"

\* Mutant: the refills are switched off, the credit stays.
DiscardCreditKept ==
    /\ bpc = "refill"
    /\ bpc' = "puf"
    /\ UNCHANGED <<counter, puf, hello, port, got, credited, memoryVars, serverVars, toServer,
                   toBoard, seeds, faults>>

\* The driver's own refills are switched off and its credit is dropped.
DiscardCredit ==
    /\ bpc = "refill"
    /\ credited' = IF DisableLocalRefill THEN 0 ELSE credited
    /\ bpc' = "puf"
    /\ UNCHANGED <<counter, puf, hello, port, got, memoryVars, serverVars, toServer, toBoard,
                   seeds, faults>>

\* capture_sram reads the area, then overwrites it; capture_timing follows.
CaptureSram ==
    /\ bpc = "puf"
    /\ puf' = [puf EXCEPT !.sram = area]
    /\ bpc' = "fill"
    /\ UNCHANGED <<counter, hello, port, got, credited, memoryVars, serverVars, toServer,
                   toBoard, seeds, faults>>

CaptureTiming ==
    /\ bpc = "fill"
    /\ area' = Filled
    /\ \E t \in Timings : puf' = [puf EXCEPT !.timing = t]
    /\ bpc' = "hello"
    /\ UNCHANGED <<counter, hello, port, got, credited, retained, power, torn, boot, earlier,
                   serverVars, toServer, toBoard, seeds, faults>>

\* teb_build_hello: the commitments stand for the secrets they are digests of.
BuildHello ==
    /\ bpc = "hello"
    /\ \E u \in Uptimes :
          hello' = [counter |-> counter, uptime |-> u, sram |-> puf.sram,
                    timing |-> puf.timing]
    /\ bpc' = "wifi"
    /\ UNCHANGED <<counter, puf, port, got, credited, memoryVars, serverVars, toServer,
                   toBoard, seeds, faults>>

\* Associated, addressed and settled.  That takes seconds: what was sent to an
\* earlier boot has been answered and dropped by then, unless it is late.
JoinWifi ==
    /\ bpc = "wifi"
    /\ \/ toServer = <<>> /\ toBoard' = <<>> /\ UNCHANGED faults
       \/ toServer \o toBoard # <<>> /\ Fault("late") /\ UNCHANGED toBoard
    /\ bpc' = "send"
    /\ UNCHANGED <<counter, puf, hello, port, got, credited, memoryVars, serverVars, toServer,
                   seeds>>

HelloMsg(fields) ==
    [port |-> port, origin |-> [boot |-> boot, power |-> power], profile |-> DeviceProfile,
     fields |-> fields]

\* Mutant: the uptime is read again when HELLO is sent.
SendHelloRestamped ==
    /\ bpc = "send"
    /\ \E u \in Uptimes : toServer' = Append(toServer, HelloMsg([hello EXCEPT !.uptime = u]))
    /\ bpc' = "wait"
    /\ UNCHANGED <<counter, puf, hello, port, got, credited, memoryVars, serverVars, toBoard,
                   seeds, faults>>

\* request_capsule: HELLO goes out once.
SendHello ==
    /\ bpc = "send"
    /\ toServer' = Append(toServer, HelloMsg(hello))
    /\ bpc' = "wait"
    /\ UNCHANGED <<counter, puf, hello, port, got, credited, memoryVars, serverVars, toBoard,
                   seeds, faults>>

\* request_capsule takes the first datagram that arrives and closes the socket.
RecvCapsule ==
    /\ bpc = "wait"
    /\ toBoard # <<>>
    /\ Head(toBoard).port = port
    /\ got' = Head(toBoard)
    /\ toBoard' = Tail(toBoard)
    /\ bpc' = "accept"
    /\ UNCHANGED <<counter, puf, hello, port, credited, memoryVars, serverVars, toServer,
                   seeds, faults>>

\* A datagram that no socket waits for is dropped.
DiscardUnbound ==
    /\ toBoard # <<>>
    /\ bpc # "wait" \/ Head(toBoard).port # port
    /\ toBoard' = Tail(toBoard)
    /\ UNCHANGED <<deviceVars, memoryVars, serverVars, toServer, seeds, faults>>

\* Mutant: poll has no limit.
RecvTimeoutUnlimited ==
    /\ bpc = "wait"
    /\ Fault("late")
    /\ bpc' = "failed"
    /\ UNCHANGED <<counter, puf, hello, port, got, credited, memoryVars, serverVars, toServer,
                   toBoard, seeds>>

\* Ten seconds without a datagram: nothing is coming, or it is late.
RecvTimeout ==
    /\ bpc = "wait"
    /\ \/ toServer = <<>> /\ toBoard = <<>> /\ UNCHANGED faults
       \/ Fault("late")
    /\ bpc' = "failed"
    /\ UNCHANGED <<counter, puf, hello, port, got, credited, memoryVars, serverVars, toServer,
                   toBoard, seeds>>

\* teb_parse_capsule: length, magic, version, profile and signed length.
Parses(c) == c.body.wellFormed

\* teb_verify_mldsa44 and teb_verify_ed25519 with the pinned public key.
Verifies(c) == c.signature = c.body

\* Mutant of accept_capsule's checks: no signature.
CapsuleOkUnsigned(c) ==
    /\ Parses(c)
    /\ c.body.counter = hello.counter
    /\ c.body.helloHash = hello

\* accept_capsule: format and profile, boot binding, HELLO digest, signature.
CapsuleOk(c) ==
    /\ Parses(c)
    /\ c.body.counter = hello.counter
    /\ c.body.helloHash = hello
    /\ Verifies(c)

AcceptCapsule ==
    /\ bpc = "accept"
    /\ bpc' = IF CapsuleOk(got) THEN "add" ELSE "failed"
    /\ UNCHANGED <<counter, puf, hello, port, got, credited, memoryVars, serverVars, toServer,
                   toBoard, seeds, faults>>

\* HKDF over the two secrets, the capsule's secret and the HELLO digest.
Seed == [sram |-> puf.sram, timing |-> puf.timing, beacon |-> got.body.sequence,
         salt |-> got.body.helloHash]

\* entropy_add_entropy with the seed: the boot is seeded.
AddEntropy ==
    /\ bpc = "add"
    /\ credited' = credited + CreditBits
    /\ seeds' = seeds \cup {[boot |-> boot, power |-> power, hello |-> hello, capsule |-> got,
                                seed |-> Seed]}
    /\ bpc' = "seeded"
    /\ UNCHANGED <<counter, puf, hello, port, got, memoryVars, serverVars, toServer, toBoard,
                   faults>>

\* An error return: the entropy device, discard_credit, Wi-Fi, DHCP, the socket, a
\* short or failing send or recv, out of memory, a failing HKDF or pool.
StepFails ==
    /\ bpc \in {"start", "refill", "wifi", "send", "wait", "accept", "add"}
    /\ Fault("error")
    /\ bpc' = "failed"
    /\ UNCHANGED <<counter, puf, hello, port, got, credited, memoryVars, serverVars, toServer,
                   toBoard, seeds>>

------------------------------------------------------------------------------
\* EN is pulsed: RAM is lost, the retained counter and the SRAM area are not.
WarmReset ==
    /\ boot < MaxBoots
    /\ boot' = boot + 1
    /\ earlier' = faults
    /\ \E p \in Ports : Rebooted(p)
    /\ torn' = IF bpc = "check" THEN torn \cup {power} ELSE torn
    /\ UNCHANGED <<retained, area, power, serverVars, toServer, toBoard, seeds, faults>>

\* Power is removed: the noinit memory comes up with a start-up pattern.
PowerCycle ==
    /\ boot < MaxBoots
    /\ boot' = boot + 1
    /\ earlier' = faults
    /\ power' = power + 1
    /\ \E p \in Ports : Rebooted(p)
    /\ retained' = [magic |-> FALSE, value |-> 0, check |-> None]
    /\ area' \in Startups
    /\ UNCHANGED <<torn, serverVars, toServer, toBoard, seeds, faults>>

------------------------------------------------------------------------------
\* The server's loop: parse_hello, a new sequence number, build_capsule, sendto.
CapsuleFor(h, n) ==
    LET body == [wellFormed |-> TRUE, counter |-> h.fields.counter, sequence |-> n,
                 helloHash |-> h.fields]
    IN  [port |-> h.port, origin |-> h.origin, body |-> body, signature |-> body]

ServeHello ==
    /\ toServer # <<>>
    /\ Head(toServer).profile = serving
    /\ sequence' = sequence + 1
    /\ LET capsule == CapsuleFor(Head(toServer), sequence')
       IN  /\ built' = built \cup {capsule}
           /\ toBoard' = Append(toBoard, capsule)
    /\ toServer' = Tail(toServer)
    /\ UNCHANGED <<deviceVars, memoryVars, serving, seeds, faults>>

\* build_capsule or sendto fails: the number is used and nothing is sent.
ServeFails ==
    /\ toServer # <<>>
    /\ Head(toServer).profile = serving
    /\ Fault("error")
    /\ sequence' = sequence + 1
    /\ toServer' = Tail(toServer)
    /\ UNCHANGED <<deviceVars, memoryVars, serving, built, toBoard, seeds>>

\* A HELLO of another profile is rejected without an answer.
RejectHello ==
    /\ toServer # <<>>
    /\ Head(toServer).profile # serving
    /\ toServer' = Tail(toServer)
    /\ UNCHANGED <<deviceVars, memoryVars, serverVars, toBoard, seeds, faults>>

\* UDP (external): a capsule whose damage the checksums did not show.
Damaged(c) ==
    {[c EXCEPT !.body.wellFormed = FALSE], [c EXCEPT !.body.sequence = 0],
     [c EXCEPT !.body.counter = 0], [c EXCEPT !.body.helloHash = NoHello]}

NetworkFault ==
    /\ \/ /\ Fault("drop")
          /\ \/ \E i \in DOMAIN toServer : toServer' = RemoveAt(toServer, i) /\ UNCHANGED toBoard
             \/ \E i \in DOMAIN toBoard : toBoard' = RemoveAt(toBoard, i) /\ UNCHANGED toServer
       \/ /\ Fault("dup")
          /\ \/ \E i \in DOMAIN toServer :
                   toServer' = Append(toServer, toServer[i]) /\ UNCHANGED toBoard
             \/ \E i \in DOMAIN toBoard :
                   toBoard' = Append(toBoard, toBoard[i]) /\ UNCHANGED toServer
       \/ /\ Fault("damage")
          /\ \E i \in DOMAIN toBoard : \E c \in Damaged(toBoard[i]) :
                toBoard' = [toBoard EXCEPT ![i] = c]
          /\ UNCHANGED toServer
    /\ UNCHANGED <<deviceVars, memoryVars, serverVars, seeds>>

------------------------------------------------------------------------------
BoardStep ==
    \/ StoreMagic \/ StoreValue \/ StoreCheck \/ DiscardCredit \/ CaptureSram \/ CaptureTiming
    \/ BuildHello \/ JoinWifi \/ SendHello \/ RecvCapsule \/ DiscardUnbound \/ RecvTimeout
    \/ AcceptCapsule \/ AddEntropy

Next == BoardStep \/ StepFails \/ WarmReset \/ PowerCycle \/ ServeHello \/ ServeFails
        \/ RejectHello \/ NetworkFault

Spec == Init /\ [][Next]_vars

\* The board's thread, its poll timeout and the server keep going.
FairSpec ==
    /\ Spec
    /\ WF_vars(BoardStep /\ UNCHANGED faults)
    /\ WF_vars(ServeHello \/ RejectHello)

------------------------------------------------------------------------------
Counters == 0..(CounterMod - 1)

Samples == [sram : Startups \cup {Filled, None}, timing : Timings \cup {None}]

HelloFields == [counter : Counters, uptime : Uptimes \cup {None},
                sram : Startups \cup {Filled, None}, timing : Timings \cup {None}]

Origins == [boot : Nat, power : Nat]

HelloMsgs == [port : Ports, origin : Origins, profile : {DeviceProfile}, fields : HelloFields]

Bodies == [wellFormed : BOOLEAN, counter : Counters, sequence : Nat, helloHash : HelloFields]

Capsules == [port : Ports, origin : Origins, body : Bodies, signature : Bodies]

SeedRecords ==
    [boot : Nat, power : Nat, hello : HelloFields, capsule : Capsules,
     seed : [sram : Startups \cup {Filled, None}, timing : Timings \cup {None}, beacon : Nat,
             salt : HelloFields]]

\* The types of the variables: in particular the retained counter keeps the
\* width of a uint32_t.
TypeOK ==
    /\ retained \in [magic : BOOLEAN, value : Counters, check : Counters \cup {None}]
    /\ area \in Startups \cup {Filled}
    /\ power \in Nat /\ boot \in 1..MaxBoots /\ torn \subseteq Nat
    /\ bpc \in Pcs
    /\ counter \in Counters
    /\ puf \in Samples
    /\ hello \in HelloFields
    /\ port \in Ports
    /\ got \in Capsules \cup {NoCapsule}
    /\ bpc \in {"accept", "add"} => got \in Capsules
    /\ credited \in Nat
    /\ toServer \in Seq(HelloMsgs)
    /\ toBoard \in Seq(Capsules)
    /\ serving \in ServerProfiles
    /\ sequence \in Nat
    /\ built \subseteq Capsules
    /\ seeds \subseteq SeedRecords
    /\ faults \in 0..MaxFaults /\ earlier \in 0..faults

\* A seed that a boot added to its pool comes from a capsule the server really
\* built, undamaged, for a HELLO with this boot's counter, uptime and both
\* commitments, and from this boot's own secrets.
SeedIsBound ==
    \A s \in seeds :
        /\ s.capsule \in built
        /\ s.capsule.body.helloHash = s.hello
        /\ s.seed = [sram |-> s.hello.sram, timing |-> s.hello.timing,
                     beacon |-> s.capsule.body.sequence, salt |-> s.hello]

\* Between two power cycles, each seeded boot uses the capsule that was built
\* for its own HELLO, never a repeated or late one of an earlier boot; unless a
\* reset fell between the stores of the retained counter, or the counter wrapped.
OwnCapsule ==
    MaxBoots < CounterMod =>
        \A s \in seeds :
            s.capsule.origin.power = s.power /\ s.power \notin torn =>
                s.capsule.origin.boot = s.boot

\* "A valid ML-KEM-512 capsule [...] adds at most 128 bits of credit.  Signature,
\* transcript, or network failure leaves the capsule path unseeded": once the
\* driver's own credit is discarded (the SRAM capture comes next), there is credit
\* exactly in a boot that derived a seed, and never more than one capsule's.
CreditIsTheCapsules ==
    puf.sram # None /\ DisableLocalRefill =>
        credited = CreditBits * Cardinality({s \in seeds : s.boot = boot})

\* A boot fails only because something went wrong in this boot: whatever earlier
\* boots left behind (a torn counter, a filled SRAM area, answers nobody waited
\* for) does not cost another one.
FailsOnlyByFault ==
    bpc = "failed" /\ DeviceProfile = serving => faults > earlier

\* Every boot that is not cut short by a reset comes to a decision.
BootsDecide == <>[]Decided
==============================================================================
