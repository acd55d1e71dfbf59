----------------------------- MODULE AebProtocol -----------------------------
(***************************************************************************)
(* The wire protocol of the RF-actuated boot-entropy artifact: the         *)
(* datagrams the ESP32 client and the host collector exchange, and the two *)
(* UDP directions between them.                                            *)
(*                                                                         *)
(* A WDEV byte is named by where it was drawn: <<boot, trial, offset>>.    *)
(* Two draws never have the same name, so a SHA-256 digest is modelled by  *)
(* the digested sequence itself (injective), and "which bytes ended in     *)
(* which file" can be asked of the model.  A packet-arrival delta is named *)
(* the same way.  The public nonce is only a label in the code; no guard   *)
(* reads it.  It stands here for the boot that wrote it.                   *)
(***************************************************************************)
EXTENDS Integers, Sequences

CONSTANTS
    Ports,           \* UDP source ports the client's network stack may pick
    ChunkBytes,      \* AEB_RAW_CHUNK_BYTES
    JitterPerChunk   \* deltas per JITTER_CHUNK: AEB_RAW_CHUNK_BYTES / 4, at least 1

ASSUME ChunkAssumption ==
    /\ ChunkBytes \in Nat \ {0}
    /\ JitterPerChunk \in Nat \ {0}

VARIABLES
    toGateway,  \* datagrams on the way to the collector's socket, oldest first
    toDevice    \* datagrams on the way to the client's socket, oldest first

netVars == <<toGateway, toDevice>>

Byte == Nat \X Nat \X Nat

\* "RESULT" is the [AEB_RESULT] text line; the others are binary messages.
MsgTypes == {"START", "BURST", "HELLO", "RAW_BEGIN", "RAW_CHUNK", "RAW_END",
             "JITTER_CHUNK", "RESULT"}

Msg == [type : MsgTypes, port : Ports, trial : Nat, seq : Nat, bytes : Nat,
        nonce : Nat, payload : Seq(Byte), jitter : Seq(Byte)]

\* build_msg / make_message: header fields, then the payload.
Message(type, port, trial, seq, bytes, nonce, payload) ==
    [type |-> type, port |-> port, trial |-> trial, seq |-> seq, bytes |-> bytes,
     nonce |-> nonce, payload |-> payload, jitter |-> <<>>]

\* The [AEB_RESULT] line: sample_bytes, raw_sha256 and jitter_sha256
\* (response_sha256 digests the two parts one after the other).
ResultLine(port, trial, seen, bytes, nonce, raw, deltas) ==
    [Message("RESULT", port, trial, seen, bytes, nonce, raw) EXCEPT !.jitter = deltas]

\* The first n bytes (or deltas) drawn by a trial of a boot.
Drawn(boot, trial, n) == [k \in 1..n |-> <<boot, trial, k>>]

\* How many pieces of at most `size' elements hold n elements.
NumChunks(n, size) == (n + size - 1) \div size

\* Piece i (from 0) of a sequence cut into pieces of `size' elements.
ChunkOf(s, i, size) ==
    SubSeq(s, i * size + 1, IF (i + 1) * size < Len(s) THEN (i + 1) * size ELSE Len(s))

NetInit == toGateway = <<>> /\ toDevice = <<>>

==============================================================================
