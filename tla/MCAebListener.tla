---------------------------- MODULE MCAebListener ----------------------------
(* AebListener for TLC: the sequence a .cfg cannot write. *)
EXTENDS AebListener

MCSessions == <<[bursts |-> 2, chunks |-> 2], [bursts |-> 0, chunks |-> 1], [bursts |-> 0, chunks |-> 0]>>
==============================================================================
