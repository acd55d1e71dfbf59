----------------------------- MODULE MCAebRestart -----------------------------
(* Model-checking instances of AebRestart. *)
EXTENDS AebRestart

CONSTANTS p1, p2

\* Every boot gets the same source port.
SamePort == [b \in 1..MaxBoots |-> {p1}]
==============================================================================
