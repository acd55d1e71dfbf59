----------------------------- MODULE MCAebSystem -----------------------------
(* Model-checking instances of AebSystem. *)
EXTENDS AebSystem

CONSTANTS p1, p2

\* Every boot gets the same source port.
SamePort == [b \in 1..MaxBoots |-> {p1}]

\* The later boots may get the port of the first one, or another.
MaybeSamePort == [b \in 1..MaxBoots |-> IF b = 1 THEN {p1} ELSE {p1, p2}]
==============================================================================
