---------------------------- MODULE MCTebBootstrap ----------------------------
(* Model-checking instances of TebBootstrap. *)
EXTENDS TebBootstrap

CONSTANTS p1, p2, t1, u1, u2, s1, s2
==============================================================================
