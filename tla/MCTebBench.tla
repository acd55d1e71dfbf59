------------------------------ MODULE MCTebBench ------------------------------
(* Model-checking instances of TebBench. *)
EXTENDS TebBench

CONSTANTS p1, t1, u1, s1
==============================================================================
