---------------------------- MODULE MCRebootSlices ----------------------------
(* RebootSlices for TLC; the constants are in the .cfg files. *)
EXTENDS RebootSlices
==============================================================================
