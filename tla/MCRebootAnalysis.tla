--------------------------- MODULE MCRebootAnalysis ---------------------------
(* RebootAnalysis for TLC; the constants are in the .cfg file. *)
EXTENDS RebootAnalysis
==============================================================================
