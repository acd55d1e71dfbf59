--------------------------- MODULE MCSramExperiment ---------------------------
(* SramExperiment for TLC: the sequences a .cfg cannot write. *)
EXTENDS SramExperiment

MCPatterns == <<"00", "ff">>

MCConditions == <<"rts", "power-1", "power-10">>
==============================================================================
