-------------------------- MODULE MCEntropyRenewal --------------------------
(* EntropyRenewal with a pool small enough to run empty and to fill up.    *)
EXTENDS EntropyRenewal
=============================================================================
