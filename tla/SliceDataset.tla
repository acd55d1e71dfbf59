----------------------------- MODULE SliceDataset -----------------------------
(***************************************************************************)
(* What a collection of reboot slices promises: a slice is completed by a  *)
(* boot later than that of every slice there is, so no boot delivers two   *)
(* slices; and a dataset is published when all of its slices are complete, *)
(* as they then are.  RebootSlices implements it.                          *)
(***************************************************************************)
EXTENDS Naturals

CONSTANT Runs  \* how many slices a dataset has

VARIABLES
    slice,     \* the boot a complete slice comes from, 0 for an incomplete one
    published  \* the boots of the slices of the dataset last published

datasetVars == <<slice, published>>

Incomplete == 0

DatasetInit ==
    /\ slice = [r \in 1..Runs |-> Incomplete]
    /\ published = <<>>

\* The boot is a later one than any that a slice comes from.
CompleteSlice(r) ==
    /\ \A q \in 1..Runs : slice'[r] > slice[q]
    /\ slice' = [slice EXCEPT ![r] = slice'[r]]
    /\ UNCHANGED published

\* The slice is taken again; until it is complete there is none.
DiscardSlice(r) ==
    /\ slice' = [slice EXCEPT ![r] = Incomplete]
    /\ UNCHANGED published

Publish ==
    /\ \A r \in 1..Runs : slice[r] # Incomplete
    /\ published' = slice
    /\ UNCHANGED slice

DatasetNext ==
    \/ \E r \in 1..Runs : CompleteSlice(r) \/ DiscardSlice(r)
    \/ Publish

DatasetSpec == DatasetInit /\ [][DatasetNext]_datasetVars
==============================================================================
