----------------------------- MODULE RebootSlices -----------------------------
(***************************************************************************)
(* scripts/collect_reboot_slices.py: flash once or not at all, then reset  *)
(* and capture one slice per run with a RawCapture process, check its size *)
(* and, after the last one, write the concatenation and the manifest.  The *)
(* user may interrupt it and start it again, with --resume or without,     *)
(* with --skip-build or --no-flash or without.                             *)
(***************************************************************************)
EXTENDS RawCapture

\* The firmware on the board was built by this script for slices of this size
\* (--raw-bytes bytes_per_run), so what a file loses when the newlines a dump
\* begins with are dropped is made up for by the two tokens of the end marker.
ASSUME SlicesAssumption == TargetBytes = DumpBytes /\ MaxLead <= 2 /\ MaxLead < DumpBytes

VARIABLES
    coll,      \* the collector: "off", "loop", "concat", "manifest", "failed", "done"
    resume,    \* --resume
    index,     \* loop variable of main
    runs,      \* runs, the manifest entries collected so far
    concat,    \* the aggregate file
    manifest,  \* manifest.json
    failures   \* how many collections have ended without a manifest

collectVars == <<coll, resume, index, runs, concat, manifest, failures>>

sliceVars == <<captureVars, collectVars>>

CollectInit ==
    /\ CaptureInit
    /\ coll = "off"
    /\ resume = FALSE
    /\ index = 1
    /\ runs = <<>>
    /\ concat = <<>>
    /\ manifest = [runs |-> <<>>, aggregate |-> <<>>]
    /\ failures = 0

SizeOk(file) == file # NoFile /\ Len(file) = TargetBytes

\* The script is started.  Flashing restarts the board; with --skip-build or
\* --no-flash the board is left as it is, be it in a dump or with a trigger byte
\* on the way.  Starting the script again over a finished dataset is bounded as
\* a fault is; starting it again after a failure is not.
Invoke(again, flash) ==
    /\ coll \in {"off", "failed", "done"}
    /\ IF coll = "done" THEN Fault ELSE UNCHANGED faults
    /\ coll' = "loop"
    /\ resume' = again
    /\ index' = 1
    /\ runs' = <<>>
    /\ host' = "none"
    /\ IF flash THEN Restart(FALSE) ELSE UNCHANGED boardVars
    /\ UNCHANGED <<line, disk, slot, triggered, since, concat, manifest, failures>>

\* The entry of a slice that has the right size, and the next run.
Record ==
    /\ runs' = Append(runs, [run |-> index, sha256 |-> disk[index]])
    /\ index' = index + 1
    /\ coll' = IF index = Runs THEN "concat" ELSE "loop"

\* Mutant: any existing file is reused.
CanReuseAny == resume /\ disk[index] # NoFile

\* --resume and a file of the right size: it is not captured again.
CanReuse == resume /\ SizeOk(disk[index])

Reuse ==
    /\ coll = "loop"
    /\ host = "none"
    /\ CanReuse
    /\ IF SizeOk(disk[index])
       THEN Record /\ UNCHANGED failures
       ELSE /\ coll' = "failed"
            /\ failures' = failures + 1
            /\ UNCHANGED <<index, runs>>
    /\ UNCHANGED <<captureVars, resume, concat, manifest>>

\* capture_one starts the capture process.
CaptureOne ==
    /\ coll = "loop"
    /\ ~CanReuse
    /\ OpenPort(index)
    /\ UNCHANGED collectVars

\* Mutant: status 0 is taken for success.
SizeCheckNone == TRUE

\* What the collector requires of a file after status 0.
SizeCheck == SizeOk(disk[index])

\* run_command saw status 0; the size decides.
CaptureEnds ==
    /\ coll = "loop"
    /\ host = "exit0"
    /\ host' = "none"
    /\ IF SizeCheck
       THEN Record /\ UNCHANGED failures
       ELSE /\ coll' = "failed"
            /\ failures' = failures + 1
            /\ UNCHANGED <<index, runs>>
    /\ UNCHANGED <<boardVars, line, disk, slot, triggered, since, faults, resume, concat,
                   manifest>>

\* run_command saw another status: CalledProcessError ends the script.
CaptureFails ==
    /\ coll = "loop"
    /\ host = "exit1"
    /\ host' = "none"
    /\ coll' = "failed"
    /\ failures' = failures + 1
    /\ UNCHANGED <<boardVars, line, disk, slot, triggered, since, faults, resume, index, runs,
                   concat, manifest>>

\* concatenate: the files in run order, through a temporary file.
Concatenate ==
    /\ coll = "concat"
    /\ concat' = FlattenSeq([r \in 1..Runs |-> disk[r]])
    /\ coll' = "manifest"
    /\ UNCHANGED <<captureVars, resume, index, runs, manifest, failures>>

WriteManifest ==
    /\ coll = "manifest"
    /\ manifest' = [runs |-> runs, aggregate |-> concat]
    /\ coll' = "done"
    /\ UNCHANGED <<captureVars, resume, index, runs, concat, failures>>

\* Control-C ends the collector and the capture process; a file that is being
\* written keeps what was collected.
Interrupt ==
    /\ Fault
    /\ coll \in {"loop", "concat", "manifest"}
    /\ coll' = "failed"
    /\ host' = "none"
    /\ failures' = failures + 1
    /\ UNCHANGED <<boardVars, line, disk, slot, triggered, since, resume, index, runs, concat,
                   manifest>>

CollectStep == Reuse \/ CaptureOne \/ CaptureEnds \/ CaptureFails \/ Concatenate \/ WriteManifest

SlicesNext ==
    \/ \E again, flash \in BOOLEAN : Invoke(again, flash)
    \/ CollectStep
    \/ Interrupt
    \/ (BoardNext \/ CaptureNext) /\ UNCHANGED collectVars

SlicesSpec == CollectInit /\ [][SlicesNext]_sliceVars

\* The board and the two scripts keep running; nobody has to start the script.
SlicesFairSpec == SlicesSpec /\ CaptureFairness /\ WF_sliceVars(CollectStep)

------------------------------------------------------------------------------
\* What the manifest says of a slice: the digest names the content.
Entries == [run : 1..Runs, sha256 : Seq(Tokens)]

\* Types of the variables; a capture process that collects has a file, and no
\* file gets longer than what was asked for.
TypeOK ==
    /\ boot \in Nat \ {0} /\ at \in {"boot", "armed", "dump", "over"}
    /\ sent \in 0..DumpBytes /\ lead \in 0..MaxLead /\ rx \in BOOLEAN
    /\ line \in Seq(Tokens)
    /\ disk \in [1..Runs -> Seq(Tokens) \union {NoFile}]
    /\ \A r \in 1..Runs : disk[r] = NoFile \/ Len(disk[r]) <= TargetBytes
    /\ slot \in 1..Runs
    /\ host \in {"none", "open", "scan", "collect", "exit0", "exit1"}
    /\ host \in {"collect", "exit0"} => disk[slot] # NoFile
    /\ triggered \in BOOLEAN /\ since \in 0..boot /\ faults \in 0..MaxFaults
    /\ coll \in {"off", "loop", "concat", "manifest", "failed", "done"}
    /\ resume \in BOOLEAN /\ index \in 1..(Runs + 1)
    /\ runs \in Seq(Entries) /\ Len(runs) <= Runs
    /\ concat \in Seq(Tokens)
    /\ manifest \in [runs : Seq(Entries), aggregate : Seq(Tokens)]
    /\ failures \in Nat

\* What a capture process puts into its file as random bytes was drawn after its
\* own reset of the board, never by a boot that an earlier process left dumping:
\* the input is thrown away before the reset, and even a start marker printed
\* between the two is not followed by a byte of its dump.
FileIsAfterItsReset ==
    host \in {"collect", "exit0"} =>
        \A j \in 1..Len(disk[slot]) : IsRaw(disk[slot][j]) => disk[slot][j].boot >= since

\* Each fault spoils at most one invocation of the collector, and so does each
\* marker that a boot left running prints just before the reset.  Nothing else
\* that an aborted invocation leaves behind (a partial file, a board that is
\* still dumping, a trigger byte on the way) makes a later one fail, flashed or
\* not.
FaultSpoilsOneCollection == failures <= faults

\* A finished collection whose slices are exactly what the board dumped: every
\* slice is the dump of one boot (README.md: "raw WDEV bytes over UART").
SlicesAreDumps ==
    coll = "done" =>
        \A r \in 1..Runs : \E b \in 1..boot :
            /\ Len(disk[r]) = DumpBytes
            /\ \A i \in 1..DumpBytes : IsRaw(disk[r][i]) /\ disk[r][i].boot = b /\ disk[r][i].i = i

\* Every invocation ends: with a manifest, or with an error.
CollectionEnds == (coll = "loop") ~> (coll \in {"failed", "done"})

\* The boot a complete file comes from.
SliceBoot(file) == IF SizeOk(file) THEN file[1].boot ELSE 0

\* What stands in the aggregate at the place of run r.
AggregatePart(r) ==
    IF r * TargetBytes > Len(manifest.aggregate)
    THEN NoFile
    ELSE SubSeq(manifest.aggregate, (r - 1) * TargetBytes + 1, r * TargetBytes)

\* A run is published if the digest in the manifest is that of its place in the
\* aggregate.
PublishedBoot(r) ==
    IF manifest.runs[r] = [run |-> r, sha256 |-> AggregatePart(r)]
    THEN SliceBoot(AggregatePart(r))
    ELSE 0

Dataset == INSTANCE SliceDataset WITH
    slice <- [r \in 1..Runs |-> SliceBoot(disk[r])],
    published <- [r \in 1..Len(manifest.runs) |-> PublishedBoot(r)]

\* The collection implements SliceDataset: no boot delivers two slices, slices
\* are only completed by later boots, and a dataset is published only with all
\* of its slices, as they are then on the disk, each at its place in the
\* aggregate and with its digest in the manifest.  A collector that took exit
\* status 0 of capture_binary.py for a whole file would publish partial ones.
ImplementsDataset == Dataset!DatasetSpec
==============================================================================
