------------------------------- MODULE TebBench -------------------------------
(***************************************************************************)
(* The capsule benchmark on the host (scripts/collect_teb_boot.py and      *)
(* scripts/parse_teb_boot_log.py): for each run the board is reset through *)
(* RTS and its serial output is logged until a result line or a time       *)
(* limit; afterwards the log is cut into boots at the firmware's banner.   *)
(*                                                                         *)
(* A serial line is the boot that printed it and its kind: the banner, an  *)
(* error of request_capsule, another error, or a result.  A line of the    *)
(* log may also be the beginning of a line, with the host's own "end" line *)
(* after it, or the rest of one.                                           *)
(***************************************************************************)
EXTENDS TebBootstrap

CONSTANT Runs  \* --runs

ASSUME BenchAssumption == Runs \in Nat /\ MaxBoots = Runs + 1

VARIABLES
    hpc,      \* "reset", "capture", "part", "pause" or "done"
    run,      \* the run of the loop
    serial,   \* lines printed and not yet read, oldest first
    text,     \* the log file
    slow,     \* runs given up while their boot was still going
    cut       \* boots reset before they had come to a decision

benchVars == <<hpc, run, serial, text, slow, cut>>

allVars == <<vars, benchVars>>

Line(kind) == [boot |-> boot, kind |-> kind]

BenchInit ==
    /\ Init
    /\ hpc = "reset"
    /\ run = 1
    /\ serial = <<>>
    /\ text = <<>>
    /\ slow = 0
    /\ cut = 0

------------------------------------------------------------------------------
\* What main prints in a step that the parser or the collector looks at: the
\* banner first; "[TEB_ERR] request_capsule" when the exchange fails;
\* "[TEB_RESULT] failed" after an error of accept_capsule; "[TEB_RESULT] seeded".
Printed ==
    IF bpc = "start" /\ bpc' = "value" THEN <<Line("banner")>>
    ELSE IF bpc = "start" /\ bpc' = "failed" THEN <<Line("banner"), Line("error")>>
    ELSE IF bpc' = "failed" /\ bpc \in {"send", "wait"} THEN <<Line("request")>>
    ELSE IF bpc' = "failed" /\ bpc \in {"accept", "add"}
         THEN <<Line("error"), Line("result_failed")>>
    ELSE IF bpc' = "failed" /\ bpc # "failed" THEN <<Line("error")>>
    ELSE IF bpc' = "seeded" /\ bpc # "seeded" THEN <<Line("result_seeded")>>
    ELSE <<>>

\* The board, the server and the network go on; only the host resets.
SystemStep ==
    /\ BoardStep \/ StepFails \/ ServeHello \/ ServeFails \/ RejectHello \/ NetworkFault
    /\ serial' = serial \o Printed
    /\ UNCHANGED <<hpc, run, text, slow, cut>>

\* Mutant: the reset clears the serial input buffer.
StartRunFlushes ==
    /\ hpc = "reset"
    /\ run <= Runs
    /\ WarmReset
    /\ cut' = IF Decided THEN cut ELSE cut + 1
    /\ hpc' = "capture"
    /\ serial' = <<>>
    /\ UNCHANGED <<run, text, slow>>

\* reset_to_run_mode; what is unread in the serial buffer stays there.
StartRun ==
    /\ hpc = "reset"
    /\ run <= Runs
    /\ WarmReset
    /\ cut' = IF Decided THEN cut ELSE cut + 1
    /\ hpc' = "capture"
    /\ UNCHANGED <<run, serial, text, slow>>

\* Mutant: any line of the firmware with a tag ends the run.
IsEndAnyTag(line) == line.kind # "banner"

IsEnd(line) == line.kind \in {"request", "result_failed", "result_seeded"}

\* capture_run logs a line, and ends with the one that is a result.
ReadLine ==
    /\ hpc = "capture"
    /\ serial # <<>>
    /\ text' = Append(text, Head(serial))
    /\ serial' = Tail(serial)
    /\ hpc' = IF IsEnd(Head(serial)) THEN "pause" ELSE "capture"
    /\ UNCHANGED <<run, slow, cut, vars>>

\* What parse_log takes a line to be that breaks off behind the tag it knows it
\* by: a result with its word cut off, or none (directly behind the tag no blank
\* follows), the error it is, or no banner.
CutOff(line) ==
    CASE line.kind \in {"result_failed", "result_seeded"} -> {"result_torn", "fragment"}
      [] line.kind = "banner" -> {"fragment"}
      [] OTHER -> {line.kind}

\* The host's "end" line is written behind a part of a line.  The rest, on a line of
\* its own, is known to nobody.
EndBehindPart(kind) ==
    /\ text' = Append(text, [Head(serial) EXCEPT !.kind = kind])
    /\ serial' = <<[Head(serial) EXCEPT !.kind = "rest"]>> \o Tail(serial)
    /\ hpc' = "pause"

\* readline waits 0.2 s and may return a part of a line.  If this has all of what
\* the loop looks for at its beginning, it ends the run as the whole line would.
ReadPart ==
    /\ hpc = "capture"
    /\ serial # <<>>
    /\ Head(serial).kind # "rest"
    /\ Fault("split")
    /\ \/ hpc' = "part" /\ UNCHANGED <<serial, text>>
       \/ IsEnd(Head(serial)) /\ \E kind \in CutOff(Head(serial)) : EndBehindPart(kind)
    /\ UNCHANGED <<run, slow, cut, deviceVars, memoryVars, serverVars, toServer, toBoard, seeds>>

\* The rest completes the line in the log; no part of it was one that the loop knows.
ReadRest ==
    /\ hpc = "part"
    /\ text' = Append(text, Head(serial))
    /\ serial' = Tail(serial)
    /\ hpc' = "capture"
    /\ UNCHANGED <<run, slow, cut, vars>>

\* Mutant: the wait for a result line has no limit.
CaptureTimeoutUnlimited ==
    /\ hpc = "capture"
    /\ Fault("late")
    /\ slow' = slow + 1
    /\ hpc' = "pause"
    /\ UNCHANGED <<run, serial, text, cut, deviceVars, memoryVars, serverVars, toServer, toBoard,
                   seeds>>

\* --timeout passes: the boot is over and all it printed is read, or the boot is
\* slow (a fault), whether it has printed its result by now or not; it may be in
\* the middle of a line.
CaptureTimeout ==
    /\ \/ /\ hpc = "capture"
          /\ \/ Decided /\ serial = <<>> /\ UNCHANGED <<faults, slow>>
             \/ Fault("late") /\ slow' = slow + 1
          /\ hpc' = "pause"
          /\ UNCHANGED <<serial, text>>
       \/ /\ hpc = "part"
          /\ Fault("late")
          /\ slow' = slow + 1
          /\ \E kind \in CutOff(Head(serial)) \cup {"fragment"} : EndBehindPart(kind)
    /\ UNCHANGED <<run, cut, deviceVars, memoryVars, serverVars, toServer, toBoard, seeds>>

\* One second of sleep, then the next run, or the end.
NextRun ==
    /\ hpc = "pause"
    /\ run' = run + 1
    /\ hpc' = IF run < Runs THEN "reset" ELSE "done"
    /\ UNCHANGED <<serial, text, slow, cut, vars>>

BenchNext ==
    SystemStep \/ StartRun \/ ReadLine \/ ReadPart \/ ReadRest \/ CaptureTimeout \/ NextRun

BenchSpec == BenchInit /\ [][BenchNext]_allVars

\* The host's loop and its time limit keep going, as do the board and the server.
BenchFairSpec ==
    /\ BenchSpec
    /\ WF_allVars((BoardStep \/ ServeHello \/ RejectHello) /\ UNCHANGED faults /\ SystemStep)
    /\ WF_allVars(StartRun \/ NextRun \/ ReadRest
                     \/ ((ReadLine \/ CaptureTimeout) /\ UNCHANGED faults))

------------------------------------------------------------------------------
\* current = {}
NoRun == [boots |-> {}, result |-> "none"]

\* The result that a line of the firmware's result gives its run.
ResultOf(line) ==
    CASE line.kind = "result_failed" -> "failed"
      [] line.kind = "result_seeded" -> "seeded"
      [] line.kind = "result_torn" -> "torn"

\* The lines that none of parse_log's patterns matches.
NoMatch(line) == line.kind \in {"fragment", "rest"}

\* Mutant: a banner does not begin a new run while one is open.
ParseLineOpen(st, line) ==
    LET open == [boots |-> st.current.boots \cup {line.boot}, result |-> "incomplete"]
    IN  CASE NoMatch(line) \/ (line.kind # "banner" /\ st.current = NoRun) -> st
          [] line.kind \in {"banner", "error", "request"} -> [st EXCEPT !.current = open]
          [] OTHER -> [runs |-> Append(st.runs, open), current |-> NoRun]

\* One line of parse_log: a banner closes the run before it, a result line the
\* run it belongs to; what comes before a banner is skipped.
ParseLine(st, line) ==
    LET open == [boots |-> st.current.boots \cup {line.boot}, result |-> st.current.result]
        Closed(last) == IF last = NoRun THEN st.runs ELSE Append(st.runs, last)
    IN  CASE line.kind = "banner" ->
               [runs |-> Closed(st.current),
                current |-> [boots |-> {line.boot}, result |-> "incomplete"]]
          [] NoMatch(line) \/ (line.kind # "banner" /\ st.current = NoRun) -> st
          [] line.kind \in {"error", "request"} /\ st.current # NoRun ->
               [runs |-> st.runs, current |-> [open EXCEPT !.result = "failed"]]
          [] line.kind \in {"result_failed", "result_seeded", "result_torn"}
                /\ st.current # NoRun ->
               [runs |-> Closed([open EXCEPT !.result = ResultOf(line)]), current |-> NoRun]

\* parse_log: the last run is closed by the end of the file.
ParsedRuns ==
    LET st == FoldLeft(ParseLine, [runs |-> <<>>, current |-> NoRun], text)
    IN  IF st.current = NoRun THEN st.runs ELSE Append(st.runs, st.current)

\* parse_server_log: a "served" line is printed for every capsule sent, and no
\* two capsules have a number in common.
ServerCapsulesServed == Cardinality(built)

\* summarize: the counts of the log.  The profile is read from the first run that
\* was seeded, so a log of runs of which none was has no summary (IndexError).
Summary ==
    LET runs == ParsedRuns
        ok   == {i \in DOMAIN runs : runs[i].result = "seeded"}
    IN  [made |-> runs = <<>> \/ ok # {},
         runs_attempted |-> Len(runs),
         runs_seeded |-> Cardinality(ok),
         runs_failed |-> Len(runs) - Cardinality(ok),
         served |-> ServerCapsulesServed]

\* The boots of which the log has a line torn such that it is not what it was.
TornBoots == {line.boot : line \in {l \in Range(text) : l.kind \in {"result_torn", "fragment"}}}

\* The parsed runs are boots, although the collector's own runs may be out of step
\* with them: no boot is counted twice, and no run mixes the lines of two boots,
\* but for boots whose lines the host tore (without a banner of its own, a boot's
\* lines go into the run before it, if that is open).
RunsAreBoots ==
    LET runs == ParsedRuns IN
    /\ \A i \in DOMAIN runs : Cardinality(runs[i].boots \ TornBoots) <= 1
    /\ \A i, j \in DOMAIN runs : i # j => runs[i].boots \cap runs[j].boots = {}

\* runs_seeded counts boots whose pool really got a capsule's seed, and a boot
\* that got one is counted as failed only if the host tore one of its lines, as
\* capture_run does when readline returns a part of the result line.
ResultsAreTrue ==
    \A r \in Range(ParsedRuns) :
        /\ r.result = "seeded" => \E s \in seeds : s.boot \in r.boots
        /\ r.result \in {"failed", "torn"} =>
              \A s \in seeds : s.boot \in r.boots => s.boot \in TornBoots

\* The parsed runs are the boots, with their true results.
RunsAreTrue == RunsAreBoots /\ ResultsAreTrue

\* The table compares runs_seeded and server_capsules_served, counted from two logs
\* that nothing synchronises: no run is reported as seeded that no capsule was
\* sent to, and at the end every capsule sent beyond the seeded runs is one a fault
\* lost, one whose boot was reset before it had come to a decision, one of a boot
\* with a torn line, or the last boot's, which the loop leaves unread when it is
\* one line of results behind.
LogsAgree ==
    LET unread == {line.boot : line \in Range(serial)} \cup (IF Decided THEN {} ELSE {boot})
    IN  Summary.made =>
          /\ Summary.runs_seeded <= Summary.served
          /\ hpc = "done" =>
               Summary.served <= Summary.runs_seeded + faults + cut
                                   + Cardinality(unread \cup TornBoots)

\* A boot too slow for its run costs at most one boot: itself, cut short by the
\* next run's reset, or the boot after it, cut because the late result line ends
\* its run.  The collector is not out of step for good.  (The first reset may cut
\* the boot that was going on.)
SlowBootCostsOne == cut <= slow + 1

\* The collection ends, whatever the board, the server and UDP do.
BenchEnds == <>(hpc = "done")

==============================================================================
