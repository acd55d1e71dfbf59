------------------------------ MODULE AebRestart ------------------------------
(***************************************************************************)
(* The restart experiment (scripts/run_restart_experiment.py): a runner    *)
(* that starts the collector, pulses the board's EN line, waits until      *)
(* aeb_trials.csv has one more complete row, and writes in                 *)
(* restart_trials.csv which reset gave which capture.  It shares only the  *)
(* CSV file and the exit status with the collector, and only EN with the   *)
(* board.                                                                  *)
(***************************************************************************)
EXTENDS AebSystem

CONSTANTS
    MaxAttempts,  \* --max-attempts
    BoardIdle     \* whether the board is at rest when the experiment begins

ASSUME RestartAssumption ==
    /\ MaxAttempts \in Nat
    /\ MaxBoots = MaxAttempts + 1
    /\ BoardIdle \in BOOLEAN

VARIABLES
    rpc,        \* where the runner is
    attempts,   \* EN pulses so far
    done,       \* the runner's variable completed (and before, while it waits)
    seen,       \* rows: the places of the complete rows it last read
    expired,    \* the trial deadline has passed
    exited,     \* the collector process has exited
    log,        \* restart_trials.csv
    phase       \* status.json: "running", "complete" or "failed"

runnerVars == <<rpc, attempts, done, seen, expired, exited, log, phase>>

allVars == <<vars, runnerVars>>

\* complete_rows: where in aeb_trials.csv they are.  The file only grows, so a
\* place stands for the row the runner has read there.
CompleteRows == {i \in DOMAIN rows : rows[i].complete}

\* "start": waiting for the collector; "top": head of the reset loop; "read":
\* about to read the CSV; "check": rows in hand; "finish": collector.wait;
\* "stopping": stop_collector after an exception; "ended".
RestartInit ==
    /\ IF BoardIdle
       THEN /\ pc = "done" /\ boot = 1 /\ port \in PortsOf[1] /\ trial = ClientTrials
            /\ resends = 0 /\ start = NoStart /\ loop = 0 /\ packets_seen = 0
            /\ sample_used = 0 /\ after_burst = 0 /\ up = 1
       ELSE ClientInit
    /\ CollectorInit
    /\ NetInit
    /\ faults = 0
    /\ rpc = "start"
    /\ attempts = 0
    /\ done = 0
    /\ seen = {}
    /\ expired = FALSE
    /\ exited = FALSE
    /\ log = <<>>
    /\ phase = "running"

------------------------------------------------------------------------------
\* The collector is listening: the loop begins with what the CSV holds.
StartLoop ==
    /\ rpc = "start"
    /\ ~exited
    /\ done' = Cardinality(CompleteRows)
    /\ rpc' = "top"
    /\ UNCHANGED <<attempts, seen, expired, exited, log, phase, vars>>

\* Mutant: the deadline of the previous attempt stays in force.
PulseEnOldDeadline ==
    /\ rpc = "top"
    /\ done < Trials /\ attempts < MaxAttempts
    /\ ~exited
    /\ Reset
    /\ attempts' = attempts + 1
    /\ rpc' = "read"
    /\ UNCHANGED <<done, seen, expired, exited, log, phase, collectorVars, faults>>

\* One more trial is wanted and allowed: EN is pulsed and the deadline set.
PulseEn ==
    /\ rpc = "top"
    /\ done < Trials /\ attempts < MaxAttempts
    /\ ~exited
    /\ Reset
    /\ attempts' = attempts + 1
    /\ expired' = FALSE
    /\ rpc' = "read"
    /\ UNCHANGED <<done, seen, exited, log, phase, collectorVars, faults>>

ReadRows ==
    /\ rpc = "read"
    /\ seen' = CompleteRows
    /\ rpc' = "check"
    /\ UNCHANGED <<attempts, done, expired, exited, log, phase, vars>>

\* No new row yet, the deadline is ahead and the collector runs: look again.
LookAgain ==
    /\ rpc = "check"
    /\ Cardinality(seen) <= done /\ ~expired /\ ~exited
    /\ rpc' = "read"
    /\ UNCHANGED <<attempts, done, seen, expired, exited, log, phase, vars>>

\* A new complete row: the reset is given the last row's capture.
RecordCapture ==
    /\ rpc = "check"
    /\ Cardinality(seen) > done
    /\ done' = Cardinality(seen)
    /\ log' = Append(log, [attempt |-> attempts, outcome |-> "complete",
                           capture |-> rows[Max(seen)].capture])
    /\ rpc' = "top"
    /\ UNCHANGED <<attempts, seen, expired, exited, phase, vars>>

\* Mutant: only successful resets are written.
RecordTimeoutUnwritten ==
    /\ rpc = "check"
    /\ Cardinality(seen) <= done /\ expired
    /\ rpc' = "top"
    /\ UNCHANGED <<attempts, done, seen, expired, exited, log, phase, vars>>

RecordTimeout ==
    /\ rpc = "check"
    /\ Cardinality(seen) <= done /\ expired
    /\ log' = Append(log, [attempt |-> attempts, outcome |-> "timeout", capture |-> None])
    /\ rpc' = "top"
    /\ UNCHANGED <<attempts, done, seen, expired, exited, phase, vars>>

\* The loop is left with all trials complete.
LeaveLoop ==
    /\ rpc = "top"
    /\ done = Trials
    /\ rpc' = "finish"
    /\ UNCHANGED <<attempts, done, seen, expired, exited, log, phase, vars>>

\* collector.wait returns: status "complete".
Finish ==
    /\ rpc = "finish"
    /\ exited
    /\ phase' = "complete"
    /\ rpc' = "ended"
    /\ UNCHANGED <<attempts, done, seen, expired, exited, log, vars>>

\* An exception: the collector has exited before the runner saw the last row,
\* or the attempts are used up.
Abort ==
    /\ \/ rpc = "start" /\ exited
       \/ rpc = "top" /\ done < Trials /\ (exited \/ attempts = MaxAttempts)
       \/ rpc = "check" /\ Cardinality(seen) <= done /\ ~expired /\ exited
    /\ phase' = "failed"
    /\ rpc' = "stopping"
    /\ UNCHANGED <<attempts, done, seen, expired, exited, log, vars>>

\* An exception of the serial device (lost for 30 s), of the start-up, or of
\* collector.wait (10 s over).
RunnerError ==
    /\ \/ rpc \in {"start", "check"} /\ UNCHANGED attempts
       \/ rpc = "top" /\ done < Trials /\ attempts < MaxAttempts /\ ~exited
             /\ attempts' = attempts + 1
       \/ rpc = "finish" /\ ~exited /\ UNCHANGED attempts
    /\ Fault("error")
    /\ phase' = "failed"
    /\ rpc' = "stopping"
    /\ UNCHANGED <<done, seen, expired, exited, log, clientVars, collectorVars, netVars>>

\* Mutant: an exception leaves the collector running.
StopCollectorForgotten ==
    /\ rpc = "stopping"
    /\ rpc' = "ended"
    /\ UNCHANGED <<attempts, done, seen, expired, exited, log, phase, vars>>

\* stop_collector: SIGINT ends the collector's loop wherever it is.
StopCollector ==
    /\ rpc = "stopping"
    /\ kpc' = "stopped"
    /\ exited' = TRUE
    /\ rpc' = "ended"
    /\ UNCHANGED <<attempts, done, seen, expired, log, phase, clientVars, netVars, faults,
                   hello, sent, states, completed, captures, rows>>

------------------------------------------------------------------------------
\* The trial deadline passes: the board has come to rest, nothing is on its way
\* and the CSV has no new row; or (a fault) the board, the network or the host is
\* slow.
DeadlinePasses ==
    /\ rpc \in {"read", "check"}
    /\ ~expired
    /\ \/ /\ pc \in {"done", "fatal"}
          /\ NothingComing
          /\ Cardinality(CompleteRows) <= done
          /\ UNCHANGED faults
       \/ Fault("delay")
    /\ expired' = TRUE
    /\ UNCHANGED <<rpc, attempts, done, seen, exited, log, phase, clientVars, collectorVars,
                   netVars>>

\* The collector's process ends after its loop has stopped.
CollectorExits ==
    /\ kpc = "stopped" /\ ~exited
    /\ exited' = TRUE
    /\ UNCHANGED <<rpc, attempts, done, seen, expired, log, phase, vars>>

\* The board and the collector go on by themselves; only the runner resets.  The
\* collector's idle timeout is at least twice the trial timeout: it runs out only
\* after several attempts without a datagram (a fault).
SystemStep ==
    /\ \/ NetworkFault \/ ClientTimeout \/ LateDelivery \/ ClientError \/ CollectorStep
       \/ ClientStep /\ boot' = boot
       \/ IdleTimeout /\ Fault("idle") /\ UNCHANGED clientVars
    /\ UNCHANGED runnerVars

RunnerStep ==
    \/ StartLoop \/ PulseEn \/ ReadRows \/ LookAgain \/ RecordCapture \/ RecordTimeout
    \/ LeaveLoop \/ Finish \/ Abort \/ StopCollector

RestartNext == SystemStep \/ RunnerStep \/ RunnerError \/ DeadlinePasses \/ CollectorExits

RestartSpec == RestartInit /\ [][RestartNext]_allVars

\* The three processes keep running and the deadline passes once the board rests.
RestartFairSpec ==
    /\ RestartSpec
    /\ WF_allVars((ClientStep \/ ClientTimeout) /\ boot' = boot /\ UNCHANGED <<faults, runnerVars>>)
    /\ WF_allVars(CollectorStep /\ UNCHANGED runnerVars)
    /\ WF_allVars(RunnerStep)
    /\ WF_allVars(DeadlinePasses /\ UNCHANGED faults)
    /\ WF_allVars(CollectorExits)

------------------------------------------------------------------------------
\* The boot whose bytes a capture's raw file holds (its first byte's).
BootOf(capture) ==
    {rows[i].raw[1][1] : i \in {j \in DOMAIN rows : rows[j].complete /\ rows[j].capture = capture}}

\* README: "pulses RTS only after the preceding upload is complete, and records
\* the reset-to-capture mapping in `restart_trials.csv`": the capture written
\* next to a reset holds the bytes of the boot that this reset started.
ResetMapsToItsCapture ==
    \A i \in DOMAIN log :
        log[i].outcome = "complete" => BootOf(log[i].capture) = {log[i].attempt + 1}

\* Every reset has one line in restart_trials.csv, written before the next
\* reset, and no capture is given to two resets.
OneLinePerReset ==
    /\ \A i \in DOMAIN log : log[i].attempt = i
    /\ phase # "failed" =>
          Len(log) = IF rpc \in {"read", "check"} THEN attempts - 1 ELSE attempts
    /\ \A i, j \in DOMAIN log :
          log[i].outcome = "complete" /\ log[i].capture = log[j].capture => i = j

\* "complete" is only reported when the CSV holds the wanted number of complete
\* trials and nobody writes to it any more.
CompleteIsComplete ==
    phase = "complete" => exited /\ Cardinality(CompleteRows) = Trials /\ completed = Trials

\* What the runner reports is whole: restart_trials.csv and status.json.
ReportsAreWhole == OneLinePerReset /\ CompleteIsComplete

\* The experiment ends, and it leaves no collector behind.
RunnerEnds == <>(rpc = "ended" /\ exited)
==============================================================================
