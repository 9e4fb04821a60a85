---------------------------- MODULE RunTermination ----------------------------
(***************************************************************************)
(* How ONE platform run ends.  The replica that admitted the run launches   *)
(* its workload and watches it (services/run-launcher), the runner inside   *)
(* the workload posts its own finalize, a user cancels, the watchdog fails  *)
(* a run whose heartbeat went silent, a booting replica fails the runs it   *)
(* takes for orphans.  All of them close the run through finalizeRun, whose *)
(* inside is RunIngestion's; here it is its compare-and-set and the         *)
(* broadcast of the winner.  Whoever stops a workload on purpose owns the   *)
(* outcome, and tells the launcher so by an abort signal that crosses       *)
(* replicas over pub/sub and that nobody waits for.                         *)
(***************************************************************************)
EXTENDS Integers, Sequences, FiniteSets

CONSTANTS
  Closers,    \* slots for the cancels, watchdog ticks and boot sweeps in flight
  MaxFaults   \* bound on infrastructure faults in a behaviour

Actors == {"launcher", "runner"} \cup Closers

ASSUME ClosersAssumption == Closers \cap {"launcher", "runner", "nobody"} = {}
ASSUME FaultsAssumption == MaxFaults \in Nat

Active == {"pending", "running"}
Terminal == {"success", "failed", "timeout", "cancelled"}

VARIABLES
  run,        \* the run row: status, who closed it, heartbeat past the stall
              \* threshold, and where its boot is
  stage,      \* what each actor does next
  verdict,    \* the outcome it has settled on
  launcher,   \* of its abort controller and its safety-net timer: aborted, timedOut;
              \* retried: it is in the catch of a finalize that failed
  workload,   \* the agent container
  published,  \* closers whose message on runs:cancel is on its way
  announced,  \* terminal statuses broadcast
  faults      \* infrastructure faults so far

vars == <<run, stage, verdict, launcher, workload, published, announced, faults>>

\* Where a run's controller is in the in-flight map of the replica that launched it.
InFlight == {"flip", "provision", "start", "wait", "cleanup", "decide", "close", "announce"}
Stages == InFlight \cup {"idle", "abort", "stop", "created", "done"}

\* Not yet decided; the launcher's provisioning or wait threw; it was asked to stop.
Verdicts == Terminal \cup {"none", "threw", "stopped"}

\* No event yet; none by the boot deadline; the runner has spoken.
Boots == {"booting", "overdue", "reported"}

Workloads == {"none", "created", "running", "exited0", "exited1", "removed"}

TerminationTypeOK ==
  /\ run \in [status: Active \cup Terminal, closedBy: Actors \cup {"nobody"},
              silent: BOOLEAN, boot: Boots]
  /\ stage \in [Actors -> Stages]
  /\ verdict \in [Actors -> Verdicts]
  /\ launcher \in [aborted: BOOLEAN, timedOut: BOOLEAN, retried: BOOLEAN]
  /\ workload \in Workloads
  /\ published \subseteq Closers
  /\ announced \in Seq(Terminal)
  /\ faults \in 0..MaxFaults

Untouched == [aborted |-> FALSE, timedOut |-> FALSE, retried |-> FALSE]

Init ==
  /\ run = [status |-> "pending", closedBy |-> "nobody",
            silent |-> FALSE, boot |-> "booting"]
  /\ stage = [x \in Actors |-> IF x = "launcher" THEN "created" ELSE "idle"]
  /\ verdict = [x \in Actors |-> "none"]
  /\ launcher = Untouched
  /\ workload = "none"
  /\ published = {}
  /\ announced = <<>>
  /\ faults = 0

-----------------------------------------------------------------------------
Closed == run.closedBy # "nobody"
At(x, label) == stage[x] = label
Goto(x, label) == stage' = [stage EXCEPT ![x] = label]
Settle(x, outcome) == verdict' = [verdict EXCEPT ![x] = outcome]

\* An actor is through; the launcher takes its controller out of the in-flight map.
Leave(x) ==
  /\ Goto(x, IF x = "launcher" THEN "done" ELSE "idle")
  /\ Settle(x, "none")
  /\ launcher' = IF x = "launcher" THEN Untouched ELSE launcher

Tracked == stage["launcher"] \in InFlight

Fault == faults < MaxFaults /\ faults' = faults + 1

-----------------------------------------------------------------------------
(* executeAgentInBackground and runPlatformContainer.                       *)

\* The admission fires and forgets the launch, which registers its controller.
TrackRun ==
  /\ At("launcher", "created")
  /\ Goto("launcher", "flip")
  /\ UNCHANGED <<run, verdict, launcher, workload, published, announced, faults>>

\* Mutant: the flip does not look at the status.
FlipUnguarded ==
  /\ At("launcher", "flip")
  /\ run' = [run EXCEPT !.status = "running"]
  /\ Goto("launcher", "provision")
  /\ UNCHANGED <<verdict, launcher, workload, published, announced, faults>>

\* updateRun applies `running` to an active row only; the launch goes on either way.
FlipToRunning ==
  /\ At("launcher", "flip")
  /\ run' = IF run.status \in Active THEN [run EXCEPT !.status = "running"] ELSE run
  /\ Goto("launcher", "provision")
  /\ UNCHANGED <<verdict, launcher, workload, published, announced, faults>>

CreateWorkload ==
  /\ At("launcher", "provision")
  /\ workload' = "created"
  /\ Goto("launcher", "start")
  /\ UNCHANGED <<run, verdict, launcher, published, announced, faults>>

\* The signal is not looked at before the start; an abort that came earlier has
\* the workload stopped right after it.
StartWorkload ==
  /\ At("launcher", "start")
  /\ workload' = "running"
  /\ Goto("launcher", "wait")
  /\ UNCHANGED <<run, verdict, launcher, published, announced, faults>>

\* The orchestrator rejects while it provisions, starts or waits.
OrchestratorFails ==
  /\ stage["launcher"] \in {"provision", "start", "wait"}
  /\ Fault
  /\ Settle("launcher", "threw")
  /\ Goto("launcher", "cleanup")
  /\ UNCHANGED <<run, launcher, workload, published, announced>>

\* The safety-net timer asks for a stop.
TimeOut ==
  /\ At("launcher", "wait") /\ workload = "running"
  /\ ~launcher.timedOut
  /\ launcher' = [launcher EXCEPT !.timedOut = TRUE]
  /\ UNCHANGED <<run, stage, verdict, workload, published, announced, faults>>

\* A sidecar that dies unasked makes the wait throw, once the agent it asks to stop
\* has exited.
SidecarDies ==
  /\ At("launcher", "wait") /\ workload = "running"
  /\ ~launcher.aborted /\ ~launcher.timedOut /\ verdict["launcher"] = "none"
  /\ Settle("launcher", "threw")
  /\ UNCHANGED <<run, stage, launcher, workload, published, announced, faults>>

\* Mutant: the timeout is looked at before the request to stop.
OutcomeTimeoutFirst ==
  IF verdict["launcher"] = "threw" THEN "threw"
  ELSE IF launcher.timedOut THEN "timeout"
  ELSE IF launcher.aborted THEN "stopped"
  ELSE IF workload = "exited0" THEN "success" ELSE "failed"

\* What the launcher makes of an exit; a request to stop goes before the timeout.
Outcome ==
  IF verdict["launcher"] = "threw" THEN "threw"
  ELSE IF launcher.aborted THEN "stopped"
  ELSE IF launcher.timedOut THEN "timeout"
  ELSE IF workload = "exited0" THEN "success" ELSE "failed"

WaitForWorkload ==
  /\ At("launcher", "wait")
  /\ workload \in {"exited0", "exited1"}
  /\ Settle("launcher", Outcome)
  /\ Goto("launcher", "cleanup")
  /\ UNCHANGED <<run, launcher, workload, published, announced, faults>>

\* Sidecar, agent and boundary are removed before anything is decided.
RemoveWorkload ==
  /\ At("launcher", "cleanup")
  /\ workload' = IF workload = "none" THEN "none" ELSE "removed"
  /\ Goto("launcher", "decide")
  /\ UNCHANGED <<run, verdict, launcher, published, announced, faults>>

RemoveFails ==
  /\ At("launcher", "cleanup")
  /\ Fault
  /\ Goto("launcher", "decide")
  /\ UNCHANGED <<run, verdict, launcher, workload, published, announced>>

\* Mutant: what the wait threw is taken for the outcome.
DecideAsThrown ==
  /\ At("launcher", "decide")
  /\ Goto("launcher", IF verdict["launcher"] = "stopped" THEN "done" ELSE "close")
  /\ UNCHANGED <<run, verdict, launcher, workload, published, announced, faults>>

\* A stop on request is the aborter's to report, an error too if the signal has come
\* by now; any other error is a failed run.
Decide ==
  LET outcome == verdict["launcher"] IN
  /\ At("launcher", "decide")
  /\ \/ /\ outcome = "stopped" \/ (outcome = "threw" /\ launcher.aborted)
        /\ Leave("launcher")
     \/ /\ outcome = "threw" /\ ~launcher.aborted
        /\ Settle("launcher", "failed")
        /\ Goto("launcher", "close")
        /\ UNCHANGED launcher
     \/ /\ outcome \in Terminal
        /\ Goto("launcher", "close")
        /\ UNCHANGED <<verdict, launcher>>
  /\ UNCHANGED <<run, workload, published, announced, faults>>

\* The flip or the finalize rejects.  The outer catch finalizes as failed, unless
\* the signal has come; if that rejects too the run is left to the watchdog.
LauncherCatches ==
  /\ stage["launcher"] \in {"flip", "close", "announce"}
  /\ Fault
  /\ IF launcher.aborted \/ launcher.retried
     THEN Leave("launcher")
     ELSE /\ Settle("launcher", "failed")
          /\ launcher' = [launcher EXCEPT !.retried = TRUE]
          /\ Goto("launcher", "close")
  /\ UNCHANGED <<run, workload, published, announced>>

-----------------------------------------------------------------------------
(* The workload and its runner.                                            *)

\* The agent exits; by itself, because the launcher asked for a stop, or at the
\* host's lifetime ceiling.
WorkloadExits ==
  /\ workload = "running"
  /\ workload' \in {"exited0", "exited1"}
  /\ UNCHANGED <<run, stage, verdict, launcher, published, announced, faults>>

\* An event arrives: it counts as a heartbeat.
RunnerReports ==
  /\ workload = "running" /\ ~Closed /\ run.boot # "reported"
  /\ run' = [run EXCEPT !.boot = "reported", !.silent = FALSE, !.status = "running"]
  /\ UNCHANGED <<stage, verdict, launcher, workload, published, announced, faults>>

RunnerFinalizes ==
  /\ workload = "running" /\ ~Closed
  /\ At("runner", "idle")
  /\ \E outcome \in {"success", "failed", "timeout"} : Settle("runner", outcome)
  /\ Goto("runner", "close")
  /\ UNCHANGED <<run, launcher, workload, published, announced, faults>>

\* Who vouches for the run: the boot pump while its launcher provisions it and nothing
\* is reported, until the boot deadline; the runner while it runs.
Beating ==
  \/ /\ stage["launcher"] \in {"provision", "start", "wait"}
     /\ run.boot = "booting"
  \/ workload = "running"

Heartbeat ==
  /\ Beating /\ ~Closed /\ run.silent
  /\ run' = [run EXCEPT !.silent = FALSE]
  /\ UNCHANGED <<stage, verdict, launcher, workload, published, announced, faults>>

\* The stall threshold passes without a heartbeat, which may be late or lost.
GoSilent ==
  /\ ~run.silent /\ ~Closed
  /\ run' = [run EXCEPT !.silent = TRUE]
  /\ UNCHANGED <<stage, verdict, launcher, workload, published, announced, faults>>

BootDeadlinePasses ==
  /\ run.boot = "booting" /\ ~Closed
  /\ run' = [run EXCEPT !.boot = "overdue"]
  /\ UNCHANGED <<stage, verdict, launcher, workload, published, announced, faults>>

-----------------------------------------------------------------------------
(* Who ends a run from outside.                                            *)

CancelRun(a) ==
  /\ At(a, "idle")
  /\ run.status \in Active
  /\ Settle(a, "cancelled")
  /\ Goto(a, "abort")
  /\ UNCHANGED <<run, launcher, workload, published, announced, faults>>

\* Mutant: the watchdog looks at running rows only.
SweepRunning(a) ==
  /\ At(a, "idle")
  /\ run.status = "running" /\ ~Closed
  /\ run.silent \/ run.boot = "overdue"
  /\ Settle(a, "failed")
  /\ Goto(a, "abort")
  /\ UNCHANGED <<run, launcher, workload, published, announced, faults>>

\* A tick of the watchdog picks the run: silent, or past its boot deadline with no
\* event.  It acts on this reading, later ones do not stop it.
SweepStalled(a) ==
  /\ At(a, "idle")
  /\ ~Closed
  /\ run.silent \/ run.boot = "overdue"
  /\ Settle(a, "failed")
  /\ Goto(a, "abort")
  /\ UNCHANGED <<run, launcher, workload, published, announced, faults>>

\* A replica that boots takes an active silent run for its own orphan.  It aborts
\* nobody.
SweepOrphans(a) ==
  /\ At(a, "idle")
  /\ run.status \in Active /\ run.silent
  /\ Settle(a, "failed")
  /\ Goto(a, "stop")
  /\ UNCHANGED <<run, launcher, workload, published, announced, faults>>

\* abortRun: at once on the launching replica, over pub/sub on any.
AbortRun(a) ==
  /\ At(a, "abort")
  /\ published' = published \cup {a}
  /\ \/ launcher' = [launcher EXCEPT !.aborted = @ \/ Tracked]
     \/ UNCHANGED launcher
  /\ Goto(a, "stop")
  /\ UNCHANGED <<run, verdict, workload, announced, faults>>

\* The message finds the controller, or nothing.
DeliverAbort(a) ==
  /\ a \in published
  /\ published' = published \ {a}
  /\ launcher' = [launcher EXCEPT !.aborted = @ \/ Tracked]
  /\ UNCHANGED <<run, stage, verdict, workload, announced, faults>>

\* No publish got through, or the subscriber was not connected.
LoseAbort(a) ==
  /\ a \in published
  /\ Fault
  /\ published' = published \ {a}
  /\ UNCHANGED <<run, stage, verdict, launcher, workload, announced>>

\* stopByRunId sees running containers only; finding none is an answer too.
StopWorkload(a) ==
  /\ At(a, "stop")
  /\ workload' = IF workload = "running" THEN "exited1" ELSE workload
  /\ Goto(a, "close")
  /\ UNCHANGED <<run, verdict, launcher, published, announced, faults>>

\* The stop fails or is not acknowledged in time: the run is closed all the same.
StopUnacknowledged(a) ==
  /\ At(a, "stop")
  /\ Fault
  /\ Goto(a, "close")
  /\ UNCHANGED <<run, verdict, launcher, workload, published, announced>>

-----------------------------------------------------------------------------
(* finalizeRun, and what may interrupt it.                                 *)

\* The first to close decides; a success may still be judged a failure by what the
\* run produced.
CloseSink(x) ==
  /\ At(x, "close")
  /\ \/ /\ ~Closed
        /\ \E status \in {verdict[x]} \cup (IF verdict[x] = "success" THEN {"failed"} ELSE {}) :
             run' = [run EXCEPT !.status = status, !.closedBy = x]
        /\ Goto(x, "announce")
        /\ UNCHANGED <<verdict, launcher>>
     \/ /\ Closed
        /\ Leave(x)
        /\ UNCHANGED run
  /\ UNCHANGED <<workload, published, announced, faults>>

BroadcastTerminal(x) ==
  /\ At(x, "announce")
  /\ announced' = Append(announced, run.status)
  /\ Leave(x)
  /\ UNCHANGED <<run, workload, published, faults>>

\* The request or the replica of anyone but the launcher fails.
CloserFails(x) ==
  /\ ~At(x, "idle")
  /\ Fault
  /\ Leave(x)
  /\ UNCHANGED <<run, workload, published, announced>>

\* The launching replica dies: nobody waits for the workload any more.
ReplicaDies ==
  /\ ~At("launcher", "done")
  /\ Fault
  /\ Leave("launcher")
  /\ UNCHANGED <<run, workload, published, announced>>

-----------------------------------------------------------------------------
LauncherStep ==
  \/ TrackRun \/ FlipToRunning \/ CreateWorkload \/ StartWorkload
  \/ WaitForWorkload \/ RemoveWorkload \/ Decide

FinalizeStep(x) == CloseSink(x) \/ BroadcastTerminal(x)

AborterStep(a) == AbortRun(a) \/ StopWorkload(a)

Environment ==
  \/ TimeOut \/ SidecarDies \/ WorkloadExits \/ RunnerReports \/ RunnerFinalizes
  \/ Heartbeat \/ GoSilent \/ BootDeadlinePasses

FaultStep ==
  \/ OrchestratorFails \/ RemoveFails \/ LauncherCatches \/ ReplicaDies
  \/ \E a \in Closers : LoseAbort(a) \/ StopUnacknowledged(a)
  \/ \E x \in Actors \ {"launcher"} : CloserFails(x)

Next ==
  \/ LauncherStep
  \/ Environment
  \/ \E x \in Actors : FinalizeStep(x)
  \/ \E a \in Closers :
       \/ CancelRun(a) \/ SweepStalled(a) \/ SweepOrphans(a)
       \/ AborterStep(a) \/ DeliverAbort(a)
  \/ FaultStep

TerminationSpec == Init /\ [][Next]_vars

\* The event loop resumes every await that has settled, the watchdog ticks for as
\* long as a replica runs, no workload outlives the host's ceiling, and silence
\* lasts once nobody is left to beat.  No user has to cancel, no replica to boot.
Fairness ==
  /\ WF_vars(LauncherStep)
  /\ \A x \in Actors : WF_vars(FinalizeStep(x))
  /\ \A a \in Closers : WF_vars(AborterStep(a)) /\ WF_vars(SweepStalled(a))
  /\ WF_vars(WorkloadExits)
  /\ WF_vars(~Beating /\ GoSilent)

FairTerminationSpec == TerminationSpec /\ Fairness

-----------------------------------------------------------------------------
(* Properties.                                                             *)

\* The launch is under way and its workload not known to have ended.
Underway == stage["launcher"] \in {"flip", "provision", "start", "wait"}

\* Once the abort has reached a launch under way, the launcher never writes the outcome:
\* not when the agent then exits, times out or loses its sidecar, not from the catch
\* of an error.  It is the aborter's, or the runner's.
LauncherDefersToAborter ==
  [](launcher.aborted /\ Underway => [](run.closedBy # "launcher"))

\* Every run reaches its end: whoever dies, whatever signal or stop is lost, some
\* actor is left that closes it, the watchdog at the latest.
EveryRunEnds == <>Closed

\* The outcome is one run record's: launcher, runner and aborters race, one of them
\* decides, nobody brings the run back or announces another outcome.
Promise == INSTANCE RunRecord WITH
  Sequences <- {}, Final <- Terminal,
  status <- run.status, counter <- 0, log <- <<>>, announced <- announced

TerminationImplementsRunRecord == Promise!RecordSpec
=============================================================================
