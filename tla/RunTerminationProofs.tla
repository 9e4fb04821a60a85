------------------------- MODULE RunTerminationProofs -------------------------
(***************************************************************************)
(* What TLAPS proves of RunTermination, for any number of cancels, sweeps   *)
(* and faults: type correctness, that the launcher defers to whoever        *)
(* aborted the run, and that the outcome is one run record's.               *)
(***************************************************************************)
EXTENDS RunTermination, TLAPS

\* Whoever is about to close the run has an outcome for it.
VerdictReached ==
  \A x \in Actors : stage[x] \in {"abort", "stop", "close"} => verdict[x] \in Terminal

\* The row is terminal once somebody closed it.
ClosedIffTerminal == Closed <=> run.status \in Terminal

\* Only the actor that closed the run announces it, and only once.
AnnouncedByCloser ==
  /\ \A x \in Actors : At(x, "announce") => run.closedBy = x /\ announced = <<>>
  /\ announced # <<>> => Closed /\ announced = <<run.status>>

\* The launcher closes at the end of its launch only.
LauncherClosesLast ==
  run.closedBy = "launcher" => stage["launcher"] \in {"close", "announce", "done"}

TerminationInv ==
  TerminationTypeOK /\ VerdictReached /\ ClosedIffTerminal /\ AnnouncedByCloser
    /\ LauncherClosesLast

LEMMA InitInv == Init => TerminationInv
<1> SUFFICES ASSUME Init PROVE TerminationInv
    OBVIOUS
<1> USE ClosersAssumption, FaultsAssumption DEF Init
<1>1. TerminationTypeOK
    BY DEF TerminationTypeOK, Actors, Active, Terminal, Stages, InFlight, Verdicts, Boots,
           Workloads, Untouched
<1>2. VerdictReached
    BY DEF VerdictReached
<1>3. ClosedIffTerminal
    BY DEF ClosedIffTerminal, Closed, Terminal
<1>4. AnnouncedByCloser
    BY DEF AnnouncedByCloser, At
<1>5. LauncherClosesLast
    BY DEF LauncherClosesLast
<1>6. QED
    BY <1>1, <1>2, <1>3, <1>4, <1>5 DEF TerminationInv

-----------------------------------------------------------------------------
(* Steps preserve the invariant.  A step that leaves the row and the broadcasts  *)
(* alone, sends nobody to "announce" and nobody without an outcome to close    *)
(* is harmless; only the flip, the reports, the close and the broadcast are   *)
(* more.                                                                      *)

\* An actor that leaves owes nothing and disturbs nobody.
LEMMA LeavePreserves ==
  ASSUME TerminationInv, NEW x \in Actors, Leave(x),
         UNCHANGED <<run, published, announced>>,
         workload' \in Workloads, faults' \in 0..MaxFaults
  PROVE  TerminationInv'
<1> USE DEF TerminationInv, Leave, Goto, Settle, At, Closed
<1>1. TerminationTypeOK'
    BY DEF TerminationTypeOK, Stages, Verdicts, Untouched
<1>2. VerdictReached'
    BY DEF VerdictReached, TerminationTypeOK
<1>3. ClosedIffTerminal'
    BY DEF ClosedIffTerminal
<1>4. AnnouncedByCloser'
    BY DEF AnnouncedByCloser, TerminationTypeOK
<1>5. LauncherClosesLast'
    BY DEF LauncherClosesLast, TerminationTypeOK
<1>6. QED
    BY <1>1, <1>2, <1>3, <1>4, <1>5

\* The launch up to the wait, and the wait.
LEMMA LaunchPreserves ==
  ASSUME TerminationInv,
         TrackRun \/ FlipToRunning \/ CreateWorkload \/ StartWorkload
           \/ WaitForWorkload \/ RemoveWorkload
  PROVE  TerminationInv'
<1> USE DEF TerminationInv, TrackRun, FlipToRunning, CreateWorkload, StartWorkload,
            WaitForWorkload, RemoveWorkload, Goto, Settle, At, Closed
<1>1. TerminationTypeOK'
    BY DEF TerminationTypeOK, Stages, InFlight, Verdicts, Workloads, Active, Terminal,
           Outcome, Actors
<1>2. VerdictReached'
    BY DEF VerdictReached, TerminationTypeOK
<1>3. ClosedIffTerminal'
    BY DEF ClosedIffTerminal, TerminationTypeOK, Active, Terminal
<1>4. AnnouncedByCloser'
    BY DEF AnnouncedByCloser, ClosedIffTerminal, TerminationTypeOK, Active, Terminal
<1>5. LauncherClosesLast'
    BY DEF LauncherClosesLast, TerminationTypeOK
<1>6. QED
    BY <1>1, <1>2, <1>3, <1>4, <1>5

\* The decision, and the errors of launcher, replica and requests.
LEMMA DecidePreserves ==
  ASSUME TerminationInv, Decide
  PROVE  TerminationInv'
<1>1. CASE Leave("launcher")
    BY <1>1, LeavePreserves DEF Decide, Actors, TerminationInv, TerminationTypeOK
<1>2. CASE ~Leave("launcher")
  <2> USE DEF TerminationInv, Decide, Goto, Settle, At, Closed
  <2>1. TerminationTypeOK'
      BY <1>2 DEF TerminationTypeOK, Stages, InFlight, Verdicts, Terminal, Actors
  <2>2. VerdictReached'
      BY <1>2 DEF VerdictReached, TerminationTypeOK, Terminal
  <2>3. ClosedIffTerminal'
      BY DEF ClosedIffTerminal
  <2>4. AnnouncedByCloser'
      BY <1>2 DEF AnnouncedByCloser, TerminationTypeOK
  <2>5. LauncherClosesLast'
      BY <1>2 DEF LauncherClosesLast, TerminationTypeOK
  <2>6. QED
      BY <2>1, <2>2, <2>3, <2>4, <2>5
<1>3. QED
    BY <1>1, <1>2

LEMMA CatchPreserves ==
  ASSUME TerminationInv, LauncherCatches
  PROVE  TerminationInv'
<1>0. faults' \in 0..MaxFaults
    BY FaultsAssumption DEF LauncherCatches, Fault, TerminationInv, TerminationTypeOK
<1>1. CASE launcher.aborted \/ launcher.retried
    BY <1>0, <1>1, LeavePreserves
    DEF LauncherCatches, Actors, TerminationInv, TerminationTypeOK
<1>2. CASE ~(launcher.aborted \/ launcher.retried)
  <2> USE DEF TerminationInv, LauncherCatches, Goto, Settle, At, Closed
  <2>1. TerminationTypeOK'
      BY <1>0, <1>2 DEF TerminationTypeOK, Stages, InFlight, Verdicts, Terminal, Actors
  <2>2. VerdictReached'
      BY <1>2 DEF VerdictReached, TerminationTypeOK, Terminal
  <2>3. ClosedIffTerminal'
      BY <1>2 DEF ClosedIffTerminal
  <2>4. AnnouncedByCloser'
      BY <1>2 DEF AnnouncedByCloser, TerminationTypeOK
  <2>5. LauncherClosesLast'
      BY <1>2 DEF LauncherClosesLast, TerminationTypeOK
  <2>6. QED
      BY <2>1, <2>2, <2>3, <2>4, <2>5
<1>3. QED
    BY <1>1, <1>2

LEMMA DeathPreserves ==
  ASSUME TerminationInv,
         ReplicaDies \/ \E x \in Actors \ {"launcher"} : CloserFails(x)
  PROVE  TerminationInv'
<1>0. faults' \in 0..MaxFaults
    BY FaultsAssumption DEF ReplicaDies, CloserFails, Fault, TerminationInv, TerminationTypeOK
<1>1. \E x \in Actors : Leave(x)
    BY DEF ReplicaDies, CloserFails, Actors
<1>2. UNCHANGED <<run, workload, published, announced>>
    BY DEF ReplicaDies, CloserFails
<1>3. workload' \in Workloads
    BY <1>2 DEF TerminationInv, TerminationTypeOK
<1>4. QED
    BY <1>0, <1>1, <1>2, <1>3, LeavePreserves

LEMMA OrchestratorPreserves ==
  ASSUME TerminationInv, OrchestratorFails \/ RemoveFails
  PROVE  TerminationInv'
<1> USE DEF TerminationInv, OrchestratorFails, RemoveFails, Fault, Goto, Settle, At, Closed
<1>0. faults' \in 0..MaxFaults
    BY FaultsAssumption DEF TerminationTypeOK
<1>1. TerminationTypeOK'
  <2> USE DEF TerminationTypeOK
  <2>1. stage' \in [Actors -> Stages] /\ verdict' \in [Actors -> Verdicts]
      BY DEF Stages, InFlight, Verdicts
  <2>2. UNCHANGED <<run, launcher, workload, published, announced>>
      OBVIOUS
  <2>3. QED
      BY <1>0, <2>1, <2>2
<1>2. VerdictReached'
    BY DEF VerdictReached, TerminationTypeOK
<1>3. ClosedIffTerminal'
    BY DEF ClosedIffTerminal
<1>4. AnnouncedByCloser'
    BY DEF AnnouncedByCloser, TerminationTypeOK
<1>5. LauncherClosesLast'
    BY DEF LauncherClosesLast, TerminationTypeOK
<1>6. QED
    BY <1>1, <1>2, <1>3, <1>4, <1>5

-----------------------------------------------------------------------------
LEMMA EnvironmentPreserves ==
  ASSUME TerminationInv, Environment
  PROVE  TerminationInv'
<1> USE DEF TerminationInv, Environment, TimeOut, SidecarDies, WorkloadExits, RunnerReports,
            RunnerFinalizes, Heartbeat, GoSilent, BootDeadlinePasses,
            Goto, Settle, At, Closed
<1>1. TerminationTypeOK'
  <2> USE DEF TerminationTypeOK
  <2>1. run' \in [status: Active \cup Terminal, closedBy: Actors \cup {"nobody"},
                  silent: BOOLEAN, boot: Boots]
      BY DEF Boots, Active
  <2>2. stage' \in [Actors -> Stages] /\ verdict' \in [Actors -> Verdicts]
      BY DEF Stages, InFlight, Verdicts, Terminal, Actors
  <2>3. launcher' \in [aborted: BOOLEAN, timedOut: BOOLEAN, retried: BOOLEAN]
      OBVIOUS
  <2>4. workload' \in Workloads
      BY DEF Workloads
  <2>5. published' \subseteq Closers /\ announced' \in Seq(Terminal) /\ faults' \in 0..MaxFaults
      OBVIOUS
  <2>6. QED
      BY <2>1, <2>2, <2>3, <2>4, <2>5
<1>2. VerdictReached'
    BY DEF VerdictReached, TerminationTypeOK, Terminal, Actors
<1>3. ClosedIffTerminal'
    BY DEF ClosedIffTerminal, TerminationTypeOK, Active, Terminal
<1>4. AnnouncedByCloser'
    BY DEF AnnouncedByCloser, TerminationTypeOK
<1>5. LauncherClosesLast'
    BY DEF LauncherClosesLast, TerminationTypeOK, Actors
<1>6. QED
    BY <1>1, <1>2, <1>3, <1>4, <1>5

LEMMA AbortPreserves ==
  ASSUME TerminationInv, NEW a \in Closers,
         CancelRun(a) \/ SweepStalled(a) \/ SweepOrphans(a) \/ AborterStep(a)
           \/ DeliverAbort(a) \/ LoseAbort(a) \/ StopUnacknowledged(a)
  PROVE  TerminationInv'
<1> USE ClosersAssumption
    DEF TerminationInv, CancelRun, SweepStalled, SweepOrphans, AborterStep, AbortRun,
        StopWorkload, DeliverAbort, LoseAbort, StopUnacknowledged, Fault,
        Goto, Settle, At, Closed
<1>1. TerminationTypeOK'
  <2> USE DEF TerminationTypeOK
  <2>1. stage' \in [Actors -> Stages] /\ verdict' \in [Actors -> Verdicts]
      BY DEF Stages, InFlight, Verdicts, Terminal, Actors
  <2>2. launcher' \in [aborted: BOOLEAN, timedOut: BOOLEAN, retried: BOOLEAN]
      BY DEF Tracked
  <2>3. workload' \in Workloads
      BY DEF Workloads
  <2>4. published' \subseteq Closers
      OBVIOUS
  <2>5. faults' \in 0..MaxFaults
      BY FaultsAssumption
  <2>6. UNCHANGED <<run, announced>>
      OBVIOUS
  <2>7. QED
      BY <2>1, <2>2, <2>3, <2>4, <2>5, <2>6
<1>2. VerdictReached'
    BY DEF VerdictReached, TerminationTypeOK, Terminal, Actors
<1>3. ClosedIffTerminal'
    BY DEF ClosedIffTerminal
<1>4. AnnouncedByCloser'
    BY DEF AnnouncedByCloser, TerminationTypeOK
<1>5. LauncherClosesLast'
    BY DEF LauncherClosesLast, TerminationTypeOK, Actors
<1>6. QED
    BY <1>1, <1>2, <1>3, <1>4, <1>5

-----------------------------------------------------------------------------
\* The first close takes the row; nothing was announced before it.
LEMMA ClosePreserves ==
  ASSUME TerminationInv, NEW x \in Actors, CloseSink(x)
  PROVE  TerminationInv'
<1>1. CASE Closed
  <2>1. Leave(x) /\ UNCHANGED <<run, workload, published, announced, faults>>
      BY <1>1 DEF CloseSink
  <2>2. workload' \in Workloads /\ faults' \in 0..MaxFaults
      BY <2>1 DEF TerminationInv, TerminationTypeOK
  <2>3. QED
      BY <2>1, <2>2, LeavePreserves
<1>2. CASE ~Closed
  <2>0. PICK status \in {verdict[x], "failed"} :
          /\ verdict[x] = status \/ verdict[x] = "success"
          /\ run' = [run EXCEPT !.status = status, !.closedBy = x]
      BY <1>2 DEF CloseSink
  <2>1. /\ Goto(x, "announce") /\ At(x, "close")
        /\ UNCHANGED <<verdict, launcher, workload, published, announced, faults>>
      BY <1>2 DEF CloseSink
  <2>2. status \in Terminal
      BY <2>1 DEF TerminationInv, VerdictReached, Terminal, At
  <2>3. x # "nobody"
      BY ClosersAssumption DEF Actors
  <2> USE <2>0, <2>1, <2>2, <2>3 DEF TerminationInv, TerminationTypeOK, Goto, At, Closed
  <2>4. TerminationTypeOK'
      BY DEF Stages, InFlight
  <2>5. VerdictReached'
      BY DEF VerdictReached
  <2>6. ClosedIffTerminal'
      BY DEF ClosedIffTerminal
  <2>7. announced = <<>> /\ \A y \in Actors : stage[y] # "announce"
    <3>1. announced = <<>>
        BY <1>2 DEF AnnouncedByCloser
    <3>2. ASSUME NEW y \in Actors, stage[y] = "announce" PROVE FALSE
        BY <1>2, <3>2, ClosersAssumption DEF AnnouncedByCloser, Actors
    <3>3. QED
        BY <3>1, <3>2
  <2>8. AnnouncedByCloser'
      BY <2>7 DEF AnnouncedByCloser
  <2>9. LauncherClosesLast'
      BY DEF LauncherClosesLast
  <2>10. QED
      BY <2>4, <2>5, <2>6, <2>8, <2>9
<1>3. QED
    BY <1>1, <1>2

LEMMA BroadcastPreserves ==
  ASSUME TerminationInv, NEW x \in Actors, BroadcastTerminal(x)
  PROVE  TerminationInv'
<1>0. run.closedBy = x /\ announced' = <<run.status>>
  <2>1. run.closedBy = x /\ announced = <<>>
      BY DEF BroadcastTerminal, TerminationInv, AnnouncedByCloser, At
  <2>2. announced' = Append(announced, run.status)
      BY DEF BroadcastTerminal
  <2>3. QED
      BY <2>1, <2>2
<1>1. x # "nobody"
    BY ClosersAssumption DEF Actors
<1> USE <1>0, <1>1
    DEF TerminationInv, BroadcastTerminal, Leave, Goto, Settle, At, Closed, TerminationTypeOK
<1>2. run.status \in Terminal
    BY DEF ClosedIffTerminal
<1>3. TerminationTypeOK'
    BY <1>2 DEF Stages, Verdicts, Untouched
<1>4. VerdictReached'
    BY DEF VerdictReached
<1>5. ClosedIffTerminal'
    BY DEF ClosedIffTerminal
<1>6. AnnouncedByCloser'
    BY DEF AnnouncedByCloser
<1>7. LauncherClosesLast'
    BY DEF LauncherClosesLast
<1>8. QED
    BY <1>3, <1>4, <1>5, <1>6, <1>7

LEMMA StepInv == TerminationInv /\ [Next]_vars => TerminationInv'
<1> SUFFICES ASSUME TerminationInv, [Next]_vars
             PROVE  TerminationInv'
    OBVIOUS
<1>1. CASE LauncherStep
    BY <1>1, LaunchPreserves, DecidePreserves DEF LauncherStep
<1>2. CASE Environment
    BY <1>2, EnvironmentPreserves
<1>3. CASE \E x \in Actors : FinalizeStep(x)
    BY <1>3, ClosePreserves, BroadcastPreserves DEF FinalizeStep
<1>4. CASE \E a \in Closers :
             \/ CancelRun(a) \/ SweepStalled(a) \/ SweepOrphans(a)
             \/ AborterStep(a) \/ DeliverAbort(a)
    BY <1>4, AbortPreserves
<1>5. CASE FaultStep
    BY <1>5, OrchestratorPreserves, CatchPreserves, DeathPreserves, AbortPreserves
    DEF FaultStep
<1>6. CASE UNCHANGED vars
    BY <1>6
    DEF vars, TerminationInv, TerminationTypeOK, VerdictReached, ClosedIffTerminal,
        AnnouncedByCloser, LauncherClosesLast, Closed, At
<1>7. QED
    BY <1>1, <1>2, <1>3, <1>4, <1>5, <1>6 DEF Next

\* Every reachable state is of its type and satisfies the invariant.
THEOREM InvHolds == TerminationSpec => []TerminationInv
<1>1. QED
    BY InitInv, StepInv, PTL DEF TerminationSpec

\* Type correctness of launcher, runner, aborters and the run row.
THEOREM TerminationTypeCorrect == TerminationSpec => []TerminationTypeOK
<1>1. TerminationInv => TerminationTypeOK
    BY DEF TerminationInv
<1>2. QED
    BY <1>1, InvHolds, PTL

-----------------------------------------------------------------------------
(* The launcher defers.                                                     *)

\* What the abort of a launch under way leaves behind for good: the launcher has not
\* closed the run, and is on its way out or about to find that it was asked to stop.
Deferred ==
  /\ run.closedBy # "launcher"
  /\ \/ At("launcher", "done")
     \/ /\ launcher.aborted
        /\ \/ Underway
           \/ /\ stage["launcher"] \in {"cleanup", "decide"}
              /\ verdict["launcher"] \in {"threw", "stopped"}

LEMMA AbortDefers == TerminationInv /\ launcher.aborted /\ Underway => Deferred
BY DEF TerminationInv, LauncherClosesLast, Underway, Deferred

LEMMA DeferredStays == TerminationInv /\ Deferred /\ [Next]_vars => Deferred'
<1> SUFFICES ASSUME TerminationInv, Deferred, [Next]_vars
             PROVE  Deferred'
    OBVIOUS
<1>0. "launcher" \in Actors /\ \A a \in Closers \cup {"runner"} : a # "launcher" /\ a \in Actors
    BY ClosersAssumption DEF Actors
<1> USE <1>0
    DEF TerminationInv, TerminationTypeOK, Deferred, Underway, Goto, Settle, At, Closed
<1>1. CASE LauncherStep
  <2>1. CASE TrackRun \/ FlipToRunning \/ CreateWorkload \/ StartWorkload \/ RemoveWorkload
      BY <2>1 DEF TrackRun, FlipToRunning, CreateWorkload, StartWorkload, RemoveWorkload
  <2>2. CASE WaitForWorkload
      BY <2>2 DEF WaitForWorkload, Outcome
  <2>3. CASE Decide
      BY <2>3 DEF Decide, Leave, Terminal
  <2>4. QED
      BY <1>1, <2>1, <2>2, <2>3 DEF LauncherStep
<1>2. CASE Environment
  <2>1. CASE TimeOut \/ SidecarDies
      BY <2>1 DEF TimeOut, SidecarDies
  <2>2. CASE WorkloadExits \/ RunnerReports \/ Heartbeat \/ GoSilent \/ BootDeadlinePasses
      BY <2>2 DEF WorkloadExits, RunnerReports, Heartbeat, GoSilent, BootDeadlinePasses
  <2>3. CASE RunnerFinalizes
      BY <2>3 DEF RunnerFinalizes
  <2>4. QED
      BY <1>2, <2>1, <2>2, <2>3 DEF Environment
<1>3. ASSUME NEW x \in Actors, FinalizeStep(x) PROVE Deferred'
  <2>1. x # "launcher"
      BY <1>3 DEF FinalizeStep, CloseSink, BroadcastTerminal
  <2>2. UNCHANGED launcher /\ stage'["launcher"] = stage["launcher"]
        /\ verdict'["launcher"] = verdict["launcher"]
      BY <1>3, <2>1 DEF FinalizeStep, CloseSink, BroadcastTerminal, Leave, Actors
  <2>3. run'.closedBy # "launcher"
      BY <1>3, <2>1 DEF FinalizeStep, CloseSink, BroadcastTerminal
  <2>4. QED
      BY <2>2, <2>3
<1>4. ASSUME NEW a \in Closers,
             \/ CancelRun(a) \/ SweepStalled(a) \/ SweepOrphans(a)
             \/ AborterStep(a) \/ DeliverAbort(a)
             \/ LoseAbort(a) \/ StopUnacknowledged(a)
      PROVE  Deferred'
    BY <1>4
    DEF CancelRun, SweepStalled, SweepOrphans, AborterStep, AbortRun, StopWorkload,
        DeliverAbort, LoseAbort, StopUnacknowledged, Actors
<1>5. CASE OrchestratorFails \/ RemoveFails \/ LauncherCatches \/ ReplicaDies
    BY <1>5 DEF OrchestratorFails, RemoveFails, LauncherCatches, ReplicaDies, Leave, Actors
<1>6. ASSUME NEW x \in Actors \ {"launcher"}, CloserFails(x) PROVE Deferred'
    BY <1>6 DEF CloserFails, Leave
<1>7. CASE UNCHANGED vars
    BY <1>7 DEF vars
<1>8. QED
    BY <1>1, <1>2, <1>3, <1>4, <1>5, <1>6, <1>7 DEF Next, FaultStep

\* Once the abort reaches a launch under way, the launcher never writes the outcome.
THEOREM LauncherDefers == TerminationSpec => LauncherDefersToAborter
<1>1. Deferred => run.closedBy # "launcher"
    BY DEF Deferred
<1>2. QED
    BY <1>1, AbortDefers, DeferredStays, InvHolds, PTL
    DEF TerminationSpec, LauncherDefersToAborter

-----------------------------------------------------------------------------
(* The outcome is one run record's.                                         *)

LEMMA OutcomeInit == Init => Promise!RecordInit
BY DEF Init, Promise!RecordInit

\* The row moves under one close, and the one broadcast follows the row.
LEMMA OutcomeStep ==
  TerminationInv /\ [Next]_vars => [Promise!RecordNext]_(Promise!recordVars)
<1> SUFFICES ASSUME TerminationInv, [Next]_vars
             PROVE  [Promise!RecordNext]_(Promise!recordVars)
    OBVIOUS
<1> USE DEF TerminationInv, TerminationTypeOK, Closed, At, Promise!recordVars
<1>1. CASE FlipToRunning \/ RunnerReports
  <2>1. ~(run.status \in Terminal) => Promise!Open
      BY DEF Promise!Open
  <2>2. UNCHANGED announced
      BY <1>1 DEF FlipToRunning, RunnerReports
  <2>3. run'.status = run.status \/ (run.status \notin Terminal /\ run'.status = "running")
      BY <1>1 DEF FlipToRunning, RunnerReports, ClosedIffTerminal, Active, Terminal
  <2>4. QED
      BY <2>1, <2>2, <2>3 DEF Promise!RecordNext, Promise!Begin
<1>2. ASSUME NEW x \in Actors, CloseSink(x)
      PROVE  [Promise!RecordNext]_(Promise!recordVars)
  <2>1. CASE Closed
      BY <1>2, <2>1 DEF CloseSink
  <2>2. CASE ~Closed
    <3>1. PICK status \in {verdict[x], "failed"} :
            run' = [run EXCEPT !.status = status, !.closedBy = x]
        BY <1>2, <2>2 DEF CloseSink
    <3>2. status \in Terminal
        BY <1>2, <2>2 DEF CloseSink, VerdictReached, Terminal
    <3>3. run'.status = status /\ UNCHANGED announced
        BY <1>2, <2>2, <3>1 DEF CloseSink
    <3>4. Promise!Open
        BY <2>2 DEF Promise!Open, ClosedIffTerminal
    <3>5. Promise!Conclude(status)
        BY <3>3, <3>4 DEF Promise!Conclude
    <3>6. QED
        BY <3>2, <3>5 DEF Promise!RecordNext
  <2>3. QED
      BY <2>1, <2>2
<1>3. ASSUME NEW x \in Actors, BroadcastTerminal(x)
      PROVE  [Promise!RecordNext]_(Promise!recordVars)
  <2>1. run.closedBy = x /\ announced = <<>>
      BY <1>3 DEF BroadcastTerminal, AnnouncedByCloser
  <2>2. run.status \in Terminal
      BY <2>1, ClosersAssumption DEF ClosedIffTerminal, Actors
  <2>3. announced' = <<run.status>> /\ UNCHANGED run
      BY <1>3, <2>1 DEF BroadcastTerminal
  <2>4. Promise!Announce
      BY <2>1, <2>2, <2>3 DEF Promise!Announce, Promise!Open
  <2>5. QED
      BY <2>4 DEF Promise!RecordNext
<1>4. CASE UNCHANGED <<run.status, announced>>
    BY <1>4
<1>5. QED
  <2>1. CASE LauncherStep
      BY <2>1, <1>1, <1>4
      DEF LauncherStep, TrackRun, CreateWorkload, StartWorkload, WaitForWorkload,
          RemoveWorkload, Decide
  <2>2. CASE Environment
      BY <2>2, <1>1, <1>4
      DEF Environment, TimeOut, SidecarDies, WorkloadExits, RunnerFinalizes, Heartbeat,
          GoSilent, BootDeadlinePasses
  <2>3. CASE \E x \in Actors : FinalizeStep(x)
      BY <2>3, <1>2, <1>3 DEF FinalizeStep
  <2>4. ASSUME NEW a \in Closers,
               \/ CancelRun(a) \/ SweepStalled(a) \/ SweepOrphans(a)
               \/ AborterStep(a) \/ DeliverAbort(a)
        PROVE  UNCHANGED <<run, announced>>
      BY <2>4
      DEF CancelRun, SweepStalled, SweepOrphans, AborterStep, AbortRun, StopWorkload,
          DeliverAbort
  <2>5. CASE FaultStep
      BY <2>5, <1>4
      DEF FaultStep, OrchestratorFails, RemoveFails, LauncherCatches, ReplicaDies,
          LoseAbort, StopUnacknowledged, CloserFails
  <2>6. CASE UNCHANGED vars
      BY <2>6, <1>4 DEF vars
  <2>7. QED
      BY <1>4, <2>1, <2>2, <2>3, <2>4, <2>5, <2>6 DEF Next

\* Launcher, runner and aborters, however many, implement one run record.
THEOREM OutcomeImplementation == TerminationSpec => TerminationImplementsRunRecord
<1>1. QED
    BY OutcomeInit, OutcomeStep, InvHolds, PTL
    DEF TerminationSpec, TerminationImplementsRunRecord, Promise!RecordSpec

=============================================================================
