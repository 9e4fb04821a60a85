------------------------------ MODULE RunRecord ------------------------------
(***************************************************************************)
(* What the platform promises about one run, whatever requests, replicas    *)
(* and crashes it takes: the rows of its log appear in the order of their  *)
(* sequences and never twice, the counter is the sequence of the last row, *)
(* the status goes pending -> running -> one terminal status and stays     *)
(* there, nothing is logged after that, and the terminal status is         *)
(* broadcast at most once, with the status the row holds.                  *)
(***************************************************************************)
EXTENDS Integers, Sequences

CONSTANTS
  Sequences,  \* sequences an event may carry
  Final       \* terminal statuses

VARIABLES
  status,     \* runs.status
  counter,    \* runs.last_event_sequence
  log,        \* sequences of the event rows in run_logs
  announced   \* terminal statuses broadcast

recordVars == <<status, counter, log, announced>>

Open == status \notin Final

RecordInit ==
  /\ status = "pending"
  /\ counter = 0
  /\ log = <<>>
  /\ announced = <<>>

\* A workload that is launched runs before its first event is recorded.
Begin ==
  /\ Open
  /\ status' = "running"
  /\ UNCHANGED <<counter, log, announced>>

Record(s) ==
  /\ Open
  /\ s > counter
  /\ counter' = s
  /\ log' = Append(log, s)
  /\ status' \in {status, "running"}
  /\ UNCHANGED announced

Conclude(verdict) ==
  /\ Open
  /\ status' = verdict
  /\ UNCHANGED <<counter, log, announced>>

Announce ==
  /\ ~Open
  /\ announced = <<>>
  /\ announced' = <<status>>
  /\ UNCHANGED <<status, counter, log>>

RecordNext ==
  \/ Begin
  \/ \E s \in Sequences : Record(s)
  \/ \E verdict \in Final : Conclude(verdict)
  \/ Announce

RecordSpec == RecordInit /\ [][RecordNext]_recordVars
=============================================================================
