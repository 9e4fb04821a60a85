-------------------------------- MODULE Billing --------------------------------
(***************************************************************************)
(* The LLM usage ledger and the billing sweep that reads it by watermark.  *)
(* A ledger row takes its serial id when it is inserted and is seen when   *)
(* its transaction commits; a runner's row is one cumulative row per run,  *)
(* final once the run is terminal.  The sweepers of several replicas read  *)
(* the rows from a window below the watermark on, bill what is final, claim *)
(* it in their own database and move the watermark in one transaction;     *)
(* deleting an organization drains what is left in the same way.           *)
(* One organization, with an account; a statement is atomic.               *)
(***************************************************************************)
EXTENDS Integers, FiniteSets, Functions

CONSTANTS
  Runs,          \* each with at most one runner row
  Calls,         \* proxy and chat calls, a row each
  System,        \* rows whose credential_source is `system`, the billable ones
  Price,         \* what each call costs, in half credits
  Context,       \* the run or chat a row is attributed to
  Sweepers,      \* replicas, each with at most one pass under way
  Drainers,      \* deletions of the organization
  ReplayWindow,  \* EE_RECONCILIATION_REPLAY_WINDOW
  BatchSize,     \* EE_RECONCILIATION_BATCH_SIZE
  MaxCost,       \* the usage a runner reports in the end
  MaxIds,        \* bound on the serial ids taken
  MaxFaults      \* bound on the transactions that fail

Entries == Runs \cup Calls
Contexts == {Context[e] : e \in Entries}

ASSUME EntriesAssumption ==
  /\ IsFiniteSet(Entries) /\ Runs \cap Calls = {} /\ System \subseteq Entries
ASSUME PriceAssumption == \A c \in Calls : Price[c] \in Nat
ASSUME BillersAssumption == Sweepers \cap Drainers = {}
\* 0 turns the replay off, an escape hatch that gives up late commits.
ASSUME BoundsAssumption ==
  /\ ReplayWindow \in Nat \ {0} /\ BatchSize \in Nat \ {0} /\ MaxCost \in Nat \ {0}
  /\ MaxIds \in Nat /\ MaxFaults \in Nat

VARIABLES
  ids,        \* the sequence of llm_usage.id
  row,        \* llm_usage
  run,        \* the run's status
  finalizer,  \* the finalize that carries the runner's usage
  cursor,     \* ee_billing_cursor: the watermark and the floor, once it is seeded
  claimed,    \* ee_billed_llm_usage
  charged,    \* what was billed for each row
  spent,      \* ee_usage_records: the cost_usd of each context
  credits,    \* ee_billing_accounts: credits_used
  sweeper,    \* what each pass has read
  drainer,    \* and each drain
  faults

ledger == <<ids, row, run, finalizer>>
books == <<cursor, claimed, charged, spent, credits>>
vars == <<ledger, books, sweeper, drainer, faults>>

\* A row is open between its INSERT and its COMMIT, in a metric event's transaction or by
\* a finalize.
RowStates == [state: {"none", "open", "barrier", "committed"}, id: Nat, cost: Nat]
CursorStates == [seeded: BOOLEAN, last: Nat, floor: Nat]
Lines == [entry: Entries, cost: Nat]
SweeperStates == [at: {"idle", "seeding", "listing", "billing"}, from: Nat, to: Nat,
                  bill: SUBSET Lines]
DrainerStates == [at: {"idle", "listing", "billing", "drained", "failed"}, after: Nat,
                  last: BOOLEAN, bill: SUBSET Lines, due: SUBSET Entries]

NoEntry == [state |-> "none", id |-> 0, cost |-> 0]
IdleSweeper == [at |-> "idle", from |-> 0, to |-> 0, bill |-> {}]
IdleDrainer == [at |-> "idle", after |-> 0, last |-> FALSE, bill |-> {}, due |-> {}]

\* Ids are taken once.
RowsNumbered ==
  \A e, f \in Entries :
    /\ (row[e].state = "none") <=> (row[e].id = 0)
    /\ row[e].id <= ids
    /\ (row[e].id = row[f].id /\ row[e].id # 0) => e = f

\* spent and credits are what the sums below yield.
BillingTypeOK ==
  /\ ids \in Nat
  /\ row \in [Entries -> RowStates]
  /\ RowsNumbered
  /\ run \in [Runs -> {"active", "terminal"}]
  /\ finalizer \in [Runs -> {"idle", "writing", "written", "won", "lost"}]
  /\ cursor \in CursorStates
  /\ claimed \subseteq Entries
  /\ charged \in [Entries -> Nat]
  /\ sweeper \in [Sweepers -> SweeperStates]
  /\ drainer \in [Drainers -> DrainerStates]
  /\ faults \in Nat

Init ==
  /\ ids = 0
  /\ row = [e \in Entries |-> NoEntry]
  /\ run = [r \in Runs |-> "active"]
  /\ finalizer = [r \in Runs |-> "idle"]
  /\ cursor = [seeded |-> FALSE, last |-> 0, floor |-> 0]
  /\ claimed = {}
  /\ charged = [e \in Entries |-> 0]
  /\ spent = [x \in Contexts |-> 0]
  /\ credits = 0
  /\ sweeper = [s \in Sweepers |-> IdleSweeper]
  /\ drainer = [d \in Drainers |-> IdleDrainer]
  /\ faults = 0

-----------------------------------------------------------------------------
Fault == faults < MaxFaults /\ faults' = faults + 1
NoFault == UNCHANGED faults

Committed(e) == row[e].state = "committed"
InFlight(e) == row[e].state \in {"open", "barrier"}

\* Is the row's cost final?
\* Mutant: a runner's row counts as final from the start.
SettledAtInsert(e) == TRUE
Settled(e) == e \in Calls \/ run[e] = "terminal"

(***************************************************************************)
(* Writing the ledger.                                                     *)
(***************************************************************************)

\* What the setting asks for: the window exceeds the ids others take while a transaction
\* still holds its own uncommitted one.
WindowSpansCommits == \A e \in Entries : InFlight(e) => ids + 1 < row[e].id + ReplayWindow

Insert(e, state, cost) ==
  /\ ids < MaxIds
  /\ WindowSpansCommits
  /\ ids' = ids + 1
  /\ row' = [row EXCEPT ![e] = [state |-> state, id |-> ids + 1, cost |-> cost]]

Raise(e, cost) ==
  row' = [row EXCEPT ![e] = [state |-> "committed", id |-> row[e].id, cost |-> cost]]

InsertCall(c) ==
  /\ c \in Calls
  /\ row[c].state = "none"
  /\ Insert(c, "open", Price[c])
  /\ NoFault
  /\ UNCHANGED <<run, finalizer, books, sweeper, drainer>>

\* The first metric event of a run; its transaction has claimed the event on the run row.
InsertMetric(r) ==
  /\ r \in Runs
  /\ run[r] = "active"
  /\ row[r].state = "none"
  /\ Insert(r, "open", 1)
  /\ NoFault
  /\ UNCHANGED <<run, finalizer, books, sweeper, drainer>>

CommitRow(e) ==
  /\ InFlight(e)
  /\ row' = [row EXCEPT ![e] =
       [state |-> "committed", id |-> row[e].id, cost |-> row[e].cost]]
  /\ finalizer' = IF row[e].state = "barrier"
                    THEN [finalizer EXCEPT ![e] = "written"] ELSE finalizer
  /\ NoFault
  /\ UNCHANGED <<ids, run, books, sweeper, drainer>>

\* The id is lost and the row is written again, by the retry worker or by the runner.
RollBackRow(e) ==
  /\ InFlight(e)
  /\ Fault
  /\ row' = [row EXCEPT ![e] = NoEntry]
  /\ finalizer' = IF row[e].state = "barrier"
                    THEN [finalizer EXCEPT ![e] = "idle"] ELSE finalizer
  /\ UNCHANGED <<ids, run, books, sweeper, drainer>>

Grow(r) ==
  /\ r \in Runs
  /\ run[r] = "active"
  /\ Committed(r)
  /\ row[r].cost < MaxCost
  /\ Raise(r, row[r].cost + 1)
  /\ NoFault
  /\ UNCHANGED <<ids, run, finalizer, books, sweeper, drainer>>

\* finalizeRun's ledger write, outside any transaction: an INSERT whatever the run's
\* status, an UPDATE only while it is not terminal and only upwards.
WriteBarrier(r) ==
  /\ r \in Runs
  /\ finalizer[r] = "idle"
  /\ \/ /\ row[r].state = "none"
        /\ Insert(r, "barrier", MaxCost)
        /\ finalizer' = [finalizer EXCEPT ![r] = "writing"]
     \/ /\ Committed(r)
        /\ IF run[r] = "active" THEN Raise(r, MaxCost) ELSE UNCHANGED row
        /\ finalizer' = [finalizer EXCEPT ![r] = "written"]
        /\ UNCHANGED ids
  /\ NoFault
  /\ UNCHANGED <<run, books, sweeper, drainer>>

\* The close waits for a metric event's transaction, which holds the run row.
\* Mutant: the finalize closes the run without waiting for its ledger write.
CloseEarly(r) ==
  /\ finalizer[r] \in {"idle", "written"}
  /\ row[r].state # "open"
  /\ run' = [run EXCEPT ![r] = "terminal"]
  /\ finalizer' = [finalizer EXCEPT ![r] = IF run[r] = "active" THEN "won" ELSE "lost"]
  /\ NoFault
  /\ UNCHANGED <<ids, row, books, sweeper, drainer>>

Close(r) ==
  /\ finalizer[r] = "written"
  /\ row[r].state # "open"
  /\ run' = [run EXCEPT ![r] = "terminal"]
  /\ finalizer' = [finalizer EXCEPT ![r] = IF run[r] = "active" THEN "won" ELSE "lost"]
  /\ NoFault
  /\ UNCHANGED <<ids, row, books, sweeper, drainer>>

\* A close that carries no usage: the launcher's, the watchdog's, a cancel.
CloseSynthesised(r) ==
  /\ r \in Runs
  /\ run[r] = "active"
  /\ row[r].state # "open"
  /\ run' = [run EXCEPT ![r] = "terminal"]
  /\ NoFault
  /\ UNCHANGED <<ids, row, finalizer, books, sweeper, drainer>>

(***************************************************************************)
(* Claiming, charging and debiting rows, within the caller's transaction.  *)
(***************************************************************************)
Round(halves) == (halves + 1) \div 2  \* credits, half away from zero

Won(bill) == {b \in bill : b.entry \notin claimed}
Dollars(bill, x) ==
  SumFunctionOnSet([b \in bill |-> b.cost], {b \in bill : Context[b.entry] = x})
Charge(bill) ==
  [e \in Entries |-> charged[e] + (IF \E b \in bill : b.entry = e
                                     THEN (CHOOSE b \in bill : b.entry = e).cost ELSE 0)]

\* Mutant: a pass rounds what it adds.
BillRounded(bill) ==
  /\ claimed' = claimed \cup {b.entry : b \in bill}
  /\ charged' = Charge(Won(bill))
  /\ spent' = [x \in Contexts |-> spent[x] + Dollars(Won(bill), x)]
  /\ credits' = credits + SumFunction([x \in Contexts |-> Round(Dollars(Won(bill), x))])

BillLedgerRows(bill) ==
  /\ claimed' = claimed \cup {b.entry : b \in bill}
  /\ charged' = Charge(Won(bill))
  /\ spent' = [x \in Contexts |-> spent[x] + Dollars(Won(bill), x)]
  /\ credits' = credits + SumFunction([x \in Contexts |-> Round(spent'[x]) - Round(spent[x])])

Line(e) == [entry |-> e, cost |-> row[e].cost]

(***************************************************************************)
(* The sweep.                                                              *)
(***************************************************************************)
Larger(m, n) == IF m < n THEN n ELSE m

\* Mutants: from the watermark on; without the floor.
StartAtWatermark(last) == Larger(cursor.floor, last)
StartBelowFloor(last) == last - ReplayWindow
ScanStart(last) == Larger(cursor.floor, last - ReplayWindow)

\* The page the ledger returns: the first rows above an id.
Above(rows, start) == {e \in rows : Committed(e) /\ row[e].id > start}
Page(rows, start, limit) ==
  {e \in Above(rows, start) :
     Cardinality({f \in Above(rows, start) : row[f].id <= row[e].id}) <= limit}

\* The rows the watermark may pass: those before the first billable one that is not final.
\* Mutant: it passes that one too.
PassableAll(page) == page
Passable(page) ==
  {e \in page : \A b \in page :
     b \in System /\ ~ Settled(b) => row[e].id < row[b].id}

Bill(rows) == {Line(e) : e \in {f \in rows : f \in System /\ Settled(f)}}

\* usage.settledFrontier(): just below the first row that is not final, or the last row.
SettledFrontier(n) ==
  LET rows == {e \in Entries : Committed(e)}
      unsettled == {e \in rows : ~ Settled(e)} IN
  IF unsettled # {}
    THEN \E e \in unsettled : n = row[e].id - 1 /\ \A f \in unsettled : n < row[f].id
    ELSE \/ rows = {} /\ n = 0
         \/ \E e \in rows : n = row[e].id /\ \A f \in rows : row[f].id <= n

ReadFrontier(s) ==
  /\ sweeper[s].at = "idle"
  /\ ~ cursor.seeded
  /\ \E n \in 0..ids :
       /\ SettledFrontier(n)
       /\ sweeper' = [sweeper EXCEPT ![s] =
            [at |-> "seeding", from |-> 0, to |-> n, bill |-> {}]]
  /\ NoFault
  /\ UNCHANGED <<ledger, books, drainer>>

SeedCursor(s) ==
  /\ sweeper[s].at = "seeding"
  /\ cursor' = IF cursor.seeded THEN cursor
               ELSE [seeded |-> TRUE, last |-> sweeper[s].to, floor |-> sweeper[s].to]
  /\ sweeper' = [sweeper EXCEPT ![s] = IdleSweeper]
  /\ NoFault
  /\ UNCHANGED <<ledger, claimed, charged, spent, credits, drainer>>

ReadCursor(s) ==
  /\ sweeper[s].at = "idle"
  /\ cursor.seeded
  /\ sweeper' = [sweeper EXCEPT ![s] =
       [at |-> "listing", from |-> cursor.last, to |-> 0, bill |-> {}]]
  /\ NoFault
  /\ UNCHANGED <<ledger, books, drainer>>

\* The replay span is read on top of the batch.
ListLedger(s) ==
  LET from == sweeper[s].from
      start == ScanStart(from)
      passable == Passable(Page(Entries, start, from - start + BatchSize)) IN
  /\ sweeper[s].at = "listing"
  /\ IF passable = {}
       THEN sweeper' = [sweeper EXCEPT ![s] = IdleSweeper]
       ELSE \E e \in passable :
              /\ \A f \in passable : row[f].id <= row[e].id
              /\ sweeper' = [sweeper EXCEPT ![s] =
                   [at |-> "billing", from |-> 0, to |-> row[e].id, bill |-> Bill(passable)]]
  /\ NoFault
  /\ UNCHANGED <<ledger, books, drainer>>

\* Claims, debits and the watermark, which only ever grows, in one transaction.
SweepBatch(s) ==
  /\ sweeper[s].at = "billing"
  /\ BillLedgerRows(sweeper[s].bill)
  /\ cursor' = [seeded |-> TRUE, last |-> Larger(cursor.last, sweeper[s].to),
                floor |-> cursor.floor]
  /\ sweeper' = [sweeper EXCEPT ![s] = IdleSweeper]
  /\ NoFault
  /\ UNCHANGED <<ledger, drainer>>

SweepFails(s) ==
  /\ sweeper[s].at # "idle"
  /\ Fault
  /\ sweeper' = [sweeper EXCEPT ![s] = IdleSweeper]
  /\ UNCHANGED <<ledger, books, drainer>>

(***************************************************************************)
(* The drain of an organization about to be deleted, in batches of its     *)
(* own, which leaves the watermark alone.                                  *)
(***************************************************************************)
Due == {e \in System : Committed(e) /\ Settled(e) /\ row[e].id > cursor.floor}

\* The deletion is reserved first, which is refused while a run is in progress.
StartDrain(d) ==
  /\ drainer[d].at = "idle"
  /\ \A r \in Runs : run[r] = "terminal"
  /\ cursor.seeded
  /\ drainer' = [drainer EXCEPT ![d] = [at |-> "listing", after |-> ScanStart(cursor.last),
                                        last |-> FALSE, bill |-> {}, due |-> Due]]
  /\ NoFault
  /\ UNCHANGED <<ledger, books, sweeper>>

ListForDrain(d) ==
  LET page == Page(System, drainer[d].after, BatchSize) IN
  /\ drainer[d].at = "listing"
  /\ IF page = {}
       THEN drainer' = [drainer EXCEPT ![d] = [at |-> "drained", after |-> drainer[d].after,
                    last |-> FALSE, bill |-> {}, due |-> drainer[d].due]]
       ELSE \E e \in page :
              /\ \A f \in page : row[f].id <= row[e].id
              /\ drainer' = [drainer EXCEPT ![d] =
                   [at |-> "billing", after |-> row[e].id,
                    last |-> Cardinality(page) < BatchSize,
                    bill |-> Bill(page), due |-> drainer[d].due]]
  /\ NoFault
  /\ UNCHANGED <<ledger, books, sweeper>>

DrainBatch(d) ==
  /\ drainer[d].at = "billing"
  /\ BillLedgerRows(drainer[d].bill)
  /\ drainer' = [drainer EXCEPT ![d] =
       [at |-> IF drainer[d].last THEN "drained" ELSE "listing", after |-> drainer[d].after,
        last |-> FALSE, bill |-> {}, due |-> drainer[d].due]]
  /\ NoFault
  /\ UNCHANGED <<ledger, cursor, sweeper>>

DrainFails(d) ==
  /\ drainer[d].at \in {"listing", "billing"}
  /\ Fault
  /\ drainer' = [drainer EXCEPT ![d] = [IdleDrainer EXCEPT !.at = "failed"]]
  /\ UNCHANGED <<ledger, books, sweeper>>

-----------------------------------------------------------------------------
WriteStep(e) == InsertCall(e) \/ InsertMetric(e) \/ CommitRow(e) \/ RollBackRow(e) \/ Grow(e)
FinalizeStep(r) == WriteBarrier(r) \/ Close(r) \/ CloseSynthesised(r)
SweepStep(s) ==
  \/ ReadFrontier(s) \/ SeedCursor(s) \/ ReadCursor(s)
  \/ ListLedger(s) \/ SweepBatch(s) \/ SweepFails(s)
DrainStep(d) == StartDrain(d) \/ ListForDrain(d) \/ DrainBatch(d) \/ DrainFails(d)

Next ==
  \/ \E e \in Entries : WriteStep(e)
  \/ \E r \in Runs : FinalizeStep(r)
  \/ \E s \in Sweepers : SweepStep(s)
  \/ \E d \in Drainers : DrainStep(d)

Spec == Init /\ [][Next]_vars

\* Some replica sweeps again and again, a transaction commits or is rolled back, a run
\* ends (RunTermination).
FairBillingSpec ==
  /\ Spec
  /\ WF_vars(\E s \in Sweepers : SweepStep(s))
  /\ \A e \in Entries : WF_vars(CommitRow(e))
  /\ \A r \in Runs : WF_vars(CloseSynthesised(r))

-----------------------------------------------------------------------------
\* What was billed for a row is what the row says, now and for good: each row is charged
\* once however many passes, replicas and drains read it, and none is charged before its
\* cost is final.
BilledIsFinal ==
  \A e \in Entries : charged[e] = IF e \in claimed THEN row[e].cost ELSE 0

\* A billable row above the floor that is not billed yet can still be read by a sweep,
\* also when it was committed under a watermark that had passed its id already.
NoRowOutOfReach ==
  \A e \in System : Committed(e) /\ cursor.seeded /\ row[e].id > cursor.floor =>
    e \in claimed \/ row[e].id > ScanStart(cursor.last)

\* What has fallen due, at its final cost: nothing that was settled before the cursor was
\* seeded.
Payable ==
  {e \in System : cursor.seeded /\ Committed(e) /\ Settled(e) /\ row[e].id > cursor.floor}

Promise == INSTANCE UsageRecord WITH
  Usage <- System, due <- [e \in Payable |-> row[e].cost],
  billed <- claimed, debit <- credits

\* Ledger, sweep and drain implement the abstract record of usage: whatever is read
\* twice, committed late, rolled back or split over passes, each usage is billed at most
\* once, at its final cost, and the account is debited the rounding of each context's
\* total: no remainder is dropped and none is paid twice.
ImplementsUsageRecord == Promise!UsageSpec

\* A finalize that closes the run has its usage in the ledger, where the close makes it
\* billable.
WonUsageIsKept == \A r \in Runs : finalizer[r] = "won" => Committed(r) /\ row[r].cost = MaxCost

\* A drain that has finished has billed all that was due when it began, what was
\* committed below the watermark included.
DrainBillsAllDue == \A d \in Drainers : drainer[d].at = "drained" => drainer[d].due \subseteq claimed

\* Every billable row above the floor is billed in the end.
EveryRowIsBilled ==
  \A e \in System : (Committed(e) /\ cursor.seeded /\ row[e].id > cursor.floor) ~> e \in claimed
=============================================================================
