----------------------------- MODULE BillingProofs -----------------------------
(***************************************************************************)
(* What TLAPS proves of Billing, for any number of runs, calls, replicas,  *)
(* drains, ids and faults: what is billed for a row is final, a row that   *)
(* commits late stays within the sweep's reach, nothing is billed          *)
(* retroactively, a close that wins has its usage in the ledger, the       *)
(* watermark only grows, and credits are rounded once per context.         *)
(***************************************************************************)
EXTENDS Billing, SumTheorems

LedgerStep ==
  \/ \E e \in Entries : WriteStep(e)
  \/ \E r \in Runs : FinalizeStep(r)

LEMMA IdleTyped ==
  /\ NoEntry \in RowStates
  /\ IdleSweeper \in SweeperStates
  /\ IdleDrainer \in DrainerStates
  /\ [IdleDrainer EXCEPT !.at = "failed"] \in DrainerStates
BY DEF NoEntry, IdleSweeper, IdleDrainer, RowStates, SweeperStates, DrainerStates

LEMMA TypeInit == Init => BillingTypeOK
BY IdleTyped DEF Init, BillingTypeOK, RowsNumbered, CursorStates, NoEntry

-----------------------------------------------------------------------------
(* The ledger.                                                             *)

LEMMA InsertTyped ==
  ASSUME BillingTypeOK, NEW e \in Entries, NEW state \in {"open", "barrier"}, NEW cost \in Nat,
         row[e].state = "none", Insert(e, state, cost)
  PROVE  /\ ids' = ids + 1 /\ ids' \in Nat
         /\ row' \in [Entries -> RowStates]
         /\ \A f \in Entries : row'[f] = IF f = e THEN [state |-> state, id |-> ids + 1, cost |-> cost]
                                         ELSE row[f]
         /\ RowsNumbered'
<1>1. [state |-> state, id |-> ids + 1, cost |-> cost] \in RowStates
    BY DEF BillingTypeOK, RowStates
<1>2. \A f \in Entries : row'[f] = IF f = e THEN [state |-> state, id |-> ids + 1, cost |-> cost]
                                   ELSE row[f]
    BY DEF BillingTypeOK, Insert
<1>3. ids \in Nat /\ \A f \in Entries : row[f].id \in Nat
    BY DEF BillingTypeOK, RowStates
<1>4. RowsNumbered' /\ ids' = ids + 1
    BY <1>2, <1>3 DEF BillingTypeOK, Insert, RowsNumbered
<1>5. row' \in [Entries -> RowStates]
    BY <1>1 DEF BillingTypeOK, Insert
<1>6. QED
    BY <1>2, <1>3, <1>4, <1>5

\* A row rewritten under its own id, or taken back.
LEMMA RewriteTyped ==
  ASSUME BillingTypeOK, NEW e \in Entries, NEW new \in RowStates,
         row' = [row EXCEPT ![e] = new], UNCHANGED ids,
         \/ new.id = row[e].id /\ row[e].state # "none" /\ new.state # "none"
         \/ new = NoEntry
  PROVE  /\ row' \in [Entries -> RowStates]
         /\ RowsNumbered'
<1>1. \A f \in Entries : row'[f] = IF f = e THEN new ELSE row[f]
    BY DEF BillingTypeOK
<1>2. ids \in Nat /\ \A f \in Entries : row[f].id \in Nat
    BY DEF BillingTypeOK, RowStates
<1>3. QED
    BY <1>1, <1>2 DEF BillingTypeOK, NoEntry, RowsNumbered

LEMMA LedgerTypes ==
  ASSUME BillingTypeOK, LedgerStep
  PROVE  BillingTypeOK'
<1> USE DEF Fault, NoFault, books
<1>0. Entries = Runs \cup Calls
    BY DEF Entries
<1>1. ASSUME NEW c \in Entries, InsertCall(c)
      PROVE  BillingTypeOK'
    BY <1>1, InsertTyped, PriceAssumption DEF InsertCall, BillingTypeOK
<1>2. ASSUME NEW r \in Entries, InsertMetric(r)
      PROVE  BillingTypeOK'
    BY <1>2, InsertTyped DEF InsertMetric, BillingTypeOK
<1>3. ASSUME NEW e \in Entries, CommitRow(e)
      PROVE  BillingTypeOK'
  <2>1. [state |-> "committed", id |-> row[e].id, cost |-> row[e].cost] \in RowStates
      BY DEF BillingTypeOK, RowStates
  <2>2. QED
      BY <1>3, <2>1, RewriteTyped DEF CommitRow, InFlight, BillingTypeOK
<1>4. ASSUME NEW e \in Entries, RollBackRow(e)
      PROVE  BillingTypeOK'
  <2>0. row' = [row EXCEPT ![e] = NoEntry] /\ ids' = ids
      BY <1>4 DEF RollBackRow
  <2>1. row' \in [Entries -> RowStates] /\ RowsNumbered'
      BY <2>0, RewriteTyped, IdleTyped
  <2>2. finalizer' = [finalizer EXCEPT ![e] = "idle"] \/ finalizer' = finalizer
      BY <1>4 DEF RollBackRow
  <2>3. finalizer' \in [Runs -> {"idle", "writing", "written", "won", "lost"}]
      BY <2>2 DEF BillingTypeOK
  <2>4. faults' \in Nat
      BY <1>4 DEF RollBackRow, BillingTypeOK
  <2>5. QED
      BY <1>4, <2>1, <2>3, <2>4 DEF RollBackRow, BillingTypeOK
<1>5. ASSUME NEW r \in Entries, NEW cost \in Nat, Committed(r), Raise(r, cost), UNCHANGED ids
      PROVE  /\ row' \in [Entries -> RowStates]
             /\ RowsNumbered'
  <2>1. [state |-> "committed", id |-> row[r].id, cost |-> cost] \in RowStates
      BY DEF BillingTypeOK, RowStates
  <2>2. QED
      BY <1>5, <2>1, RewriteTyped DEF Raise, Committed
<1>6. ASSUME NEW r \in Entries, Grow(r)
      PROVE  BillingTypeOK'
  <2>1. row[r].cost + 1 \in Nat
      BY DEF BillingTypeOK, RowStates
  <2>2. QED
      BY <1>5, <1>6, <2>1 DEF Grow, BillingTypeOK
<1>7. ASSUME NEW r \in Runs, WriteBarrier(r)
      PROVE  BillingTypeOK'
  <2>0. r \in Entries /\ MaxCost \in Nat
      BY <1>0, BoundsAssumption
  <2>1. CASE row[r].state = "none" /\ Insert(r, "barrier", MaxCost)
      BY <1>7, <2>0, <2>1, InsertTyped DEF WriteBarrier, BillingTypeOK, Committed
  <2>2. CASE Committed(r) /\ Raise(r, MaxCost) /\ UNCHANGED ids
      BY <1>5, <1>7, <2>0, <2>2 DEF WriteBarrier, BillingTypeOK, Committed
  <2>3. CASE UNCHANGED <<row, ids>>
      BY <1>7, <2>3 DEF WriteBarrier, BillingTypeOK, RowsNumbered
  <2>4. QED
      BY <1>7, <2>1, <2>2, <2>3 DEF WriteBarrier
<1>8. ASSUME NEW r \in Runs, Close(r) \/ CloseSynthesised(r)
      PROVE  BillingTypeOK'
    BY <1>8 DEF Close, CloseSynthesised, BillingTypeOK, RowsNumbered
<1>9. QED
    BY <1>1, <1>2, <1>3, <1>4, <1>6, <1>7, <1>8
    DEF LedgerStep, WriteStep, FinalizeStep

-----------------------------------------------------------------------------
(* What a page holds and what billing it does.                             *)

LEMMA PageRows ==
  ASSUME NEW rows \in SUBSET Entries, NEW start, NEW limit, NEW e \in Page(rows, start, limit)
  PROVE  e \in rows /\ e \in Entries /\ Committed(e) /\ row[e].id > start
BY DEF Page, Above

\* A page has every row above its start that is below one of its own.
LEMMA PageIsPrefix ==
  ASSUME BillingTypeOK, NEW rows \in SUBSET Entries, NEW start \in Int, NEW limit \in Int,
         NEW f \in Page(rows, start, limit),
         NEW e \in Above(rows, start), row[e].id <= row[f].id
  PROVE  e \in Page(rows, start, limit)
<1> DEFINE UpTo(g) == {h \in Above(rows, start) : row[h].id <= row[g].id}
<1>1. IsFiniteSet(Above(rows, start))
    BY FS_Subset, EntriesAssumption DEF Above
<1>2. IsFiniteSet(UpTo(f)) /\ IsFiniteSet(UpTo(e))
    BY <1>1, FS_Subset
<1>3. \A g \in Entries : row[g].id \in Nat
    BY DEF BillingTypeOK, RowStates
<1>4. UpTo(e) \subseteq UpTo(f)
    BY <1>3 DEF Above, Page
<1>5. Cardinality(UpTo(e)) <= Cardinality(UpTo(f))
    BY <1>2, <1>4, FS_Subset
<1>6. Cardinality(UpTo(e)) \in Nat /\ Cardinality(UpTo(f)) \in Nat
    BY <1>2, FS_CardinalityType
<1>7. Cardinality(UpTo(f)) <= limit
    BY DEF Page
<1>8. Cardinality(UpTo(e)) <= limit
    BY <1>5, <1>6, <1>7
<1>9. QED
    BY <1>8 DEF Page

LEMMA BillLines ==
  ASSUME BillingTypeOK, NEW rows \in SUBSET Entries
  PROVE  /\ Bill(rows) \in SUBSET Lines
         /\ \A e \in rows : e \in System /\ Settled(e) => \E b \in Bill(rows) : b.entry = e
         /\ \A b \in Bill(rows) : /\ b.entry \in rows /\ b.entry \in System
                                  /\ Settled(b.entry) /\ b.cost = row[b.entry].cost
<1>1. \A e \in Entries : row[e].cost \in Nat
    BY DEF BillingTypeOK, RowStates
<1>2. \A b \in Bill(rows) : \E e \in rows : e \in System /\ Settled(e) /\ b = Line(e)
    BY DEF Bill
<1>3. \A e \in rows : e \in System /\ Settled(e) => Line(e) \in Bill(rows)
    BY DEF Bill
<1>4. \A e : Line(e).entry = e /\ Line(e).cost = row[e].cost
    BY DEF Line
<1>5. \A e \in rows : Line(e) \in Lines
    BY <1>1 DEF Line, Lines
<1>6. QED
    BY <1>2, <1>3, <1>4, <1>5

LEMMA ScanStartTyped ==
  ASSUME BillingTypeOK, NEW last \in Nat
  PROVE  /\ ScanStart(last) \in Nat
         /\ ScanStart(last) >= cursor.floor
         /\ ScanStart(last) >= last - ReplayWindow
         /\ ScanStart(last) = cursor.floor \/ ScanStart(last) = last - ReplayWindow
<1>1. cursor.floor \in Nat /\ last - ReplayWindow \in Int
    BY BoundsAssumption DEF BillingTypeOK, CursorStates
<1>2. ScanStart(last) = IF cursor.floor < last - ReplayWindow THEN last - ReplayWindow ELSE cursor.floor
    BY DEF ScanStart, Larger
<1>3. QED
    BY <1>1, <1>2

LEMMA BilledTyped ==
  ASSUME BillingTypeOK, NEW bill \in SUBSET Lines, BillLedgerRows(bill)
  PROVE  claimed' \in SUBSET Entries /\ charged' \in [Entries -> Nat]
<1>1. claimed' \in SUBSET Entries
    BY DEF BillLedgerRows, BillingTypeOK, Lines
<1>2. Won(bill) \in SUBSET Lines
    BY DEF Won
<1>3. \A e \in Entries : (\E b \in Won(bill) : b.entry = e) =>
                           (CHOOSE b \in Won(bill) : b.entry = e).cost \in Nat
  <2> SUFFICES ASSUME NEW e \in Entries, NEW b \in Won(bill), b.entry = e
               PROVE  (CHOOSE c \in Won(bill) : c.entry = e).cost \in Nat
      OBVIOUS
  <2>1. (CHOOSE c \in Won(bill) : c.entry = e) \in Won(bill)
      OBVIOUS
  <2>2. QED
      BY <1>2, <2>1 DEF Lines
<1>4. charged' \in [Entries -> Nat]
  <2> DEFINE cost(e) == IF \E b \in Won(bill) : b.entry = e
                          THEN (CHOOSE b \in Won(bill) : b.entry = e).cost ELSE 0
  <2>1. \A e \in Entries : cost(e) \in Nat
      BY <1>3
  <2>2. charged' = [e \in Entries |-> charged[e] + cost(e)]
      BY DEF BillLedgerRows, Charge
  <2> HIDE DEF cost
  <2>3. QED
      BY <2>1, <2>2 DEF BillingTypeOK
<1>5. QED
    BY <1>1, <1>4

-----------------------------------------------------------------------------
(* Passes keep the types.                                                  *)

LEMMA SweepTypes ==
  ASSUME BillingTypeOK, NEW s \in Sweepers, SweepStep(s)
  PROVE  BillingTypeOK'
<1> USE DEF Fault, NoFault, books, ledger
<1>0. sweeper[s] \in SweeperStates /\ cursor \in CursorStates /\ ids \in Nat
    BY DEF BillingTypeOK
<1>1. CASE ReadFrontier(s)
  <2>1. PICK n \in 0..ids : sweeper' = [sweeper EXCEPT ![s] =
            [at |-> "seeding", from |-> 0, to |-> n, bill |-> {}]]
      BY <1>1 DEF ReadFrontier
  <2>2. [at |-> "seeding", from |-> 0, to |-> n, bill |-> {}] \in SweeperStates
      BY <1>0 DEF SweeperStates
  <2>3. QED
      BY <1>1, <2>1, <2>2 DEF ReadFrontier, BillingTypeOK, RowsNumbered
<1>2. CASE SeedCursor(s)
  <2>1. cursor' \in CursorStates
      BY <1>0, <1>2 DEF SeedCursor, CursorStates, SweeperStates
  <2>2. QED
      BY <1>2, <2>1, IdleTyped DEF SeedCursor, BillingTypeOK, RowsNumbered
<1>3. CASE ReadCursor(s)
  <2>1. [at |-> "listing", from |-> cursor.last, to |-> 0, bill |-> {}] \in SweeperStates
      BY <1>0 DEF SweeperStates, CursorStates
  <2>2. QED
      BY <1>3, <2>1 DEF ReadCursor, BillingTypeOK, RowsNumbered
<1>4. CASE ListLedger(s)
  <2>1. ASSUME NEW rows \in SUBSET Entries, NEW e \in Entries
        PROVE  [at |-> "billing", from |-> 0, to |-> row[e].id, bill |-> Bill(rows)] \in SweeperStates
      BY BillLines DEF SweeperStates, BillingTypeOK, RowStates
  <2>2. \A start, limit : Passable(Page(Entries, start, limit)) \in SUBSET Entries
      BY DEF Passable, Page, Above
  <2>3. sweeper' \in [Sweepers -> SweeperStates]
      BY <1>4, <2>1, <2>2, IdleTyped DEF ListLedger, BillingTypeOK
  <2>4. QED
      BY <1>4, <2>3 DEF ListLedger, BillingTypeOK, RowsNumbered
<1>5. CASE SweepBatch(s)
  <2>1. claimed' \in SUBSET Entries /\ charged' \in [Entries -> Nat]
      BY <1>0, <1>5, BilledTyped DEF SweepBatch, SweeperStates
  <2>2. cursor' \in CursorStates
      BY <1>0, <1>5 DEF SweepBatch, CursorStates, SweeperStates, Larger
  <2>3. QED
      BY <1>5, <2>1, <2>2, IdleTyped DEF SweepBatch, BillingTypeOK, RowsNumbered
<1>6. CASE SweepFails(s)
    BY <1>6, IdleTyped DEF SweepFails, BillingTypeOK, RowsNumbered
<1>7. QED
    BY <1>1, <1>2, <1>3, <1>4, <1>5, <1>6 DEF SweepStep

LEMMA DrainTypes ==
  ASSUME BillingTypeOK, NEW d \in Drainers, DrainStep(d)
  PROVE  BillingTypeOK'
<1> USE DEF Fault, NoFault, books, ledger
<1>0. drainer[d] \in DrainerStates /\ cursor \in CursorStates
    BY DEF BillingTypeOK
<1>1. CASE StartDrain(d)
  <2>1. ScanStart(cursor.last) \in Nat
      BY <1>0, ScanStartTyped DEF CursorStates
  <2>2. [at |-> "listing", after |-> ScanStart(cursor.last), last |-> FALSE, bill |-> {},
         due |-> Due] \in DrainerStates
      BY <2>1, EntriesAssumption DEF DrainerStates, Due
  <2>3. QED
      BY <1>1, <2>2 DEF StartDrain, BillingTypeOK, RowsNumbered
<1>2. CASE ListForDrain(d)
  <2>1. ASSUME NEW rows \in SUBSET Entries, NEW e \in Entries, NEW last \in BOOLEAN
        PROVE  [at |-> "billing", after |-> row[e].id, last |-> last, bill |-> Bill(rows),
                due |-> drainer[d].due] \in DrainerStates
    <3>1. row[e].id \in Nat /\ Bill(rows) \in SUBSET Lines /\ drainer[d].due \in SUBSET Entries
        BY <1>0, BillLines DEF DrainerStates, BillingTypeOK, RowStates
    <3>2. QED
        BY <3>1 DEF DrainerStates
  <2>2. [at |-> "drained", after |-> drainer[d].after, last |-> FALSE, bill |-> {},
         due |-> drainer[d].due] \in DrainerStates
      BY <1>0 DEF DrainerStates
  <2>3. \A start, limit : Page(System, start, limit) \in SUBSET Entries
      BY EntriesAssumption DEF Page, Above
  <2>4. \E new \in DrainerStates : drainer' = [drainer EXCEPT ![d] = new]
    <3> DEFINE page == Page(System, drainer[d].after, BatchSize)
    <3>1. CASE page = {}
        BY <1>2, <2>2, <3>1 DEF ListForDrain
    <3>2. CASE page # {}
      <4>1. PICK e \in page : drainer' = [drainer EXCEPT ![d] =
                [at |-> "billing", after |-> row[e].id, last |-> Cardinality(page) < BatchSize,
                 bill |-> Bill(page), due |-> drainer[d].due]]
          BY <1>2, <3>2 DEF ListForDrain
      <4>2. (Cardinality(page) < BatchSize) \in BOOLEAN
          OBVIOUS
      <4>3. e \in Entries /\ page \in SUBSET Entries
          BY <2>3
      <4> HIDE DEF page
      <4>4. QED
          BY <2>1, <4>1, <4>2, <4>3
    <3>3. QED
        BY <3>1, <3>2
  <2>5. drainer' \in [Drainers -> DrainerStates]
      BY <2>4 DEF BillingTypeOK
  <2>6. QED
      BY <1>2, <2>5 DEF ListForDrain, BillingTypeOK, RowsNumbered
<1>3. CASE DrainBatch(d)
  <2>1. claimed' \in SUBSET Entries /\ charged' \in [Entries -> Nat]
      BY <1>0, <1>3, BilledTyped DEF DrainBatch, DrainerStates
  <2>2. \A at \in {"drained", "listing"} :
          [at |-> at, after |-> drainer[d].after, last |-> FALSE, bill |-> {},
           due |-> drainer[d].due] \in DrainerStates
      BY <1>0 DEF DrainerStates
  <2>3. drainer' \in [Drainers -> DrainerStates]
      BY <1>3, <2>2 DEF DrainBatch, BillingTypeOK
  <2>4. QED
      BY <1>3, <2>1, <2>3 DEF DrainBatch, BillingTypeOK, RowsNumbered
<1>4. CASE DrainFails(d)
    BY <1>4, IdleTyped DEF DrainFails, BillingTypeOK, RowsNumbered
<1>5. QED
    BY <1>1, <1>2, <1>3, <1>4 DEF DrainStep

LEMMA TypeNext == BillingTypeOK /\ [Next]_vars => BillingTypeOK'
<1> SUFFICES ASSUME BillingTypeOK, [Next]_vars PROVE BillingTypeOK'
    OBVIOUS
<1>1. CASE UNCHANGED vars
    BY <1>1 DEF vars, ledger, books, BillingTypeOK, RowsNumbered
<1>2. QED
    BY <1>1, LedgerTypes, SweepTypes, DrainTypes DEF Next, LedgerStep

\* Ids are taken once and everything has its type, however many actors run.
THEOREM BillingTypes == Spec => []BillingTypeOK
BY TypeInit, TypeNext, PTL DEF Spec

-----------------------------------------------------------------------------
(* What the ledger's writers leave alone.                                  *)

LEMMA RunRows == \A r \in Runs : r \in Entries /\ r \notin Calls
BY EntriesAssumption DEF Entries

LEMMA LedgerKeeps ==
  ASSUME BillingTypeOK, LedgerStep
  PROVE  /\ UNCHANGED <<cursor, claimed, charged, spent, credits, sweeper, drainer>>
         /\ \A e \in Entries : Committed(e) => /\ Committed(e)' /\ row'[e].id = row[e].id
                                               /\ Settled(e) => Settled(e)' /\ row'[e] = row[e]
<1>1. UNCHANGED <<cursor, claimed, charged, spent, credits, sweeper, drainer>>
    BY DEF LedgerStep, WriteStep, FinalizeStep, InsertCall, InsertMetric, CommitRow, RollBackRow,
           Grow, WriteBarrier, Close, CloseSynthesised, books
<1>2. ASSUME NEW e \in Entries, NEW f \in Entries, Committed(e),
             NEW state, NEW cost, row[f].state = "none", Insert(f, state, cost)
      PROVE  row'[e] = row[e]
    BY <1>2 DEF Insert, Committed, BillingTypeOK
<1>3. ASSUME NEW e \in Entries, NEW f \in Entries, Committed(e), WriteStep(f)
      PROVE  \/ row'[e] = row[e] /\ UNCHANGED run
             \/ /\ e \in Runs /\ run[e] = "active" /\ UNCHANGED run
                /\ row'[e].state = "committed" /\ row'[e].id = row[e].id
    BY <1>2, <1>3, RunRows
    DEF WriteStep, InsertCall, InsertMetric, CommitRow, RollBackRow, Grow, Raise, InFlight,
        Committed, BillingTypeOK
<1>4. ASSUME NEW e \in Entries, NEW r \in Runs, Committed(e), WriteBarrier(r)
      PROVE  \/ row'[e] = row[e] /\ UNCHANGED run
             \/ /\ e \in Runs /\ run[e] = "active" /\ UNCHANGED run
                /\ row'[e].state = "committed" /\ row'[e].id = row[e].id
    BY <1>2, <1>4, RunRows DEF WriteBarrier, Raise, Committed, BillingTypeOK
<1>5. ASSUME NEW e \in Entries, NEW r \in Runs, Close(r) \/ CloseSynthesised(r)
      PROVE  row' = row /\ (e \in Runs /\ run[e] = "terminal" => run'[e] = "terminal")
    BY <1>5 DEF Close, CloseSynthesised, BillingTypeOK
<1>6. ASSUME NEW e \in Entries, Committed(e)
      PROVE  /\ Committed(e)' /\ row'[e].id = row[e].id
             /\ Settled(e) => Settled(e)' /\ row'[e] = row[e]
  <2>1. e \in Runs \/ e \in Calls
      BY DEF Entries
  <2>2. CASE \/ row'[e] = row[e] /\ UNCHANGED run
             \/ /\ e \in Runs /\ run[e] = "active" /\ UNCHANGED run
                /\ row'[e].state = "committed" /\ row'[e].id = row[e].id
      BY <1>6, <2>1, <2>2, RunRows DEF Committed, Settled
  <2>3. CASE row' = row /\ (e \in Runs /\ run[e] = "terminal" => run'[e] = "terminal")
      BY <1>6, <2>1, <2>3 DEF Committed, Settled
  <2>4. QED
      BY <1>3, <1>4, <1>5, <1>6, <2>2, <2>3 DEF LedgerStep, FinalizeStep
<1>7. QED
    BY <1>1, <1>6

\* Sweeps and drains read the ledger and never write it.
LEMMA PassesLeaveLedger ==
  ASSUME (\E s \in Sweepers : SweepStep(s)) \/ (\E d \in Drainers : DrainStep(d)) \/ UNCHANGED vars
  PROVE  UNCHANGED <<ids, row, run, finalizer>>
BY DEF SweepStep, ReadFrontier, SeedCursor, ReadCursor, ListLedger, SweepBatch, SweepFails,
       DrainStep, StartDrain, ListForDrain, DrainBatch, DrainFails, ledger, vars

-----------------------------------------------------------------------------
(* A close that wins has its usage in the ledger.                          *)

BarrierInv == \A r \in Runs :
  /\ row[r].state = "barrier" => row[r].cost = MaxCost
  /\ finalizer[r] = "written" /\ run[r] = "active" => Committed(r) /\ row[r].cost = MaxCost
  /\ finalizer[r] = "won" => Committed(r) /\ row[r].cost = MaxCost /\ run[r] = "terminal"

LEMMA BarrierNext == BillingTypeOK /\ BarrierInv /\ [Next]_vars => BarrierInv'
<1> SUFFICES ASSUME BillingTypeOK, BarrierInv, [Next]_vars, NEW q \in Runs
             PROVE  /\ row'[q].state = "barrier" => row'[q].cost = MaxCost
                    /\ finalizer'[q] = "written" /\ run'[q] = "active" =>
                         row'[q].state = "committed" /\ row'[q].cost = MaxCost
                    /\ finalizer'[q] = "won" => /\ row'[q].state = "committed"
                                                /\ row'[q].cost = MaxCost /\ run'[q] = "terminal"
    BY DEF BarrierInv, Committed
<1> USE RunRows DEF BarrierInv, Committed, BillingTypeOK
<1>0. row[q].cost \in Nat /\ MaxCost \in Nat /\ q \in Entries
    BY BoundsAssumption DEF RowStates
<1>1. ASSUME NEW f \in Entries, InsertCall(f) \/ InsertMetric(f)
      PROVE  /\ UNCHANGED <<run, finalizer>>
             /\ \/ row'[q] = row[q]
                \/ row[q].state = "none" /\ row'[q].state = "open"
    BY <1>0, <1>1 DEF InsertCall, InsertMetric, Insert
<1>2. ASSUME NEW f \in Entries, CommitRow(f) \/ RollBackRow(f)
      PROVE  /\ UNCHANGED run
             /\ \/ UNCHANGED <<row[q], finalizer[q]>>
                \/ /\ row[q].state = "barrier" /\ row'[q].state = "committed"
                   /\ row'[q].cost = row[q].cost /\ finalizer'[q] = "written"
                \/ /\ row[q].state = "open" /\ row'[q].state \in {"committed", "none"}
                   /\ finalizer'[q] = finalizer[q]
                \/ row[q].state = "barrier" /\ row'[q].state = "none" /\ finalizer'[q] = "idle"
    BY <1>0, <1>2 DEF CommitRow, RollBackRow, InFlight, NoEntry
<1>3. ASSUME NEW f \in Entries, Grow(f)
      PROVE  /\ UNCHANGED <<run, finalizer>>
             /\ \/ row'[q] = row[q]
                \/ row'[q].state = "committed" /\ run[q] = "active" /\ row[q].cost < MaxCost
    BY <1>0, <1>3 DEF Grow, Raise
<1>4. ASSUME NEW r \in Runs, WriteBarrier(r)
      PROVE  /\ UNCHANGED run
             /\ \/ UNCHANGED <<row[q], finalizer[q]>>
                \/ row'[q].state = "barrier" /\ row'[q].cost = MaxCost /\ finalizer'[q] = "writing"
                \/ row'[q].state = "committed" /\ row'[q].cost = MaxCost /\ finalizer'[q] = "written"
                \/ run[q] = "terminal" /\ row'[q] = row[q] /\ finalizer'[q] = "written"
    BY <1>0, <1>4 DEF WriteBarrier, Insert, Raise
<1>5. ASSUME NEW r \in Runs, Close(r) \/ CloseSynthesised(r)
      PROVE  /\ UNCHANGED row
             /\ \/ UNCHANGED <<run[q], finalizer[q]>>
                \/ run'[q] = "terminal" /\ finalizer'[q] = finalizer[q]
                \/ /\ run'[q] = "terminal" /\ finalizer[q] = "written"
                   /\ finalizer'[q] = IF run[q] = "active" THEN "won" ELSE "lost"
    BY <1>5 DEF Close, CloseSynthesised
<1>6. CASE UNCHANGED <<ids, row, run, finalizer>>
    BY <1>6
<1>7. CASE LedgerStep
    BY <1>0, <1>1, <1>2, <1>3, <1>4, <1>5, <1>7 DEF LedgerStep, WriteStep, FinalizeStep
<1>8. QED
    BY <1>6, <1>7, PassesLeaveLedger DEF Next, LedgerStep

\* A finalize that wins the close has its usage in the ledger, whatever the metric events,
\* the retries and the other closes did.
THEOREM UsageIsKept == Spec => []WonUsageIsKept
<1>1. Init => BarrierInv
    BY RunRows DEF Init, BarrierInv, NoEntry
<1>2. BarrierInv => WonUsageIsKept
    BY DEF BarrierInv, WonUsageIsKept
<1>3. BillingTypeOK /\ BarrierInv /\ [Next]_vars => (BillingTypeOK /\ BarrierInv)'
    BY TypeNext, BarrierNext
<1>4. QED
    BY TypeInit, <1>1, <1>2, <1>3, PTL DEF Spec

-----------------------------------------------------------------------------
(* What passes carry and what was billed is final, and above the floor.    *)

Final(b) ==
  /\ b.entry \in System /\ Committed(b.entry) /\ Settled(b.entry)
  /\ b.cost = row[b.entry].cost

Billable(b) == Final(b) /\ row[b.entry].id > cursor.floor

\* Before the cursor is seeded nobody reads rows.
SeedInv ==
  /\ cursor.floor <= cursor.last
  /\ \A s \in Sweepers : sweeper[s].at \in {"listing", "billing"} => cursor.seeded
  /\ \A d \in Drainers : drainer[d].at \in {"listing", "billing"} => cursor.seeded
  /\ ~ cursor.seeded => cursor.last = 0 /\ claimed = {}

BillInv ==
  /\ \A s \in Sweepers : \A b \in sweeper[s].bill : Billable(b) /\ sweeper[s].at = "billing"
  /\ \A d \in Drainers : \A b \in drainer[d].bill : Billable(b) /\ drainer[d].at = "billing"
  /\ \A d \in Drainers : drainer[d].at \in {"listing", "billing"} => drainer[d].after >= cursor.floor

ClaimInv ==
  /\ \A e \in claimed : e \in System /\ Committed(e) /\ Settled(e) /\ row[e].id > cursor.floor
  /\ BilledIsFinal

LEMMA SeedNext == BillingTypeOK /\ SeedInv /\ [Next]_vars => SeedInv'
<1> SUFFICES ASSUME BillingTypeOK, SeedInv, [Next]_vars PROVE SeedInv'
    OBVIOUS
<1> USE DEF SeedInv
<1>0. /\ cursor.last \in Nat /\ cursor.floor \in Nat
      /\ \A s \in Sweepers : sweeper[s].to \in Nat
    BY DEF BillingTypeOK, CursorStates, SweeperStates
<1>1. CASE LedgerStep
    BY <1>1, LedgerKeeps
<1>2. ASSUME NEW s \in Sweepers, SweepStep(s)
      PROVE  SeedInv'
  <2>1. CASE ReadFrontier(s)
      BY <2>1 DEF ReadFrontier, books, BillingTypeOK
  <2>2. CASE SeedCursor(s)
      BY <1>0, <2>2 DEF SeedCursor, BillingTypeOK, IdleSweeper
  <2>3. CASE ReadCursor(s)
      BY <2>3 DEF ReadCursor, books, BillingTypeOK
  <2>4. CASE ListLedger(s)
      BY <2>4 DEF ListLedger, books, BillingTypeOK, IdleSweeper
  <2>5. CASE SweepBatch(s)
      BY <1>0, <2>5 DEF SweepBatch, BillingTypeOK, IdleSweeper, Larger
  <2>6. CASE SweepFails(s)
      BY <2>6 DEF SweepFails, books, BillingTypeOK, IdleSweeper
  <2>7. QED
      BY <1>2, <2>1, <2>2, <2>3, <2>4, <2>5, <2>6 DEF SweepStep
<1>3. ASSUME NEW d \in Drainers, DrainStep(d)
      PROVE  SeedInv'
  <2>1. CASE StartDrain(d)
      BY <2>1 DEF StartDrain, books, BillingTypeOK
  <2>2. CASE ListForDrain(d)
      BY <2>2 DEF ListForDrain, books, BillingTypeOK
  <2>3. CASE DrainBatch(d)
      BY <2>3 DEF DrainBatch, BillingTypeOK
  <2>4. CASE DrainFails(d)
      BY <2>4 DEF DrainFails, books, BillingTypeOK, IdleDrainer
  <2>5. QED
      BY <1>3, <2>1, <2>2, <2>3, <2>4 DEF DrainStep
<1>4. CASE UNCHANGED vars
    BY <1>4 DEF vars, books
<1>5. QED
    BY <1>1, <1>2, <1>3, <1>4 DEF Next, LedgerStep

-----------------------------------------------------------------------------
(* Billing what is final.                                                  *)

LEMMA BillingKeepsClaims ==
  ASSUME BillingTypeOK, ClaimInv, NEW bill \in SUBSET Lines, \A b \in bill : Billable(b),
         BillLedgerRows(bill), UNCHANGED <<row, run>>, cursor'.floor = cursor.floor
  PROVE  ClaimInv'
<1>1. claimed' = claimed \cup {b.entry : b \in bill} /\ charged' = Charge(Won(bill))
    BY DEF BillLedgerRows
<1>2. \A e \in claimed' : e \in System /\ Committed(e)' /\ Settled(e)' /\ row'[e].id > cursor'.floor
    BY <1>1 DEF ClaimInv, Billable, Final, Committed, Settled
<1>3. ASSUME NEW e \in Entries
      PROVE  charged'[e] = IF e \in claimed' THEN row'[e].cost ELSE 0
  <2>0. /\ charged[e] = (IF e \in claimed THEN row[e].cost ELSE 0)
        /\ charged[e] \in Nat /\ row[e].cost \in Nat
      BY DEF ClaimInv, BilledIsFinal, BillingTypeOK, RowStates
  <2>1. charged'[e] = charged[e] + (IF \E b \in Won(bill) : b.entry = e
                                      THEN (CHOOSE b \in Won(bill) : b.entry = e).cost ELSE 0)
      BY <1>1 DEF Charge
  <2>2. CASE \E b \in Won(bill) : b.entry = e
    <3>1. PICK c \in Won(bill) : c = (CHOOSE b \in Won(bill) : b.entry = e) /\ c.entry = e
        BY <2>2
    <3>2. c \in bill /\ e \notin claimed
        BY <3>1 DEF Won
    <3>3. c.cost = row[e].cost
        BY <3>1, <3>2 DEF Billable, Final
    <3>4. e \in claimed'
        BY <1>1, <3>1, <3>2
    <3>5. charged'[e] = charged[e] + c.cost
        BY <2>1, <2>2, <3>1
    <3>6. QED
        BY <2>0, <3>2, <3>3, <3>4, <3>5
  <2>3. CASE ~ \E b \in Won(bill) : b.entry = e
    <3>1. e \in claimed' <=> e \in claimed
        BY <1>1, <2>3 DEF Won
    <3>2. QED
        BY <2>0, <2>1, <2>3, <3>1
  <2>4. QED
      BY <2>2, <2>3
<1>4. QED
    BY <1>2, <1>3 DEF ClaimInv, BilledIsFinal

LEMMA ClaimNext ==
  BillingTypeOK /\ SeedInv /\ BillInv /\ ClaimInv /\ [Next]_vars => ClaimInv'
<1> SUFFICES ASSUME BillingTypeOK, SeedInv, BillInv, ClaimInv, [Next]_vars PROVE ClaimInv'
    OBVIOUS
<1>1. CASE LedgerStep
  <2>1. UNCHANGED <<cursor, claimed, charged>>
      BY <1>1, LedgerKeeps
  <2>2. \A e \in claimed : /\ e \in Entries /\ e \in System
                           /\ Committed(e)' /\ Settled(e)' /\ row'[e] = row[e]
      BY <1>1, LedgerKeeps DEF ClaimInv, BillingTypeOK
  <2>3. QED
      BY <2>1, <2>2 DEF ClaimInv, BilledIsFinal
<1>2. ASSUME UNCHANGED <<row, run, claimed, charged>>,
             cursor'.floor = cursor.floor \/ claimed = {}
      PROVE  ClaimInv'
    BY <1>2 DEF ClaimInv, BilledIsFinal, Committed, Settled
<1>3. ASSUME NEW s \in Sweepers, SweepStep(s)
      PROVE  ClaimInv'
  <2>1. CASE SweepBatch(s)
    <3>1. sweeper[s].bill \in SUBSET Lines /\ \A b \in sweeper[s].bill : Billable(b)
        BY DEF BillingTypeOK, SweeperStates, BillInv
    <3>2. QED
        BY <2>1, <3>1, BillingKeepsClaims DEF SweepBatch, ledger
  <2>2. CASE SeedCursor(s)
      BY <1>2, <2>2 DEF SeedCursor, SeedInv, ledger
  <2>3. QED
      BY <1>2, <1>3, <2>1, <2>2
      DEF SweepStep, ReadFrontier, ReadCursor, ListLedger, SweepFails, ledger, books
<1>4. ASSUME NEW d \in Drainers, DrainStep(d)
      PROVE  ClaimInv'
  <2>1. CASE DrainBatch(d)
    <3>1. drainer[d].bill \in SUBSET Lines /\ \A b \in drainer[d].bill : Billable(b)
        BY DEF BillingTypeOK, DrainerStates, BillInv
    <3>2. QED
        BY <2>1, <3>1, BillingKeepsClaims DEF DrainBatch, ledger
  <2>2. QED
      BY <1>2, <1>4, <2>1 DEF DrainStep, StartDrain, ListForDrain, DrainFails, ledger, books
<1>5. CASE UNCHANGED vars
    BY <1>2, <1>5 DEF vars, ledger, books
<1>6. QED
    BY <1>1, <1>3, <1>4, <1>5 DEF Next, LedgerStep

LEMMA BillableStays ==
  ASSUME BillingTypeOK, SeedInv, [Next]_vars, NEW b \in Lines, Billable(b), cursor.seeded
  PROVE  Billable(b)' /\ cursor'.floor = cursor.floor
<1>0. b.entry \in Entries
    BY DEF Lines
<1>1. CASE LedgerStep
    BY <1>0, <1>1, LedgerKeeps DEF Billable, Final
<1>2. CASE UNCHANGED <<row, run>> /\ cursor'.floor = cursor.floor
    BY <1>0, <1>2 DEF Billable, Final, Committed, Settled
<1>3. ASSUME NEW s \in Sweepers, SweepStep(s)
      PROVE  cursor'.floor = cursor.floor
    BY <1>3 DEF SweepStep, SeedCursor, SweepBatch, ReadFrontier, ReadCursor, ListLedger, SweepFails, books
<1>4. ASSUME NEW d \in Drainers, DrainStep(d)
      PROVE  cursor'.floor = cursor.floor
    BY <1>4 DEF DrainStep, StartDrain, ListForDrain, DrainBatch, DrainFails, books
<1>5. QED
    BY <1>1, <1>2, <1>3, <1>4, PassesLeaveLedger DEF Next, LedgerStep, vars, books

\* The lines a pass or a drain reads are final, and above the floor its page starts from.
LEMMA PageBillable ==
  ASSUME BillingTypeOK, NEW all \in SUBSET Entries, NEW start \in Nat, NEW limit,
         start >= cursor.floor,
         NEW rows \in SUBSET Page(all, start, limit), NEW b \in Bill(rows)
  PROVE  Billable(b)
<1>1. rows \in SUBSET Entries
    BY PageRows
<1>2. /\ b.entry \in rows /\ b.entry \in System
      /\ Settled(b.entry) /\ b.cost = row[b.entry].cost
    BY <1>1, BillLines
<1>3. Committed(b.entry) /\ row[b.entry].id > start /\ row[b.entry].id \in Nat
    BY <1>1, <1>2, PageRows DEF BillingTypeOK, RowStates
<1>4. cursor.floor \in Nat
    BY DEF BillingTypeOK, CursorStates
<1>5. QED
    BY <1>2, <1>3, <1>4 DEF Billable, Final

\* A pass that carries a bill, or an empty one, carries on with it.
LEMMA BillsCarried ==
  ASSUME BillingTypeOK, SeedInv, BillInv, [Next]_vars
  PROVE  /\ \A s \in Sweepers : \A b \in sweeper[s].bill : Billable(b)'
         /\ \A d \in Drainers : \A b \in drainer[d].bill : Billable(b)'
         /\ cursor.seeded => cursor'.floor = cursor.floor
<1>1. \A s \in Sweepers : \A b \in sweeper[s].bill : b \in Lines /\ Billable(b) /\ cursor.seeded
    BY DEF BillInv, SeedInv, BillingTypeOK, SweeperStates
<1>2. \A d \in Drainers : \A b \in drainer[d].bill : b \in Lines /\ Billable(b) /\ cursor.seeded
    BY DEF BillInv, SeedInv, BillingTypeOK, DrainerStates
<1>3. cursor.seeded => cursor'.floor = cursor.floor
    BY LedgerKeeps
    DEF Next, LedgerStep, SweepStep, SeedCursor, SweepBatch, ReadFrontier, ReadCursor, ListLedger,
        SweepFails, DrainStep, StartDrain, ListForDrain, DrainBatch, DrainFails, books, vars
<1>4. QED
    BY <1>1, <1>2, <1>3, BillableStays

LEMMA BillNext == BillingTypeOK /\ SeedInv /\ BillInv /\ [Next]_vars => BillInv'
<1> SUFFICES ASSUME BillingTypeOK, SeedInv, BillInv, [Next]_vars PROVE BillInv'
    OBVIOUS
<1>0. cursor.floor \in Nat /\ cursor.last \in Nat
    BY DEF BillingTypeOK, CursorStates
<1>1. ASSUME UNCHANGED <<sweeper, drainer>>
      PROVE  BillInv'
    BY <1>1, BillsCarried DEF BillInv, SeedInv
<1>2. CASE LedgerStep \/ UNCHANGED vars
    BY <1>1, <1>2, LedgerKeeps DEF vars
<1>3. ASSUME NEW s \in Sweepers, SweepStep(s)
      PROVE  BillInv'
  <2>1. drainer' = drainer
      BY <1>3 DEF SweepStep, SeedCursor, SweepBatch, ReadFrontier, ReadCursor, ListLedger, SweepFails
  <2>2. ASSUME \A b \in sweeper'[s].bill : Billable(b)' /\ sweeper'[s].at = "billing",
               \A q \in Sweepers : q # s => sweeper'[q] = sweeper[q]
        PROVE  BillInv'
      BY <2>1, <2>2, BillsCarried DEF BillInv, SeedInv
  <2>3. CASE ListLedger(s)
    <3> DEFINE start == ScanStart(sweeper[s].from)
               page == Page(Entries, start, sweeper[s].from - start + BatchSize)
    <3>1. start \in Nat /\ start >= cursor.floor
        BY ScanStartTyped DEF BillingTypeOK, SweeperStates
    <3>2. Passable(page) \in SUBSET page
        BY DEF Passable
    <3>3. \A b \in Bill(Passable(page)) : Billable(b)
      <4> HIDE DEF start
      <4>1. QED
          BY <3>1, <3>2, PageBillable
    <3>4. \A b : Billable(b) => Billable(b)'
        BY <2>3 DEF ListLedger, ledger, books, Billable, Final, Committed, Settled
    <3>5. \A q \in Sweepers : q # s => sweeper'[q] = sweeper[q]
        BY <2>3 DEF ListLedger, BillingTypeOK
    <3>6. \A b \in sweeper'[s].bill : b \in Bill(Passable(page)) /\ sweeper'[s].at = "billing"
        BY <2>3 DEF ListLedger, BillingTypeOK, IdleSweeper
    <3>7. QED
        BY <2>2, <3>3, <3>4, <3>5, <3>6
  <2>4. CASE ~ ListLedger(s)
    <3>1. sweeper'[s].bill = {} /\ \A q \in Sweepers : q # s => sweeper'[q] = sweeper[q]
        BY <1>3, <2>4
        DEF SweepStep, SeedCursor, SweepBatch, ReadFrontier, ReadCursor, SweepFails, IdleSweeper,
            BillingTypeOK
    <3>2. QED
        BY <2>2, <3>1
  <2>5. QED
      BY <2>3, <2>4
<1>4. ASSUME NEW d \in Drainers, DrainStep(d)
      PROVE  BillInv'
  <2>1. sweeper' = sweeper /\ cursor' = cursor
      BY <1>4 DEF DrainStep, StartDrain, ListForDrain, DrainBatch, DrainFails, books
  <2>2. ASSUME \A b \in drainer'[d].bill : Billable(b)' /\ drainer'[d].at = "billing",
               drainer'[d].at \in {"listing", "billing"} => drainer'[d].after >= cursor.floor,
               \A q \in Drainers : q # d => drainer'[q] = drainer[q]
        PROVE  BillInv'
      BY <2>1, <2>2, BillsCarried DEF BillInv
  <2>3. CASE StartDrain(d)
    <3>1. /\ drainer'[d].bill = {} /\ drainer'[d].after = ScanStart(cursor.last)
          /\ \A q \in Drainers : q # d => drainer'[q] = drainer[q]
        BY <2>3 DEF StartDrain, BillingTypeOK
    <3>2. QED
        BY <1>0, <2>2, <3>1, ScanStartTyped
  <2>4. CASE ListForDrain(d)
    <3> DEFINE page == Page(System, drainer[d].after, BatchSize)
    <3>1. /\ drainer[d].after \in Nat /\ drainer[d].after >= cursor.floor
          /\ System \in SUBSET Entries
        BY <2>4, EntriesAssumption DEF ListForDrain, BillInv, BillingTypeOK, DrainerStates
    <3>2. \A b \in Bill(page) : Billable(b)
        BY <3>1, PageBillable
    <3>3. \A b : Billable(b) => Billable(b)'
        BY <2>4 DEF ListForDrain, ledger, books, Billable, Final, Committed, Settled
    <3>4. \A e \in page : row[e].id >= cursor.floor
      <4>1. \A e \in page : row[e].id \in Nat /\ row[e].id > drainer[d].after
          BY <3>1, PageRows DEF BillingTypeOK, RowStates
      <4> HIDE DEF page
      <4>2. QED
          BY <1>0, <3>1, <4>1
    <3>5. /\ \A b \in drainer'[d].bill : b \in Bill(page) /\ drainer'[d].at = "billing"
          /\ drainer'[d].at \in {"listing", "billing"} => \E e \in page : drainer'[d].after = row[e].id
          /\ \A q \in Drainers : q # d => drainer'[q] = drainer[q]
        BY <2>4 DEF ListForDrain, BillingTypeOK
    <3> HIDE DEF page
    <3>6. QED
        BY <2>2, <3>2, <3>3, <3>4, <3>5
  <2>5. CASE DrainBatch(d)
    <3>1. /\ drainer'[d].bill = {} /\ drainer'[d].after = drainer[d].after
          /\ \A q \in Drainers : q # d => drainer'[q] = drainer[q]
          /\ drainer[d].at = "billing"
        BY <2>5 DEF DrainBatch, BillingTypeOK
    <3>2. QED
        BY <2>2, <3>1 DEF BillInv
  <2>6. CASE DrainFails(d)
    <3>1. /\ drainer'[d].bill = {} /\ drainer'[d].at = "failed"
          /\ \A q \in Drainers : q # d => drainer'[q] = drainer[q]
        BY <2>6 DEF DrainFails, BillingTypeOK, IdleDrainer
    <3>2. QED
        BY <2>2, <3>1
  <2>7. QED
      BY <1>4, <2>3, <2>4, <2>5, <2>6 DEF DrainStep
<1>5. QED
    BY <1>2, <1>3, <1>4 DEF Next, LedgerStep

LEMMA BooksInit == Init => SeedInv /\ BillInv /\ ClaimInv
BY DEF Init, SeedInv, BillInv, ClaimInv, BilledIsFinal, IdleSweeper, IdleDrainer

LEMMA BooksNext ==
  /\ BillingTypeOK /\ SeedInv /\ BillInv /\ ClaimInv /\ [Next]_vars
     => (BillingTypeOK /\ SeedInv /\ BillInv /\ ClaimInv)'
BY TypeNext, SeedNext, BillNext, ClaimNext

\* Each row is charged once, at its final cost, by whichever passes and drains read it.
THEOREM BillsAreFinal == Spec => []BilledIsFinal
<1>1. ClaimInv => BilledIsFinal
    BY DEF ClaimInv
<1>2. QED
    BY TypeInit, BooksInit, BooksNext, <1>1, PTL DEF Spec

\* Nothing that was settled before the cursor was seeded is ever billed.
NothingBilledRetroactively == \A e \in claimed : row[e].id > cursor.floor

\* The floor holds for good, whatever the sweep re-reads below its watermark.
THEOREM NoRetroactiveBill == Spec => []NothingBilledRetroactively
<1>1. ClaimInv => NothingBilledRetroactively
    BY DEF ClaimInv, NothingBilledRetroactively
<1>2. QED
    BY TypeInit, BooksInit, BooksNext, <1>1, PTL DEF Spec

-----------------------------------------------------------------------------
(* A row that commits under the watermark stays within the sweep's reach.  *)

\* Billable one day, visible, and not billed yet.
Outstanding(e) ==
  e \in System /\ Committed(e) /\ row[e].id > cursor.floor /\ e \notin claimed

\* No transaction is so old, and no pass has read further than the ids go.
WindowInv ==
  /\ \A e \in Entries : InFlight(e) => ids < row[e].id + ReplayWindow
  /\ cursor.last <= ids
  /\ \A s \in Sweepers : sweeper[s].to <= ids

\* A watermark, or one a pass is about to write, leaves an outstanding row within the
\* window unless that pass bills it.
ReachInv ==
  /\ \A s \in Sweepers : sweeper[s].at = "listing" => sweeper[s].from <= cursor.last
  /\ cursor.seeded => \A e \in System : Outstanding(e) => cursor.last < row[e].id + ReplayWindow
  /\ \A s \in Sweepers : sweeper[s].at = "billing" =>
       \A e \in System : Outstanding(e) =>
         \/ sweeper[s].to < row[e].id + ReplayWindow
         \/ \E b \in sweeper[s].bill : b.entry = e

LEMMA Numbers ==
  ASSUME BillingTypeOK
  PROVE  /\ ids \in Nat /\ cursor.last \in Nat /\ cursor.floor \in Nat /\ ReplayWindow \in Nat \ {0}
         /\ \A e \in Entries : row[e].id \in Nat /\ row[e].id <= ids
         /\ \A s \in Sweepers : sweeper[s].to \in Nat /\ sweeper[s].from \in Nat
         /\ System \in SUBSET Entries
BY BoundsAssumption, EntriesAssumption
DEF BillingTypeOK, RowsNumbered, CursorStates, SweeperStates, RowStates

LEMMA WindowNext == BillingTypeOK /\ WindowInv /\ [Next]_vars => WindowInv'
<1> SUFFICES ASSUME BillingTypeOK, WindowInv, [Next]_vars PROVE WindowInv'
    OBVIOUS
<1> USE Numbers DEF WindowInv
<1>1. CASE LedgerStep
  <2>1. UNCHANGED <<cursor, sweeper>>
      BY <1>1, LedgerKeeps
  <2>2. ASSUME NEW e \in Entries, NEW state, NEW cost, Insert(e, state, cost)
        PROVE  WindowInv'
    <3>1. /\ ids' = ids + 1
          /\ \A f \in Entries : f # e => row'[f] = row[f]
          /\ row'[e].id = ids + 1
          /\ \A f \in Entries : InFlight(f) => ids + 1 < row[f].id + ReplayWindow
        BY <2>2 DEF Insert, WindowSpansCommits, BillingTypeOK
    <3>2. \A f \in Entries : InFlight(f)' => ids' < row'[f].id + ReplayWindow
      <4> SUFFICES ASSUME NEW f \in Entries, InFlight(f)'
                   PROVE  ids' < row'[f].id + ReplayWindow
          OBVIOUS
      <4>1. CASE f = e
          BY <3>1, <4>1
      <4>2. CASE f # e
          BY <3>1, <4>2 DEF InFlight
      <4>3. QED
          BY <4>1, <4>2
    <3>3. QED
        BY <2>1, <3>1, <3>2
  <2>3. ASSUME UNCHANGED ids,
               \A f \in Entries : InFlight(f)' => InFlight(f) /\ row'[f].id = row[f].id
        PROVE  WindowInv'
      BY <2>1, <2>3
  <2>4. ASSUME NEW e \in Entries, CommitRow(e) \/ RollBackRow(e) \/ Grow(e)
        PROVE  WindowInv'
    <3>1. /\ UNCHANGED ids
          /\ \A f \in Entries : f # e => row'[f] = row[f]
          /\ row'[e].state \in {"committed", "none"}
        BY <2>4 DEF CommitRow, RollBackRow, Grow, Raise, NoEntry, BillingTypeOK
    <3>2. QED
        BY <2>3, <3>1 DEF InFlight
  <2>5. ASSUME NEW r \in Runs, WriteBarrier(r)
        PROVE  WindowInv'
    <3>1. CASE Raise(r, MaxCost) /\ UNCHANGED ids
      <4>1. /\ \A f \in Entries : f # r => row'[f] = row[f]
            /\ row'[r].state = "committed"
          BY <3>1, RunRows DEF Raise, BillingTypeOK
      <4>2. QED
          BY <2>3, <3>1, <4>1 DEF InFlight
    <3>2. CASE UNCHANGED <<row, ids>>
        BY <2>3, <3>2 DEF InFlight
    <3>3. QED
        BY <2>2, <2>5, <3>1, <3>2, RunRows DEF WriteBarrier
  <2>6. ASSUME NEW r \in Runs, Close(r) \/ CloseSynthesised(r)
        PROVE  WindowInv'
      BY <2>3, <2>6 DEF Close, CloseSynthesised, InFlight
  <2>7. QED
      BY <1>1, <2>2, <2>4, <2>5, <2>6
      DEF LedgerStep, WriteStep, FinalizeStep, InsertCall, InsertMetric
<1>2. ASSUME UNCHANGED <<ids, row>>, cursor'.last <= ids,
             \A s \in Sweepers : sweeper'[s].to <= ids
      PROVE  WindowInv'
    BY <1>2 DEF InFlight
<1>3. ASSUME NEW s \in Sweepers, SweepStep(s)
      PROVE  WindowInv'
  <2>0. UNCHANGED <<ids, row>>
      BY <1>3, PassesLeaveLedger
  <2>1. cursor'.last <= ids
      BY <1>3
      DEF SweepStep, SeedCursor, SweepBatch, ReadFrontier, ReadCursor, ListLedger, SweepFails, books,
          Larger
  <2>2. \A q \in Sweepers : q # s => sweeper'[q] = sweeper[q]
      BY <1>3
      DEF SweepStep, SeedCursor, SweepBatch, ReadFrontier, ReadCursor, ListLedger, SweepFails,
          BillingTypeOK
  <2>3. sweeper'[s].to <= ids
    <3>1. CASE ReadFrontier(s)
        BY <3>1 DEF ReadFrontier, BillingTypeOK
    <3>2. CASE ListLedger(s)
      <4>1. \A start, limit : Passable(Page(Entries, start, limit)) \in SUBSET Entries
          BY DEF Passable, Page, Above
      <4>2. sweeper'[s].to = 0 \/ \E e \in Entries : sweeper'[s].to = row[e].id
          BY <3>2, <4>1 DEF ListLedger, BillingTypeOK, IdleSweeper
      <4>3. QED
          BY <4>2
    <3>3. CASE SeedCursor(s) \/ SweepBatch(s) \/ ReadCursor(s) \/ SweepFails(s)
        BY <3>3 DEF SeedCursor, SweepBatch, ReadCursor, SweepFails, BillingTypeOK, IdleSweeper
    <3>4. QED
        BY <1>3, <3>1, <3>2, <3>3 DEF SweepStep
  <2>4. QED
      BY <1>2, <2>0, <2>1, <2>2, <2>3
<1>4. ASSUME NEW d \in Drainers, DrainStep(d)
      PROVE  WindowInv'
    BY <1>2, <1>4
    DEF DrainStep, StartDrain, ListForDrain, DrainBatch, DrainFails, ledger, books
<1>5. CASE UNCHANGED vars
    BY <1>2, <1>5 DEF vars, ledger, books
<1>6. QED
    BY <1>1, <1>3, <1>4, <1>5 DEF Next, LedgerStep

\* A row that becomes visible was in flight, so within the window.
LEMMA VisibleWasInFlight ==
  ASSUME BillingTypeOK, LedgerStep, NEW e \in Entries, Committed(e)'
  PROVE  (Committed(e) \/ InFlight(e)) /\ row'[e].id = row[e].id
<1> USE DEF Committed, InFlight, BillingTypeOK
<1>1. ASSUME NEW f \in Entries, NEW state \in {"open", "barrier"}, NEW cost, Insert(f, state, cost)
      PROVE  row'[e] = row[e]
    BY <1>1 DEF Insert
<1>2. ASSUME NEW f \in Entries, WriteStep(f)
      PROVE  row'[e].id = row[e].id /\ (Committed(e) \/ InFlight(e))
    BY <1>1, <1>2
    DEF WriteStep, InsertCall, InsertMetric, CommitRow, RollBackRow, Grow, Raise, NoEntry
<1>3. ASSUME NEW r \in Runs, FinalizeStep(r)
      PROVE  row'[e].id = row[e].id /\ (Committed(e) \/ InFlight(e))
    BY <1>1, <1>3, RunRows DEF FinalizeStep, WriteBarrier, Close, CloseSynthesised, Raise
<1>4. QED
    BY <1>2, <1>3 DEF LedgerStep

\* A row a page leaves out, whatever the window read, is one the pass does not jump over.
LEMMA PageReaches ==
  ASSUME BillingTypeOK, NEW from \in Nat,
         NEW e \in System, Outstanding(e), from < row[e].id + ReplayWindow,
         NEW f \in Passable(Page(Entries, ScanStart(from), from - ScanStart(from) + BatchSize))
  PROVE  \/ row[f].id < row[e].id + ReplayWindow
         \/ \E b \in Bill(Passable(Page(Entries, ScanStart(from), from - ScanStart(from) + BatchSize))) :
              b.entry = e
<1> DEFINE start == ScanStart(from)
           limit == from - start + BatchSize
           page == Page(Entries, start, limit)
<1>0. /\ start \in Nat /\ (start = cursor.floor \/ start = from - ReplayWindow)
    BY ScanStartTyped
<1>1. limit \in Int
    BY <1>0, BoundsAssumption
<1> HIDE DEF start, limit
<1>2. f \in page /\ f \in Entries /\ e \in Entries
    BY Numbers DEF Passable, Page, Above, start, limit
<1>3. e \in Above(Entries, start)
    BY <1>0, <1>2, Numbers DEF Above, Outstanding
<1>4. SUFFICES ASSUME ~ (row[f].id < row[e].id + ReplayWindow)
               PROVE  \E b \in Bill(Passable(page)) : b.entry = e
    BY DEF start, limit
<1>5. row[e].id < row[f].id
    BY <1>2, <1>4, Numbers
<1>6. e \in page
    BY <1>0, <1>1, <1>2, <1>3, <1>5, PageIsPrefix, Numbers
<1>7. \A b \in page : b \in System /\ ~ Settled(b) => row[f].id < row[b].id
    BY DEF Passable, start, limit
<1>8. page \in SUBSET Entries
    BY DEF Page, Above
<1> HIDE DEF page
<1>9. Settled(e)
    BY <1>2, <1>5, <1>6, <1>7, Numbers
<1>10. e \in Passable(page)
    BY <1>2, <1>5, <1>6, <1>7, <1>8, Numbers DEF Passable
<1>11. QED
    BY <1>8, <1>9, <1>10, BillLines DEF Passable

LEMMA ReachNext ==
  BillingTypeOK /\ SeedInv /\ WindowInv /\ ReachInv /\ [Next]_vars => ReachInv'
<1> SUFFICES ASSUME BillingTypeOK, SeedInv, WindowInv, ReachInv, [Next]_vars PROVE ReachInv'
    OBVIOUS
<1> USE Numbers
<1>1. CASE LedgerStep
  <2>1. UNCHANGED <<cursor, claimed, sweeper>>
      BY <1>1, LedgerKeeps
  <2>2. ASSUME NEW e \in System, Outstanding(e)'
        PROVE  /\ row'[e].id = row[e].id
               /\ Outstanding(e) \/ /\ cursor.last < row[e].id + ReplayWindow
                                    /\ \A s \in Sweepers : sweeper[s].to < row[e].id + ReplayWindow
    <3>1. e \in Entries /\ (Committed(e) \/ InFlight(e)) /\ row'[e].id = row[e].id
        BY <1>1, <2>2, VisibleWasInFlight DEF Outstanding
    <3>2. QED
        BY <2>1, <2>2, <3>1 DEF WindowInv, Outstanding
  <2>3. QED
      BY <2>1, <2>2 DEF ReachInv
<1>2. ASSUME UNCHANGED row, claimed \subseteq claimed', NEW e \in System, Outstanding(e)',
             cursor'.floor = cursor.floor
      PROVE  Outstanding(e)
    BY <1>2 DEF Outstanding, Committed
<1>3. ASSUME UNCHANGED <<row, cursor, sweeper>>, claimed \subseteq claimed'
      PROVE  ReachInv'
    BY <1>2, <1>3 DEF ReachInv
<1>4. ASSUME NEW s \in Sweepers, SweepStep(s)
      PROVE  ReachInv'
  <2>0. row' = row /\ \A q \in Sweepers : q # s => sweeper'[q] = sweeper[q]
      BY <1>4, PassesLeaveLedger
      DEF SweepStep, SeedCursor, SweepBatch, ReadFrontier, ReadCursor, ListLedger, SweepFails,
          BillingTypeOK
  <2>1. CASE ReadFrontier(s) \/ ReadCursor(s) \/ SweepFails(s)
    <3>1. /\ UNCHANGED <<cursor, claimed>>
          /\ sweeper'[s].at # "billing"
          /\ sweeper'[s].at = "listing" => sweeper'[s].from = cursor.last
        BY <2>1 DEF ReadFrontier, ReadCursor, SweepFails, books, IdleSweeper, BillingTypeOK
    <3>2. QED
        BY <1>2, <2>0, <3>1 DEF ReachInv
  <2>2. CASE SeedCursor(s)
    <3>1. sweeper'[s].at = "idle" /\ claimed' = claimed
        BY <2>2 DEF SeedCursor, IdleSweeper, BillingTypeOK
    <3>2. CASE cursor.seeded
        BY <1>2, <2>0, <2>2, <3>1, <3>2 DEF SeedCursor, ReachInv
    <3>3. CASE ~ cursor.seeded
      <4>1. \A q \in Sweepers : sweeper'[q].at \notin {"listing", "billing"}
          BY <2>0, <3>1, <3>3 DEF SeedInv
      <4>2. cursor'.last = cursor'.floor /\ cursor'.last \in Nat
          BY <2>2, <3>3 DEF SeedCursor
      <4>3. \A e \in System : Outstanding(e)' => cursor'.last < row'[e].id + ReplayWindow
          BY <2>0, <4>2 DEF Outstanding
      <4>4. QED
          BY <4>1, <4>3 DEF ReachInv
    <3>4. QED
        BY <3>2, <3>3
  <2>3. CASE ListLedger(s)
    <3> DEFINE from == sweeper[s].from
               passable == Passable(Page(Entries, ScanStart(from), from - ScanStart(from) + BatchSize))
    <3>1. /\ UNCHANGED <<cursor, claimed>> /\ sweeper[s].at = "listing"
          /\ \/ sweeper'[s].at = "idle"
             \/ \E f \in passable : sweeper'[s] =
                  [at |-> "billing", from |-> 0, to |-> row[f].id, bill |-> Bill(passable)]
        BY <2>3 DEF ListLedger, books, IdleSweeper, BillingTypeOK
    <3>2. cursor.seeded /\ from <= cursor.last /\ from \in Nat
        BY <3>1 DEF SeedInv, ReachInv
    <3>3. ASSUME NEW e \in System, Outstanding(e), NEW f \in passable
          PROVE  row[f].id < row[e].id + ReplayWindow \/ \E b \in Bill(passable) : b.entry = e
      <4>1. from < row[e].id + ReplayWindow
          BY <3>2, <3>3 DEF ReachInv
      <4>2. QED
          BY <3>2, <3>3, <4>1, PageReaches
    <3> HIDE DEF from, passable
    <3>4. \A e \in System : Outstanding(e)' => Outstanding(e)
        BY <1>2, <2>0, <3>1
    <3>5. CASE sweeper'[s].at = "idle"
        BY <2>0, <3>1, <3>4, <3>5 DEF ReachInv
    <3>6. CASE \E f \in passable : sweeper'[s] =
                 [at |-> "billing", from |-> 0, to |-> row[f].id, bill |-> Bill(passable)]
      <4>1. PICK f \in passable : /\ sweeper'[s].at = "billing" /\ sweeper'[s].to = row[f].id
                                  /\ sweeper'[s].bill = Bill(passable)
          BY <3>6
      <4>2. \A e \in System : Outstanding(e)' =>
              \/ sweeper'[s].to < row'[e].id + ReplayWindow
              \/ \E b \in sweeper'[s].bill : b.entry = e
          BY <2>0, <3>3, <3>4, <4>1
      <4>3. QED
          BY <2>0, <3>1, <3>4, <4>1, <4>2 DEF ReachInv
    <3>7. QED
        BY <3>1, <3>5, <3>6
  <2>4. CASE SweepBatch(s)
    <3>1. /\ sweeper[s].at = "billing" /\ sweeper'[s].at = "idle"
          /\ claimed' = claimed \cup {b.entry : b \in sweeper[s].bill}
          /\ cursor'.last = Larger(cursor.last, sweeper[s].to)
          /\ cursor'.floor = cursor.floor
        BY <2>4 DEF SweepBatch, BillLedgerRows, IdleSweeper, BillingTypeOK
    <3>2. cursor.seeded
        BY <3>1 DEF SeedInv
    <3>3. ASSUME NEW e \in System, Outstanding(e)'
          PROVE  Outstanding(e) /\ cursor'.last < row'[e].id + ReplayWindow
      <4>1. Outstanding(e) /\ ~ \E b \in sweeper[s].bill : b.entry = e
          BY <1>2, <2>0, <3>1, <3>3 DEF Outstanding
      <4>2. sweeper[s].to < row[e].id + ReplayWindow /\ cursor.last < row[e].id + ReplayWindow
          BY <3>1, <3>2, <4>1 DEF ReachInv
      <4>3. QED
          BY <2>0, <3>1, <4>1, <4>2 DEF Larger
    <3>4. \A q \in Sweepers : sweeper[q].at = "listing" => sweeper[q].from <= cursor'.last
      <4>1. cursor'.last \in Nat
          BY <3>1 DEF Larger
      <4>2. cursor.last <= cursor'.last
          BY <3>1 DEF Larger
      <4>3. QED
          BY <4>1, <4>2 DEF ReachInv
    <3>5. QED
        BY <2>0, <3>1, <3>3, <3>4 DEF ReachInv
  <2>5. QED
      BY <1>4, <2>1, <2>2, <2>3, <2>4 DEF SweepStep
<1>5. ASSUME NEW d \in Drainers, DrainStep(d)
      PROVE  ReachInv'
    BY <1>3, <1>5
    DEF DrainStep, StartDrain, ListForDrain, DrainBatch, DrainFails, BillLedgerRows, ledger, books
<1>6. CASE UNCHANGED vars
    BY <1>3, <1>6 DEF vars, ledger, books
<1>7. QED
    BY <1>1, <1>4, <1>5, <1>6 DEF Next, LedgerStep

LEMMA ReachInit == Init => WindowInv /\ ReachInv
BY DEF Init, WindowInv, ReachInv, InFlight, NoEntry, IdleSweeper

LEMMA InReach == BillingTypeOK /\ ReachInv => NoRowOutOfReach
<1> SUFFICES ASSUME BillingTypeOK, ReachInv, NEW e \in System, Committed(e), cursor.seeded,
                    row[e].id > cursor.floor, e \notin claimed
             PROVE  row[e].id > ScanStart(cursor.last)
    BY DEF NoRowOutOfReach
<1>1. cursor.last < row[e].id + ReplayWindow
    BY DEF ReachInv, Outstanding
<1>2. QED
    BY <1>1, ScanStartTyped, Numbers

\* However late a billable row commits, and whatever the passes have read meanwhile, a
\* sweep can still read it.
THEOREM RowsStayInReach == Spec => []NoRowOutOfReach
<1>1. /\ BillingTypeOK /\ SeedInv /\ WindowInv /\ ReachInv /\ [Next]_vars
         => (BillingTypeOK /\ SeedInv /\ WindowInv /\ ReachInv)'
    BY TypeNext, SeedNext, WindowNext, ReachNext
<1>2. QED
    BY TypeInit, BooksInit, ReachInit, InReach, <1>1, PTL DEF Spec

-----------------------------------------------------------------------------
(* A drain that finishes has billed what was due when it began.            *)

LEMMA LeastRow ==
  ASSUME BillingTypeOK, NEW rows \in SUBSET Entries, rows # {}
  PROVE  \E e \in rows : \A f \in rows : row[e].id <= row[f].id
<1> DEFINE numbers == {row[e].id : e \in rows}
           below == {p \in Nat \X Nat : p[1] < p[2]}
<1>0. IsWellFoundedOn(below, Nat)
    BY NatLessThanWellFounded DEF OpToRel
<1>1. numbers \subseteq Nat /\ numbers # {}
    BY Numbers
<1> HIDE DEF numbers
<1>2. PICK n \in numbers : \A m \in numbers : <<m, n>> \notin below
  <2> HIDE DEF below
  <2>1. QED
      BY <1>0, <1>1, WFMin
<1>3. ASSUME NEW m \in numbers
      PROVE  n <= m
  <2>1. n \in Nat /\ m \in Nat
      BY <1>1
  <2>2. m < n => <<m, n>> \in below
      BY <2>1
  <2>3. QED
      BY <1>2, <2>1, <2>2
<1>4. QED
    BY <1>3 DEF numbers

\* A page that is not full has every row above its start.
LEMMA ShortPageIsAll ==
  ASSUME BillingTypeOK, NEW rows \in SUBSET Entries, NEW start \in Nat, NEW limit \in Nat,
         Cardinality(Page(rows, start, limit)) < limit
  PROVE  Page(rows, start, limit) = Above(rows, start)
<1> DEFINE page == Page(rows, start, limit)
           left == Above(rows, start) \ page
<1>1. page \subseteq Above(rows, start) /\ Above(rows, start) \subseteq Entries
    BY DEF Page, Above
<1>2. SUFFICES ASSUME left # {} PROVE FALSE
    BY <1>1
<1>3. PICK e \in left : \A f \in left : row[e].id <= row[f].id
    BY <1>1, <1>2, LeastRow
<1> DEFINE upTo == {f \in Above(rows, start) : row[f].id <= row[e].id}
<1>4. upTo \subseteq page \cup {e}
  <2> SUFFICES ASSUME NEW f \in upTo, f \notin page PROVE f = e
      OBVIOUS
  <2>1. f \in left /\ f \in Entries /\ e \in Entries
      BY <1>1, <1>3
  <2>2. row[f].id = row[e].id /\ row[f].id # 0
      BY <1>3, <2>1, Numbers DEF Above
  <2>3. QED
      BY <2>1, <2>2 DEF BillingTypeOK, RowsNumbered
<1>5. IsFiniteSet(page)
    BY <1>1, FS_Subset, EntriesAssumption
<1>6. IsFiniteSet(page \cup {e}) /\ Cardinality(page \cup {e}) = Cardinality(page) + 1
    BY <1>3, <1>5, FS_AddElement
<1>7. IsFiniteSet(upTo) /\ Cardinality(upTo) <= Cardinality(page) + 1
    BY <1>4, <1>6, FS_Subset
<1>8. Cardinality(upTo) \in Nat /\ Cardinality(page) \in Nat
    BY <1>5, <1>7, FS_CardinalityType
<1>9. Cardinality(upTo) <= limit
    BY <1>7, <1>8
<1>10. e \in page
    BY <1>1, <1>3, <1>9 DEF Page
<1>11. QED
    BY <1>3, <1>10

\* What a drain still owes is ahead of it, or in the bill it carries.
DrainInv == \A d \in Drainers :
  /\ \A e \in drainer[d].due : e \in System /\ Committed(e) /\ Settled(e)
  /\ drainer[d].at = "listing" =>
       \A e \in drainer[d].due : e \in claimed \/ row[e].id > drainer[d].after
  /\ drainer[d].at = "billing" =>
       \A e \in drainer[d].due :
         \/ e \in claimed
         \/ \E b \in drainer[d].bill : b.entry = e
         \/ ~ drainer[d].last /\ row[e].id > drainer[d].after
  /\ drainer[d].at = "drained" => drainer[d].due \subseteq claimed

\* A page leaves out nothing that is due, except what lies beyond it.
LEMMA DrainPage ==
  ASSUME BillingTypeOK, NEW after \in Nat,
         NEW e \in System, Committed(e), Settled(e), row[e].id > after
  PROVE  LET page == Page(System, after, BatchSize) IN
         /\ page # {}
         /\ \A f \in page : (\A g \in page : row[g].id <= row[f].id) =>
              \/ \E b \in Bill(page) : b.entry = e
              \/ ~ (Cardinality(page) < BatchSize) /\ row[e].id > row[f].id
<1> DEFINE page == Page(System, after, BatchSize)
<1>0. /\ e \in Above(System, after) /\ page \subseteq Entries /\ page \subseteq System
      /\ BatchSize \in Nat \ {0} /\ System \in SUBSET Entries
    BY BoundsAssumption, EntriesAssumption DEF Above, Page
<1>1. Cardinality(page) < BatchSize => page = Above(System, after)
    BY <1>0, ShortPageIsAll
<1>2. page # {}
  <2>1. page = {} => Cardinality(page) = 0
      BY FS_EmptySet
  <2> HIDE DEF page
  <2>2. QED
      BY <1>0, <1>1, <2>1
<1>3. ASSUME NEW f \in page, \A g \in page : row[g].id <= row[f].id,
             ~ \E b \in Bill(page) : b.entry = e
      PROVE  ~ (Cardinality(page) < BatchSize) /\ row[e].id > row[f].id
  <2>1. e \notin page
      BY <1>0, <1>3, BillLines
  <2>2. row[e].id > row[f].id
    <3>1. ~ (row[e].id <= row[f].id)
        BY <1>0, <1>3, <2>1, PageIsPrefix
    <3>2. QED
        BY <1>0, <3>1, Numbers
  <2>3. QED
      BY <1>0, <1>1, <2>1, <2>2
<1>4. QED
    BY <1>2, <1>3

LEMMA DrainNext ==
  /\ BillingTypeOK /\ SeedInv /\ BillInv /\ ReachInv /\ DrainInv /\ [Next]_vars
  => DrainInv'
<1> SUFFICES ASSUME BillingTypeOK, SeedInv, BillInv, ReachInv, DrainInv, [Next]_vars PROVE DrainInv'
    OBVIOUS
<1>0. \A d \in Drainers : drainer[d].due \in SUBSET Entries
    BY DEF BillingTypeOK, DrainerStates
<1>1. \A e \in Entries : Committed(e) /\ Settled(e) =>
        Committed(e)' /\ Settled(e)' /\ row'[e].id = row[e].id
    BY LedgerKeeps, PassesLeaveLedger DEF Next, LedgerStep, Committed, Settled
<1>2. claimed \subseteq claimed'
    BY LedgerKeeps
    DEF Next, LedgerStep, SweepStep, SeedCursor, SweepBatch, ReadFrontier, ReadCursor, ListLedger,
        SweepFails, DrainStep, StartDrain, ListForDrain, DrainBatch, DrainFails, BillLedgerRows,
        books, vars
<1>3. ASSUME drainer' = drainer
      PROVE  DrainInv'
    BY <1>0, <1>1, <1>2, <1>3 DEF DrainInv
<1>4. ASSUME NEW d \in Drainers, DrainStep(d)
      PROVE  DrainInv'
  <2>0. UNCHANGED <<row, run>>
      BY <1>4, PassesLeaveLedger
  <2>1. \A q \in Drainers : q # d => drainer'[q] = drainer[q]
      BY <1>4 DEF DrainStep, StartDrain, ListForDrain, DrainBatch, DrainFails, BillingTypeOK
  <2>2. CASE StartDrain(d)
    <3>1. /\ drainer'[d].at = "listing" /\ drainer'[d].due = Due
          /\ drainer'[d].after = ScanStart(cursor.last) /\ cursor.seeded /\ claimed' = claimed
        BY <2>2 DEF StartDrain, books, BillingTypeOK
    <3>2. \A e \in Due : e \in System /\ Committed(e) /\ Settled(e) /\ row[e].id > cursor.floor
        BY DEF Due
    <3>3. \A e \in Due : e \in claimed \/ row[e].id > ScanStart(cursor.last)
        BY <3>1, <3>2, InReach DEF NoRowOutOfReach
    <3>4. QED
        BY <1>0, <1>1, <2>0, <2>1, <3>1, <3>2, <3>3, Numbers DEF DrainInv
  <2>3. CASE ListForDrain(d)
    <3> DEFINE page == Page(System, drainer[d].after, BatchSize)
    <3>1. /\ drainer[d].at = "listing" /\ claimed' = claimed /\ drainer[d].after \in Nat
          /\ drainer'[d].due = drainer[d].due
        BY <2>3 DEF ListForDrain, books, BillingTypeOK, DrainerStates
    <3>2. \A e \in drainer[d].due :
            e \in System /\ Committed(e) /\ Settled(e) /\ (e \in claimed \/ row[e].id > drainer[d].after)
        BY <3>1 DEF DrainInv
    <3>3. \/ page = {} /\ drainer'[d].at = "drained"
          \/ \E f \in page : /\ \A g \in page : row[g].id <= row[f].id
                             /\ drainer'[d].at = "billing" /\ drainer'[d].after = row[f].id
                             /\ drainer'[d].last = (Cardinality(page) < BatchSize)
                             /\ drainer'[d].bill = Bill(page)
        BY <2>3 DEF ListForDrain, BillingTypeOK
    <3>4. \A e \in drainer[d].due : e \notin claimed =>
            /\ page # {}
            /\ \A f \in page : (\A g \in page : row[g].id <= row[f].id) =>
                 \/ \E b \in Bill(page) : b.entry = e
                 \/ ~ (Cardinality(page) < BatchSize) /\ row[e].id > row[f].id
        BY <3>1, <3>2, DrainPage
    <3> HIDE DEF page
    <3>5. CASE drainer'[d].at = "drained"
        BY <1>0, <1>1, <2>0, <2>1, <3>1, <3>2, <3>3, <3>4, <3>5 DEF DrainInv
    <3>6. CASE drainer'[d].at = "billing"
      <4>1. \A e \in drainer'[d].due :
              \/ e \in claimed'
              \/ \E b \in drainer'[d].bill : b.entry = e
              \/ ~ drainer'[d].last /\ row'[e].id > drainer'[d].after
          BY <2>0, <3>1, <3>3, <3>4, <3>6
      <4>2. QED
          BY <1>0, <1>1, <2>0, <2>1, <3>1, <3>2, <3>6, <4>1 DEF DrainInv
    <3>7. QED
        BY <3>3, <3>5, <3>6
  <2>4. CASE DrainBatch(d)
    <3>1. /\ drainer[d].at = "billing" /\ drainer'[d].due = drainer[d].due
          /\ drainer'[d].after = drainer[d].after
          /\ drainer'[d].at = IF drainer[d].last THEN "drained" ELSE "listing"
          /\ claimed' = claimed \cup {b.entry : b \in drainer[d].bill}
        BY <2>4 DEF DrainBatch, BillLedgerRows, BillingTypeOK
    <3>2. \A e \in drainer[d].due :
            \/ e \in claimed'
            \/ ~ drainer[d].last /\ row[e].id > drainer[d].after
        BY <3>1 DEF DrainInv
    <3>3. QED
        BY <1>0, <1>1, <1>2, <2>0, <2>1, <3>1, <3>2 DEF DrainInv
  <2>5. CASE DrainFails(d)
    <3>1. drainer'[d].at = "failed" /\ drainer'[d].due = {}
        BY <2>5 DEF DrainFails, IdleDrainer, BillingTypeOK
    <3>2. QED
        BY <1>0, <1>1, <1>2, <2>0, <2>1, <3>1 DEF DrainInv
  <2>6. QED
      BY <1>4, <2>2, <2>3, <2>4, <2>5 DEF DrainStep
<1>5. QED
    BY <1>3, <1>4, LedgerKeeps
    DEF Next, LedgerStep, SweepStep, SeedCursor, SweepBatch, ReadFrontier, ReadCursor, ListLedger,
        SweepFails, vars

\* A drain that finishes has billed everything that was due when it began, what was
\* committed below the watermark included.
THEOREM DrainsBillAllDue == Spec => []DrainBillsAllDue
<1> DEFINE Inv == /\ BillingTypeOK /\ SeedInv /\ BillInv /\ WindowInv /\ ReachInv /\ DrainInv
<1>1. Init => Inv
    BY TypeInit, BooksInit, ReachInit DEF Init, DrainInv, IdleDrainer
<1>2. Inv /\ [Next]_vars => Inv'
    BY TypeNext, SeedNext, BillNext, WindowNext, ReachNext, DrainNext
<1>3. Inv => DrainBillsAllDue
    BY DEF DrainInv, DrainBillsAllDue
<1>4. QED
    BY <1>1, <1>2, <1>3, PTL DEF Spec
-----------------------------------------------------------------------------
(* The account is debited what was charged, rounded once per context.         *)

EntriesOf(x) == {e \in Entries : Context[e] = x}

Rounded == [x \in Contexts |-> Round(spent[x])]

\* A context's usage record is what its rows were charged, and the account the
\* rounding of every record: billing adds to both what it charges.
SpendInv ==
  /\ \A x \in Contexts : spent[x] = SumFunctionOnSet(charged, EntriesOf(x))
  /\ credits = SumFunction(Rounded)

LEMMA ContextsFinite == IsFiniteSet(Contexts)
<1>1. [e \in Entries |-> Context[e]] \in Surjection(Entries, Contexts)
    BY DEF Surjection, Contexts
<1>2. QED
    BY <1>1, FS_Surjection, EntriesAssumption

LEMMA EntriesOfFinite ==
  ASSUME NEW x
  PROVE  IsFiniteSet(EntriesOf(x)) /\ EntriesOf(x) \subseteq Entries
BY FS_Subset, EntriesAssumption DEF EntriesOf

LEMMA RoundInt == ASSUME NEW n \in Int PROVE Round(n) \in Int
BY DEF Round

LEMMA SpentInt ==
  ASSUME BillingTypeOK, SpendInv, NEW x \in Contexts
  PROVE  spent[x] \in Int
BY EntriesOfFinite, SumInt DEF SpendInv, BillingTypeOK

\* What a bill adds to each row's charge.
Charged(bill) ==
  [e \in Entries |-> IF \E b \in bill : b.entry = e
                       THEN (CHOOSE b \in bill : b.entry = e).cost ELSE 0]

\* A bill has a line per row, so that its lines for a context add up to what it adds to
\* the charges of the context's rows.
LEMMA DollarsAreCharged ==
  ASSUME NEW bill \in SUBSET Lines, \A b, c \in bill : b.entry = c.entry => b = c, NEW x
  PROVE  /\ Dollars(bill, x) = SumFunctionOnSet(Charged(bill), EntriesOf(x))
         /\ \A e \in Entries : Charged(bill)[e] \in Int
<1> DEFINE D == {b \in bill : Context[b.entry] = x}
           f == [b \in bill |-> b.cost]
           g == [b \in bill |-> b.entry]
           Image == {g[b] : b \in D}
<1>1. \A b \in bill : Charged(bill)[b.entry] = b.cost /\ b.entry \in Entries /\ b.cost \in Nat
  <2> SUFFICES ASSUME NEW b \in bill
               PROVE  Charged(bill)[b.entry] = b.cost /\ b.entry \in Entries /\ b.cost \in Nat
      OBVIOUS
  <2>1. b.entry \in Entries /\ b.cost \in Nat
      BY DEF Lines
  <2>2. (CHOOSE c \in bill : c.entry = b.entry) = b
      OBVIOUS
  <2>3. QED
      BY <2>1, <2>2 DEF Charged
<1>2. \A e \in Entries : e \notin {b.entry : b \in bill} => Charged(bill)[e] = 0
    BY DEF Charged
<1>3. \A e \in Entries : Charged(bill)[e] \in Int
    BY <1>1, <1>2
<1>4. IsFiniteSet(D)
  <2>1. [b \in D |-> b.entry] \in Injection(D, Entries)
      BY <1>1 DEF Injection, IsInjective
  <2>2. QED
      BY <2>1, FS_Injection, EntriesAssumption
<1>5. SumFunctionOnSet(f, D) = SumFunctionOnSet(Charged(bill), Image)
  <2>1. \A b \in D : f[b] \in Int /\ Charged(bill)[g[b]] = f[b]
      BY <1>1
  <2>2. \A b, c \in D : g[b] = g[c] => b = c
      OBVIOUS
  <2> HIDE DEF D, f, g
  <2>3. QED
      BY <1>4, <2>1, <2>2, SumReindexed
<1>6. SumFunctionOnSet(Charged(bill), EntriesOf(x)) = SumFunctionOnSet(Charged(bill), Image)
  <2>1. Image \subseteq EntriesOf(x)
      BY <1>1 DEF EntriesOf
  <2>2. \A e \in EntriesOf(x) \ Image : Charged(bill)[e] = 0
      BY <1>2 DEF EntriesOf
  <2> HIDE DEF Image
  <2>3. QED
      BY <1>3, <2>1, <2>2, SumOfZeros, EntriesOfFinite
<1>7. QED
    BY <1>3, <1>5, <1>6 DEF Dollars

\* A transaction that bills keeps the books.
LEMMA BillingKeepsSpend ==
  ASSUME BillingTypeOK, BillingTypeOK', SpendInv, NEW bill \in SUBSET Lines,
         \A b \in bill : Billable(b), BillLedgerRows(bill)
  PROVE  SpendInv'
<1> DEFINE W == Won(bill)
<1>1. W \in SUBSET Lines /\ \A b, c \in W : b.entry = c.entry => b = c
  <2>1. \A b, c \in Lines : b.entry = c.entry /\ b.cost = c.cost => b = c
      BY DEF Lines
  <2>2. \A b \in W : b \in Lines /\ b.cost = row[b.entry].cost
      BY DEF Won, Billable, Final
  <2>3. QED
      BY <2>1, <2>2
<1>2. /\ charged' = [e \in Entries |-> charged[e] + Charged(W)[e]]
      /\ spent' = [x \in Contexts |-> spent[x] + Dollars(W, x)]
      /\ credits' = credits + SumFunction([x \in Contexts |-> Round(spent'[x]) - Round(spent[x])])
    BY DEF BillLedgerRows, Charge, Charged
<1> HIDE DEF W
<1>3. \A e \in Entries : /\ charged[e] \in Int /\ Charged(W)[e] \in Int
                         /\ charged'[e] = charged[e] + Charged(W)[e]
    BY <1>1, <1>2, DollarsAreCharged DEF BillingTypeOK
<1>4. ASSUME NEW x \in Contexts
      PROVE  spent'[x] = SumFunctionOnSet(charged', EntriesOf(x))
  <2>1. SumFunctionOnSet(charged', EntriesOf(x))
          = SumFunctionOnSet(charged, EntriesOf(x)) + SumFunctionOnSet(Charged(W), EntriesOf(x))
      BY <1>3, SumAdded, EntriesOfFinite
  <2>2. QED
      BY <1>1, <1>2, <2>1, DollarsAreCharged DEF SpendInv
<1>5. \A x \in Contexts : spent[x] \in Int /\ spent'[x] \in Int
  <2>1. \A x \in Contexts : spent'[x] \in Int
      BY <1>4, EntriesOfFinite, SumInt DEF BillingTypeOK
  <2>2. QED
      BY <2>1, SpentInt
<1>6. credits' = SumFunction([x \in Contexts |-> Round(spent'[x])])
  <2> DEFINE before == [x \in Contexts |-> Round(spent[x])]
             added == [x \in Contexts |-> Round(spent'[x]) - Round(spent[x])]
             after == [x \in Contexts |-> Round(spent'[x])]
  <2>1. \A x \in Contexts : before[x] \in Int /\ added[x] \in Int /\ after[x] = before[x] + added[x]
    <3>1. \A x \in Contexts : Round(spent[x]) \in Int /\ Round(spent'[x]) \in Int
        BY <1>5, RoundInt
    <3>2. QED
        BY <3>1
  <2>2. SumFunctionOnSet(after, Contexts)
          = SumFunctionOnSet(before, Contexts) + SumFunctionOnSet(added, Contexts)
    <3> HIDE DEF before, added, after
    <3>1. QED
        BY <2>1, SumAdded, ContextsFinite
  <2>3. QED
      BY <1>2, <2>2 DEF SpendInv, SumFunction, Rounded
<1>7. QED
    BY <1>4, <1>6 DEF SpendInv, Rounded, EntriesOf

LEMMA SpendInit == Init => SpendInv
<1> SUFFICES ASSUME Init PROVE SpendInv
    OBVIOUS
<1>1. \A x \in Contexts : SumFunctionOnSet(charged, EntriesOf(x)) = 0
  <2> SUFFICES ASSUME NEW x \in Contexts PROVE SumFunctionOnSet(charged, EntriesOf(x)) = 0
      OBVIOUS
  <2>1. \A e \in EntriesOf(x) : charged[e] = 0
      BY DEF Init, EntriesOf
  <2>2. QED
      BY <2>1, SumOfZeros, SumEmpty, EntriesOfFinite
<1>2. SumFunction(Rounded) = 0
  <2>1. Round(0) = 0
      BY DEF Round
  <2>2. DOMAIN Rounded = Contexts /\ \A x \in Contexts : Rounded[x] = 0
      BY <2>1 DEF Rounded, Init
  <2>3. QED
      BY <2>2, SumOfZeros, SumEmpty, ContextsFinite DEF SumFunction
<1>3. QED
    BY <1>1, <1>2 DEF SpendInv, Init

LEMMA SpendNext ==
  BillingTypeOK /\ BillInv /\ SpendInv /\ [Next]_vars => SpendInv'
<1> SUFFICES ASSUME BillingTypeOK, BillInv, SpendInv, [Next]_vars PROVE SpendInv'
    OBVIOUS
<1>0. BillingTypeOK'
    BY TypeNext
<1>1. ASSUME UNCHANGED <<charged, spent, credits>>
      PROVE  SpendInv'
    BY <1>1 DEF SpendInv, Rounded, EntriesOf
<1>2. CASE LedgerStep \/ UNCHANGED vars
    BY <1>1, <1>2, LedgerKeeps DEF vars, books
<1>3. ASSUME NEW s \in Sweepers, SweepStep(s)
      PROVE  SpendInv'
  <2>1. CASE SweepBatch(s)
    <3>1. sweeper[s].bill \in SUBSET Lines /\ \A b \in sweeper[s].bill : Billable(b)
        BY DEF BillingTypeOK, SweeperStates, BillInv
    <3>2. QED
        BY <1>0, <2>1, <3>1, BillingKeepsSpend DEF SweepBatch
  <2>2. QED
      BY <1>1, <1>3, <2>1 DEF SweepStep, ReadFrontier, SeedCursor, ReadCursor, ListLedger, SweepFails, books
<1>4. ASSUME NEW d \in Drainers, DrainStep(d)
      PROVE  SpendInv'
  <2>1. CASE DrainBatch(d)
    <3>1. drainer[d].bill \in SUBSET Lines /\ \A b \in drainer[d].bill : Billable(b)
        BY DEF BillingTypeOK, DrainerStates, BillInv
    <3>2. QED
        BY <1>0, <2>1, <3>1, BillingKeepsSpend DEF DrainBatch
  <2>2. QED
      BY <1>1, <1>4, <2>1 DEF DrainStep, StartDrain, ListForDrain, DrainFails, books
<1>5. QED
    BY <1>2, <1>3, <1>4 DEF Next, LedgerStep

\* The account is debited the rounding of everything charged to each context.
NothingRoundedAway ==
  credits = SumFunction([x \in Contexts |->
    Round(SumFunctionOnSet(charged, {e \in Entries : Context[e] = x}))])

\* Over any number of passes, replicas, drains and batches, the account is debited the
\* rounding of what each context was charged in all: a pass debits the difference that
\* its lines make to the rounded total, so that no remainder is dropped or paid twice.
THEOREM RoundsOnce == Spec => []NothingRoundedAway
<1>1. SpendInv => NothingRoundedAway
  <2> SUFFICES ASSUME SpendInv
               PROVE  credits = SumFunction([x \in Contexts |->
                        Round(SumFunctionOnSet(charged, {e \in Entries : Context[e] = x}))])
      BY DEF NothingRoundedAway
  <2>1. Rounded = [x \in Contexts |->
                    Round(SumFunctionOnSet(charged, {e \in Entries : Context[e] = x}))]
      BY DEF SpendInv, Rounded, EntriesOf
  <2>2. QED
      BY <2>1 DEF SpendInv
<1>2. QED
    BY TypeInit, BooksInit, BooksNext, SpendInit, SpendNext, <1>1, PTL DEF Spec

-----------------------------------------------------------------------------
(* The billing implements the abstract record of usage.                    *)

CostDue == [e \in Payable |-> row[e].cost]

UsageInv == BillingTypeOK /\ SeedInv /\ BillInv /\ ClaimInv /\ SpendInv

LEMMA ClaimedIsPayable ==
  ASSUME BillingTypeOK, SeedInv, ClaimInv
  PROVE  claimed \subseteq Payable
<1>1. \A e \in claimed : cursor.seeded
    BY DEF SeedInv, BillingTypeOK, CursorStates
<1>2. QED
    BY <1>1 DEF ClaimInv, Payable

\* The record sums as the billing does.
LEMMA SameSums ==
  ASSUME NEW f, NEW S
  PROVE  Promise!SumFunctionOnSet(f, S) = SumFunctionOnSet(f, S)
BY DEF SumFunctionOnSet, FoldFunctionOnSet, MapThenFoldSet,
       Promise!SumFunctionOnSet, Promise!FoldFunctionOnSet, Promise!MapThenFoldSet

\* What the rows of a context were charged is the final cost of those that are billed,
\* so the credits are what the record owes for them.
DebitIsOwed == credits = Promise!Owed(CostDue, claimed)

LEMMA DebitOwed == UsageInv => DebitIsOwed
<1> SUFFICES ASSUME UsageInv PROVE DebitIsOwed
    OBVIOUS
<1>1. ASSUME NEW x \in Contexts
      PROVE  spent[x] = SumFunctionOnSet(CostDue, {u \in claimed : Context[u] = x})
  <2> DEFINE B == {u \in claimed : Context[u] = x}
  <2>1. B \subseteq EntriesOf(x) /\ B \subseteq claimed /\ IsFiniteSet(B)
    <3>1. B \subseteq EntriesOf(x)
        BY DEF EntriesOf, UsageInv, BillingTypeOK
    <3>2. QED
        BY <3>1, EntriesOfFinite, FS_Subset
  <2>2. \A e \in EntriesOf(x) \ B : charged[e] = 0
      BY DEF EntriesOf, UsageInv, ClaimInv, BilledIsFinal
  <2>3. \A e \in B : charged[e] = CostDue[e]
    <3>1. claimed \subseteq Payable /\ claimed \subseteq Entries
        BY ClaimedIsPayable DEF UsageInv, BillingTypeOK
    <3>2. QED
        BY <2>1, <3>1 DEF UsageInv, ClaimInv, BilledIsFinal, CostDue
  <2>4. \A e \in EntriesOf(x) : charged[e] \in Int
      BY DEF EntriesOf, UsageInv, BillingTypeOK
  <2>5. spent[x] = SumFunctionOnSet(charged, EntriesOf(x))
      BY DEF UsageInv, SpendInv
  <2> HIDE DEF B
  <2>6. SumFunctionOnSet(charged, EntriesOf(x)) = SumFunctionOnSet(charged, B)
      BY <2>1, <2>2, <2>4, SumOfZeros, EntriesOfFinite
  <2>7. SumFunctionOnSet(charged, B) = SumFunctionOnSet(CostDue, B)
      BY <2>1, <2>3, SumSame
  <2>8. QED
      BY <2>5, <2>6, <2>7 DEF B
<1>2. Rounded = [x \in Contexts |->
                  (SumFunctionOnSet(CostDue, {u \in claimed : Context[u] = x}) + 1) \div 2]
    BY <1>1 DEF Rounded, Round
<1>3. QED
    BY <1>2, SameSums DEF DebitIsOwed, Promise!Owed, Promise!SumFunction, SumFunction, UsageInv,
                         SpendInv

\* What is payable stays so, at its cost.
LEMMA PayableStays ==
  ASSUME BillingTypeOK, SeedInv, [Next]_vars, NEW e \in Payable
  PROVE  e \in Payable' /\ row'[e].cost = row[e].cost
<1>1. /\ e \in System /\ e \in Entries /\ cursor.seeded /\ Committed(e) /\ Settled(e)
      /\ row[e].id > cursor.floor /\ row[e].cost \in Nat
    BY EntriesAssumption DEF Payable, BillingTypeOK, RowStates
<1>2. PICK b \in Lines : b.entry = e /\ b.cost = row[e].cost
  <2>1. [entry |-> e, cost |-> row[e].cost] \in Lines
      BY <1>1 DEF Lines
  <2>2. QED
      BY <2>1
<1>3. Billable(b)
    BY <1>1, <1>2 DEF Billable, Final
<1>4. Billable(b)' /\ cursor'.floor = cursor.floor
    BY <1>1, <1>3, BillableStays
<1>5. cursor'.seeded
  <2>1. cursor' = cursor \/ cursor'.seeded
    <3>1. ASSUME NEW s \in Sweepers, SweepStep(s)
          PROVE  cursor' = cursor \/ cursor'.seeded
        BY <1>1, <3>1 DEF SweepStep, SeedCursor, SweepBatch, ReadFrontier, ReadCursor, ListLedger,
                          SweepFails, books
    <3>2. ASSUME NEW d \in Drainers, DrainStep(d)
          PROVE  cursor' = cursor
        BY <3>2 DEF DrainStep, StartDrain, ListForDrain, DrainBatch, DrainFails, books
    <3>3. CASE LedgerStep
        BY <3>3, LedgerKeeps
    <3>4. QED
        BY <3>1, <3>2, <3>3 DEF Next, LedgerStep, vars, books
  <2>2. QED
      BY <1>1, <2>1
<1>6. QED
    BY <1>1, <1>2, <1>4, <1>5 DEF Billable, Final, Payable


\* A step bills, on an unchanged ledger, or leaves claims and credits alone.
LEMMA UsageStep ==
  ASSUME BillingTypeOK, SeedInv, [Next]_vars
  PROVE  \/ UNCHANGED <<claimed, credits>>
         \/ UNCHANGED CostDue /\ UNCHANGED Payable /\ claimed \subseteq claimed'
<1>1. ASSUME NEW bill, BillLedgerRows(bill), UNCHANGED <<row, run>>,
             cursor'.floor = cursor.floor, cursor'.seeded = cursor.seeded
      PROVE  UNCHANGED CostDue /\ UNCHANGED Payable /\ claimed \subseteq claimed'
  <2>1. Payable' = Payable
      BY <1>1 DEF Payable, Committed, Settled
  <2>2. QED
      BY <1>1, <2>1 DEF CostDue, BillLedgerRows
<1>2. ASSUME NEW s \in Sweepers, SweepStep(s), ~ SweepBatch(s)
      PROVE  UNCHANGED <<claimed, credits>>
    BY <1>2 DEF SweepStep, ReadFrontier, SeedCursor, ReadCursor, ListLedger, SweepFails, books
<1>3. ASSUME NEW s \in Sweepers, SweepBatch(s)
      PROVE  UNCHANGED CostDue /\ UNCHANGED Payable /\ claimed \subseteq claimed'
  <2>1. cursor.seeded
      BY <1>3 DEF SweepBatch, SeedInv
  <2>2. cursor'.seeded = cursor.seeded /\ cursor'.floor = cursor.floor
      BY <1>3, <2>1 DEF SweepBatch, BillingTypeOK, CursorStates
  <2>3. QED
      BY <1>1, <1>3, <2>2 DEF SweepBatch, ledger
<1>4. ASSUME NEW d \in Drainers, DrainStep(d), ~ DrainBatch(d)
      PROVE  UNCHANGED <<claimed, credits>>
    BY <1>4 DEF DrainStep, StartDrain, ListForDrain, DrainFails, books
<1>5. ASSUME NEW d \in Drainers, DrainBatch(d)
      PROVE  UNCHANGED CostDue /\ UNCHANGED Payable /\ claimed \subseteq claimed'
    BY <1>1, <1>5 DEF DrainBatch, ledger
<1>6. CASE LedgerStep \/ UNCHANGED vars
    BY <1>6, LedgerKeeps DEF vars, books
<1>7. QED
    BY <1>2, <1>3, <1>4, <1>5, <1>6 DEF Next, LedgerStep

LEMMA RecordsUsage ==
  ASSUME UsageInv, UsageInv', DebitIsOwed', [Next]_vars
  PROVE  [Promise!UsageNext]_(Promise!usageVars)
<1>1. CASE UNCHANGED <<claimed, credits>>
  <2>1. \A e \in Payable : e \in Payable' /\ row'[e].cost = row[e].cost
      BY PayableStays DEF UsageInv
  <2>2. \A e \in Payable' : e \in System /\ row'[e].cost \in Nat
      BY EntriesAssumption DEF Payable, UsageInv, BillingTypeOK, RowStates
  <2>3. Promise!FallDue
      BY <1>1, <2>1, <2>2 DEF Promise!FallDue
  <2>4. QED
      BY <2>3 DEF Promise!UsageNext
<1>2. CASE UNCHANGED CostDue /\ UNCHANGED Payable /\ claimed \subseteq claimed'
  <2>1. claimed' \subseteq Payable'
    <3>1. \A e \in claimed' : cursor'.seeded
        BY DEF UsageInv, SeedInv, BillingTypeOK, CursorStates
    <3>2. QED
        BY <3>1 DEF UsageInv, ClaimInv, Payable
  <2>2. credits' = Promise!Owed(CostDue, claimed')
      BY <1>2 DEF DebitIsOwed
  <2>3. Promise!BillUsage
      BY <1>2, <2>1, <2>2 DEF Promise!BillUsage, CostDue
  <2>4. QED
      BY <2>3 DEF Promise!UsageNext
<1>3. QED
    BY <1>1, <1>2, UsageStep DEF UsageInv

LEMMA AlwaysUsage == Spec => []UsageInv
BY TypeInit, BooksInit, BooksNext, SpendInit, SpendNext, PTL DEF Spec, UsageInv

\* Every behaviour of ledger, sweeps and drains, seen through what has fallen due, what is
\* billed and what is debited, is one of the record of usage.
THEOREM BillingImplementation == Spec => ImplementsUsageRecord
<1>1. Init => Promise!UsageInit
  <2>1. ASSUME Init PROVE Payable = {} /\ claimed = {} /\ credits = 0
      BY <2>1 DEF Init, Payable
  <2>2. QED
      BY <2>1 DEF Promise!UsageInit
<1>2. UsageInv' => DebitIsOwed'
    BY DebitOwed, PTL
<1>3. UsageInv /\ UsageInv' /\ [Next]_vars => [Promise!UsageNext]_(Promise!usageVars)
    BY <1>2, RecordsUsage
<1>4. QED
    BY <1>1, <1>3, AlwaysUsage, PTL DEF Spec, ImplementsUsageRecord, Promise!UsageSpec
=============================================================================
