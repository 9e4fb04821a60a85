-------------------------- MODULE RunAdmissionProofs --------------------------
(***************************************************************************)
(* What TLAPS proves of RunAdmission, for any number of requests of each   *)
(* kind, runs, packages and files and any cap: the cap is exact, nothing   *)
(* runs behind a reservation, no delete takes an active run, a package's   *)
(* run numbers are unique, consumed files stay, no file goes without a job *)
(* and the requests that take the admission key never deadlock.            *)
(***************************************************************************)
EXTENDS RunAdmission, FiniteSetTheorems, WellFoundedInduction, TLAPS

LEMMA LocksTyped ==
  /\ AdmissionKey \in Locks /\ OrgRow \in Locks /\ SpaceRow \in Locks
  /\ \A p \in Packages : PackageRow(p) \in Locks /\ NumberKey(p) \in Locks
  /\ \A f \in Files : FileRow(f) \in Locks
BY DEF Locks

LEMMA KindsApart ==
  /\ \A t \in Admissions : t \notin Failures /\ t \notin RunDeleters /\ t \notin OrgDeleters
                           /\ t \notin OrgLockers /\ t \notin ItemDeleters
  /\ \A t \in Failures : t \notin RunDeleters /\ t \notin OrgDeleters
                         /\ t \notin OrgLockers /\ t \notin ItemDeleters
  /\ \A t \in RunDeleters : t \notin OrgDeleters /\ t \notin OrgLockers /\ t \notin ItemDeleters
  /\ \A t \in OrgDeleters : t \notin OrgLockers /\ t \notin ItemDeleters
  /\ \A t \in OrgLockers : t \notin ItemDeleters
  /\ \A t \in SpaceDeleters : t \notin FileDeleters /\ t \notin Sweepers /\ t \notin Publishers
  /\ \A t \in FileDeleters : t \notin Sweepers /\ t \notin Publishers
  /\ \A t \in Sweepers : t \notin Publishers
  /\ \A t \in OldRuns : t \notin Transactions
BY KindsAssumption DEF Inserters, KeyTakers, OrgLockers

LEMMA KindsInside ==
  /\ Admissions \subseteq Transactions /\ Failures \subseteq Transactions
  /\ RunDeleters \subseteq Transactions /\ OrgDeleters \subseteq Transactions
  /\ SpaceDeleters \subseteq Transactions /\ SpaceDeleters \subseteq OrgLockers
  /\ FileDeleters \subseteq OrgLockers /\ Sweepers \subseteq OrgLockers
  /\ Publishers \subseteq OrgLockers
  /\ Inserters \subseteq Runs /\ Inserters \subseteq Transactions
BY DEF Transactions, KeyTakers, OrgLockers, Inserters, Runs

-----------------------------------------------------------------------------
(* A step touches one transaction.                                         *)

Alone(t) == \A u \in Transactions \ {t} :
  pc'[u] = pc[u] /\ held'[u] = held[u] /\ mine'[u] = mine[u]

LEMMA StepsAreAlone ==
  ASSUME AdmissionTypeOK, NEW t \in Transactions, TransactionStep(t)
  PROVE  Alone(t)
BY DEF AdmissionTypeOK, Alone, TransactionStep, AdmissionStep, Admit, LockRow, RevalidateInputs,
       InsertStep, TakeNumber, LockParent, InsertRun, RunDeleterStep, EnterAdmission, CheckPackageIdle,
       EnumerateRuns, DetachOrDelete, DeletePackageRuns, OrgDeleterStep, ReserveDeletion, CheckOrgIdle,
       DeleteOrganization, EverythingGoes, SpaceDeleterStep, LockOrg, CheckSpaceIdle, DeleteSpace,
       FileDeleterStep, DeleteFile, Remove, SweeperStep, ScanExpired, SkipLocked, Sweep, PublisherStep,
       PublishFile, ItemDeleterStep, LockPackage, DropPackage, DeadlockDetected, Ends, Goes, Take,
       ReleaseAll

\* The modes a step grants are compatible with what others hold.
LEMMA StepsTakeGrantable ==
  ASSUME AdmissionTypeOK, NEW t \in Transactions, TransactionStep(t), NEW l \in Locks
  PROVE  \/ held'[t][l] = held[t][l]
         \/ held'[t][l] = "none"
         \/ held'[t][l] \in {"share", "update"} /\ Grantable(t, l, held'[t][l])
<1>0. held[t] \in [Locks -> Modes]
    BY DEF AdmissionTypeOK
<1>1. ASSUME NEW k, NEW m \in {"share", "update"}, Grantable(t, k, m), Take(t, k, m)
      PROVE  \/ held'[t][l] = held[t][l]
             \/ held'[t][l] \in {"share", "update"} /\ Grantable(t, l, held'[t][l])
    BY <1>0, <1>1 DEF Take, AdmissionTypeOK
<1>2. ASSUME ReleaseAll(t)
      PROVE  held'[t][l] = "none"
    BY <1>2 DEF ReleaseAll, NothingHeld, AdmissionTypeOK
<1>3. CASE UNCHANGED held
    BY <1>3
<1>4. CASE SkipLocked(t)
    BY <1>4 DEF SkipLocked, AdmissionTypeOK
<1>5. QED
    BY <1>1, <1>2, <1>3, <1>4
    DEF TransactionStep, AdmissionStep, Admit, LockRow, RevalidateInputs,
        InsertStep, TakeNumber, LockParent, InsertRun, RunDeleterStep, EnterAdmission, CheckPackageIdle,
        EnumerateRuns, DetachOrDelete, DeletePackageRuns, OrgDeleterStep, ReserveDeletion, CheckOrgIdle,
        DeleteOrganization, EverythingGoes, SpaceDeleterStep, LockOrg, CheckSpaceIdle, DeleteSpace,
        FileDeleterStep, DeleteFile, Remove, SweeperStep, ScanExpired, Sweep, PublisherStep,
        PublishFile, ItemDeleterStep, LockPackage, DropPackage, DeadlockDetected, Ends

\* Two transactions never hold one lock in conflicting modes.
LockInv ==
  \A t, u \in Transactions : \A l \in Locks : t # u => Compatible(held[t][l], held[u][l])

LEMMA LockNext == AdmissionTypeOK /\ LockInv /\ [Next]_vars => LockInv'
<1> SUFFICES ASSUME AdmissionTypeOK, LockInv, [Next]_vars PROVE LockInv'
    OBVIOUS
<1>1. CASE UNCHANGED held
    BY <1>1 DEF LockInv, Compatible
<1>2. ASSUME NEW t \in Transactions, TransactionStep(t)
      PROVE  LockInv'
  <2>1. Alone(t)
      BY <1>2, StepsAreAlone
  <2>2. ASSUME NEW u \in Transactions, u # t, NEW l \in Locks
        PROVE  Compatible(held'[t][l], held[u][l]) /\ Compatible(held[u][l], held'[t][l])
      BY <1>2, <2>2, StepsTakeGrantable DEF LockInv, Compatible, Grantable
  <2>3. QED
      BY <2>1, <2>2 DEF Alone, LockInv, Compatible
<1>3. QED
    BY <1>1, <1>2 DEF Next, Step, CloseRun, vars

-----------------------------------------------------------------------------
(* Types, and the numbers of a package.                                    *)

NumbersBounded == \E b \in Nat : \A r \in Runs : run[r].number <= b

NumbersTaken == \A t \in Inserters : At(t, "parents") => mine[t].number > 0

LEMMA RunRowsTyped ==
  ASSUME AdmissionTypeOK
  PROVE  \A r \in Runs : /\ run[r].number \in Nat
                         /\ run[r].status \in {"none", "active", "ended"}
                         /\ (run[r].status # "none") <=> (run[r].number > 0)
BY DEF AdmissionTypeOK, RunRows

\* The highest of the numbers is one of them.
LEMMA HighestIsHighest ==
  ASSUME AdmissionTypeOK, NumbersBounded, NEW p \in Packages
  PROVE  /\ HighestNumber(p) \in Nat
         /\ \A r \in RunsOf(p) : run[r].number <= HighestNumber(p)
<1> DEFINE numbers == {0} \cup {run[r].number : r \in RunsOf(p)}
           bounds == {b \in Nat : \A m \in numbers : m <= b}
           below == {q \in Nat \X Nat : q[1] < q[2]}
<1>1. numbers \subseteq Nat
    BY RunRowsTyped DEF RunsOf
<1>2. bounds # {}
  <2>1. PICK b \in Nat : \A r \in Runs : run[r].number <= b
      BY DEF NumbersBounded
  <2>2. b \in bounds
      BY <2>1 DEF RunsOf
  <2>3. QED
      BY <2>2
<1>3. IsWellFoundedOn(below, Nat)
    BY NatLessThanWellFounded DEF OpToRel
<1>4. PICK b \in bounds : \A c \in bounds : <<c, b>> \notin below
  <2> HIDE DEF below
  <2>1. bounds \subseteq Nat
      OBVIOUS
  <2> HIDE DEF bounds
  <2>2. QED
      BY <1>2, <1>3, <2>1, WFMin
<1>5. b \in numbers
  <2> SUFFICES ASSUME b \notin numbers PROVE FALSE
      OBVIOUS
  <2>1. b # 0 /\ b \in Nat /\ b - 1 \in Nat
      OBVIOUS
  <2>2. \A m \in numbers : m <= b - 1
    <3> SUFFICES ASSUME NEW m \in numbers PROVE m <= b - 1
        OBVIOUS
    <3>1. m \in Nat /\ m <= b /\ m # b
        BY <1>1
    <3>2. QED
        BY <2>1, <3>1
  <2>3. b - 1 \in bounds
      BY <2>1, <2>2
  <2>4. <<b - 1, b>> \in below
      BY <2>1
  <2>5. QED
      BY <1>4, <2>3, <2>4
<1>6. b \in numbers /\ \A m \in numbers : m <= b
    BY <1>5
<1>7. HighestNumber(p) = CHOOSE n \in numbers : \A m \in numbers : m <= n
    BY DEF HighestNumber
<1> HIDE DEF numbers, bounds
<1>8. HighestNumber(p) \in numbers /\ \A m \in numbers : m <= HighestNumber(p)
    BY <1>6, <1>7
<1>9. QED
    BY <1>1, <1>8 DEF numbers

LEMMA NextNumberIsNew ==
  ASSUME AdmissionTypeOK, NumbersBounded, NEW p \in Packages
  PROVE  /\ NextNumber(p) \in Nat /\ NextNumber(p) > 0
         /\ \A r \in RunsOf(p) : run[r].number < NextNumber(p)
<1>1. \A r \in RunsOf(p) : run[r].number \in Nat
    BY RunRowsTyped DEF RunsOf
<1>2. QED
    BY <1>1, HighestIsHighest DEF NextNumber

LEMMA BlankTyped ==
  /\ Blank \in Minds
  /\ NoRow \in RunRows
  /\ NothingHeld \in [Locks -> Modes]
BY DEF Blank, Minds, NoRow, RunRows, NothingHeld, Modes

\* Where a transaction goes, what it holds and what it keeps stay typed.
LEMMA GoesTyped ==
  ASSUME AdmissionTypeOK, NEW t \in Transactions, NEW statement \in Statements, Goes(t, statement)
  PROVE  pc' \in [Transactions -> Statements]
BY DEF AdmissionTypeOK, Goes

LEMMA TakeTyped ==
  ASSUME AdmissionTypeOK, NEW t \in Transactions, NEW l, NEW m \in Modes, Take(t, l, m)
  PROVE  held' \in [Transactions -> [Locks -> Modes]]
BY DEF AdmissionTypeOK, Take

LEMMA EndsTyped ==
  ASSUME AdmissionTypeOK, NEW t \in Transactions, Ends(t)
  PROVE  /\ pc' \in [Transactions -> Statements]
         /\ held' \in [Transactions -> [Locks -> Modes]]
         /\ mine' \in [Transactions -> Minds]
BY BlankTyped DEF AdmissionTypeOK, Ends, Goes, ReleaseAll, Statements

LEMMA PcTypes ==
  ASSUME AdmissionTypeOK, NEW t \in Transactions, TransactionStep(t)
  PROVE  pc' \in [Transactions -> Statements]
<1>1. \A s \in Statements : Goes(t, s) => pc' \in [Transactions -> Statements]
    BY GoesTyped
<1>2. Ends(t) => pc' \in [Transactions -> Statements]
    BY EndsTyped
<1>3. UNCHANGED pc => pc' \in [Transactions -> Statements]
    BY DEF AdmissionTypeOK
<1>4. LockOrg(t) /\ t \in OrgLockers => pc' \in [Transactions -> Statements]
    BY <1>1, <1>2 DEF LockOrg, Statements, OrgLockers
<1>5. QED
    BY <1>1, <1>2, <1>3, <1>4, KindsInside
    DEF TransactionStep, AdmissionStep, Admit, LockRow, RevalidateInputs,
        InsertStep, TakeNumber, LockParent, InsertRun, RunDeleterStep, EnterAdmission, CheckPackageIdle,
        EnumerateRuns, DetachOrDelete, DeletePackageRuns, OrgDeleterStep, ReserveDeletion, CheckOrgIdle,
        DeleteOrganization, EverythingGoes, SpaceDeleterStep, CheckSpaceIdle, DeleteSpace,
        FileDeleterStep, DeleteFile, Remove, SweeperStep, ScanExpired, SkipLocked, Sweep, PublisherStep,
        PublishFile, ItemDeleterStep, LockPackage, DropPackage, DeadlockDetected, Statements

LEMMA HeldTypes ==
  ASSUME AdmissionTypeOK, NEW t \in Transactions, TransactionStep(t)
  PROVE  held' \in [Transactions -> [Locks -> Modes]]
<1>1. \A l : \A m \in Modes : Take(t, l, m) => held' \in [Transactions -> [Locks -> Modes]]
    BY TakeTyped
<1>2. ReleaseAll(t) => held' \in [Transactions -> [Locks -> Modes]]
    BY BlankTyped DEF ReleaseAll, AdmissionTypeOK
<1>3. UNCHANGED held => held' \in [Transactions -> [Locks -> Modes]]
    BY DEF AdmissionTypeOK
<1>4. SkipLocked(t) => held' \in [Transactions -> [Locks -> Modes]]
    BY DEF SkipLocked, AdmissionTypeOK, Modes
<1>5. QED
    BY <1>1, <1>2, <1>3, <1>4
    DEF TransactionStep, AdmissionStep, Admit, LockRow, RevalidateInputs,
        InsertStep, TakeNumber, LockParent, InsertRun, RunDeleterStep, EnterAdmission, CheckPackageIdle,
        EnumerateRuns, DetachOrDelete, DeletePackageRuns, OrgDeleterStep, ReserveDeletion, CheckOrgIdle,
        DeleteOrganization, EverythingGoes, SpaceDeleterStep, LockOrg, CheckSpaceIdle, DeleteSpace,
        FileDeleterStep, DeleteFile, Remove, SweeperStep, ScanExpired, Sweep, PublisherStep,
        PublishFile, ItemDeleterStep, LockPackage, DropPackage, DeadlockDetected, Ends, Modes

TypeInv == AdmissionTypeOK /\ NumbersTaken /\ NumbersBounded

LEMMA AgentsTyped ==
  \A t \in Inserters \cup RunDeleters \cup ItemDeleters : Agent[t] \in Packages
BY KindsInside, WiringAssumption

LEMMA MineTypes ==
  ASSUME TypeInv, NEW t \in Transactions, TransactionStep(t)
  PROVE  mine' \in [Transactions -> Minds]
<1>1. \A m \in Minds : mine' = [mine EXCEPT ![t] = m] => mine' \in [Transactions -> Minds]
    BY DEF TypeInv, AdmissionTypeOK
<1>2. Ends(t) => mine' \in [Transactions -> Minds]
    BY EndsTyped DEF TypeInv
<1>3. UNCHANGED mine => mine' \in [Transactions -> Minds]
    BY DEF TypeInv, AdmissionTypeOK
<1>4. mine[t] \in Minds
    BY DEF TypeInv, AdmissionTypeOK
<1>5. ASSUME t \in Inserters, TakeNumber(t)
      PROVE  mine' \in [Transactions -> Minds]
  <2>1. NextNumber(Agent[t]) \in Nat
      BY <1>5, AgentsTyped, NextNumberIsNew DEF TypeInv
  <2>2. [Blank EXCEPT !.number = NextNumber(Agent[t])] \in Minds
      BY <2>1 DEF Blank, Minds
  <2>3. QED
      BY <1>1, <1>5, <2>2 DEF TakeNumber
<1>6. \A files \in SUBSET Files : [Blank EXCEPT !.doomed = files] \in Minds
    BY DEF Blank, Minds
<1>7. \A p : [Blank EXCEPT !.runs = RunsOf(p)] \in Minds
    BY DEF Blank, Minds, RunsOf
<1>8. \A doomed, kept \in SUBSET Files :
        [number |-> 0, runs |-> mine[t].runs, doomed |-> doomed, kept |-> kept] \in Minds
    BY <1>4 DEF Minds
<1>9. \A runs : ContainedIn(runs) \in SUBSET Files
    BY DEF ContainedIn, Live
<1>10. CASE DetachOrDelete(t)
  <2> DEFINE contained == ContainedIn(mine[t].runs)
             kept == {f \in contained : \E a \in Admissions \ mine[t].runs :
                                          Exists(a) /\ f \in Input[a]}
  <2>1. contained \ kept \in SUBSET Files /\ kept \in SUBSET Files
      BY <1>9
  <2>2. mine' = [mine EXCEPT ![t] =
          [number |-> 0, runs |-> mine[t].runs, doomed |-> contained \ kept, kept |-> kept]]
      BY <1>10 DEF DetachOrDelete
  <2> HIDE DEF contained, kept
  <2>3. QED
      BY <1>1, <1>8, <2>1, <2>2
<1>11. EnumerateRuns(t) => mine' \in [Transactions -> Minds]
    BY <1>1, <1>2, <1>7 DEF EnumerateRuns
<1>12. CheckOrgIdle(t) \/ CheckSpaceIdle(t) => mine' \in [Transactions -> Minds]
    BY <1>1, <1>2, <1>6 DEF CheckOrgIdle, CheckSpaceIdle, Live
<1>13. ScanExpired(t) => mine' \in [Transactions -> Minds]
    BY <1>1, <1>6 DEF ScanExpired, Live
<1>14. SkipLocked(t) => mine' \in [Transactions -> Minds]
    BY <1>1, <1>6 DEF SkipLocked, Live
<1>15. QED
    BY <1>2, <1>3, <1>5, <1>10, <1>11, <1>12, <1>13, <1>14
    DEF TransactionStep, AdmissionStep, Admit, LockRow, RevalidateInputs,
        InsertStep, LockParent, InsertRun, RunDeleterStep, EnterAdmission, CheckPackageIdle,
        DeletePackageRuns, OrgDeleterStep, ReserveDeletion,
        DeleteOrganization, EverythingGoes, SpaceDeleterStep, LockOrg, DeleteSpace,
        FileDeleterStep, DeleteFile, Remove, SweeperStep, Sweep, PublisherStep,
        PublishFile, ItemDeleterStep, LockPackage, DropPackage, DeadlockDetected

\* What a step does to the runs: nothing, one insert, or deletes.
LEMMA RunsChange ==
  ASSUME AdmissionTypeOK, NEW t \in Transactions, TransactionStep(t)
  PROVE  \/ UNCHANGED run
         \/ /\ t \in Inserters /\ InsertRun(t) /\ At(t, "parents")
            /\ org # "gone" /\ space /\ Agent[t] \in packages
            /\ run' = [run EXCEPT ![t] = [status |-> IF t \in Admissions THEN "active" ELSE "ended",
                                          number |-> mine[t].number]]
         \/ /\ t \in RunDeleters /\ DeletePackageRuns(t)
            /\ run' = [r \in Runs |-> IF r \in mine[t].runs THEN NoRow ELSE run[r]]
         \/ /\ (t \in OrgDeleters /\ DeleteOrganization(t)) \/ (t \in SpaceDeleters /\ DeleteSpace(t))
            /\ run' = [r \in Runs |-> NoRow]
BY DEF TransactionStep, AdmissionStep, Admit, LockRow, RevalidateInputs,
       InsertStep, TakeNumber, LockParent, InsertRun, RunDeleterStep, EnterAdmission, CheckPackageIdle,
       EnumerateRuns, DetachOrDelete, DeletePackageRuns, OrgDeleterStep, ReserveDeletion, CheckOrgIdle,
       DeleteOrganization, EverythingGoes, SpaceDeleterStep, LockOrg, CheckSpaceIdle, DeleteSpace,
       FileDeleterStep, DeleteFile, Remove, SweeperStep, ScanExpired, SkipLocked, Sweep, PublisherStep,
       PublishFile, ItemDeleterStep, LockPackage, DropPackage, DeadlockDetected, table

LEMMA RunTypes ==
  ASSUME TypeInv, NEW t \in Transactions, TransactionStep(t)
  PROVE  /\ run' \in [Runs -> RunRows]
         /\ \A r \in Runs : (run'[r].status # "none") <=> (run'[r].number > 0)
         /\ NumbersBounded'
<1> USE DEF TypeInv
<1>1. PICK b \in Nat : \A r \in Runs : run[r].number <= b
    BY DEF NumbersBounded
<1>2. CASE UNCHANGED run
    BY <1>1, <1>2 DEF AdmissionTypeOK, NumbersBounded
<1>3. ASSUME t \in Inserters, At(t, "parents"),
             run' = [run EXCEPT ![t] = [status |-> IF t \in Admissions THEN "active" ELSE "ended",
                                        number |-> mine[t].number]]
      PROVE  /\ run' \in [Runs -> RunRows]
             /\ \A r \in Runs : (run'[r].status # "none") <=> (run'[r].number > 0)
             /\ NumbersBounded'
  <2>1. mine[t].number \in Nat /\ mine[t].number > 0 /\ t \in Runs
      BY <1>3, KindsInside DEF AdmissionTypeOK, Minds, NumbersTaken
  <2>2. [status |-> IF t \in Admissions THEN "active" ELSE "ended", number |-> mine[t].number]
          \in RunRows
      BY <2>1 DEF RunRows
  <2>3. \A r \in Runs : run'[r] = IF r = t
                                    THEN [status |-> IF t \in Admissions THEN "active" ELSE "ended",
                                          number |-> mine[t].number]
                                    ELSE run[r]
      BY <1>3, <2>1 DEF AdmissionTypeOK
  <2>4. b + mine[t].number \in Nat /\ \A r \in Runs : run'[r].number <= b + mine[t].number
      BY <1>1, <2>1, <2>3, RunRowsTyped
  <2>5. run' \in [Runs -> RunRows]
      BY <1>3, <2>2 DEF AdmissionTypeOK
  <2>6. \A r \in Runs : (run'[r].status # "none") <=> (run'[r].number > 0)
      BY <2>1, <2>3, RunRowsTyped
  <2>7. QED
      BY <2>4, <2>5, <2>6 DEF NumbersBounded
<1>4. ASSUME NEW gone \in SUBSET Runs,
             run' = [r \in Runs |-> IF r \in gone THEN NoRow ELSE run[r]]
      PROVE  /\ run' \in [Runs -> RunRows]
             /\ \A r \in Runs : (run'[r].status # "none") <=> (run'[r].number > 0)
             /\ NumbersBounded'
  <2>1. \A r \in Runs : run'[r].number <= b
      BY <1>1, <1>4 DEF NoRow
  <2>2. \A r \in Runs : (run'[r].status # "none") <=> (run'[r].number > 0)
      BY <1>4, RunRowsTyped DEF NoRow
  <2>3. run' \in [Runs -> RunRows]
      BY <1>4, BlankTyped DEF AdmissionTypeOK
  <2>4. QED
      BY <2>1, <2>2, <2>3 DEF NumbersBounded
<1>5. mine[t].runs \in SUBSET Runs
    BY DEF AdmissionTypeOK, Minds
<1>6. run' = [r \in Runs |-> NoRow] => run' = [r \in Runs |-> IF r \in Runs THEN NoRow ELSE run[r]]
    OBVIOUS
<1>7. QED
    BY <1>2, <1>3, <1>4, <1>5, <1>6, RunsChange

LEMMA TableTypes ==
  ASSUME TypeInv, NEW t \in Transactions, TransactionStep(t)
  PROVE  /\ file' \in [Files -> {"unborn", "live", "gone"}]
         /\ container' \in [Files -> Runs \cup {None}]
         /\ packages' \subseteq Packages
         /\ org' \in {"live", "reserved", "gone"}
         /\ space' \in BOOLEAN
         /\ jobs' \subseteq Files
<1> USE DEF TypeInv, AdmissionTypeOK
<1>0. mine[t].doomed \in SUBSET Files /\ mine[t].kept \in SUBSET Files
    BY DEF Minds
<1>1. CASE DeletePackageRuns(t)
    BY <1>0, <1>1 DEF DeletePackageRuns
<1>2. CASE (DeleteOrganization(t) \/ DeleteSpace(t))
    BY <1>0, <1>2 DEF DeleteOrganization, DeleteSpace, EverythingGoes
<1>3. CASE t \in FileDeleters /\ DeleteFile(t)
  <2>1. Target[t] \in Files
      BY <1>3, WiringAssumption
  <2>2. QED
      BY <1>3, <2>1 DEF DeleteFile, Remove
<1>4. CASE Sweep(t)
    BY <1>0, <1>4 DEF Sweep, Remove
<1>5. CASE t \in Publishers /\ PublishFile(t)
  <2>1. Target[t] \in Files /\ Producer[t] \in Runs
      BY <1>5, WiringAssumption
  <2>2. QED
      BY <1>5, <2>1 DEF PublishFile
<1>6. CASE DropPackage(t)
    BY <1>6 DEF DropPackage
<1>7. CASE ReserveDeletion(t)
    BY <1>7 DEF ReserveDeletion
<1>8. CASE UNCHANGED <<file, container, packages, org, space, jobs>>
    BY <1>8
<1>9. QED
    BY <1>1, <1>2, <1>3, <1>4, <1>5, <1>6, <1>7, <1>8
    DEF TransactionStep, AdmissionStep, Admit, LockRow, RevalidateInputs,
        InsertStep, TakeNumber, LockParent, InsertRun, RunDeleterStep, EnterAdmission, CheckPackageIdle,
        EnumerateRuns, DetachOrDelete, OrgDeleterStep, CheckOrgIdle,
        SpaceDeleterStep, LockOrg, CheckSpaceIdle,
        FileDeleterStep, SweeperStep, ScanExpired, SkipLocked, PublisherStep,
        ItemDeleterStep, LockPackage, DeadlockDetected, table

LEMMA NumbersTakenNext ==
  ASSUME TypeInv, NEW t \in Transactions, TransactionStep(t)
  PROVE  NumbersTaken'
<1> SUFFICES ASSUME t \in Inserters, pc'[t] = "parents"
             PROVE  mine'[t].number > 0
    BY StepsAreAlone, KindsInside DEF TypeInv, NumbersTaken, Alone, At
<1>0. pc \in [Transactions -> Statements] /\ mine \in [Transactions -> Minds]
    BY DEF TypeInv, AdmissionTypeOK
<1>1. CASE TakeNumber(t)
  <2>1. NextNumber(Agent[t]) > 0
      BY AgentsTyped, NextNumberIsNew DEF TypeInv
  <2>2. mine'[t].number = NextNumber(Agent[t])
      BY <1>0, <1>1 DEF TakeNumber, Blank
  <2>3. QED
      BY <2>1, <2>2
<1>2. CASE LockParent(t)
    BY <1>2 DEF LockParent, TypeInv, NumbersTaken, At
<1>3. CASE ~ TakeNumber(t) /\ ~ LockParent(t)
    BY <1>0, <1>3, KindsApart
    DEF Inserters, TransactionStep, AdmissionStep, InsertStep, Admit, LockRow, RevalidateInputs, InsertRun,
        DeadlockDetected, OrgLockers, Goes, Ends, At
<1>4. QED
    BY <1>1, <1>2, <1>3

LEMMA TypeNext == TypeInv /\ [Next]_vars => TypeInv'
<1> SUFFICES ASSUME TypeInv, [Next]_vars PROVE TypeInv'
    OBVIOUS
<1>1. CASE UNCHANGED vars
    BY <1>1 DEF vars, table, TypeInv, AdmissionTypeOK, NumbersTaken, NumbersBounded, At
<1>2. ASSUME NEW r \in Runs, CloseRun(r)
      PROVE  TypeInv'
  <2>1. [status |-> "ended", number |-> run[r].number] \in RunRows
      BY RunRowsTyped DEF TypeInv, RunRows
  <2>2. run' \in [Runs -> RunRows]
      BY <1>2, <2>1 DEF CloseRun, TypeInv, AdmissionTypeOK
  <2>3. \A q \in Runs : (run'[q].status # "none") <=> (run'[q].number > 0)
      BY <1>2, RunRowsTyped DEF CloseRun, TypeInv, AdmissionTypeOK
  <2>4. NumbersBounded'
      BY <1>2 DEF CloseRun, TypeInv, AdmissionTypeOK, NumbersBounded
  <2>5. QED
      BY <1>2, <2>2, <2>3, <2>4 DEF CloseRun, TypeInv, AdmissionTypeOK, NumbersTaken, At
<1>3. ASSUME NEW t \in Transactions, TransactionStep(t)
      PROVE  TypeInv'
    BY <1>3, PcTypes, HeldTypes, MineTypes, RunTypes, TableTypes, NumbersTakenNext
    DEF TypeInv, AdmissionTypeOK
<1>4. QED
    BY <1>1, <1>2, <1>3 DEF Next, Step

LEMMA TypeInit == Init => TypeInv
<1> SUFFICES ASSUME Init PROVE TypeInv
    OBVIOUS
<1>1. \A t \in Transactions : FirstStatement(t) \in {"admission", "number", "org", "package"}
    BY DEF FirstStatement, Transactions
<1>2. pc \in [Transactions -> Statements] /\ \A t \in Transactions : pc[t] # "parents"
    BY <1>1 DEF Init, Statements
<1>3. run \in [Runs -> RunRows] /\ \A r \in Runs : (run[r].status # "none") <=> (run[r].number > 0)
    BY DEF Init, RunRows, NoRow
<1>4. NumbersBounded
    BY DEF Init, NumbersBounded, NoRow
<1>5. container \in [Files -> Runs \cup {None}] /\ file \in [Files -> {"unborn", "live", "gone"}]
    BY WiringAssumption DEF Init, Runs
<1>6. QED
    BY <1>2, <1>3, <1>4, <1>5, BlankTyped, KindsInside
    DEF Init, TypeInv, AdmissionTypeOK, NumbersTaken, At

\* Everything has its type, and a run has a number as long as it has a row.
THEOREM AdmissionTypes == Spec => []AdmissionTypeOK
<1>1. TypeInv => AdmissionTypeOK
    BY DEF TypeInv
<1>2. QED
    BY TypeInit, TypeNext, <1>1, PTL DEF Spec

-----------------------------------------------------------------------------
(* Who may insert, and what it stands on until it has.                     *)

Inserting == {"rows", "number", "parents"}

LEMMA KeysApart ==
  /\ AdmissionKey # OrgRow /\ AdmissionKey # SpaceRow /\ OrgRow # SpaceRow
  /\ \A p, q : /\ PackageRow(p) \notin {AdmissionKey, OrgRow, SpaceRow, NumberKey(q)}
               /\ NumberKey(p) \notin {AdmissionKey, OrgRow, SpaceRow}
               /\ FileRow(p) \notin {AdmissionKey, OrgRow, SpaceRow, NumberKey(q), PackageRow(q)}
BY DEF AdmissionKey, OrgRow, SpaceRow, PackageRow, NumberKey, FileRow

\* Active runs only come from an admission's insert.
LEMMA ActiveChange ==
  ASSUME TypeInv, NEW t \in Transactions, TransactionStep(t)
  PROVE  \/ Active' \subseteq Active
         \/ /\ t \in Admissions /\ At(t, "parents") /\ org = org' /\ org # "gone"
            /\ Agent[t] \in packages
            /\ \A l \in Parents(t) : held[t][l] # "none"
            /\ Active' \subseteq Active \cup {t}
<1> USE DEF TypeInv, AdmissionTypeOK
<1>1. CASE UNCHANGED run
    BY <1>1 DEF Active
<1>2. ASSUME t \in Inserters, InsertRun(t), At(t, "parents"), org # "gone", Agent[t] \in packages,
             run' = [run EXCEPT ![t] = [status |-> IF t \in Admissions THEN "active" ELSE "ended",
                                        number |-> mine[t].number]]
      PROVE  \/ Active' \subseteq Active
             \/ /\ t \in Admissions /\ At(t, "parents") /\ org = org' /\ org # "gone"
                /\ Agent[t] \in packages
                /\ \A l \in Parents(t) : held[t][l] # "none"
                /\ Active' \subseteq Active \cup {t}
  <2>1. \A r \in Runs \ {t} : run'[r] = run[r]
      BY <1>2
  <2>2. t \notin Admissions => run'[t].status = "ended"
      BY <1>2, KindsInside
  <2>3. QED
      BY <1>2, <2>1, <2>2 DEF InsertRun, Active
<1>3. \A gone : run' = [r \in Runs |-> IF r \in gone THEN NoRow ELSE run[r]] => Active' \subseteq Active
    BY DEF Active, NoRow
<1>4. run' = [r \in Runs |-> NoRow] => Active' \subseteq Active
    BY DEF Active, NoRow
<1>5. QED
    BY <1>1, <1>2, <1>3, <1>4, RunsChange

\* The organization's row is reserved under the key, then deleted with everything.
LEMMA OrgChange ==
  ASSUME TypeInv, NEW t \in Transactions, TransactionStep(t)
  PROVE  \/ org' = org
         \/ /\ t \in OrgDeleters /\ At(t, "org") /\ org' = "reserved" /\ org # "gone"
            /\ Active = {} /\ Active' = {}
         \/ t \in OrgDeleters /\ At(t, "rows") /\ org' = "gone" /\ Active' = {}
<1>1. ASSUME ReserveDeletion(t)
      PROVE  \/ org' = org
             \/ At(t, "org") /\ org' = "reserved" /\ org # "gone" /\ Active = {} /\ Active' = {}
    BY <1>1 DEF ReserveDeletion, Active
<1>2. ASSUME DeleteOrganization(t)
      PROVE  At(t, "rows") /\ org' = "gone" /\ Active' = {}
    BY <1>2 DEF DeleteOrganization, EverythingGoes, Active, NoRow
<1>3. QED
    BY <1>1, <1>2
    DEF TransactionStep, AdmissionStep, Admit, LockRow, RevalidateInputs, InsertStep, TakeNumber,
        LockParent, InsertRun, RunDeleterStep, EnterAdmission, CheckPackageIdle, EnumerateRuns,
        DetachOrDelete, DeletePackageRuns, OrgDeleterStep, CheckOrgIdle, SpaceDeleterStep, LockOrg,
        CheckSpaceIdle, DeleteSpace, FileDeleterStep, DeleteFile, Remove, SweeperStep, ScanExpired,
        SkipLocked, Sweep, PublisherStep, PublishFile, ItemDeleterStep, LockPackage, DropPackage,
        DeadlockDetected, table

LEMMA PackagesShrink ==
  ASSUME TypeInv, NEW t \in Transactions, TransactionStep(t)
  PROVE  packages' \subseteq packages
BY DEF TransactionStep, AdmissionStep, Admit, LockRow, RevalidateInputs, InsertStep, TakeNumber,
       LockParent, InsertRun, RunDeleterStep, EnterAdmission, CheckPackageIdle, EnumerateRuns,
       DetachOrDelete, DeletePackageRuns, OrgDeleterStep, ReserveDeletion, CheckOrgIdle,
       DeleteOrganization, EverythingGoes, SpaceDeleterStep, LockOrg, CheckSpaceIdle, DeleteSpace,
       FileDeleterStep, DeleteFile, Remove, SweeperStep, ScanExpired, SkipLocked, Sweep,
       PublisherStep, PublishFile, ItemDeleterStep, LockPackage, DropPackage, DeadlockDetected, table

\* An admission holds the key, its count and the absence of a reservation until it
\* inserts; the organization's deletion holds the key wherever it checks.
KeyInv ==
  /\ \A a \in Admissions : pc[a] \in Inserting =>
       held[a][AdmissionKey] = "update" /\ Cardinality(Active) < Cap /\ org # "reserved"
  /\ \A o \in OrgDeleters : pc[o] \in {"org", "again", "rows"} => held[o][AdmissionKey] = "update"
  /\ \A o \in OrgDeleters : pc[o] \in {"drain", "again", "rows"} => org # "live"
  /\ CapHolds
  /\ NothingBehindReservation

LEMMA ActiveFinite == IsFiniteSet(Active) /\ Cardinality(Active) \in Nat
<1>1. Active \subseteq Runs
    BY DEF Active
<1>2. QED
    BY <1>1, RunsAssumption, FS_Subset, FS_CardinalityType

LEMMA FewerActive ==
  ASSUME Active' \subseteq Active
  PROVE  Cardinality(Active') \in Nat /\ Cardinality(Active') <= Cardinality(Active)
BY ActiveFinite, FS_Subset, FS_CardinalityType

\* The rows locked one by one are those of files and packages.
LEMMA RowsAreRows ==
  ASSUME AdmissionTypeOK, NEW t \in Transactions
  PROVE  \A l \in Unlocked(t) : l \in Locks /\ l # AdmissionKey /\ l # SpaceRow
<1> DEFINE fine == {FileRow(f) : f \in Live} \cup {PackageRow(p) : p \in packages}
<1>1. \A l \in fine : l \in Locks /\ l # AdmissionKey /\ l # SpaceRow
    BY KeysApart, LocksTyped DEF AdmissionTypeOK, Live
<1>2. \A runs : ContainedIn(runs) \subseteq Live
    BY DEF ContainedIn
<1>3. \A files : {FileRow(f) : f \in files \cap Live} \subseteq fine
    OBVIOUS
<1>4. \A files \in SUBSET Live : {FileRow(f) : f \in files} \subseteq fine
    OBVIOUS
<1>5. \/ Rows(t) = {FileRow(f) : f \in Input[t] \cap Live}
      \/ Rows(t) = {FileRow(f) : f \in ContainedIn(mine[t].runs)}
      \/ Rows(t) = {FileRow(f) : f \in {Target[t]} \cap Live}
      \/ Rows(t) = {FileRow(f) : f \in Live}
      \/ Rows(t) = fine
      \/ Rows(t) = {}
  <2> HIDE DEF Live
  <2>1. QED
      BY DEF Rows
<1>6. Rows(t) \subseteq fine
  <2> HIDE DEF fine
  <2>1. {FileRow(f) : f \in Live} \subseteq fine
      BY <1>4
  <2>2. QED
      BY <1>2, <1>3, <1>4, <1>5, <2>1
<1>7. QED
    BY <1>1, <1>6 DEF Unlocked

\* The steps of an admission.
LEMMA AdmissionHolds ==
  ASSUME TypeInv, NEW a \in Admissions, TransactionStep(a), pc'[a] \in Inserting
  PROVE  /\ \/ pc[a] \in Inserting /\ held'[a][AdmissionKey] = held[a][AdmissionKey]
            \/ org # "reserved" /\ Cardinality(Active) < Cap /\ held'[a][AdmissionKey] = "update"
         /\ UNCHANGED table
<1> USE DEF TypeInv, AdmissionTypeOK
<1>0. a \in Transactions /\ a \in Inserters
    BY KindsInside DEF Inserters
<1>1. ASSUME NEW l \in Locks, NEW m, l # AdmissionKey, Take(a, l, m)
      PROVE  held'[a][AdmissionKey] = held[a][AdmissionKey]
    BY <1>0, <1>1, LocksTyped DEF Take
<1>2. CASE Admit(a)
    BY <1>0, <1>2, LocksTyped DEF Admit, Ends, Goes, Take, Inserting
<1>3. CASE LockRow(a)
  <2>1. \A l \in Unlocked(a) : l \in Locks /\ l # AdmissionKey
      BY <1>0, RowsAreRows
  <2>2. QED
      BY <1>0, <1>1, <1>3, <2>1 DEF LockRow, At, Inserting
<1>4. CASE RevalidateInputs(a)
    BY <1>0, <1>4 DEF RevalidateInputs, Ends, Goes, At, Inserting
<1>5. CASE TakeNumber(a)
    BY <1>0, <1>1, <1>5, AgentsTyped, LocksTyped, KeysApart DEF TakeNumber, At, Inserting
<1>6. CASE LockParent(a)
  <2>1. NextParent(a) \in Locks /\ NextParent(a) # AdmissionKey
      BY <1>0, AgentsTyped, LocksTyped, KeysApart DEF NextParent
  <2>2. QED
      BY <1>0, <1>1, <1>6, <2>1 DEF LockParent, At, Inserting
<1>7. CASE InsertRun(a) \/ DeadlockDetected(a)
    BY <1>0, <1>7 DEF InsertRun, DeadlockDetected, Ends, Goes, Inserting
<1>8. QED
    BY <1>2, <1>3, <1>4, <1>5, <1>6, <1>7, KindsApart
    DEF TransactionStep, AdmissionStep, InsertStep, OrgLockers

\* The steps of an organization's deletion.
LEMMA OrgDeleterHolds ==
  ASSUME TypeInv, NEW o \in OrgDeleters, TransactionStep(o)
  PROVE  /\ pc'[o] \in {"org", "again", "rows"} =>
              \/ held'[o][AdmissionKey] = "update"
              \/ pc[o] \in {"org", "again", "rows"} /\ held'[o][AdmissionKey] = held[o][AdmissionKey]
         /\ pc'[o] \in {"drain", "again", "rows"} =>
              org' = "reserved" \/ (org' = org /\ pc[o] \in {"drain", "again", "rows"})
<1> USE DEF TypeInv, AdmissionTypeOK
<1>0. o \in Transactions
    BY KindsInside
<1>1. CASE EnterAdmission(o)
    BY <1>0, <1>1, LocksTyped DEF EnterAdmission, Take, Goes, At, table
<1>2. CASE ReserveDeletion(o)
    BY <1>0, <1>2 DEF ReserveDeletion, Ends, Goes, At
<1>3. CASE CheckOrgIdle(o)
    BY <1>0, <1>3, LocksTyped, KeysApart DEF CheckOrgIdle, Ends, Take, Goes, At, table
<1>4. CASE LockRow(o)
  <2>1. \A l \in Unlocked(o) : l \in Locks /\ l # AdmissionKey
      BY <1>0, RowsAreRows
  <2>2. QED
      BY <1>0, <1>4, <2>1, LocksTyped DEF LockRow, Take, At, table
<1>5. CASE DeleteOrganization(o) \/ DeadlockDetected(o)
    BY <1>0, <1>5 DEF DeleteOrganization, EverythingGoes, DeadlockDetected, Ends, Goes
<1>6. QED
    BY <1>1, <1>2, <1>3, <1>4, <1>5, KindsApart
    DEF TransactionStep, OrgDeleterStep, OrgLockers, Inserters

LEMMA KeyNext == TypeInv /\ LockInv /\ KeyInv /\ [Next]_vars => KeyInv'
<1> SUFFICES ASSUME TypeInv, LockInv, KeyInv, [Next]_vars PROVE KeyInv'
    OBVIOUS
<1> DEFINE count == Cardinality(Active)
<1>0. count \in Nat /\ Cap \in Nat
    BY ActiveFinite, CapAssumption
<1>1. CASE UNCHANGED vars
    BY <1>1 DEF vars, table, KeyInv, CapHolds, NothingBehindReservation, Active
<1>2. ASSUME NEW r \in Runs, CloseRun(r)
      PROVE  KeyInv'
  <2>1. Active' \subseteq Active
      BY <1>2 DEF CloseRun, Active, TypeInv, AdmissionTypeOK
  <2>2. Cardinality(Active') \in Nat /\ Cardinality(Active') <= count
      BY <2>1, FewerActive
  <2>3. QED
      BY <1>0, <1>2, <2>1, <2>2
      DEF CloseRun, KeyInv, CapHolds, NothingBehindReservation
<1>3. ASSUME NEW t \in Transactions, TransactionStep(t)
      PROVE  KeyInv'
  <2>0. Alone(t)
      BY <1>3, StepsAreAlone DEF TypeInv
  <2>1. \A u \in Transactions \ {t} :
          held[u][AdmissionKey] = "update" => held[t][AdmissionKey] = "none"
      BY LocksTyped DEF LockInv, Compatible
  <2>2. Active' \subseteq Active => Cardinality(Active') \in Nat /\ Cardinality(Active') <= count
      BY FewerActive
  <2>3. ASSUME NEW a \in Admissions, pc'[a] \in Inserting
        PROVE  /\ held'[a][AdmissionKey] = "update"
               /\ Cardinality(Active') < Cap
               /\ org' # "reserved"
    <3>0. a \in Transactions
        BY KindsInside
    <3>1. CASE a = t
      <4>1. /\ pc[a] \in Inserting => /\ held[a][AdmissionKey] = "update" /\ count < Cap
                                      /\ org # "reserved"
            /\ UNCHANGED table
          BY <1>3, <2>3, <3>1, AdmissionHolds DEF KeyInv
      <4>2. Active' = Active
          BY <4>1 DEF table, Active
      <4>3. QED
          BY <1>3, <2>3, <3>1, <4>1, <4>2, AdmissionHolds DEF table
    <3>2. CASE a # t
      <4>1. pc[a] \in Inserting /\ held'[a] = held[a]
          BY <2>0, <2>3, <3>0, <3>2 DEF Alone
      <4>2. held[a][AdmissionKey] = "update" /\ count < Cap /\ org # "reserved"
          BY <4>1 DEF KeyInv
      <4>3. held[t][AdmissionKey] = "none"
          BY <2>1, <3>0, <3>2, <4>2
      <4>4. ~ (t \in Admissions /\ At(t, "parents")) /\ ~ (t \in OrgDeleters /\ At(t, "org"))
          BY <4>3 DEF KeyInv, At, Inserting
      <4>5. Active' \subseteq Active /\ org' # "reserved"
          BY <1>3, <4>2, <4>4, ActiveChange, OrgChange
      <4>6. QED
          BY <1>0, <2>2, <4>1, <4>2, <4>5
    <3>3. QED
        BY <3>1, <3>2
  <2>4. ASSUME NEW o \in OrgDeleters, pc'[o] \in {"org", "again", "rows"}
        PROVE  held'[o][AdmissionKey] = "update"
    <3>1. CASE o = t
        BY <1>3, <2>4, <3>1, OrgDeleterHolds DEF KeyInv
    <3>2. CASE o # t
        BY <2>0, <2>4, <3>2, KindsInside DEF Alone, KeyInv
    <3>3. QED
        BY <3>1, <3>2
  <2>5. ASSUME NEW o \in OrgDeleters, pc'[o] \in {"drain", "again", "rows"}
        PROVE  org' # "live"
    <3>1. CASE o = t
        BY <1>3, <2>5, <3>1, OrgDeleterHolds DEF KeyInv
    <3>2. CASE o # t
      <4>1. org # "live"
          BY <2>0, <2>5, <3>2, KindsInside DEF Alone, KeyInv
      <4>2. QED
          BY <1>3, <4>1, OrgChange
    <3>3. QED
        BY <3>1, <3>2
  <2>6. Cardinality(Active') <= Cap
    <3>1. CASE Active' \subseteq Active
        BY <1>0, <2>2, <3>1 DEF KeyInv, CapHolds
    <3>2. CASE t \in Admissions /\ At(t, "parents") /\ Active' \subseteq Active \cup {t}
      <4>1. count < Cap
          BY <3>2 DEF KeyInv, At, Inserting
      <4>2. IsFiniteSet(Active \cup {t}) /\ Cardinality(Active \cup {t}) <= count + 1
            /\ Cardinality(Active \cup {t}) \in Nat
          BY <1>0, ActiveFinite, FS_AddElement, FS_CardinalityType
      <4>3. Cardinality(Active') \in Nat /\ Cardinality(Active') <= Cardinality(Active \cup {t})
          BY <3>2, <4>2, FS_Subset, FS_CardinalityType
      <4>4. QED
          BY <1>0, <4>1, <4>2, <4>3
    <3>3. QED
        BY <1>3, <3>1, <3>2, ActiveChange
  <2>7. org' # "live" => Active' = {}
    <3>1. CASE org' = org
      <4>1. org # "live" => Active = {}
          BY DEF KeyInv, NothingBehindReservation
      <4>2. ~ (t \in Admissions /\ At(t, "parents") /\ org = "reserved")
          BY DEF KeyInv, At, Inserting
      <4>3. org # "live" => org \in {"reserved", "gone"}
          BY DEF TypeInv, AdmissionTypeOK
      <4>4. QED
          BY <1>3, <3>1, <4>1, <4>2, <4>3, ActiveChange
    <3>2. CASE org' # org
        BY <1>3, <3>2, OrgChange
    <3>3. QED
        BY <3>1, <3>2
  <2>8. QED
      BY <2>3, <2>4, <2>5, <2>6, <2>7 DEF KeyInv, CapHolds, NothingBehindReservation
<1>4. QED
    BY <1>1, <1>2, <1>3 DEF Next, Step

LEMMA LockAndKeyInit == Init => LockInv /\ KeyInv
<1> SUFFICES ASSUME Init PROVE LockInv /\ KeyInv
    OBVIOUS
<1>1. LockInv
    BY DEF Init, LockInv, Compatible, NothingHeld
<1>2. Active = {}
    BY DEF Init, Active, NoRow
<1>3. Cardinality(Active) <= Cap
    BY <1>2, FS_EmptySet, CapAssumption
<1>4. \A a \in Admissions : pc[a] = "admission"
    BY KindsInside, KindsApart DEF Init, FirstStatement, KeyTakers
<1>5. \A o \in OrgDeleters : pc[o] = "admission"
    BY KindsInside, KindsApart DEF Init, FirstStatement, KeyTakers
<1>6. org = "live"
    BY DEF Init
<1>7. QED
    BY <1>1, <1>2, <1>3, <1>4, <1>5, <1>6 DEF KeyInv, CapHolds, NothingBehindReservation, Inserting

\* The cap on an organization's concurrent runs is exact, for every number of launches
\* that read the count and every order in which they insert.
THEOREM CapIsExact == Spec => []CapHolds
<1>1. KeyInv => CapHolds
    BY DEF KeyInv
<1>2. TypeInv => AdmissionTypeOK
    BY DEF TypeInv
<1>3. QED
    BY TypeInit, TypeNext, LockAndKeyInit, LockNext, KeyNext, <1>1, <1>2, PTL DEF Spec

\* No run is in flight in an organization whose deletion is reserved.
THEOREM ReservationHolds == Spec => []NothingBehindReservation
<1>1. KeyInv => NothingBehindReservation
    BY DEF KeyInv
<1>2. TypeInv => AdmissionTypeOK
    BY DEF TypeInv
<1>3. QED
    BY TypeInit, TypeNext, LockAndKeyInit, LockNext, KeyNext, <1>1, <1>2, PTL DEF Spec
-----------------------------------------------------------------------------
(* What a delete may take.                                                 *)

\* Whoever deletes runs has counted none of them active, and holds what an admission
\* needs to insert another.
DeleteInv ==
  /\ \A d \in RunDeleters :
       /\ pc[d] \in {"org", "package", "rows", "delete"} => held[d][AdmissionKey] = "update"
       /\ pc[d] = "package" => RunsOf(Agent[d]) \cap Active = {}
       /\ pc[d] \in {"rows", "delete"} => mine[d].runs \cap Active = {}
  /\ \A s \in SpaceDeleters :
       pc[s] = "rows" => held[s][SpaceRow] = "update" /\ Active = {}

\* The steps of a package's run deletion.
LEMMA RunDeleterHolds ==
  ASSUME TypeInv, NEW d \in RunDeleters, TransactionStep(d)
  PROVE  /\ pc'[d] \in {"org", "package", "rows", "delete"} =>
              \/ held'[d][AdmissionKey] = "update"
              \/ /\ pc[d] \in {"org", "package", "rows", "delete"}
                 /\ held'[d][AdmissionKey] = held[d][AdmissionKey]
         /\ pc'[d] \in {"org", "package", "rows", "delete"} => UNCHANGED table
         /\ pc'[d] = "package" => RunsOf(Agent[d]) \cap Active = {}
         /\ pc'[d] \in {"rows", "delete"} =>
              \/ pc[d] = "package" /\ mine'[d].runs = RunsOf(Agent[d])
              \/ pc[d] \in {"rows", "delete"} /\ mine'[d].runs = mine[d].runs
<1> USE DEF TypeInv, AdmissionTypeOK
<1>0. d \in Transactions /\ Agent[d] \in Packages
    BY KindsInside, AgentsTyped
<1>1. CASE EnterAdmission(d)
    BY <1>0, <1>1, LocksTyped DEF EnterAdmission, Take, Goes, At
<1>2. CASE CheckPackageIdle(d)
    BY <1>0, <1>2, LocksTyped, KeysApart DEF CheckPackageIdle, Ends, Take, Goes, At
<1>3. CASE EnumerateRuns(d)
  <2>1. pc'[d] \in {"done", "rows"}
      BY <1>0, <1>3 DEF EnumerateRuns, Ends, Goes
  <2>2. pc'[d] = "rows" => /\ Take(d, PackageRow(Agent[d]), "update")
                           /\ mine' = [mine EXCEPT ![d] = [Blank EXCEPT !.runs = RunsOf(Agent[d])]]
      BY <1>0, <1>3 DEF EnumerateRuns, Ends, Goes
  <2>3. pc'[d] = "rows" => mine'[d].runs = RunsOf(Agent[d])
      BY <1>0, <2>2 DEF Blank
  <2>4. pc'[d] = "rows" => held'[d][AdmissionKey] = held[d][AdmissionKey]
      BY <1>0, <2>2, LocksTyped, KeysApart DEF Take
  <2>5. pc[d] = "package" /\ UNCHANGED table
      BY <1>3 DEF EnumerateRuns, At
  <2>6. QED
      BY <2>1, <2>3, <2>4, <2>5
<1>4. CASE LockRow(d)
  <2>1. \A l \in Unlocked(d) : l \in Locks /\ l # AdmissionKey
      BY <1>0, RowsAreRows
  <2>2. QED
      BY <1>0, <1>4, <2>1, LocksTyped DEF LockRow, Take, At
<1>5. CASE DetachOrDelete(d)
  <2>1. mine'[d].runs = mine[d].runs
      BY <1>0, <1>5 DEF DetachOrDelete
  <2>2. QED
      BY <1>0, <1>5, <2>1 DEF DetachOrDelete, Goes, At
<1>6. CASE DeletePackageRuns(d) \/ DeadlockDetected(d)
    BY <1>0, <1>6 DEF DeletePackageRuns, DeadlockDetected, Ends, Goes
<1>7. QED
    BY <1>1, <1>2, <1>3, <1>4, <1>5, <1>6, KindsApart
    DEF TransactionStep, RunDeleterStep, OrgLockers, Inserters

\* The steps of a space's deletion.
LEMMA SpaceDeleterHolds ==
  ASSUME TypeInv, NEW s \in SpaceDeleters, TransactionStep(s), pc'[s] = "rows"
  PROVE  /\ UNCHANGED table
         /\ \/ held'[s][SpaceRow] = "update" /\ Active = {}
            \/ pc[s] = "rows" /\ held'[s][SpaceRow] = held[s][SpaceRow]
<1> USE DEF TypeInv, AdmissionTypeOK
<1>0. s \in Transactions
    BY KindsInside
<1>1. CASE LockOrg(s)
    BY <1>0, <1>1, KindsApart DEF LockOrg, Ends, Goes
<1>2. CASE CheckSpaceIdle(s)
    BY <1>0, <1>2, LocksTyped DEF CheckSpaceIdle, Ends, Goes, Take
<1>3. CASE LockRow(s)
  <2>1. \A l \in Unlocked(s) : l \in Locks /\ l # SpaceRow
      BY <1>0, RowsAreRows
  <2>2. QED
      BY <1>0, <1>3, <2>1, LocksTyped DEF LockRow, Take, At
<1>4. CASE DeleteSpace(s) \/ DeadlockDetected(s)
    BY <1>0, <1>4 DEF DeleteSpace, EverythingGoes, DeadlockDetected, Ends, Goes
<1>5. QED
    BY <1>1, <1>2, <1>3, <1>4, KindsApart, KindsInside
    DEF TransactionStep, SpaceDeleterStep, OrgLockers, KeyTakers, Inserters

LEMMA DeleteNext == TypeInv /\ LockInv /\ KeyInv /\ DeleteInv /\ [Next]_vars => DeleteInv'
<1> SUFFICES ASSUME TypeInv, LockInv, KeyInv, DeleteInv, [Next]_vars PROVE DeleteInv'
    OBVIOUS
<1>1. CASE UNCHANGED vars
    BY <1>1 DEF vars, table, DeleteInv, RunsOf, Exists, Active
<1>2. ASSUME NEW r \in Runs, CloseRun(r)
      PROVE  DeleteInv'
  <2>1. Active' \subseteq Active
      BY <1>2 DEF CloseRun, Active, TypeInv, AdmissionTypeOK
  <2>2. \A p : RunsOf(p)' = RunsOf(p)
      BY <1>2 DEF CloseRun, RunsOf, Exists, TypeInv, AdmissionTypeOK
  <2>3. QED
      BY <1>2, <2>1, <2>2 DEF CloseRun, DeleteInv
<1>3. ASSUME NEW t \in Transactions, TransactionStep(t)
      PROVE  DeleteInv'
  <2>0. Alone(t)
      BY <1>3, StepsAreAlone DEF TypeInv
  <2>1. \A u \in Transactions \ {t} : \A l \in {AdmissionKey, SpaceRow} :
          held[u][l] = "update" => held[t][l] = "none"
      BY LocksTyped DEF LockInv, Compatible
  <2>2. held[t][AdmissionKey] = "none" \/ held[t][SpaceRow] = "none" => Active' \subseteq Active
      BY <1>3, ActiveChange DEF KeyInv, Parents, At, Inserting
  <2>3. \A p : Active' \subseteq Active => RunsOf(p)' \cap Active' \subseteq RunsOf(p) \cap Active
    <3>1. \A r \in Active : Exists(r)
        BY DEF Active, Exists
    <3>2. QED
        BY <1>3, <3>1, PackagesShrink DEF RunsOf
  <2>4. ASSUME NEW d \in RunDeleters
        PROVE  /\ pc'[d] \in {"org", "package", "rows", "delete"} => held'[d][AdmissionKey] = "update"
               /\ pc'[d] = "package" => RunsOf(Agent[d])' \cap Active' = {}
               /\ pc'[d] \in {"rows", "delete"} => mine'[d].runs \cap Active' = {}
    <3>0. d \in Transactions
        BY KindsInside
    <3>1. CASE d = t
      <4>1. UNCHANGED table => Active' = Active /\ RunsOf(Agent[d])' = RunsOf(Agent[d])
          BY DEF table, Active, RunsOf, Exists
      <4>2. QED
          BY <1>3, <3>1, <4>1, RunDeleterHolds DEF DeleteInv
    <3>2. CASE d # t
      <4>1. pc'[d] = pc[d] /\ held'[d] = held[d] /\ mine'[d] = mine[d]
          BY <2>0, <3>0, <3>2 DEF Alone
      <4>2. pc[d] \in {"org", "package", "rows", "delete"} => Active' \subseteq Active
          BY <2>1, <2>2, <3>0, <3>2 DEF DeleteInv
      <4>3. QED
          BY <2>3, <4>1, <4>2 DEF DeleteInv
    <3>3. QED
        BY <3>1, <3>2
  <2>5. ASSUME NEW s \in SpaceDeleters, pc'[s] = "rows"
        PROVE  held'[s][SpaceRow] = "update" /\ Active' = {}
    <3>0. s \in Transactions
        BY KindsInside
    <3>1. CASE s = t
      <4>1. UNCHANGED table => Active' = Active
          BY DEF table, Active
      <4>2. QED
          BY <1>3, <2>5, <3>1, <4>1, SpaceDeleterHolds DEF DeleteInv
    <3>2. CASE s # t
      <4>1. pc[s] = "rows" /\ held'[s] = held[s]
          BY <2>0, <2>5, <3>0, <3>2 DEF Alone
      <4>2. held[s][SpaceRow] = "update" /\ Active = {}
          BY <4>1 DEF DeleteInv
      <4>3. QED
          BY <2>1, <2>2, <3>0, <3>2, <4>1, <4>2
    <3>3. QED
        BY <3>1, <3>2
  <2>6. QED
      BY <2>4, <2>5 DEF DeleteInv
<1>4. QED
    BY <1>1, <1>2, <1>3 DEF Next, Step

LEMMA DeleteInit == Init => DeleteInv
<1> SUFFICES ASSUME Init PROVE DeleteInv
    OBVIOUS
<1>1. \A d \in RunDeleters : pc[d] = "admission"
    BY KindsInside, KindsApart DEF Init, FirstStatement, KeyTakers
<1>2. \A s \in SpaceDeleters : pc[s] = "org"
  <2>1. \A s \in SpaceDeleters : 
          s \notin KeyTakers /\ s \notin Failures /\ s \in OrgLockers /\ s \notin ItemDeleters
      BY KindsInside, KindsApart DEF KeyTakers
  <2>2. QED
      BY <2>1, KindsInside DEF Init, FirstStatement
<1>3. QED
    BY <1>1, <1>2 DEF DeleteInv

\* No step takes the row of a run in flight.
LEMMA StepsKeepActive ==
  ASSUME TypeInv, KeyInv, DeleteInv, [Next]_vars, NEW r \in Runs, run[r].status = "active"
  PROVE  run'[r].status # "none"
<1>1. r \in Active
    BY DEF Active
<1>2. CASE UNCHANGED run
    BY <1>2
<1>3. ASSUME NEW q \in Runs, CloseRun(q)
      PROVE  run'[r].status # "none"
    BY <1>3 DEF CloseRun, TypeInv, AdmissionTypeOK
<1>4. ASSUME NEW t \in Transactions, TransactionStep(t)
      PROVE  run'[r].status # "none"
  <2>1. CASE t \in Inserters /\ run' = [run EXCEPT ![t] =
               [status |-> IF t \in Admissions THEN "active" ELSE "ended", number |-> mine[t].number]]
      BY <2>1, KindsInside DEF TypeInv, AdmissionTypeOK
  <2>2. CASE t \in RunDeleters /\ DeletePackageRuns(t)
               /\ run' = [q \in Runs |-> IF q \in mine[t].runs THEN NoRow ELSE run[q]]
    <3>1. mine[t].runs \cap Active = {}
        BY <2>2 DEF DeletePackageRuns, At, DeleteInv
    <3>2. QED
        BY <1>1, <2>2, <3>1
  <2>3. CASE t \in OrgDeleters /\ DeleteOrganization(t)
    <3>1. org # "live"
        BY <2>3 DEF DeleteOrganization, At, KeyInv
    <3>2. QED
        BY <1>1, <3>1 DEF KeyInv, NothingBehindReservation
  <2>4. CASE t \in SpaceDeleters /\ DeleteSpace(t)
      BY <1>1, <2>4 DEF DeleteSpace, At, DeleteInv
  <2>5. CASE UNCHANGED run
      BY <2>5
  <2>6. QED
      BY <1>4, <2>1, <2>2, <2>3, <2>4, <2>5, RunsChange DEF TypeInv
<1>5. QED
    BY <1>2, <1>3, <1>4 DEF Next, Step, vars, table

\* No delete takes a run in flight, whoever launches while it decides.
THEOREM DeletesSpareActive == Spec => ActiveRunsAreKept
<1>1. TypeInv => AdmissionTypeOK
    BY DEF TypeInv
<1>2. TypeInv /\ KeyInv /\ DeleteInv /\ [Next]_vars =>
        [\A r \in Runs : run[r].status = "active" => run'[r].status # "none"]_vars
    BY StepsKeepActive
<1>3. QED
    BY TypeInit, TypeNext, LockAndKeyInit, LockNext, KeyNext, DeleteInit, DeleteNext,
       <1>1, <1>2, PTL DEF Spec, ActiveRunsAreKept
-----------------------------------------------------------------------------
(* Run numbers.                                                            *)

\* Whoever holds a number to insert holds the lock on the package's numbers, and the
\* number is above every run of the package there is.
NumberInv ==
  /\ NumbersUnique
  /\ \A t \in Inserters : pc[t] = "parents" =>
       /\ held[t][NumberKey(Agent[t])] = "update"
       /\ Agent[t] \in packages =>
            \A r \in Runs : Exists(r) /\ Agent[r] = Agent[t] => run[r].number < mine[t].number

\* Every run a step leaves was there with its number, or is inserted with the one read.
LEMMA NumbersChange ==
  ASSUME TypeInv, NEW t \in Transactions, TransactionStep(t), NEW r \in Runs, run'[r].status # "none"
  PROVE  \/ Exists(r) /\ run'[r].number = run[r].number
         \/ /\ r = t /\ t \in Inserters /\ pc[t] = "parents" /\ pc'[t] = "done"
            /\ Agent[t] \in packages /\ run'[r].number = mine[t].number
            /\ \A q \in Runs \ {t} : run'[q] = run[q]
<1> USE DEF TypeInv, AdmissionTypeOK
<1>1. CASE UNCHANGED run
    BY <1>1 DEF Exists
<1>2. ASSUME NEW gone, run' = [q \in Runs |-> IF q \in gone THEN NoRow ELSE run[q]]
      PROVE  Exists(r) /\ run'[r].number = run[r].number
    BY <1>2 DEF Exists, NoRow
<1>3. run' # [q \in Runs |-> NoRow]
    BY DEF NoRow
<1>4. CASE /\ t \in Inserters /\ InsertRun(t) /\ At(t, "parents") /\ Agent[t] \in packages
           /\ run' = [run EXCEPT ![t] =
                [status |-> IF t \in Admissions THEN "active" ELSE "ended", number |-> mine[t].number]]
    BY <1>4, KindsInside DEF InsertRun, Ends, Goes, At, Exists
<1>5. QED
    BY <1>1, <1>2, <1>3, <1>4, RunsChange

LEMMA InserterHolds ==
  ASSUME TypeInv, NEW t \in Inserters, TransactionStep(t), pc'[t] = "parents"
  PROVE  /\ UNCHANGED table
         /\ \/ /\ held'[t][NumberKey(Agent[t])] = "update"
               /\ mine'[t].number = NextNumber(Agent[t])
            \/ /\ pc[t] = "parents" /\ mine'[t] = mine[t]
               /\ held'[t][NumberKey(Agent[t])] = held[t][NumberKey(Agent[t])]
<1> USE DEF TypeInv, AdmissionTypeOK
<1>0. t \in Transactions /\ Agent[t] \in Packages
    BY KindsInside, AgentsTyped
<1>1. CASE TakeNumber(t)
    BY <1>0, <1>1, LocksTyped DEF TakeNumber, Take, Blank
<1>2. CASE LockParent(t)
  <2>1. NextParent(t) \in {PackageRow(Agent[t]), SpaceRow, OrgRow}
      BY DEF NextParent
  <2>2. NextParent(t) \in Locks /\ NextParent(t) # NumberKey(Agent[t])
      BY <1>0, <2>1, LocksTyped, KeysApart
  <2>3. QED
      BY <1>0, <1>2, <2>2, LocksTyped DEF LockParent, Take, At
<1>3. CASE ~ TakeNumber(t) /\ ~ LockParent(t)
    BY <1>0, <1>3, KindsApart
    DEF Inserters, TransactionStep, AdmissionStep, InsertStep, Admit, LockRow, RevalidateInputs,
        InsertRun, DeadlockDetected, OrgLockers, Goes, Ends, At
<1>4. QED
    BY <1>1, <1>2, <1>3

LEMMA NumberNext == TypeInv /\ LockInv /\ NumberInv /\ [Next]_vars => NumberInv'
<1> SUFFICES ASSUME TypeInv, LockInv, NumberInv, [Next]_vars PROVE NumberInv'
    OBVIOUS
<1>1. CASE UNCHANGED vars
    BY <1>1 DEF vars, table, NumberInv, NumbersUnique, Exists
<1>2. ASSUME NEW c \in Runs, CloseRun(c)
      PROVE  NumberInv'
  <2>1. \A r \in Runs : run'[r].number = run[r].number /\ (Exists(r)' <=> Exists(r))
      BY <1>2 DEF CloseRun, Exists, TypeInv, AdmissionTypeOK
  <2>2. QED
      BY <1>2, <2>1 DEF CloseRun, NumberInv, NumbersUnique
<1>3. ASSUME NEW t \in Transactions, TransactionStep(t)
      PROVE  NumberInv'
  <2>0. Alone(t)
      BY <1>3, StepsAreAlone DEF TypeInv
  <2>1. ASSUME NEW r \in Runs, NEW q \in Runs, Exists(r)', Exists(q)', Agent[r] = Agent[q],
               run'[r].number = run'[q].number
        PROVE  r = q
    <3>1. \/ Exists(r) /\ run'[r].number = run[r].number
          \/ /\ r = t /\ t \in Inserters /\ pc[t] = "parents" /\ Agent[t] \in packages
             /\ run'[r].number = mine[t].number /\ \A p \in Runs \ {t} : run'[p] = run[p]
        BY <1>3, <2>1, NumbersChange DEF Exists
    <3>2. \/ Exists(q) /\ run'[q].number = run[q].number
          \/ /\ q = t /\ t \in Inserters /\ pc[t] = "parents" /\ Agent[t] \in packages
             /\ run'[q].number = mine[t].number /\ \A p \in Runs \ {t} : run'[p] = run[p]
        BY <1>3, <2>1, NumbersChange DEF Exists
    <3>3. run[r].number \in Nat /\ run[q].number \in Nat
        BY RunRowsTyped DEF TypeInv
    <3>4. QED
        BY <2>1, <3>1, <3>2, <3>3 DEF NumberInv, NumbersUnique
  <2>2. ASSUME NEW u \in Inserters, pc'[u] = "parents"
        PROVE  /\ held'[u][NumberKey(Agent[u])] = "update"
               /\ Agent[u] \in packages' =>
                    \A r \in Runs : Exists(r)' /\ Agent[r] = Agent[u]
                                      => run'[r].number < mine'[u].number
    <3>0. u \in Transactions /\ Agent[u] \in Packages
        BY KindsInside, AgentsTyped
    <3>1. CASE u = t
      <4>1. /\ UNCHANGED table
            /\ \/ /\ held'[u][NumberKey(Agent[u])] = "update"
                  /\ mine'[u].number = NextNumber(Agent[u])
               \/ /\ pc[u] = "parents" /\ mine'[u] = mine[u]
                  /\ held'[u][NumberKey(Agent[u])] = held[u][NumberKey(Agent[u])]
          BY <1>3, <2>2, <3>1, InserterHolds
      <4>2. \A r \in RunsOf(Agent[u]) : run[r].number < NextNumber(Agent[u])
          BY <3>0, NextNumberIsNew DEF TypeInv
      <4>3. QED
          BY <4>1, <4>2 DEF NumberInv, RunsOf, Exists, table
    <3>2. CASE u # t
      <4>1. pc[u] = "parents" /\ held'[u] = held[u] /\ mine'[u] = mine[u]
          BY <2>0, <2>2, <3>0, <3>2 DEF Alone
      <4>2. held[u][NumberKey(Agent[u])] = "update"
          BY <4>1 DEF NumberInv
      <4>3. held[t][NumberKey(Agent[u])] = "none"
          BY <3>0, <3>2, <4>2, LocksTyped DEF LockInv, Compatible
      <4>4. t \in Inserters /\ pc[t] = "parents" => Agent[t] # Agent[u]
          BY <4>3 DEF NumberInv
      <4>5. packages' \subseteq packages
          BY <1>3, PackagesShrink
      <4>6. \A r \in Runs : Exists(r)' /\ Agent[r] = Agent[u] =>
                              Exists(r) /\ run'[r].number = run[r].number
          BY <1>3, <4>4, NumbersChange DEF Exists
      <4>7. QED
          BY <4>1, <4>2, <4>5, <4>6 DEF NumberInv
    <3>3. QED
        BY <3>1, <3>2
  <2>3. QED
      BY <2>1, <2>2 DEF NumberInv, NumbersUnique
<1>4. QED
    BY <1>1, <1>2, <1>3 DEF Next, Step

LEMMA NumberInit == Init => NumberInv
<1> SUFFICES ASSUME Init PROVE NumberInv
    OBVIOUS
<1>1. \A r \in Runs : Exists(r) => r \in OldRuns
    BY DEF Init, Exists, NoRow
<1>2. \A t \in Transactions : FirstStatement(t) # "parents"
    BY DEF FirstStatement, Transactions
<1>3. \A t \in Inserters : pc[t] # "parents"
    BY <1>2, KindsInside DEF Init
<1>4. QED
    BY <1>1, <1>3, RunsAssumption DEF NumberInv, NumbersUnique

\* No two runs of a package share a number, whoever numbers them and whatever is deleted.
THEOREM NumbersAreUnique == Spec => []NumbersUnique
<1>1. NumberInv => NumbersUnique
    BY DEF NumberInv
<1>2. TypeInv => AdmissionTypeOK
    BY DEF TypeInv
<1>3. QED
    BY TypeInit, TypeNext, LockAndKeyInit, LockNext, NumberInit, NumberNext, <1>1, <1>2, PTL DEF Spec
-----------------------------------------------------------------------------
(* The files runs stand on.                                                *)

\* The organization's row is held by whoever publishes a file and by whoever counts the
\* files there are; a files row is only ever locked for itself.
OrgInv ==
  /\ \A t \in RunDeleters : pc[t] \in {"package", "rows", "delete"} => held[t][OrgRow] = "update"
  /\ \A t \in OrgDeleters : pc[t] = "rows" => held[t][OrgRow] = "update"
  /\ \A t \in OrgLockers : pc[t] \in {"space", "rows", "scan", "skip", "sweep", "insert"}
                             => held[t][OrgRow] = "update"
  /\ \A t \in Transactions : \A f \in Files : held[t][FileRow(f)] \in {"none", "update"}

LEMMA FilesHeldAlone ==
  ASSUME AdmissionTypeOK, NEW t \in Transactions, TransactionStep(t), NEW f \in Files,
         held[t][FileRow(f)] \in {"none", "update"}
  PROVE  held'[t][FileRow(f)] \in {"none", "update"}
<1>0. held[t] \in [Locks -> Modes] /\ FileRow(f) \in Locks
    BY LocksTyped DEF AdmissionTypeOK
<1>1. ASSUME NEW k, Take(t, k, "update")
      PROVE  held'[t][FileRow(f)] \in {"none", "update"}
    BY <1>0, <1>1 DEF Take, AdmissionTypeOK
<1>2. ASSUME ReleaseAll(t)
      PROVE  held'[t][FileRow(f)] = "none"
    BY <1>0, <1>2 DEF ReleaseAll, NothingHeld, AdmissionTypeOK
<1>3. CASE LockParent(t)
  <2>1. NextParent(t) \in {PackageRow(Agent[t]), SpaceRow, OrgRow}
      BY DEF NextParent
  <2>2. NextParent(t) # FileRow(f)
      BY <2>1, KeysApart
  <2>3. QED
      BY <1>0, <1>3, <2>2 DEF LockParent, Take, AdmissionTypeOK
<1>4. CASE SkipLocked(t)
    BY <1>0, <1>4 DEF SkipLocked, AdmissionTypeOK
<1>5. CASE UNCHANGED held
    BY <1>5
<1>6. QED
    BY <1>1, <1>2, <1>3, <1>4, <1>5
    DEF TransactionStep, AdmissionStep, Admit, LockRow, RevalidateInputs,
        InsertStep, TakeNumber, InsertRun, RunDeleterStep, EnterAdmission, CheckPackageIdle,
        EnumerateRuns, DetachOrDelete, DeletePackageRuns, OrgDeleterStep, ReserveDeletion, CheckOrgIdle,
        DeleteOrganization, EverythingGoes, SpaceDeleterStep, LockOrg, CheckSpaceIdle, DeleteSpace,
        FileDeleterStep, DeleteFile, Remove, SweeperStep, ScanExpired, Sweep, PublisherStep,
        PublishFile, ItemDeleterStep, LockPackage, DropPackage, DeadlockDetected, Ends

\* A lock once taken is kept until the transaction ends.
LEMMA LocksAreKept ==
  ASSUME AdmissionTypeOK, NEW t \in Transactions, TransactionStep(t), NEW l \in Locks,
         held[t][l] = "update"
  PROVE  \/ held'[t][l] = "update"
         \/ pc'[t] \in {"done", "drain"}
         \/ t \in Inserters /\ LockParent(t)
<1>0. held[t] \in [Locks -> Modes]
    BY DEF AdmissionTypeOK
<1>1. \A k : Take(t, k, "update") => held'[t][l] = "update"
    BY <1>0 DEF Take, AdmissionTypeOK
<1>2. Ends(t) => pc'[t] = "done"
    BY DEF Ends, Goes, AdmissionTypeOK
<1>3. SkipLocked(t) => held'[t][l] = "update"
    BY <1>0 DEF SkipLocked, AdmissionTypeOK
<1>4. UNCHANGED held => held'[t][l] = "update"
    OBVIOUS
<1>5. ReserveDeletion(t) => pc'[t] \in {"done", "drain"}
    BY <1>2 DEF ReserveDeletion, Goes, AdmissionTypeOK
<1>6. QED
    BY <1>1, <1>2, <1>3, <1>4, <1>5
    DEF TransactionStep, AdmissionStep, Admit, LockRow, RevalidateInputs,
        InsertStep, TakeNumber, InsertRun, RunDeleterStep, EnterAdmission, CheckPackageIdle,
        EnumerateRuns, DetachOrDelete, DeletePackageRuns, OrgDeleterStep, CheckOrgIdle,
        DeleteOrganization, EverythingGoes, SpaceDeleterStep, LockOrg, CheckSpaceIdle, DeleteSpace,
        FileDeleterStep, DeleteFile, Remove, SweeperStep, ScanExpired, Sweep, PublisherStep,
        PublishFile, ItemDeleterStep, LockPackage, DropPackage, DeadlockDetected

\* The statements that take the organization's row, and those that follow.
LEMMA OrgRowTaken ==
  ASSUME TypeInv, NEW t \in Transactions, TransactionStep(t)
  PROVE  /\ t \in RunDeleters /\ pc'[t] \in {"package", "rows", "delete"} =>
              pc[t] \in {"package", "rows", "delete"} \/ held'[t][OrgRow] = "update"
         /\ t \in OrgDeleters /\ pc'[t] = "rows" => pc[t] = "rows" \/ held'[t][OrgRow] = "update"
         /\ t \in OrgLockers /\ pc'[t] \in {"space", "rows", "scan", "skip", "sweep", "insert"} =>
              \/ pc[t] \in {"space", "rows", "scan", "skip", "sweep", "insert"}
              \/ held'[t][OrgRow] = "update"
<1> USE DEF TypeInv, AdmissionTypeOK
<1>0. Take(t, OrgRow, "update") => held'[t][OrgRow] = "update"
    BY LocksTyped DEF Take
<1>1. ASSUME t \in RunDeleters, pc'[t] \in {"package", "rows", "delete"},
             pc[t] \notin {"package", "rows", "delete"}
      PROVE  held'[t][OrgRow] = "update"
    BY <1>0, <1>1, KindsApart
    DEF TransactionStep, RunDeleterStep, EnterAdmission, CheckPackageIdle, EnumerateRuns, LockRow,
        DetachOrDelete, DeletePackageRuns, DeadlockDetected, OrgLockers, Inserters, Ends, Goes, At
<1>2. ASSUME t \in OrgDeleters, pc'[t] = "rows", pc[t] # "rows"
      PROVE  held'[t][OrgRow] = "update"
    BY <1>0, <1>2, KindsApart
    DEF TransactionStep, OrgDeleterStep, EnterAdmission, ReserveDeletion, CheckOrgIdle, LockRow,
        DeleteOrganization, EverythingGoes, DeadlockDetected, OrgLockers, Inserters, Ends, Goes, At
<1>3. ASSUME t \in OrgLockers,
             pc'[t] \in {"space", "rows", "scan", "skip", "sweep", "insert"},
             pc[t] \notin {"space", "rows", "scan", "skip", "sweep", "insert"}
      PROVE  held'[t][OrgRow] = "update"
  <2>1. LockOrg(t) => held'[t][OrgRow] = "update"
      BY <1>0, <1>3 DEF LockOrg, Ends, Goes
  <2>2. t \notin KeyTakers /\ t \notin Failures /\ t \notin Inserters /\ t \notin ItemDeleters
      BY <1>3, KindsApart DEF KeyTakers, Inserters
  <2>3. QED
      BY <1>3, <2>1, <2>2
      DEF TransactionStep, KeyTakers, Inserters, SpaceDeleterStep, FileDeleterStep, SweeperStep,
          PublisherStep, CheckSpaceIdle, LockRow, DeleteSpace, EverythingGoes, DeleteFile, Remove,
          ScanExpired, SkipLocked, Sweep, PublishFile, DeadlockDetected, Ends, Goes, At
<1>4. QED
    BY <1>1, <1>2, <1>3

LEMMA OrgNext == TypeInv /\ OrgInv /\ [Next]_vars => OrgInv'
<1> SUFFICES ASSUME TypeInv, OrgInv, [Next]_vars PROVE OrgInv'
    OBVIOUS
<1>1. CASE UNCHANGED <<pc, held>>
    BY <1>1 DEF OrgInv
<1>2. ASSUME NEW t \in Transactions, TransactionStep(t)
      PROVE  OrgInv'
  <2>0. Alone(t)
      BY <1>2, StepsAreAlone DEF TypeInv
  <2>1. held[t][OrgRow] = "update" /\ t \notin Inserters /\ pc'[t] \notin {"done", "drain"}
          => held'[t][OrgRow] = "update"
      BY <1>2, LocksAreKept, LocksTyped DEF TypeInv
  <2>2. ASSUME NEW u \in Transactions, NEW f \in Files
        PROVE  held'[u][FileRow(f)] \in {"none", "update"}
    <3>1. held[u][FileRow(f)] \in {"none", "update"}
        BY DEF OrgInv
    <3>2. QED
        BY <1>2, <2>0, <3>1, FilesHeldAlone DEF Alone, TypeInv
  <2>3. ASSUME NEW u \in RunDeleters, pc'[u] \in {"package", "rows", "delete"}
        PROVE  held'[u][OrgRow] = "update"
    <3>1. CASE u = t
        BY <1>2, <2>1, <2>3, <3>1, OrgRowTaken, KindsApart DEF OrgInv, Inserters
    <3>2. CASE u # t
        BY <2>0, <2>3, <3>2, KindsInside DEF Alone, OrgInv
    <3>3. QED
        BY <3>1, <3>2
  <2>4. ASSUME NEW u \in OrgDeleters, pc'[u] = "rows"
        PROVE  held'[u][OrgRow] = "update"
    <3>1. CASE u = t
        BY <1>2, <2>1, <2>4, <3>1, OrgRowTaken, KindsApart DEF OrgInv, Inserters
    <3>2. CASE u # t
        BY <2>0, <2>4, <3>2, KindsInside DEF Alone, OrgInv
    <3>3. QED
        BY <3>1, <3>2
  <2>5. ASSUME NEW u \in OrgLockers, pc'[u] \in {"space", "rows", "scan", "skip", "sweep", "insert"}
        PROVE  held'[u][OrgRow] = "update"
    <3>1. CASE u = t
        BY <1>2, <2>1, <2>5, <3>1, OrgRowTaken, KindsApart DEF OrgInv, Inserters
    <3>2. CASE u # t
        BY <2>0, <2>5, <3>2 DEF Alone, OrgInv, Transactions
    <3>3. QED
        BY <3>1, <3>2
  <2>6. QED
      BY <2>2, <2>3, <2>4, <2>5 DEF OrgInv
<1>3. QED
    BY <1>1, <1>2 DEF Next, Step, CloseRun, vars

LEMMA OrgInit == Init => OrgInv
<1> SUFFICES ASSUME Init PROVE OrgInv
    OBVIOUS
<1>1. \A t \in Transactions : FirstStatement(t) \in {"admission", "number", "org", "package"}
    BY DEF FirstStatement, Transactions
<1>2. \A t \in Transactions : t \notin ItemDeleters => FirstStatement(t) \in {"admission", "number", "org"}
    BY DEF FirstStatement, Transactions
<1>3. QED
    BY <1>1, <1>2, KindsInside, KindsApart, LocksTyped
    DEF Init, OrgInv, NothingHeld, Transactions
\* A consumed file stays locked from its revalidation to the insert that links it; a
\* delete has counted every file there is to take, kept those another run consumes, and
\* holds the rows of the others.
FileInv ==
  /\ InputsResolve
  /\ NoFileSilentlyDropped
  /\ \A a \in Admissions : pc[a] \in {"number", "parents"} =>
       \A f \in Input[a] : f \in Live /\ held[a][FileRow(f)] = "update"
  /\ \A d \in RunDeleters : pc[d] = "delete" =>
       /\ ContainedIn(mine[d].runs) \ mine[d].kept \subseteq mine[d].doomed
       /\ \A f \in mine[d].doomed :
            /\ held[d][FileRow(f)] = "update"
            /\ \A a \in Admissions \ mine[d].runs : Exists(a) => f \notin Input[a]
  /\ \A w \in Sweepers : pc[w] = "sweep" =>
       \A f \in mine[w].doomed : held[w][FileRow(f)] = "update"
  /\ \A t \in SpaceDeleters \cup OrgDeleters : pc[t] = "rows" => Live \subseteq mine[t].doomed

LEMMA RowsOfKinds ==
  /\ \A a \in Admissions : Rows(a) = {FileRow(f) : f \in Input[a] \cap Live}
  /\ \A d \in RunDeleters : Rows(d) = {FileRow(f) : f \in ContainedIn(mine[d].runs)}
  /\ \A t \in FileDeleters : Rows(t) = {FileRow(f) : f \in {Target[t]} \cap Live}
  /\ \A s \in SpaceDeleters : Rows(s) = {FileRow(f) : f \in Live}
  /\ \A o \in OrgDeleters :
       Rows(o) = {FileRow(f) : f \in Live} \cup {PackageRow(p) : p \in packages}
<1> USE DEF Rows
<1>1. \A a \in Admissions : Rows(a) = {FileRow(f) : f \in Input[a] \cap Live}
    BY KindsApart, KindsInside
<1>2. \A d \in RunDeleters : Rows(d) = {FileRow(f) : f \in ContainedIn(mine[d].runs)}
    BY KindsApart, KindsInside
<1>3. \A t \in FileDeleters : Rows(t) = {FileRow(f) : f \in {Target[t]} \cap Live}
    BY KindsApart, KindsInside
<1>4. \A s \in SpaceDeleters : Rows(s) = {FileRow(f) : f \in Live}
    BY KindsApart, KindsInside
<1>5. \A o \in OrgDeleters :
        Rows(o) = {FileRow(f) : f \in Live} \cup {PackageRow(p) : p \in packages}
    BY KindsApart, KindsInside
<1>6. QED
    BY <1>1, <1>2, <1>3, <1>4, <1>5

\* With no row left to lock, a transaction holds every file it set out to.
LEMMA AllLocked ==
  ASSUME AdmissionTypeOK, OrgInv, NEW t \in Transactions, Unlocked(t) = {}, NEW f \in Files,
         FileRow(f) \in Rows(t)
  PROVE  held[t][FileRow(f)] = "update"
BY DEF Unlocked, OrgInv

LEMMA LiveTyped == Live \subseteq Files /\ \A runs : ContainedIn(runs) \subseteq Live
BY DEF Live, ContainedIn

\* Whatever takes a file holds its row, leaves a job for its object, and no run that
\* consumes it.
LEMMA FilesGo ==
  ASSUME TypeInv, OrgInv, FileInv, NEW t \in Transactions, TransactionStep(t)
  PROVE  /\ \A f \in Files : f \in Live /\ file'[f] # "live" =>
              /\ held[t][FileRow(f)] = "update"
              /\ \A a \in Admissions : run'[a].status # "none" => f \notin Input[a]
         /\ \A f \in Files : file'[f] = "gone" => file[f] = "gone" \/ f \in jobs'
         /\ jobs \subseteq jobs'
         /\ \A f \in Files : file'[f] = "live" /\ held[t][OrgRow] # "update" =>
              f \in Live /\ container'[f] = container[f]
<1> DEFINE Goal == /\ \A f \in Files : f \in Live /\ file'[f] # "live" =>
                        /\ held[t][FileRow(f)] = "update"
                        /\ \A a \in Admissions : run'[a].status # "none" => f \notin Input[a]
                   /\ \A f \in Files : file'[f] = "gone" => file[f] = "gone" \/ f \in jobs'
                   /\ jobs \subseteq jobs'
                   /\ \A f \in Files : file'[f] = "live" /\ held[t][OrgRow] # "update" =>
                        f \in Live /\ container'[f] = container[f]
<1>0. Admissions \subseteq Runs /\ run \in [Runs -> RunRows]
    BY KindsInside DEF Inserters, TypeInv, AdmissionTypeOK
<1>1. CASE UNCHANGED <<file, container, jobs>>
    BY <1>1 DEF Live
<1>2. CASE t \in RunDeleters /\ DeletePackageRuns(t)
  <2> DEFINE gone == mine[t].doomed \cup ({f \in Live : container[f] \in mine[t].runs} \ mine[t].kept)
  <2>1. pc[t] = "delete"
      BY <1>2 DEF DeletePackageRuns, At
  <2>2. gone \subseteq mine[t].doomed
      BY <1>2, <2>1 DEF FileInv, ContainedIn
  <2>3. file' = [f \in Files |-> IF f \in gone THEN "gone" ELSE file[f]]
      BY <1>2 DEF DeletePackageRuns
  <2>4. jobs' = jobs \cup mine[t].doomed
      BY <1>2 DEF DeletePackageRuns
  <2>5. \A a \in Admissions : run'[a].status # "none" => Exists(a) /\ a \notin mine[t].runs
      BY <1>0, <1>2 DEF DeletePackageRuns, NoRow, Exists
  <2>6. held[t][OrgRow] = "update"
      BY <1>2, <2>1 DEF OrgInv
  <2>7. \A f \in mine[t].doomed :
          /\ held[t][FileRow(f)] = "update"
          /\ \A a \in Admissions \ mine[t].runs : Exists(a) => f \notin Input[a]
      BY <1>2, <2>1 DEF FileInv
  <2>8. \A f \in Live : file[f] = "live"
      BY DEF Live
  <2> HIDE DEF gone
  <2>9. QED
      BY <2>2, <2>3, <2>4, <2>5, <2>6, <2>7, <2>8
<1>3. CASE (t \in OrgDeleters /\ DeleteOrganization(t)) \/ (t \in SpaceDeleters /\ DeleteSpace(t))
  <2>1. At(t, "rows") /\ Unlocked(t) = {} /\ EverythingGoes(t)
      BY <1>3 DEF DeleteOrganization, DeleteSpace
  <2>2. Live \subseteq mine[t].doomed
      BY <1>3, <2>1 DEF FileInv, At
  <2>3. \A f \in Live : held[t][FileRow(f)] = "update"
      BY <1>3, <2>1, RowsOfKinds, AllLocked, LiveTyped DEF TypeInv
  <2>4. \A a \in Admissions : run'[a].status = "none"
      BY <1>0, <2>1 DEF EverythingGoes, NoRow
  <2>5. held[t][OrgRow] = "update"
      BY <1>3, <2>1, KindsInside DEF OrgInv, At
  <2>6. file' = [f \in Files |-> IF f \in Live THEN "gone" ELSE file[f]]
        /\ jobs' = jobs \cup mine[t].doomed
      BY <2>1 DEF EverythingGoes
  <2>7. QED
      BY <2>2, <2>3, <2>4, <2>5, <2>6
<1>4. ASSUME NEW doomed, Remove(t, doomed),
             \A f \in doomed : held[t][FileRow(f)] = "update" /\ ~ Linked(f)
      PROVE  Goal
  <2>1. file' = [f \in Files |-> IF f \in doomed THEN "gone" ELSE file[f]] /\ jobs' = jobs \cup doomed
        /\ container' = container /\ run' = run
      BY <1>4 DEF Remove
  <2>2. \A f \in doomed : \A a \in Admissions : Exists(a) => f \notin Input[a]
      BY <1>4 DEF Linked
  <2>3. QED
      BY <1>4, <2>1, <2>2 DEF Live, Exists
<1>5. CASE t \in FileDeleters /\ DeleteFile(t)
  <2> DEFINE doomed == IF Linked(Target[t]) THEN {} ELSE {Target[t]} \cap Live
  <2>1. Unlocked(t) = {} /\ Remove(t, doomed)
      BY <1>5 DEF DeleteFile
  <2>2. \A f \in doomed : held[t][FileRow(f)] = "update" /\ ~ Linked(f)
      BY <1>5, <2>1, RowsOfKinds, AllLocked, LiveTyped DEF TypeInv
  <2> HIDE DEF doomed
  <2>3. QED
      BY <1>4, <2>1, <2>2
<1>6. CASE t \in Sweepers /\ Sweep(t)
  <2> DEFINE doomed == {f \in mine[t].doomed : ~ Linked(f)}
  <2>1. Remove(t, doomed)
      BY <1>6 DEF Sweep
  <2>2. \A f \in doomed : held[t][FileRow(f)] = "update" /\ ~ Linked(f)
      BY <1>6 DEF Sweep, At, FileInv
  <2> HIDE DEF doomed
  <2>3. QED
      BY <1>4, <2>1, <2>2
<1>7. CASE t \in Publishers /\ PublishFile(t)
  <2>1. held[t][OrgRow] = "update"
      BY <1>7, KindsInside DEF PublishFile, At, OrgInv
  <2>2. jobs' = jobs /\ \A f \in Files : file'[f] = file[f] \/ file'[f] = "live"
      BY <1>7 DEF PublishFile, TypeInv, AdmissionTypeOK
  <2>3. QED
      BY <2>1, <2>2 DEF Live
<1>8. QED
    BY <1>1, <1>2, <1>3, <1>5, <1>6, <1>7
    DEF TransactionStep, AdmissionStep, Admit, LockRow, RevalidateInputs, InsertStep, TakeNumber,
        LockParent, InsertRun, RunDeleterStep, EnterAdmission, CheckPackageIdle, EnumerateRuns,
        DetachOrDelete, OrgDeleterStep, ReserveDeletion, CheckOrgIdle, SpaceDeleterStep, LockOrg,
        CheckSpaceIdle, FileDeleterStep, SweeperStep, ScanExpired, SkipLocked, PublisherStep,
        ItemDeleterStep, LockPackage, DropPackage, DeadlockDetected, table
\* An admission that passes its revalidation holds its inputs, and goes on holding them.
LEMMA InputsHeld ==
  ASSUME TypeInv, OrgInv, FileInv, NEW a \in Admissions, TransactionStep(a),
         pc'[a] \in {"number", "parents"}, NEW f \in Input[a]
  PROVE  f \in Live /\ held'[a][FileRow(f)] = "update" /\ UNCHANGED table
<1>0. a \in Transactions /\ a \in Inserters /\ f \in Files
    BY KindsInside, WiringAssumption DEF Inserters
<1>1. pc \in [Transactions -> Statements] /\ held \in [Transactions -> [Locks -> Modes]]
    BY DEF TypeInv, AdmissionTypeOK
<1>2. CASE RevalidateInputs(a)
  <2>1. Unlocked(a) = {} /\ f \in Live /\ held' = held /\ UNCHANGED table
      BY <1>0, <1>1, <1>2 DEF RevalidateInputs, Ends, Goes
  <2>2. held[a][FileRow(f)] = "update"
      BY <1>0, <2>1, RowsOfKinds, AllLocked DEF TypeInv
  <2>3. QED
      BY <2>1, <2>2
<1>3. CASE TakeNumber(a) \/ LockParent(a)
  <2>1. f \in Live /\ held[a][FileRow(f)] = "update"
      BY <1>3 DEF TakeNumber, LockParent, At, FileInv
  <2>2. NextParent(a) \in {PackageRow(Agent[a]), SpaceRow, OrgRow}
      BY DEF NextParent
  <2>3. FileRow(f) # NextParent(a) /\ FileRow(f) # NumberKey(Agent[a])
      BY <2>2, KeysApart
  <2>4. QED
      BY <1>0, <1>1, <1>3, <2>1, <2>3, LocksTyped DEF TakeNumber, LockParent, Take
<1>4. CASE Admit(a) \/ LockRow(a) \/ InsertRun(a) \/ DeadlockDetected(a)
    BY <1>0, <1>1, <1>4 DEF Admit, LockRow, InsertRun, DeadlockDetected, Ends, Goes, At
<1>5. QED
    BY <1>2, <1>3, <1>4, KindsApart
    DEF TransactionStep, AdmissionStep, InsertStep, OrgLockers

\* What the deletion of a package's runs has counted when it deletes.
LEMMA CountedForDelete ==
  ASSUME TypeInv, OrgInv, NEW d \in RunDeleters, TransactionStep(d), pc'[d] = "delete"
  PROVE  /\ UNCHANGED table
         /\ mine'[d].doomed \subseteq Live
         /\ ContainedIn(mine'[d].runs) \ mine'[d].kept \subseteq mine'[d].doomed
         /\ \A f \in mine'[d].doomed :
              /\ held'[d][FileRow(f)] = "update"
              /\ \A a \in Admissions \ mine'[d].runs : Exists(a) => f \notin Input[a]
<1> DEFINE contained == ContainedIn(mine[d].runs)
           kept == {f \in contained : \E a \in Admissions \ mine[d].runs :
                                        Exists(a) /\ f \in Input[a]}
<1>0. d \in Transactions /\ pc \in [Transactions -> Statements] /\ mine \in [Transactions -> Minds]
    BY KindsInside DEF TypeInv, AdmissionTypeOK
<1>1. DetachOrDelete(d)
    BY <1>0, KindsApart
    DEF TransactionStep, RunDeleterStep, EnterAdmission, CheckPackageIdle, EnumerateRuns, LockRow,
        DeletePackageRuns, DeadlockDetected, OrgLockers, Inserters, Ends, Goes, At
<1>2. mine' = [mine EXCEPT ![d] =
        [number |-> 0, runs |-> mine[d].runs, doomed |-> contained \ kept, kept |-> kept]]
    BY <1>1 DEF DetachOrDelete
<1>3. UNCHANGED table /\ held' = held /\ Unlocked(d) = {}
    BY <1>1 DEF DetachOrDelete
<1>4. \A f \in contained : held[d][FileRow(f)] = "update"
    BY <1>0, <1>3, RowsOfKinds, AllLocked, LiveTyped DEF TypeInv
<1>5. contained \subseteq Live
    BY LiveTyped
<1> HIDE DEF contained, kept
<1>6. mine'[d].runs = mine[d].runs /\ mine'[d].kept = kept /\ mine'[d].doomed = contained \ kept
    BY <1>0, <1>2
<1>7. QED
    BY <1>3, <1>4, <1>5, <1>6 DEF contained, kept

\* What a sweep has locked when it deletes.
LEMMA LockedForSweep ==
  ASSUME TypeInv, NEW w \in Sweepers, TransactionStep(w), pc'[w] = "sweep"
  PROVE  /\ UNCHANGED table
         /\ mine'[w].doomed \subseteq Live
         /\ \A f \in mine'[w].doomed : held'[w][FileRow(f)] = "update"
<1>0. /\ w \in Transactions /\ w \in OrgLockers /\ pc \in [Transactions -> Statements]
      /\ mine \in [Transactions -> Minds] /\ held \in [Transactions -> [Locks -> Modes]]
    BY KindsInside DEF TypeInv, AdmissionTypeOK, Transactions
<1>1. w \notin KeyTakers /\ w \notin Failures /\ w \notin Inserters /\ w \notin ItemDeleters
    BY <1>0, KindsApart DEF KeyTakers, Inserters
<1>2. LockOrg(w) => pc'[w] # "sweep"
    BY <1>0, KindsApart DEF LockOrg, Ends, Goes
<1>3. SkipLocked(w)
    BY <1>0, <1>1, <1>2, KindsApart
    DEF TransactionStep, KeyTakers, Inserters, SweeperStep, ScanExpired, Sweep, Remove,
        DeadlockDetected, Ends, Goes
<1>4. mine'[w].doomed = {f \in mine[w].doomed \cap Live : Grantable(w, FileRow(f), "update")}
    BY <1>0, <1>3 DEF SkipLocked, Blank
<1>5. \A f \in mine'[w].doomed : FileRow(f) \in Locks
    BY <1>4, LocksTyped, LiveTyped
<1>6. QED
    BY <1>0, <1>3, <1>4, <1>5 DEF SkipLocked

\* What the deletion of a space or of the organization has enumerated.
LEMMA AllEnumerated ==
  ASSUME TypeInv, NEW t \in SpaceDeleters \cup OrgDeleters, TransactionStep(t), pc'[t] = "rows"
  PROVE  /\ UNCHANGED table
         /\ mine'[t].doomed = Live \/ (pc[t] = "rows" /\ mine'[t] = mine[t])
<1>0. /\ t \in Transactions /\ pc \in [Transactions -> Statements] /\ mine \in [Transactions -> Minds]
    BY KindsInside DEF TypeInv, AdmissionTypeOK
<1>1. CASE CheckOrgIdle(t) \/ CheckSpaceIdle(t)
    BY <1>0, <1>1 DEF CheckOrgIdle, CheckSpaceIdle, Ends, Goes, Blank
<1>2. CASE LockRow(t)
    BY <1>2 DEF LockRow, At
<1>3. LockOrg(t) /\ t \in SpaceDeleters => pc'[t] # "rows"
    BY <1>0, KindsApart DEF LockOrg, Ends, Goes
<1>4. CASE t \in SpaceDeleters
  <2>1. t \notin KeyTakers /\ t \notin Failures /\ t \notin Inserters /\ t \notin ItemDeleters
      BY <1>4, KindsInside, KindsApart DEF KeyTakers, Inserters
  <2>2. QED
      BY <1>0, <1>1, <1>2, <1>3, <1>4, <2>1, KindsApart
      DEF TransactionStep, KeyTakers, Inserters, SpaceDeleterStep, DeleteSpace, EverythingGoes,
          DeadlockDetected, Ends, Goes
<1>5. CASE t \in OrgDeleters
    BY <1>0, <1>1, <1>2, <1>5, KindsApart
    DEF TransactionStep, OrgDeleterStep, EnterAdmission, ReserveDeletion, DeleteOrganization,
        EverythingGoes, DeadlockDetected, OrgLockers, Inserters, Ends, Goes, At
<1>6. QED
    BY <1>4, <1>5

LEMMA FileNext == TypeInv /\ LockInv /\ OrgInv /\ FileInv /\ [Next]_vars => FileInv'
<1> SUFFICES ASSUME TypeInv, LockInv, OrgInv, FileInv, [Next]_vars PROVE FileInv'
    OBVIOUS
<1>1. CASE UNCHANGED vars
    BY <1>1 DEF vars, table, FileInv, InputsResolve, NoFileSilentlyDropped, Live, ContainedIn, Exists
<1>2. ASSUME NEW c \in Runs, CloseRun(c)
      PROVE  FileInv'
  <2>1. \A a \in Admissions : Exists(a)' <=> Exists(a)
      BY <1>2, KindsInside DEF CloseRun, Exists, TypeInv, AdmissionTypeOK
  <2>2. QED
      BY <1>2, <2>1
      DEF CloseRun, FileInv, InputsResolve, NoFileSilentlyDropped, Live, ContainedIn
<1>3. ASSUME NEW t \in Transactions, TransactionStep(t)
      PROVE  FileInv'
  <2>0. Alone(t)
      BY <1>3, StepsAreAlone DEF TypeInv
  <2>1. \A u \in Transactions \ {t} : \A l \in Locks :
          held[u][l] = "update" => held[t][l] = "none"
      BY DEF LockInv, Compatible
  <2>2. \A a \in Admissions : Exists(a)' => Exists(a) \/ (a = t /\ pc[a] = "parents")
      BY <1>3, KindsInside, NumbersChange DEF Exists, Inserters
  <2>3. \A f \in Files : f \in Live /\ f \notin Live' =>
          /\ held[t][FileRow(f)] = "update"
          /\ \A a \in Admissions : Exists(a)' => f \notin Input[a]
      BY <1>3, FilesGo DEF Live, Exists
  <2>4. ASSUME held[t][OrgRow] = "none", NEW runs
        PROVE  Live' \subseteq Live /\ ContainedIn(runs)' \subseteq ContainedIn(runs)
      BY <1>3, <2>4, FilesGo DEF Live, ContainedIn
  <2>5. ASSUME NEW a \in Admissions, Exists(a)', NEW f \in Input[a]
        PROVE  f \in Live'
    <3>1. f \in Live /\ f \in Files
        BY <2>2, <2>5, WiringAssumption DEF FileInv, InputsResolve
    <3>2. QED
        BY <2>3, <2>5, <3>1
  <2>6. ASSUME NEW f \in Files, file'[f] = "gone"
        PROVE  f \in jobs'
      BY <1>3, <2>6, FilesGo DEF FileInv, NoFileSilentlyDropped
  <2>7. ASSUME NEW a \in Admissions, pc'[a] \in {"number", "parents"}, NEW f \in Input[a]
        PROVE  f \in Live' /\ held'[a][FileRow(f)] = "update"
    <3>0. a \in Transactions /\ f \in Files
        BY KindsInside, WiringAssumption
    <3>1. CASE a = t
        BY <1>3, <2>7, <3>1, InputsHeld DEF table, Live
    <3>2. CASE a # t
      <4>1. pc[a] = pc'[a] /\ held'[a] = held[a]
          BY <2>0, <3>0, <3>2 DEF Alone
      <4>2. f \in Live /\ held[a][FileRow(f)] = "update"
          BY <2>7, <4>1 DEF FileInv
      <4>3. held[t][FileRow(f)] = "none"
          BY <2>1, <3>0, <3>2, <4>2, LocksTyped
      <4>4. QED
          BY <2>3, <3>0, <4>1, <4>2, <4>3
    <3>3. QED
        BY <3>1, <3>2
  <2>8. ASSUME NEW d \in RunDeleters, pc'[d] = "delete"
        PROVE  /\ ContainedIn(mine[d].runs)' \ mine'[d].kept \subseteq mine'[d].doomed
               /\ \A f \in mine'[d].doomed :
                    /\ held'[d][FileRow(f)] = "update"
                    /\ \A a \in Admissions \ mine'[d].runs : Exists(a)' => f \notin Input[a]
    <3>0. d \in Transactions
        BY KindsInside
    <3>1. CASE d = t
      <4>1. /\ UNCHANGED table
            /\ ContainedIn(mine'[d].runs) \ mine'[d].kept \subseteq mine'[d].doomed
            /\ \A f \in mine'[d].doomed :
                 /\ held'[d][FileRow(f)] = "update"
                 /\ \A a \in Admissions \ mine'[d].runs : Exists(a) => f \notin Input[a]
          BY <1>3, <2>8, <3>1, CountedForDelete
      <4>2. ContainedIn(mine[d].runs)' = ContainedIn(mine'[d].runs)
          BY <4>1 DEF table, ContainedIn, Live
      <4>3. \A a : Exists(a)' = Exists(a)
          BY <4>1 DEF table, Exists
      <4>4. QED
          BY <4>1, <4>2, <4>3
    <3>2. CASE d # t
      <4>1. pc[d] = "delete" /\ held'[d] = held[d] /\ mine'[d] = mine[d]
          BY <2>0, <2>8, <3>0, <3>2 DEF Alone
      <4>2. held[t][OrgRow] = "none"
          BY <2>1, <3>0, <3>2, <4>1, LocksTyped DEF OrgInv
      <4>3. ContainedIn(mine[d].runs)' \subseteq ContainedIn(mine[d].runs)
        <5>1. \A f \in Live' : f \in Live /\ container'[f] = container[f]
            BY <1>3, <4>2, FilesGo DEF Live
        <5>2. QED
            BY <4>1, <5>1 DEF ContainedIn
      <4>4. ASSUME NEW f \in mine[d].doomed, NEW a \in Admissions \ mine[d].runs, Exists(a)',
                   f \in Input[a]
            PROVE  FALSE
        <5>1. held[d][FileRow(f)] = "update" /\ ~ Exists(a)
            BY <4>1, <4>4 DEF FileInv
        <5>2. a = t /\ held[a][FileRow(f)] = "update"
            BY <2>2, <4>4, <5>1 DEF FileInv
        <5>3. FileRow(f) \in Locks
            BY <4>4, WiringAssumption, LocksTyped
        <5>4. QED
            BY <2>1, <3>0, <3>2, <5>1, <5>2, <5>3
      <4>5. QED
          BY <4>1, <4>3, <4>4 DEF FileInv, ContainedIn
    <3>3. QED
        BY <3>1, <3>2
  <2>9. ASSUME NEW w \in Sweepers, pc'[w] = "sweep", NEW f \in mine'[w].doomed
        PROVE  held'[w][FileRow(f)] = "update"
    <3>1. CASE w = t
        BY <1>3, <2>9, <3>1, LockedForSweep
    <3>2. CASE w # t
        BY <2>0, <2>9, <3>2, KindsInside DEF Alone, FileInv, Transactions
    <3>3. QED
        BY <3>1, <3>2
  <2>10. ASSUME NEW u \in SpaceDeleters \cup OrgDeleters, pc'[u] = "rows"
         PROVE  Live' \subseteq mine'[u].doomed
    <3>0. u \in Transactions
        BY KindsInside
    <3>1. CASE u = t
      <4>1. UNCHANGED table /\ Live \subseteq mine'[u].doomed
          BY <1>3, <2>10, <3>1, AllEnumerated DEF FileInv
      <4>2. QED
          BY <4>1 DEF table, Live
    <3>2. CASE u # t
      <4>1. pc[u] = "rows" /\ held'[u] = held[u] /\ mine'[u] = mine[u]
          BY <2>0, <2>10, <3>0, <3>2 DEF Alone
      <4>2. held[u][OrgRow] = "update"
          BY <4>1, KindsInside DEF OrgInv
      <4>3. held[t][OrgRow] = "none"
          BY <2>1, <3>0, <3>2, <4>2, LocksTyped
      <4>4. QED
          BY <2>4, <4>1, <4>3 DEF FileInv
    <3>3. QED
        BY <3>1, <3>2
  <2>11. QED
      BY <2>5, <2>6, <2>7, <2>8, <2>9, <2>10
      DEF FileInv, InputsResolve, NoFileSilentlyDropped, ContainedIn
<1>4. QED
    BY <1>1, <1>2, <1>3 DEF Next, Step

LEMMA FileInit == Init => FileInv
<1> SUFFICES ASSUME Init PROVE FileInv
    OBVIOUS
<1>1. \A a \in Admissions : a \notin OldRuns
    BY KindsInside, KindsApart
<1>2. \A a \in Admissions : ~ Exists(a)
    BY <1>1, KindsInside DEF Init, Exists, NoRow, Inserters
<1>3. \A f \in Files : file[f] # "gone"
    BY DEF Init
<1>4. \A t \in Transactions : FirstStatement(t) \in {"admission", "org", "package"} \/ t \in Failures
    BY DEF FirstStatement, Transactions
<1>5. \A t \in Transactions \ Failures : pc[t] \in {"admission", "org", "package"}
    BY <1>4 DEF Init
<1>6. QED
    BY <1>2, <1>3, <1>5, KindsInside, KindsApart
    DEF FileInv, InputsResolve, NoFileSilentlyDropped, Transactions

\* The files a run consumes are there as long as its row is, whatever deletes them.
THEOREM InputsAreKept == Spec => []InputsResolve
<1>1. FileInv => InputsResolve
    BY DEF FileInv
<1>2. TypeInv => AdmissionTypeOK
    BY DEF TypeInv
<1>3. QED
    BY TypeInit, TypeNext, LockAndKeyInit, LockNext, OrgInit, OrgNext, FileInit, FileNext,
       <1>1, <1>2, PTL DEF Spec

\* No file goes, by a delete or by a cascade, without a job to purge its object.
THEOREM FilesLeaveJobs == Spec => []NoFileSilentlyDropped
<1>1. FileInv => NoFileSilentlyDropped
    BY DEF FileInv
<1>2. TypeInv => AdmissionTypeOK
    BY DEF TypeInv
<1>3. QED
    BY TypeInit, TypeNext, LockAndKeyInit, LockNext, OrgInit, OrgNext, FileInit, FileNext,
       <1>1, <1>2, PTL DEF Spec
-----------------------------------------------------------------------------
(* The key comes first.                                                    *)

\* A transaction that takes the admission key holds no lock without it.
KeyFirst == \A t \in KeyTakers : held[t] = NothingHeld \/ held[t][AdmissionKey] = "update"

LEMMA KeyFirstStep ==
  ASSUME TypeInv, KeyInv, DeleteInv, NEW t \in KeyTakers, TransactionStep(t),
         held[t] = NothingHeld \/ held[t][AdmissionKey] = "update"
  PROVE  held'[t] = NothingHeld \/ held'[t][AdmissionKey] = "update"
<1>0. t \in Transactions /\ held \in [Transactions -> [Locks -> Modes]]
    BY DEF Transactions, TypeInv, AdmissionTypeOK
<1>1. ASSUME NEW l, NEW m, Take(t, l, m), l # AdmissionKey, held[t][AdmissionKey] = "update"
      PROVE  held'[t][AdmissionKey] = "update"
    BY <1>0, <1>1, LocksTyped DEF Take
<1>2. ReleaseAll(t) => held'[t] = NothingHeld
    BY <1>0 DEF ReleaseAll
<1>3. Take(t, AdmissionKey, "update") => held'[t][AdmissionKey] = "update"
    BY <1>0, LocksTyped DEF Take
<1>4. \A l \in Unlocked(t) : l # AdmissionKey
    BY <1>0, RowsAreRows DEF TypeInv
<1>5. CASE t \in Admissions
  <2>1. pc[t] \in Inserting => held[t][AdmissionKey] = "update"
      BY <1>5 DEF KeyInv
  <2>2. NextParent(t) # AdmissionKey /\ NumberKey(Agent[t]) # AdmissionKey
      BY KeysApart DEF NextParent
  <2>3. CASE Admit(t) \/ RevalidateInputs(t) \/ InsertRun(t) \/ DeadlockDetected(t)
      BY <1>2, <1>3, <2>3 DEF Admit, RevalidateInputs, InsertRun, DeadlockDetected, Ends
  <2>4. CASE LockRow(t) \/ TakeNumber(t) \/ LockParent(t)
      BY <1>1, <1>4, <2>1, <2>2, <2>4 DEF LockRow, TakeNumber, LockParent, At, Inserting
  <2>5. QED
      BY <1>5, <2>3, <2>4, KindsApart DEF TransactionStep, AdmissionStep, InsertStep, OrgLockers
<1>6. CASE t \in RunDeleters
  <2>1. pc[t] \in {"org", "package", "rows"} => held[t][AdmissionKey] = "update"
      BY <1>6 DEF DeleteInv
  <2>2. CASE EnterAdmission(t) \/ DetachOrDelete(t) \/ DeletePackageRuns(t) \/ DeadlockDetected(t)
      BY <1>2, <1>3, <2>2 DEF EnterAdmission, DetachOrDelete, DeletePackageRuns, DeadlockDetected, Ends
  <2>3. CASE CheckPackageIdle(t) \/ EnumerateRuns(t) \/ LockRow(t)
      BY <1>1, <1>2, <1>4, <2>1, <2>3, KeysApart
      DEF CheckPackageIdle, EnumerateRuns, LockRow, Ends, At
  <2>4. QED
      BY <1>6, <2>2, <2>3, KindsApart DEF TransactionStep, RunDeleterStep, OrgLockers, Inserters
<1>7. CASE t \in OrgDeleters
  <2>1. pc[t] \in {"again", "rows"} => held[t][AdmissionKey] = "update"
      BY <1>7 DEF KeyInv
  <2>2. CASE EnterAdmission(t) \/ ReserveDeletion(t) \/ DeleteOrganization(t) \/ DeadlockDetected(t)
      BY <1>2, <1>3, <2>2
      DEF EnterAdmission, ReserveDeletion, DeleteOrganization, EverythingGoes, DeadlockDetected, Ends
  <2>3. CASE CheckOrgIdle(t) \/ LockRow(t)
      BY <1>1, <1>2, <1>4, <2>1, <2>3, KeysApart DEF CheckOrgIdle, LockRow, Ends, At
  <2>4. QED
      BY <1>7, <2>2, <2>3, KindsApart DEF TransactionStep, OrgDeleterStep, OrgLockers, Inserters
<1>8. QED
    BY <1>5, <1>6, <1>7 DEF KeyTakers

LEMMA KeyFirstNext == TypeInv /\ KeyInv /\ DeleteInv /\ KeyFirst /\ [Next]_vars => KeyFirst'
<1> SUFFICES ASSUME TypeInv, KeyInv, DeleteInv, KeyFirst, [Next]_vars PROVE KeyFirst'
    OBVIOUS
<1>1. CASE UNCHANGED held
    BY <1>1 DEF KeyFirst
<1>2. ASSUME NEW t \in Transactions, TransactionStep(t)
      PROVE  KeyFirst'
  <2>1. Alone(t)
      BY <1>2, StepsAreAlone DEF TypeInv
  <2>2. ASSUME NEW u \in KeyTakers
        PROVE  held'[u] = NothingHeld \/ held'[u][AdmissionKey] = "update"
      BY <1>2, <2>1, KeyFirstStep DEF KeyFirst, Alone, Transactions
  <2>3. QED
      BY <2>2 DEF KeyFirst
<1>3. QED
    BY <1>1, <1>2 DEF Next, Step, CloseRun, vars

LEMMA KeyFirstInit == Init => KeyFirst
BY DEF Init, KeyFirst, Transactions

\* Only one of them holds a lock at a time: none waits for another that waits.
LEMMA OneKeyTakerWaits == LockInv /\ KeyFirst => KeyTakersNeverDeadlock
<1> SUFFICES ASSUME LockInv, KeyFirst, NEW ts \in SUBSET (KeyTakers \cap Waiting), Cycle(ts)
             PROVE  FALSE
    BY DEF KeyTakersNeverDeadlock
<1>1. PICK t \in ts : TRUE
    BY DEF Cycle
<1>2. PICK u \in ts : WaitsFor(t, u)
    BY <1>1 DEF Cycle
<1>3. t \in KeyTakers /\ u \in KeyTakers /\ t # u /\ t \in Transactions /\ u \in Transactions
    BY <1>2 DEF WaitsFor, Transactions
<1>4. held[t][AdmissionKey] = "update" /\ held[u][AdmissionKey] = "update"
    BY <1>3 DEF KeyFirst, Waiting
<1>5. QED
    BY <1>3, <1>4, LocksTyped DEF LockInv, Compatible

\* The transactions that take the admission key never wait for each other in a circle.
THEOREM KeyOrdersItsTakers == Spec => []KeyTakersNeverDeadlock
<1>1. TypeInv => AdmissionTypeOK
    BY DEF TypeInv
<1>2. QED
    BY TypeInit, TypeNext, LockAndKeyInit, LockNext, KeyNext, DeleteInit, DeleteNext,
       KeyFirstInit, KeyFirstNext, OneKeyTakerWaits, <1>1, PTL DEF Spec

-----------------------------------------------------------------------------
(* The transactions implement the record in which each is one step.        *)

\* The objects to purge are those of the files that went; who is to delete files has
\* listed none but live ones; what a transaction is to insert is not there yet.
RecordInv ==
  /\ jobs = {f \in Files : file[f] = "gone"}
  /\ \A t \in Inserters : pc[t] # "done" => ~ Exists(t)
  /\ \A b \in Publishers : pc[b] # "done" => file[Target[b]] = "unborn"
  /\ \A d \in RunDeleters : pc[d] = "delete" => mine[d].doomed \subseteq Live
  /\ \A w \in Sweepers : pc[w] = "sweep" => mine[w].doomed \subseteq Live
  /\ \A t \in SpaceDeleters \cup OrgDeleters : pc[t] = "rows" => mine[t].doomed \subseteq Live
  /\ \A o \in OrgDeleters : pc[o] = "rows" => org = "reserved"

\* The statements that write what the record shows.
LEMMA WritingSteps ==
  ASSUME NEW t \in Transactions, TransactionStep(t)
  PROVE  \/ UNCHANGED <<run, file, container, jobs, org>>
         \/ t \in Inserters /\ InsertRun(t)
         \/ t \in OrgDeleters /\ ReserveDeletion(t)
         \/ t \in RunDeleters /\ DeletePackageRuns(t)
         \/ t \in OrgDeleters /\ DeleteOrganization(t)
         \/ t \in SpaceDeleters /\ DeleteSpace(t)
         \/ t \in FileDeleters /\ DeleteFile(t)
         \/ t \in Sweepers /\ Sweep(t)
         \/ t \in Publishers /\ PublishFile(t)
BY DEF TransactionStep, AdmissionStep, Admit, LockRow, RevalidateInputs, InsertStep, TakeNumber,
       LockParent, RunDeleterStep, EnterAdmission, CheckPackageIdle, EnumerateRuns, DetachOrDelete,
       OrgDeleterStep, CheckOrgIdle, SpaceDeleterStep, LockOrg, CheckSpaceIdle, FileDeleterStep,
       SweeperStep, ScanExpired, SkipLocked, PublisherStep, ItemDeleterStep, LockPackage,
       DropPackage, DeadlockDetected, table

Deletes(t) ==
  \/ t \in RunDeleters /\ DeletePackageRuns(t)
  \/ t \in OrgDeleters /\ DeleteOrganization(t)
  \/ t \in SpaceDeleters /\ DeleteSpace(t)
  \/ t \in FileDeleters /\ DeleteFile(t)
  \/ t \in Sweepers /\ Sweep(t)

\* A delete holds the organization's row, takes files that are there and leaves a job
\* for each, and takes runs with their whole row.
LEMMA DeletesTake ==
  ASSUME TypeInv, OrgInv, FileInv, RecordInv, NEW t \in Transactions, Deletes(t)
  PROVE  /\ held[t][OrgRow] = "update"
         /\ \E doomed \in SUBSET Live :
              /\ file' = [f \in Files |-> IF f \in doomed THEN "gone" ELSE file[f]]
              /\ jobs' = jobs \cup doomed
         /\ \E gone : run' = [r \in Runs |-> IF r \in gone THEN NoRow ELSE run[r]]
<1> USE DEF TypeInv, AdmissionTypeOK
<1> DEFINE Takes(doomed) == /\ file' = [f \in Files |-> IF f \in doomed THEN "gone" ELSE file[f]]
                            /\ jobs' = jobs \cup doomed
           Drops(gone) == run' = [r \in Runs |-> IF r \in gone THEN NoRow ELSE run[r]]
<1>1. CASE t \in RunDeleters /\ DeletePackageRuns(t)
  <2> DEFINE cascade == {f \in Live : container[f] \in mine[t].runs} \ mine[t].kept
  <2>1. pc[t] = "delete"
      BY <1>1 DEF DeletePackageRuns, At
  <2>2. mine[t].doomed \subseteq Live /\ cascade \subseteq mine[t].doomed
      BY <1>1, <2>1 DEF RecordInv, FileInv, ContainedIn
  <2>3. /\ file' = [f \in Files |-> IF f \in mine[t].doomed \cup cascade THEN "gone" ELSE file[f]]
        /\ jobs' = jobs \cup mine[t].doomed /\ Drops(mine[t].runs)
      BY <1>1 DEF DeletePackageRuns
  <2>4. mine[t].doomed \cup cascade = mine[t].doomed
      BY <2>2
  <2>5. held[t][OrgRow] = "update"
      BY <1>1, <2>1 DEF OrgInv
  <2> HIDE DEF cascade
  <2>6. QED
      BY <2>2, <2>3, <2>4, <2>5
<1>2. CASE (t \in OrgDeleters /\ DeleteOrganization(t)) \/ (t \in SpaceDeleters /\ DeleteSpace(t))
  <2>1. pc[t] = "rows" /\ EverythingGoes(t)
      BY <1>2 DEF DeleteOrganization, DeleteSpace, At
  <2>2. mine[t].doomed = Live
    <3>1. t \in SpaceDeleters \cup OrgDeleters
        BY <1>2
    <3>2. Live \subseteq mine[t].doomed
        BY <2>1, <3>1 DEF FileInv
    <3>3. mine[t].doomed \subseteq Live
        BY <2>1, <3>1 DEF RecordInv
    <3>4. QED
        BY <3>2, <3>3
  <2>3. Takes(Live) /\ Drops(Runs)
      BY <2>1, <2>2 DEF EverythingGoes
  <2>4. held[t][OrgRow] = "update"
      BY <1>2, <2>1, KindsInside DEF OrgInv
  <2>5. QED
      BY <2>3, <2>4
<1>3. ASSUME NEW doomed \in SUBSET Live, Remove(t, doomed), t \in OrgLockers,
             pc[t] \in {"rows", "sweep"}
      PROVE  /\ held[t][OrgRow] = "update"
             /\ \E d \in SUBSET Live : Takes(d)
             /\ \E gone : Drops(gone)
  <2>1. Takes(doomed) /\ Drops({})
      BY <1>3 DEF Remove
  <2>2. held[t][OrgRow] = "update"
      BY <1>3 DEF OrgInv
  <2> HIDE DEF Takes, Drops
  <2>3. QED
      BY <2>1, <2>2
<1>4. CASE t \in FileDeleters /\ DeleteFile(t)
  <2>1. \E doomed \in SUBSET Live : Remove(t, doomed)
      BY <1>4 DEF DeleteFile
  <2>2. pc[t] \in {"rows", "sweep"} /\ t \in OrgLockers
      BY <1>4 DEF DeleteFile, At, OrgLockers
  <2>3. QED
      BY <1>3, <2>1, <2>2
<1>5. CASE t \in Sweepers /\ Sweep(t)
  <2>1. mine[t].doomed \subseteq Live
      BY <1>5 DEF Sweep, At, RecordInv
  <2>2. \E doomed \in SUBSET Live : Remove(t, doomed)
      BY <1>5, <2>1 DEF Sweep
  <2>3. pc[t] \in {"rows", "sweep"} /\ t \in OrgLockers
      BY <1>5 DEF Sweep, At, OrgLockers
  <2>4. QED
      BY <1>3, <2>2, <2>3
<1>6. QED
    BY <1>1, <1>2, <1>4, <1>5 DEF Deletes

LEMMA NothingAfterDone ==
  ASSUME NEW t \in Transactions, TransactionStep(t)
  PROVE  pc[t] # "done"
<1>1. DeadlockDetected(t) => pc[t] # "done"
    BY DEF DeadlockDetected, Waiting, Blocked, Wants, At
<1>2. QED
    BY <1>1
    DEF TransactionStep, AdmissionStep, Admit, LockRow, RevalidateInputs, InsertStep, TakeNumber,
        LockParent, InsertRun, RunDeleterStep, EnterAdmission, CheckPackageIdle, EnumerateRuns,
        DetachOrDelete, DeletePackageRuns, OrgDeleterStep, ReserveDeletion, CheckOrgIdle,
        DeleteOrganization, SpaceDeleterStep, LockOrg, CheckSpaceIdle, DeleteSpace,
        FileDeleterStep, DeleteFile, SweeperStep, ScanExpired, SkipLocked, Sweep, PublisherStep,
        PublishFile, ItemDeleterStep, LockPackage, DropPackage, At

\* What a step does to the files: nothing, a delete of some that are there, or one more,
\* that never was there.
LEMMA FilesChange ==
  ASSUME TypeInv, OrgInv, FileInv, RecordInv, NEW t \in Transactions, TransactionStep(t)
  PROVE  \/ UNCHANGED <<file, jobs>>
         \/ /\ held[t][OrgRow] = "update"
            /\ \E doomed \in SUBSET Live :
                 /\ file' = [f \in Files |-> IF f \in doomed THEN "gone" ELSE file[f]]
                 /\ jobs' = jobs \cup doomed
         \/ /\ t \in Publishers /\ PublishFile(t) /\ Exists(Producer[t])
            /\ file' = [file EXCEPT ![Target[t]] = "live"] /\ UNCHANGED jobs
            /\ Target[t] \in Files /\ file[Target[t]] = "unborn" /\ pc'[t] = "done"
<1>1. CASE Deletes(t)
    BY <1>1, DeletesTake
<1>2. CASE (t \in Inserters /\ InsertRun(t)) \/ (t \in OrgDeleters /\ ReserveDeletion(t))
    BY <1>2 DEF InsertRun, ReserveDeletion
<1>3. CASE t \in Publishers /\ PublishFile(t)
  <2>1. Target[t] \in Files /\ pc[t] = "insert"
      BY <1>3, WiringAssumption DEF PublishFile, At
  <2>2. file[Target[t]] = "unborn"
      BY <1>3, <2>1 DEF RecordInv
  <2>3. pc'[t] = "done"
      BY <1>3 DEF PublishFile, Ends, Goes, TypeInv, AdmissionTypeOK
  <2>4. QED
      BY <1>3, <2>1, <2>2, <2>3 DEF PublishFile
<1>4. QED
    BY <1>1, <1>2, <1>3, WritingSteps DEF Deletes

LEMMA RecordNext ==
  TypeInv /\ LockInv /\ KeyInv /\ OrgInv /\ FileInv /\ RecordInv /\ [Next]_vars => RecordInv'
<1> SUFFICES ASSUME TypeInv, LockInv, KeyInv, OrgInv, FileInv, RecordInv, [Next]_vars
             PROVE  RecordInv'
    OBVIOUS
<1>1. CASE UNCHANGED vars
    BY <1>1 DEF vars, table, RecordInv, Live, Exists
<1>2. ASSUME NEW c \in Runs, CloseRun(c)
      PROVE  RecordInv'
  <2>1. \A r \in Runs : Exists(r)' => Exists(r)
      BY <1>2 DEF CloseRun, Exists, TypeInv, AdmissionTypeOK
  <2>2. QED
      BY <1>2, <2>1 DEF CloseRun, RecordInv, Live, Runs, Inserters
<1>3. ASSUME NEW t \in Transactions, TransactionStep(t)
      PROVE  RecordInv'
  <2>0. Alone(t)
      BY <1>3, StepsAreAlone DEF TypeInv
  <2>1. ASSUME NEW u \in Transactions, held[u][OrgRow] = "update", u # t
        PROVE  held[t][OrgRow] # "update"
      BY <2>1, LocksTyped DEF LockInv, Compatible
  <2>2. ASSUME held[t][OrgRow] # "update"
        PROVE  Live \subseteq Live'
    <3>1. file \in [Files -> {"unborn", "live", "gone"}]
        BY DEF TypeInv, AdmissionTypeOK
    <3>2. QED
        BY <1>3, <2>2, <3>1, FilesChange DEF Live
  <2>3. jobs' = {f \in Files : file'[f] = "gone"}
    <3>1. jobs = {f \in Files : file[f] = "gone"} /\ file \in [Files -> {"unborn", "live", "gone"}]
        BY DEF RecordInv, TypeInv, AdmissionTypeOK
    <3>2. ASSUME NEW doomed \in SUBSET Live, jobs' = jobs \cup doomed,
                 file' = [f \in Files |-> IF f \in doomed THEN "gone" ELSE file[f]]
          PROVE  jobs' = {f \in Files : file'[f] = "gone"}
        BY <3>1, <3>2 DEF Live
    <3>3. ASSUME NEW g \in Files, file[g] = "unborn", file' = [file EXCEPT ![g] = "live"], jobs' = jobs
          PROVE  jobs' = {f \in Files : file'[f] = "gone"}
        BY <3>1, <3>3
    <3>4. QED
        BY <1>3, <3>1, <3>2, <3>3, FilesChange
  <2>4. ASSUME NEW u \in Inserters, pc'[u] # "done"
        PROVE  ~ Exists(u)'
    <3>1. u \in Transactions /\ u \in Runs
        BY KindsInside
    <3>2. pc[u] # "done"
        BY <1>3, <2>0, <2>4, <3>1, NothingAfterDone DEF Alone
    <3>3. QED
        BY <1>3, <2>4, <3>1, <3>2, NumbersChange DEF RecordInv, Exists
  <2>5. ASSUME NEW b \in Publishers, pc'[b] # "done"
        PROVE  file'[Target[b]] = "unborn"
    <3>1. b \in Transactions /\ Target[b] \in Files
        BY WiringAssumption DEF Transactions, OrgLockers
    <3>2. pc[b] # "done"
        BY <1>3, <2>0, <2>5, <3>1, NothingAfterDone DEF Alone
    <3>3. file[Target[b]] = "unborn"
        BY <3>2 DEF RecordInv
    <3>4. ASSUME NEW doomed \in SUBSET Live,
                 file' = [f \in Files |-> IF f \in doomed THEN "gone" ELSE file[f]]
          PROVE  file'[Target[b]] = "unborn"
        BY <3>1, <3>3, <3>4 DEF Live
    <3>5. ASSUME t \in Publishers, file' = [file EXCEPT ![Target[t]] = "live"], pc'[t] = "done"
          PROVE  file'[Target[b]] = "unborn"
        BY <2>5, <3>1, <3>3, <3>5, WiringAssumption DEF TypeInv, AdmissionTypeOK
    <3>6. QED
        BY <1>3, <3>3, <3>4, <3>5, FilesChange
  <2>6. ASSUME NEW d \in RunDeleters, pc'[d] = "delete"
        PROVE  mine'[d].doomed \subseteq Live'
    <3>0. d \in Transactions
        BY KindsInside
    <3>1. CASE d = t
        BY <1>3, <2>6, <3>1, CountedForDelete DEF table, Live
    <3>2. CASE d # t
      <4>1. pc[d] = "delete" /\ mine'[d] = mine[d]
          BY <2>0, <2>6, <3>0, <3>2 DEF Alone
      <4>2. held[d][OrgRow] = "update" /\ mine[d].doomed \subseteq Live
          BY <4>1 DEF OrgInv, RecordInv
      <4>3. QED
          BY <2>1, <2>2, <3>0, <3>2, <4>1, <4>2
    <3>3. QED
        BY <3>1, <3>2
  <2>7. ASSUME NEW w \in Sweepers, pc'[w] = "sweep"
        PROVE  mine'[w].doomed \subseteq Live'
    <3>0. w \in Transactions /\ w \in OrgLockers
        BY DEF Transactions, OrgLockers
    <3>1. CASE w = t
        BY <1>3, <2>7, <3>1, LockedForSweep DEF table, Live
    <3>2. CASE w # t
      <4>1. pc[w] = "sweep" /\ mine'[w] = mine[w]
          BY <2>0, <2>7, <3>0, <3>2 DEF Alone
      <4>2. held[w][OrgRow] = "update" /\ mine[w].doomed \subseteq Live
          BY <3>0, <4>1 DEF OrgInv, RecordInv
      <4>3. QED
          BY <2>1, <2>2, <3>0, <3>2, <4>1, <4>2
    <3>3. QED
        BY <3>1, <3>2
  <2>8. ASSUME NEW u \in SpaceDeleters \cup OrgDeleters, pc'[u] = "rows"
        PROVE  mine'[u].doomed \subseteq Live'
    <3>0. u \in Transactions
        BY KindsInside
    <3>1. CASE u = t
      <4>1. UNCHANGED table /\ mine'[u].doomed \subseteq Live
          BY <1>3, <2>8, <3>1, AllEnumerated DEF RecordInv
      <4>2. QED
          BY <4>1 DEF table, Live
    <3>2. CASE u # t
      <4>1. pc[u] = "rows" /\ mine'[u] = mine[u]
          BY <2>0, <2>8, <3>0, <3>2 DEF Alone
      <4>2. held[u][OrgRow] = "update" /\ mine[u].doomed \subseteq Live
          BY <4>1, KindsInside DEF OrgInv, RecordInv
      <4>3. QED
          BY <2>1, <2>2, <3>0, <3>2, <4>1, <4>2
    <3>3. QED
        BY <3>1, <3>2
  <2>9. ASSUME NEW o \in OrgDeleters, pc'[o] = "rows"
        PROVE  org' = "reserved"
    <3>0. o \in Transactions /\ pc \in [Transactions -> Statements]
        BY KindsInside DEF TypeInv, AdmissionTypeOK
    <3>1. CASE o = t
      <4>1. CASE CheckOrgIdle(o)
        <5>1. org # "gone" /\ org' = org
            BY <2>9, <3>0, <4>1 DEF CheckOrgIdle, Ends, Goes, table
        <5>2. org # "live"
            BY <4>1 DEF CheckOrgIdle, At, KeyInv
        <5>3. QED
            BY <5>1, <5>2 DEF TypeInv, AdmissionTypeOK
      <4>2. CASE LockRow(o)
          BY <4>2 DEF LockRow, At, RecordInv, table
      <4>3. QED
          BY <1>3, <2>9, <3>0, <3>1, <4>1, <4>2, KindsApart
          DEF TransactionStep, OrgDeleterStep, EnterAdmission, ReserveDeletion, DeleteOrganization,
              EverythingGoes, DeadlockDetected, OrgLockers, Inserters, Ends, Goes, At
    <3>2. CASE o # t
      <4>1. pc[o] = "rows"
          BY <2>0, <2>9, <3>0, <3>2 DEF Alone
      <4>2. org = "reserved" /\ held[o][AdmissionKey] = "update"
          BY <4>1 DEF RecordInv, KeyInv
      <4>3. ~ (t \in OrgDeleters /\ At(t, "rows"))
        <5>1. held[t][AdmissionKey] # "update"
            BY <3>0, <3>2, <4>2, LocksTyped DEF LockInv, Compatible
        <5>2. QED
            BY <5>1 DEF KeyInv, At
      <4>4. QED
          BY <1>3, <4>2, <4>3, OrgChange
    <3>3. QED
        BY <3>1, <3>2
  <2>10. QED
      BY <2>3, <2>4, <2>5, <2>6, <2>7, <2>8, <2>9 DEF RecordInv
<1>4. QED
    BY <1>1, <1>2, <1>3 DEF Next, Step

LEMMA RecordInit == Init => RecordInv
<1> SUFFICES ASSUME Init PROVE RecordInv
    OBVIOUS
<1>1. \A r \in Inserters : r \notin OldRuns /\ r \in Runs
    BY KindsInside, KindsApart DEF Inserters
<1>2. \A r \in Inserters : ~ Exists(r)
    BY <1>1 DEF Init, Exists, NoRow
<1>3. \A b \in Publishers : file[Target[b]] = "unborn"
    BY WiringAssumption DEF Init
<1>4. \A f \in Files : file[f] # "gone"
    BY DEF Init
<1>5. \A t \in Transactions : FirstStatement(t) \in {"admission", "number", "org", "package"}
    BY DEF FirstStatement, Transactions
<1>6. \A t \in Transactions : pc[t] \notin {"delete", "sweep", "rows"}
    BY <1>5 DEF Init
<1>7. jobs = {}
    BY DEF Init
<1>8. RunDeleters \cup Sweepers \cup SpaceDeleters \cup OrgDeleters \subseteq Transactions
    BY DEF Transactions, KeyTakers, OrgLockers
<1>9. QED
    BY <1>2, <1>3, <1>4, <1>6, <1>7, <1>8 DEF RecordInv

LEMMA SameRuns == Promise!AllRuns = Runs /\ Promise!InFlight = Active
BY DEF Promise!AllRuns, Promise!InFlight, Runs, Active

LEMMA SameCount == \A S : Promise!Cardinality(S) = Cardinality(S)
BY DEF Promise!Cardinality, Cardinality

LEMMA GoneRows ==
  ASSUME AdmissionTypeOK, NEW r \in Runs, ~ Exists(r)
  PROVE  run[r] = NoRow
<1>1. run[r] \in RunRows /\ run[r].status = "none" /\ run[r].number = 0
    BY DEF AdmissionTypeOK, Exists, RunRows
<1>2. QED
    BY <1>1 DEF NoRow, RunRows

\* An insert is a launch, or the record of a failure: the key, the files' and the numbers'
\* locks have kept what the transaction read.
LEMMA InsertRecords ==
  ASSUME TypeInv, KeyInv, NumberInv, FileInv, RecordInv, NEW t \in Inserters, InsertRun(t)
  PROVE  UNCHANGED <<run, Live, jobs, org>> \/ Promise!RecordNext
<1>0. t \in Transactions /\ t \in Runs /\ pc[t] = "parents" /\ run \in [Runs -> RunRows]
    BY KindsInside DEF InsertRun, At, TypeInv, AdmissionTypeOK
<1>1. UNCHANGED <<Live, jobs, org>>
    BY DEF InsertRun, Live
<1>2. CASE run' = run
    BY <1>1, <1>2
<1>3. CASE run' # run
  <2> DEFINE status == IF t \in Admissions THEN "active" ELSE "ended"
  <2>1. /\ org # "gone" /\ Agent[t] \in packages
        /\ run' = [run EXCEPT ![t] = [status |-> status, number |-> mine[t].number]]
      BY <1>3 DEF InsertRun
  <2>2. ~ Exists(t)
      BY <1>0 DEF RecordInv
  <2>3. \A q \in Runs : Exists(q) /\ Agent[q] = Agent[t] => run[q].number < mine[t].number
      BY <1>0, <2>1 DEF NumberInv
  <2>4. run'[t].number = mine[t].number
      BY <1>0, <2>1
  <2>5. Promise!Insert(t, status)
    <3>1. \A q \in Runs : Promise!There(q) <=> Exists(q)
        BY DEF Promise!There, Exists
    <3> HIDE DEF status
    <3>2. QED
        BY <1>0, <1>1, <2>1, <2>2, <2>3, <2>4, <3>1, SameRuns DEF Promise!Insert
  <2>6. CASE t \in Admissions
    <3>1. org = "live" /\ Cardinality(Active) < Cap
        BY <1>0, <2>1, <2>6 DEF KeyInv, Inserting, TypeInv, AdmissionTypeOK
    <3>2. Input[t] \subseteq Live
        BY <1>0, <2>6 DEF FileInv
    <3>3. Promise!Launch(t)
        BY <2>5, <2>6, <3>1, <3>2, SameRuns, SameCount DEF Promise!Launch
    <3>4. QED
        BY <2>6, <3>3 DEF Promise!RecordNext
  <2>7. CASE t \notin Admissions
    <3>1. t \in Failures /\ Promise!RecordFailure(t)
        BY <2>1, <2>5, <2>7 DEF Inserters, Promise!RecordFailure
    <3>2. QED
        BY <3>1 DEF Promise!RecordNext
  <2>8. QED
      BY <2>6, <2>7
<1>4. QED
    BY <1>2, <1>3

\* A delete takes no run in flight and no file that a run which stays consumes, and
\* queues the purge of what it took and of nothing else.
LEMMA DeleteRecords ==
  ASSUME TypeInv, KeyInv, DeleteInv, OrgInv, FileInv, RecordInv, [Next]_vars,
         NEW t \in Transactions, TransactionStep(t), Deletes(t)
  PROVE  Promise!Delete
<1>0. run \in [Runs -> RunRows] /\ Admissions \subseteq Runs
    BY DEF TypeInv, AdmissionTypeOK, Runs
<1>1. run' = [r \in Runs |-> IF run'[r].status = "none" THEN NoRow ELSE run[r]]
  <2>1. PICK gone : run' = [r \in Runs |-> IF r \in gone THEN NoRow ELSE run[r]]
      BY DeletesTake
  <2>2. ASSUME NEW r \in Runs
        PROVE  run'[r] = IF run'[r].status = "none" THEN NoRow ELSE run[r]
    <3>1. CASE r \in gone
        BY <2>1, <3>1 DEF NoRow
    <3>2. CASE r \notin gone
        BY <2>1, <3>2, GoneRows DEF Exists, TypeInv
    <3>3. QED
        BY <3>1, <3>2
  <2>3. QED
      BY <2>1, <2>2
<1>2. \A r \in Active : run'[r].status # "none"
    BY StepsKeepActive DEF Active
<1>3. Live' \subseteq Live /\ jobs' = jobs \cup (Live \ Live')
  <2>1. PICK doomed \in SUBSET Live :
          /\ file' = [f \in Files |-> IF f \in doomed THEN "gone" ELSE file[f]]
          /\ jobs' = jobs \cup doomed
      BY DeletesTake
  <2>2. Live' = Live \ doomed
      BY <2>1 DEF Live
  <2>3. QED
      BY <2>1, <2>2
<1>4. \A a \in Admissions : run'[a].status # "none" => Input[a] \cap (Live \ Live') = {}
  <2>1. \A f \in Files : f \in Live /\ file'[f] # "live" =>
          \A a \in Admissions : run'[a].status # "none" => f \notin Input[a]
      BY FilesGo
  <2>2. \A f \in Live \ Live' : f \in Files /\ file'[f] # "live"
      BY DEF Live
  <2>3. QED
      BY <2>1, <2>2
<1>5. QED
    BY <1>1, <1>2, <1>3, <1>4, SameRuns DEF Promise!Delete, NoRow

LEMMA StepRecords ==
  ASSUME TypeInv, KeyInv, DeleteInv, NumberInv, OrgInv, FileInv, RecordInv, [Next]_vars,
         NEW t \in Transactions, TransactionStep(t)
  PROVE  UNCHANGED <<run, Live, jobs, org>> \/ Promise!RecordNext
<1>1. CASE UNCHANGED <<run, file, container, jobs, org>>
    BY <1>1 DEF Live
<1>2. CASE t \in Inserters /\ InsertRun(t)
    BY <1>2, InsertRecords
<1>3. CASE t \in OrgDeleters /\ ReserveDeletion(t)
  <2>1. UNCHANGED <<run, Live, jobs>>
      BY <1>3 DEF ReserveDeletion, Live
  <2>2. org' = org \/ (org' = "reserved" /\ org # "gone" /\ Active = {})
      BY <1>3 DEF ReserveDeletion
  <2>3. org = "live" \/ org = "reserved" \/ org = "gone"
      BY DEF TypeInv, AdmissionTypeOK
  <2>4. CASE org = "live" /\ org' = "reserved" /\ Active = {}
    <3>1. Promise!Reserve
        BY <2>1, <2>4, SameRuns DEF Promise!Reserve
    <3>2. QED
        BY <3>1 DEF Promise!RecordNext
  <2>5. QED
      BY <2>1, <2>2, <2>3, <2>4
<1>4. CASE t \in OrgDeleters /\ DeleteOrganization(t)
  <2>1. Promise!Delete
      BY <1>4, DeleteRecords DEF Deletes
  <2>2. org = "reserved" /\ org' = "gone"
      BY <1>4 DEF DeleteOrganization, At, RecordInv
  <2>3. EverythingGoes(t)
      BY <1>4 DEF DeleteOrganization
  <2>4. \A r \in Runs : run'[r].status = "none"
      BY <2>3 DEF EverythingGoes, NoRow
  <2>5. Live' = {}
      BY <2>3 DEF EverythingGoes, Live
  <2>6. Promise!DeleteAll
      BY <2>1, <2>2, <2>4, <2>5, SameRuns DEF Promise!DeleteAll
  <2>7. QED
      BY <2>6 DEF Promise!RecordNext
<1>5. CASE \/ t \in RunDeleters /\ DeletePackageRuns(t)
           \/ t \in SpaceDeleters /\ DeleteSpace(t)
           \/ t \in FileDeleters /\ DeleteFile(t)
           \/ t \in Sweepers /\ Sweep(t)
  <2>1. Promise!Delete
      BY <1>5, DeleteRecords DEF Deletes
  <2>2. org' = org
      BY <1>5 DEF DeletePackageRuns, DeleteSpace, DeleteFile, Sweep, Remove
  <2>3. QED
      BY <2>1, <2>2 DEF Promise!RecordNext
<1>6. CASE t \in Publishers /\ PublishFile(t)
  <2>0. t \notin Inserters /\ t \notin OrgDeleters /\ t \notin RunDeleters
      BY <1>6, KindsInside, KindsApart DEF OrgLockers, KeyTakers, Inserters
  <2>1. UNCHANGED <<run, jobs, org>>
      BY <1>6 DEF PublishFile
  <2>2. CASE UNCHANGED file
      BY <2>1, <2>2 DEF Live
  <2>3. CASE Exists(Producer[t]) /\ file' = [file EXCEPT ![Target[t]] = "live"]
    <3>1. Target[t] \in Files /\ file[Target[t]] = "unborn" /\ Producer[t] \in Runs
      <4>1. pc[t] = "insert"
          BY <1>6 DEF PublishFile, At
      <4>2. QED
          BY <1>6, <4>1, WiringAssumption DEF RecordInv
    <3>2. Live' = Live \cup {Target[t]} /\ Target[t] \notin Live
        BY <2>3, <3>1 DEF Live, TypeInv, AdmissionTypeOK
    <3>3. Target[t] \notin jobs
        BY <3>1 DEF RecordInv
    <3>4. \E r \in Promise!AllRuns : Promise!There(r)
        BY <2>3, <3>1, SameRuns DEF Promise!There, Exists
    <3>5. Promise!Publish(Target[t])
        BY <2>1, <3>2, <3>3, <3>4 DEF Promise!Publish
    <3>6. QED
        BY <3>2, <3>5 DEF Promise!RecordNext
  <2>4. QED
      BY <1>6, <2>2, <2>3 DEF PublishFile
<1>7. QED
    BY <1>1, <1>2, <1>3, <1>4, <1>5, <1>6, WritingSteps

LEMMA RecordStep ==
  TypeInv /\ KeyInv /\ DeleteInv /\ NumberInv /\ OrgInv /\ FileInv /\ RecordInv /\ [Next]_vars
    => [Promise!RecordNext]_(Promise!recordVars)
<1> SUFFICES ASSUME TypeInv, KeyInv, DeleteInv, NumberInv, OrgInv, FileInv, RecordInv, [Next]_vars
             PROVE  UNCHANGED <<run, Live, jobs, org>> \/ Promise!RecordNext
    BY DEF Promise!recordVars
<1>1. CASE UNCHANGED vars
    BY <1>1 DEF vars, table, Live
<1>2. ASSUME NEW c \in Runs, CloseRun(c)
      PROVE  Promise!RecordNext
  <2>1. Promise!End(c)
      BY <1>2 DEF CloseRun, Promise!End, Live
  <2>2. QED
      BY <2>1, SameRuns DEF Promise!RecordNext
<1>3. QED
    BY <1>1, <1>2, StepRecords DEF Next, Step

LEMMA RecordStarts == Init => Promise!RecordInit
<1> SUFFICES ASSUME Init PROVE Promise!RecordInit
    OBVIOUS
<1>1. \A r \in Runs : Exists(r) => r \in OldRuns /\ r \notin Active
    BY DEF Init, Exists, Active, NoRow
<1>2. QED
    BY <1>1, SameRuns DEF Init, Promise!RecordInit, Promise!There, Exists

\* Runs admitted and rows deleted statement by statement, in any interleaving, are runs
\* admitted and rows deleted one whole transaction at a time: nothing a transaction
\* checked has changed when it writes, for any number of transactions, files and packages.
THEOREM AdmissionImplementation == Spec => ImplementsAdmissionRecord
<1> DEFINE IInv == TypeInv /\ LockInv /\ KeyInv /\ DeleteInv /\ NumberInv /\ OrgInv /\ FileInv
                     /\ RecordInv
<1>1. Init => IInv
    BY TypeInit, LockAndKeyInit, DeleteInit, NumberInit, OrgInit, FileInit, RecordInit
<1>2. IInv /\ [Next]_vars => IInv'
    BY TypeNext, LockNext, KeyNext, DeleteNext, NumberNext, OrgNext, FileNext, RecordNext
    DEF TypeInv
<1>3. IInv /\ [Next]_vars => [Promise!RecordNext]_(Promise!recordVars)
    BY RecordStep
<1>4. QED
    BY <1>1, <1>2, <1>3, RecordStarts, PTL DEF Spec, ImplementsAdmissionRecord, Promise!RecordSpec
=============================================================================
