----------------------------- MODULE RunAdmission -----------------------------
(***************************************************************************)
(* Admitting runs into ONE organization, against everything that deletes   *)
(* what a run stands on: its package's runs, its input files, its space,   *)
(* its organization.  Each request is one database transaction, modelled   *)
(* statement by statement with the Postgres locks it takes and keeps until *)
(* it ends: the advisory keys (the organization's admission key, the run   *)
(* numbers of a package), rows locked FOR UPDATE, and the FOR KEY SHARE    *)
(* locks the foreign keys of an INSERT take without the code saying so.    *)
(* What a transaction writes is seen when it commits.                      *)
(***************************************************************************)
EXTENDS Integers, FiniteSets

CONSTANTS
  Admissions,     \* createRun transactions, each named by the run it inserts
  Failures,       \* createFailedRun transactions, likewise
  OldRuns,        \* runs there already, all of them over
  RunDeleters, OrgDeleters, SpaceDeleters, FileDeleters,  \* deletion requests
  Sweepers,       \* passes of the expired files' collection
  Publishers,     \* files a run publishes
  ItemDeleters,   \* requests that delete a package
  Packages, Files,
  Agent,          \* the package of each run and of each request about one
  Input,          \* the files an admission consumes
  Target,         \* the file a publisher creates, or a request deletes
  Producer,       \* the run that publishes it
  Contained,      \* the files there already, with the run that published each, or None
  Cap,            \* max_concurrent_per_org
  MaxRequests,    \* bound on the transactions that ever begin
  None

Runs == Admissions \cup Failures \cup OldRuns
Inserters == Admissions \cup Failures
KeyTakers == Admissions \cup RunDeleters \cup OrgDeleters
OrgLockers == SpaceDeleters \cup FileDeleters \cup Sweepers \cup Publishers
Transactions == KeyTakers \cup Failures \cup OrgLockers \cup ItemDeleters

ASSUME CapAssumption == Cap \in Nat /\ MaxRequests \in Nat
ASSUME RunsAssumption ==
  /\ IsFiniteSet(Runs)
  /\ \A r, q \in OldRuns : Agent[r] = Agent[q] => r = q
  /\ None \notin Runs
ASSUME KindsAssumption ==
  /\ Admissions \cap Failures = {} /\ OldRuns \cap Transactions = {}
  /\ RunDeleters \cap (Inserters \cup OrgDeleters) = {}
  /\ OrgDeleters \cap Inserters = {}
  /\ (KeyTakers \cup Failures) \cap (OrgLockers \cup ItemDeleters) = {} /\ OrgLockers \cap ItemDeleters = {}
  /\ SpaceDeleters \cap (FileDeleters \cup Sweepers \cup Publishers) = {}
  /\ FileDeleters \cap (Sweepers \cup Publishers) = {} /\ Sweepers \cap Publishers = {}
ASSUME WiringAssumption ==
  /\ \A t \in Runs \cup RunDeleters \cup ItemDeleters : Agent[t] \in Packages
  /\ \A a \in Admissions : Input[a] \subseteq Files
  /\ \A t \in FileDeleters \cup Publishers : Target[t] \in Files
  /\ \A b \in Publishers : Producer[b] \in Runs
  /\ DOMAIN Contained \subseteq Files
  /\ \A f \in DOMAIN Contained : Contained[f] \in OldRuns \cup {None}
  /\ \A b \in Publishers : Target[b] \notin DOMAIN Contained
  /\ \A a, b \in Publishers : Target[a] = Target[b] => a = b

VARIABLES
  pc,         \* the statement each transaction is at
  held,       \* the mode in which it holds each lock
  mine,       \* what it has read and keeps
  run,        \* runs: status and run_number, "none" where there is no row
  file,       \* files: whether the row is live
  container,  \* and the run_id of a live one
  packages,   \* packages rows
  org,        \* the organizations row, and whether deleting_at is set
  space,      \* the spaces row exists
  jobs        \* files whose purge is in the storage deletion outbox

table == <<run, file, container, packages, org, space, jobs>>
vars == <<pc, held, mine, table>>

\* Locks: a kind, and the row or the key of that kind.
AdmissionKey == <<"run_concurrency", None>>
OrgRow == <<"organizations", None>>
SpaceRow == <<"spaces", None>>
PackageRow(p) == <<"packages", p>>
FileRow(f) == <<"files", f>>
NumberKey(p) == <<"run_number", p>>
Locks == {AdmissionKey, OrgRow, SpaceRow} \cup {PackageRow(p) : p \in Packages}
           \cup {FileRow(f) : f \in Files} \cup {NumberKey(p) : p \in Packages}

Modes == {"none", "share", "update"}
Statements == {"admission", "org", "package", "rows", "delete", "number", "parents", "drain",
               "again", "space", "scan", "skip", "sweep", "insert", "drop", "done"}
Minds == [number: Nat, runs: SUBSET Runs, doomed: SUBSET Files, kept: SUBSET Files]
RunRows == [status: {"none", "active", "ended"}, number: Nat]

AdmissionTypeOK ==
  /\ pc \in [Transactions -> Statements]
  /\ held \in [Transactions -> [Locks -> Modes]]
  /\ mine \in [Transactions -> Minds]
  /\ run \in [Runs -> RunRows]
  /\ \A r \in Runs : run[r].status # "none" <=> run[r].number > 0
  /\ file \in [Files -> {"unborn", "live", "gone"}]
  /\ container \in [Files -> Runs \cup {None}]
  /\ packages \subseteq Packages
  /\ org \in {"live", "reserved", "gone"}
  /\ space \in BOOLEAN
  /\ jobs \subseteq Files

NoRow == [status |-> "none", number |-> 0]
NothingHeld == [l \in Locks |-> "none"]
Blank == [number |-> 0, runs |-> {}, doomed |-> {}, kept |-> {}]

FirstStatement(t) ==
  CASE t \in KeyTakers -> "admission"
    [] t \in Failures -> "number"
    [] t \in OrgLockers -> "org"
    [] t \in ItemDeleters -> "package"

Init ==
  /\ pc = [t \in Transactions |-> FirstStatement(t)]
  /\ held = [t \in Transactions |-> NothingHeld]
  /\ mine = [t \in Transactions |-> Blank]
  /\ run = [r \in Runs |-> IF r \in OldRuns THEN [status |-> "ended", number |-> 1] ELSE NoRow]
  /\ file = [f \in Files |-> IF f \in DOMAIN Contained THEN "live" ELSE "unborn"]
  /\ container = [f \in Files |-> IF f \in DOMAIN Contained THEN Contained[f] ELSE None]
  /\ packages = Packages
  /\ org = "live"
  /\ space = TRUE
  /\ jobs = {}

-----------------------------------------------------------------------------
Exists(r) == run[r].status # "none"
Active == {r \in Runs : run[r].status = "active"}
RunsOf(p) == {r \in Runs : Exists(r) /\ Agent[r] = p /\ p \in packages}

Live == {f \in Files : file[f] = "live"}

\* file_links: written with the run that consumes the file, gone with it.
Linked(f) == \E a \in Admissions : Exists(a) /\ f \in Input[a]
ContainedIn(runs) == {f \in Live : container[f] \in runs}

At(t, statement) == pc[t] = statement
Goes(t, statement) == pc' = [pc EXCEPT ![t] = statement]

Compatible(m, n) == m = "none" \/ n = "none" \/ (m = "share" /\ n = "share")
Grantable(t, l, m) == \A u \in Transactions \ {t} : Compatible(held[u][l], m)
Take(t, l, m) == held' = [held EXCEPT ![t] = [held[t] EXCEPT ![l] = m]]
ReleaseAll(t) == held' = [held EXCEPT ![t] = NothingHeld]

\* The end of a transaction, committed or rolled back.
Ends(t) == Goes(t, "done") /\ ReleaseAll(t) /\ mine' = [mine EXCEPT ![t] = Blank]

\* What the statement at "rows" locks FOR UPDATE, row by row and in no set order; the
\* cascades of a deleted space or organization lock what they delete.
Rows(t) ==
  CASE t \in Admissions -> {FileRow(f) : f \in Input[t] \cap Live}
    [] t \in RunDeleters -> {FileRow(f) : f \in ContainedIn(mine[t].runs)}
    [] t \in FileDeleters -> {FileRow(f) : f \in {Target[t]} \cap Live}
    [] t \in SpaceDeleters -> {FileRow(f) : f \in Live}
    [] t \in OrgDeleters -> {FileRow(f) : f \in Live} \cup {PackageRow(p) : p \in packages}
    [] OTHER -> {}
Unlocked(t) == {l \in Rows(t) : held[t][l] = "none"}

LockRow(t) ==
  /\ At(t, "rows")
  /\ \E l \in Unlocked(t) : Grantable(t, l, "update") /\ Take(t, l, "update")
  /\ UNCHANGED <<pc, mine, table>>

(***************************************************************************)
(* createRun and createFailedRun.                                          *)
(***************************************************************************)

\* The reservation and the count, read under the key.
\* Mutants: the count without the key; the key not given back by a refusal.
AdmitUnlocked(a) ==
  /\ At(a, "admission")
  /\ IF org # "reserved" /\ Cardinality(Active) < Cap
       THEN Goes(a, "rows") /\ UNCHANGED <<held, mine>>
       ELSE Ends(a)
  /\ UNCHANGED table

AdmitLeaking(a) ==
  /\ At(a, "admission")
  /\ Grantable(a, AdmissionKey, "update")
  /\ Take(a, AdmissionKey, "update")
  /\ Goes(a, IF org # "reserved" /\ Cardinality(Active) < Cap THEN "rows" ELSE "done")
  /\ UNCHANGED <<mine, table>>

Admit(a) ==
  /\ At(a, "admission")
  /\ Grantable(a, AdmissionKey, "update")
  /\ IF org # "reserved" /\ Cardinality(Active) < Cap
       THEN Take(a, AdmissionKey, "update") /\ Goes(a, "rows") /\ UNCHANGED mine
       ELSE Ends(a)
  /\ UNCHANGED table

RevalidateInputs(a) ==
  /\ At(a, "rows")
  /\ Unlocked(a) = {}
  /\ IF Input[a] \subseteq Live
       THEN Goes(a, "number") /\ UNCHANGED <<held, mine>>
       ELSE Ends(a)
  /\ UNCHANGED table

HighestNumber(p) ==
  LET numbers == {0} \cup {run[r].number : r \in RunsOf(p)}
  IN  CHOOSE n \in numbers : \A m \in numbers : m <= n

\* Mutant: the maximum itself.
SameNumber(p) == HighestNumber(p)
NextNumber(p) == HighestNumber(p) + 1

\* Mutant: no lock on the package's numbers.
TakeNumberUnlocked(t) ==
  /\ At(t, "number")
  /\ mine' = [mine EXCEPT ![t] = [Blank EXCEPT !.number = NextNumber(Agent[t])]]
  /\ Goes(t, "parents")
  /\ UNCHANGED <<held, table>>

TakeNumber(t) ==
  /\ At(t, "number")
  /\ Grantable(t, NumberKey(Agent[t]), "update")
  /\ Take(t, NumberKey(Agent[t]), "update")
  /\ mine' = [mine EXCEPT ![t] = [Blank EXCEPT !.number = NextNumber(Agent[t])]]
  /\ Goes(t, "parents")
  /\ UNCHANGED table

\* The foreign keys of the INSERT lock the parents' rows FOR KEY SHARE, in the order in
\* which the schema declares them.
Parents(t) == {PackageRow(Agent[t]), SpaceRow, OrgRow}
NextParent(t) ==
  CASE held[t][PackageRow(Agent[t])] = "none" -> PackageRow(Agent[t])
    [] held[t][PackageRow(Agent[t])] # "none" /\ held[t][SpaceRow] = "none" -> SpaceRow
    [] OTHER -> OrgRow

LockParent(t) ==
  /\ At(t, "parents")
  /\ held[t][NextParent(t)] = "none"
  /\ Grantable(t, NextParent(t), "share")
  /\ Take(t, NextParent(t), "share")
  /\ UNCHANGED <<pc, mine, table>>

InsertRun(t) ==
  /\ At(t, "parents")
  /\ \A l \in Parents(t) : held[t][l] # "none"
  /\ run' = IF org # "gone" /\ space /\ Agent[t] \in packages
              THEN [run EXCEPT ![t] =
                     [status |-> IF t \in Admissions THEN "active" ELSE "ended",
                      number |-> mine[t].number]]
              ELSE run
  /\ Ends(t)
  /\ UNCHANGED <<file, container, packages, org, space, jobs>>

\* Any path that closes a run: RunIngestion, RunTermination.
CloseRun(r) ==
  /\ run[r].status = "active"
  /\ run' = [run EXCEPT ![r] = [status |-> "ended", number |-> run[r].number]]
  /\ UNCHANGED <<pc, held, mine, file, container, packages, org, space, jobs>>

(***************************************************************************)
(* Deleting the runs of a package.                                         *)
(***************************************************************************)
\* Mutant: straight to the organization's row.
EnterUnlocked(t) ==
  /\ At(t, "admission") \/ At(t, "drain")
  /\ Goes(t, IF At(t, "admission") THEN "org" ELSE "again")
  /\ UNCHANGED <<held, mine, table>>

EnterAdmission(t) ==
  /\ At(t, "admission") \/ At(t, "drain")
  /\ Grantable(t, AdmissionKey, "update")
  /\ Take(t, AdmissionKey, "update")
  /\ Goes(t, IF At(t, "admission") THEN "org" ELSE "again")
  /\ UNCHANGED <<mine, table>>

\* Mutant: active runs are counted by the route, before the key.
CheckPackageIdleEarly(d) ==
  /\ At(d, "org")
  /\ Grantable(d, OrgRow, "update")
  /\ Take(d, OrgRow, "update")
  /\ Goes(d, "package")
  /\ UNCHANGED <<mine, table>>

CheckPackageIdle(d) ==
  /\ At(d, "org")
  /\ Grantable(d, OrgRow, "update")
  /\ IF RunsOf(Agent[d]) \cap Active = {}
       THEN Take(d, OrgRow, "update") /\ Goes(d, "package") /\ UNCHANGED mine
       ELSE Ends(d)
  /\ UNCHANGED table

EnumerateRuns(d) ==
  LET p == Agent[d] IN
  /\ At(d, "package")
  /\ Grantable(d, PackageRow(p), "update")
  /\ IF RunsOf(p) = {}
       THEN Ends(d)
       ELSE /\ Take(d, PackageRow(p), "update")
            /\ mine' = [mine EXCEPT ![d] = [Blank EXCEPT !.runs = RunsOf(p)]]
            /\ Goes(d, "rows")
  /\ UNCHANGED table

\* Mutant: every contained file is deleted.
DeleteContained(d) ==
  /\ At(d, "rows")
  /\ Unlocked(d) = {}
  /\ mine' = [mine EXCEPT ![d] =
       [number |-> 0, runs |-> mine[d].runs, doomed |-> ContainedIn(mine[d].runs), kept |-> {}]]
  /\ Goes(d, "delete")
  /\ UNCHANGED <<held, table>>

\* detachOrDeleteContainedFiles: what a run outside the set consumes is kept.
DetachOrDelete(d) ==
  LET contained == ContainedIn(mine[d].runs)
      kept == {f \in contained : \E a \in Admissions \ mine[d].runs :
                                    Exists(a) /\ f \in Input[a]} IN
  /\ At(d, "rows")
  /\ Unlocked(d) = {}
  /\ mine' = [mine EXCEPT ![d] =
       [number |-> 0, runs |-> mine[d].runs, doomed |-> contained \ kept, kept |-> kept]]
  /\ Goes(d, "delete")
  /\ UNCHANGED <<held, table>>

\* Mutant: a job for every file the runs contained, the kept ones too.
DeletePurgingKept(d) ==
  LET cascade == {f \in Live : container[f] \in mine[d].runs} \ mine[d].kept IN
  /\ At(d, "delete")
  /\ run' = [r \in Runs |-> IF r \in mine[d].runs THEN NoRow ELSE run[r]]
  /\ file' = [f \in Files |-> IF f \in mine[d].doomed \cup cascade THEN "gone" ELSE file[f]]
  /\ container' = [f \in Files |-> IF f \in mine[d].kept THEN None ELSE container[f]]
  /\ jobs' = jobs \cup mine[d].doomed \cup mine[d].kept
  /\ Ends(d)
  /\ UNCHANGED <<packages, org, space>>

\* The rows of `doomed` go with a job each; deleting the runs cascades to whatever
\* file still names one.
DeletePackageRuns(d) ==
  LET cascade == {f \in Live : container[f] \in mine[d].runs} \ mine[d].kept IN
  /\ At(d, "delete")
  /\ run' = [r \in Runs |-> IF r \in mine[d].runs THEN NoRow ELSE run[r]]
  /\ file' = [f \in Files |-> IF f \in mine[d].doomed \cup cascade THEN "gone" ELSE file[f]]
  /\ container' = [f \in Files |-> IF f \in mine[d].kept THEN None ELSE container[f]]
  /\ jobs' = jobs \cup mine[d].doomed
  /\ Ends(d)
  /\ UNCHANGED <<packages, org, space>>

(***************************************************************************)
(* Deleting the organization: reserve, let the modules tear down, delete.  *)
(***************************************************************************)

\* Mutant: the reservation is stamped without the admission key.
ReserveUnlocked(o) ==
  /\ At(o, "admission")
  /\ Grantable(o, OrgRow, "update")
  /\ IF org # "gone" /\ Active = {}
       THEN org' = "reserved" /\ Goes(o, "drain") /\ ReleaseAll(o) /\ UNCHANGED mine
       ELSE Ends(o) /\ UNCHANGED org
  /\ UNCHANGED <<run, file, container, packages, space, jobs>>

ReserveDeletion(o) ==
  /\ At(o, "org")
  /\ Grantable(o, OrgRow, "update")
  /\ IF org # "gone" /\ Active = {}
       THEN org' = "reserved" /\ Goes(o, "drain") /\ ReleaseAll(o) /\ UNCHANGED mine
       ELSE Ends(o) /\ UNCHANGED org
  /\ UNCHANGED <<run, file, container, packages, space, jobs>>

CheckOrgIdle(o) ==
  /\ At(o, "again")
  /\ Grantable(o, OrgRow, "update")
  /\ IF org # "gone" /\ Active = {}
       THEN /\ Take(o, OrgRow, "update")
            /\ mine' = [mine EXCEPT ![o] = [Blank EXCEPT !.doomed = Live]]
            /\ Goes(o, "rows")
       ELSE Ends(o)
  /\ UNCHANGED table

EverythingGoes(t) ==
  /\ run' = [r \in Runs |-> NoRow]
  /\ file' = [f \in Files |-> IF f \in Live THEN "gone" ELSE file[f]]
  /\ jobs' = jobs \cup mine[t].doomed
  /\ space' = FALSE
  /\ Ends(t)
  /\ UNCHANGED container

DeleteOrganization(o) ==
  /\ At(o, "rows")
  /\ Unlocked(o) = {}
  /\ EverythingGoes(o)
  /\ packages' = {}
  /\ org' = "gone"

(***************************************************************************)
(* What takes the organization's row and not the admission key.            *)
(***************************************************************************)
\* Mutant: a publisher does not wait for the organization's row.
LockOrgUnlessPublishing(t) ==
  /\ At(t, "org")
  /\ t \in Publishers \/ Grantable(t, OrgRow, "update")
  /\ Goes(t, CASE t \in SpaceDeleters -> "space"
               [] t \in FileDeleters -> "rows"
               [] t \in Sweepers -> "scan"
               [] t \in Publishers -> "insert")
  /\ IF t \in Publishers THEN UNCHANGED held ELSE Take(t, OrgRow, "update")
  /\ UNCHANGED <<mine, table>>

LockOrg(t) ==
  /\ At(t, "org")
  /\ Grantable(t, OrgRow, "update")
  /\ IF org # "gone"
       THEN /\ Take(t, OrgRow, "update")
            /\ Goes(t, CASE t \in SpaceDeleters -> "space"
                         [] t \in FileDeleters -> "rows"
                         [] t \in Sweepers -> "scan"
                         [] t \in Publishers -> "insert")
            /\ UNCHANGED mine
       ELSE Ends(t)
  /\ UNCHANGED table

CheckSpaceIdle(s) ==
  /\ At(s, "space")
  /\ Grantable(s, SpaceRow, "update")
  /\ IF space /\ Active = {}
       THEN /\ Take(s, SpaceRow, "update")
            /\ mine' = [mine EXCEPT ![s] = [Blank EXCEPT !.doomed = Live]]
            /\ Goes(s, "rows")
       ELSE Ends(s)
  /\ UNCHANGED table

DeleteSpace(s) ==
  /\ At(s, "rows")
  /\ Unlocked(s) = {}
  /\ EverythingGoes(s)
  /\ UNCHANGED <<packages, org>>

Remove(t, doomed) ==
  /\ file' = [f \in Files |-> IF f \in doomed THEN "gone" ELSE file[f]]
  /\ jobs' = jobs \cup doomed
  /\ Ends(t)
  /\ UNCHANGED <<run, container, packages, org, space>>

DeleteFile(t) ==
  /\ At(t, "rows")
  /\ Unlocked(t) = {}
  /\ Remove(t, IF Linked(Target[t]) THEN {} ELSE {Target[t]} \cap Live)

\* The sweep reads the expired files no run consumes, of them it locks the rows nobody
\* else has locked (SKIP LOCKED), and reads the links again.
ScanExpired(t) ==
  /\ At(t, "scan")
  /\ \E expired \in SUBSET {f \in Live : ~ Linked(f)} :
       mine' = [mine EXCEPT ![t] = [Blank EXCEPT !.doomed = expired]]
  /\ Goes(t, "skip")
  /\ UNCHANGED <<held, table>>

SkipLocked(t) ==
  LET taken == {f \in mine[t].doomed \cap Live : Grantable(t, FileRow(f), "update")} IN
  /\ At(t, "skip")
  /\ held' = [held EXCEPT ![t] = [l \in Locks |->
       IF l \in {FileRow(f) : f \in taken} THEN "update" ELSE held[t][l]]]
  /\ mine' = [mine EXCEPT ![t] = [Blank EXCEPT !.doomed = taken]]
  /\ Goes(t, "sweep")
  /\ UNCHANGED table

Sweep(t) ==
  /\ At(t, "sweep")
  /\ Remove(t, {f \in mine[t].doomed : ~ Linked(f)})

\* createFileFromStream: the foreign key refuses the row of a run that is gone.
PublishFile(b) ==
  /\ At(b, "insert")
  /\ IF Exists(Producer[b])
       THEN /\ file' = [file EXCEPT ![Target[b]] = "live"]
            /\ container' = [container EXCEPT ![Target[b]] = Producer[b]]
       ELSE UNCHANGED <<file, container>>
  /\ Ends(b)
  /\ UNCHANGED <<run, packages, org, space, jobs>>

\* deleteOrgItem; the runs of the package lose their package_id.
LockPackage(i) ==
  /\ At(i, "package")
  /\ Grantable(i, PackageRow(Agent[i]), "update")
  /\ Take(i, PackageRow(Agent[i]), "update")
  /\ Goes(i, "drop")
  /\ UNCHANGED <<mine, table>>

DropPackage(i) ==
  /\ At(i, "drop")
  /\ packages' = packages \ {Agent[i]}
  /\ Ends(i)
  /\ UNCHANGED <<run, file, container, org, space, jobs>>

(***************************************************************************)
(* Postgres breaks a cycle of waiting transactions by rolling one back.    *)
(***************************************************************************)
Mode(t) == IF At(t, "parents") THEN "share" ELSE "update"

Wants(t) ==
  CASE pc[t] \in {"admission", "drain"} -> {AdmissionKey}
    [] pc[t] \in {"org", "again"} -> {OrgRow}
    [] At(t, "space") -> {SpaceRow}
    [] At(t, "package") -> {PackageRow(Agent[t])}
    [] At(t, "rows") -> Unlocked(t)
    [] At(t, "number") -> {NumberKey(Agent[t])}
    [] At(t, "parents") /\ held[t][NextParent(t)] = "none" -> {NextParent(t)}
    [] OTHER -> {}

Blocked(t) == Wants(t) # {} /\ \A l \in Wants(t) : ~ Grantable(t, l, Mode(t))

WaitsFor(t, u) ==
  /\ t # u
  /\ Blocked(t)
  /\ \E l \in Wants(t) : ~ Compatible(held[u][l], Mode(t))

\* Each of the ts waits for one of them, and one of them waits for it.
Cycle(ts) ==
  /\ ts # {}
  /\ \A t \in ts : (\E u \in ts : WaitsFor(t, u)) /\ (\E u \in ts : WaitsFor(u, t))

\* Only what holds a lock and is blocked can be part of a circle.
Waiting == {t \in Transactions : held[t] # NothingHeld /\ Blocked(t)}

DeadlockDetected(t) ==
  /\ t \in Waiting
  /\ \E ts \in SUBSET Waiting : t \in ts /\ Cycle(ts)
  /\ Ends(t)
  /\ UNCHANGED table

-----------------------------------------------------------------------------
AdmissionStep(a) == Admit(a) \/ LockRow(a) \/ RevalidateInputs(a)
InsertStep(t) == TakeNumber(t) \/ LockParent(t) \/ InsertRun(t)
RunDeleterStep(d) ==
  \/ EnterAdmission(d) \/ CheckPackageIdle(d) \/ EnumerateRuns(d)
  \/ LockRow(d) \/ DetachOrDelete(d) \/ DeletePackageRuns(d)
OrgDeleterStep(o) ==
  \/ EnterAdmission(o) \/ ReserveDeletion(o) \/ CheckOrgIdle(o)
  \/ LockRow(o) \/ DeleteOrganization(o)
SpaceDeleterStep(s) == LockOrg(s) \/ CheckSpaceIdle(s) \/ LockRow(s) \/ DeleteSpace(s)
FileDeleterStep(t) == LockOrg(t) \/ LockRow(t) \/ DeleteFile(t)
SweeperStep(t) == LockOrg(t) \/ ScanExpired(t) \/ SkipLocked(t) \/ Sweep(t)
PublisherStep(b) == LockOrg(b) \/ PublishFile(b)
ItemDeleterStep(i) == LockPackage(i) \/ DropPackage(i)

TransactionStep(t) ==
  \/ t \in Admissions /\ AdmissionStep(t)
  \/ t \in Inserters /\ InsertStep(t)
  \/ t \in RunDeleters /\ RunDeleterStep(t)
  \/ t \in OrgDeleters /\ OrgDeleterStep(t)
  \/ t \in SpaceDeleters /\ SpaceDeleterStep(t)
  \/ t \in FileDeleters /\ FileDeleterStep(t)
  \/ t \in Sweepers /\ SweeperStep(t)
  \/ t \in Publishers /\ PublisherStep(t)
  \/ t \in ItemDeleters /\ ItemDeleterStep(t)
  \/ DeadlockDetected(t)

Sent(t) == held[t] # NothingHeld \/ pc[t] # FirstStatement(t)

Step(t) ==
  /\ Sent(t) \/ Cardinality({u \in Transactions : Sent(u)}) < MaxRequests
  /\ TransactionStep(t)

Next ==
  \/ \E t \in Transactions : Step(t)
  \/ \E r \in Runs : CloseRun(r)

Spec == Init /\ [][Next]_vars

\* While a transaction that has begun can take its next statement, one does, and the
\* detector runs deadlock_timeout after a wait began; nothing makes a run end.
FairAdmissionSpec ==
  Spec /\ WF_vars(\E t \in Transactions : Sent(t) /\ TransactionStep(t))

-----------------------------------------------------------------------------
\* The cap on an organization's concurrent runs is exact, however many launches read
\* the count before one of them inserts its run.
CapHolds == Cardinality(Active) <= Cap

\* Two runs of a package never share a run_number, preflight failures (which take no
\* admission key) and runs inserted while the package's runs are deleted included.
NumbersUnique ==
  \A r, q \in Runs : Exists(r) /\ Exists(q) /\ Agent[r] = Agent[q]
                       /\ run[r].number = run[q].number => r = q

\* Once an organization's deletion is reserved no run of it is in flight: the
\* modules tear down what they will not get back, and deleteOrganization is not refused.
NothingBehindReservation == org # "live" => Active = {}

\* An appfile:// input of an admitted run resolves for as long as the run's row is
\* there: deleting the file, its producer's runs or sweeping it either came first, and
\* the run was refused, or sees the link.
InputsResolve == \A a \in Admissions : Exists(a) => Input[a] \subseteq Live

\* No files row goes without a job to purge its object: what a cascade takes is what
\* was enumerated before it, publications that race the delete included.
NoFileSilentlyDropped == \A f \in Files : file[f] = "gone" => f \in jobs

\* The transactions that take the admission key, which meet on the rows of packages
\* and files, never wait for each other in a circle.
KeyTakersNeverDeadlock == \A ts \in SUBSET (KeyTakers \cap Waiting) : ~ Cycle(ts)

\* The one lock order leaves no circle of waiting transactions at all (orgRunConcurrencyLockKey,
\* "Each participant takes the subset it needs, never a different order").
NoLockCycle == \A ts \in SUBSET Waiting : ~ Cycle(ts)

\* No delete takes the row of a run in flight: its container would go on with live
\* credentials against a run that no longer exists.
ActiveRunsAreKept ==
  [][\A r \in Runs : run[r].status = "active" => run'[r].status # "none"]_vars

Promise == INSTANCE AdmissionRecord WITH
  Launches <- Admissions, Failed <- Failures, Others <- OldRuns, Package <- Agent,
  runs <- run, live <- Live, purged <- jobs, open <- org

\* The transactions, statement by statement and lock by lock, implement the record in
\* which each of them is one step: what one checked still holds when it writes.
ImplementsAdmissionRecord == Promise!RecordSpec

\* Every transaction that has begun is answered, again and again all of them at once: no
\* wait for a lock is for ever.
RequestsAreAnswered == []<>(\A t \in Transactions : Sent(t) => At(t, "done"))
=============================================================================
