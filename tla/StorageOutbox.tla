----------------------------- MODULE StorageOutbox -----------------------------
(***************************************************************************)
(* The transactional outbox that purges object storage, over the two kinds *)
(* of keys that are hard: the artifacts of ONE package's published         *)
(* versions, whose keys a republished version takes up again, and the      *)
(* workspace of ONE run, whose manifest is the index of the files to       *)
(* purge.  A row delete enqueues a job for its object in its transaction;  *)
(* a worker per API process leases the due jobs, deletes the objects and   *)
(* settles the jobs, and two workers meet on a job whose lease ran out.    *)
(* Publishing and purging serialize on the package's advisory lock,        *)
(* replacing a version's content and deleting the whole package do not.    *)
(***************************************************************************)
EXTENDS Integers, FiniteSets

CONSTANTS
  Versions,    \* version numbers, which are also the keys of their artifacts
  RunFiles,    \* input files of the run, each an object of its own
  Manifest,    \* the object that lists them, the key of the workspace's job
  Publishers,  \* requests that publish a version,
  Replacers,   \* that replace the content of one,
  Deleters,    \* that delete the package; a request brings its own content, which
               \* an artifact and a row's integrity hash name by the request
  Passes,      \* API processes, each with at most one pass of the worker
  None,        \* no content, no version, no holder of the lock
  MaxJobs,     \* bound on the jobs ever enqueued for a key
  MaxFaults    \* bound on crashes, rejected calls, early lapses and operator retries

Writers == Publishers \cup Replacers \cup Deleters

ASSUME KeysAssumption ==
  /\ Versions \subseteq Nat
  /\ Manifest \notin Versions \cup RunFiles
ASSUME ActorsAssumption == Writers \cap Passes = {}
ASSUME NoneAssumption == None \notin Versions \cup Writers \cup Passes
ASSUME BoundsAssumption == MaxJobs \in Nat /\ MaxFaults \in Nat

VARIABLES
  package,    \* the packages row exists
  row,        \* package_versions: the content each committed row vouches for
  artifact,   \* the objects under the versions' keys
  replaced,   \* versions whose artifact replaceVersionContent has overwritten
  run,        \* the run row
  workspace,  \* the objects of its workspace that exist
  job,        \* storage_deletion_jobs: the last job of each key
  lock,       \* who holds the advisory lock of the package's versions
  writer,     \* what each request is doing
  pass,       \* what each worker is doing
  faults      \* faults so far

rows == <<package, row, run>>
objects == <<artifact, replaced, workspace>>
vars == <<rows, objects, job, lock, writer, pass, faults>>

Keys == Versions \cup {Manifest}

\* `done` is a completed job; the pending ones differ by their next_attempt_at.
NoJob == [id |-> 0, attempts |-> 0, phase |-> "done"]

\* What a worker keeps of a job it claimed: its id and the attempts it then had.
Claims == [key: Keys, id: 0..MaxJobs, attempts: Nat]
NoClaim == [key |-> Manifest, id |-> 0, attempts |-> 0]

Publishing == {"inserted", "uploaded"}
WriterSteps == Publishing \cup
  {"idle", "cleanup", "cleaning", "enumerated", "replacing", "replaced"}
PassSteps == {"idle", "claimed", "purging", "expanding", "purged", "failed"}

WriterStates == [at: WriterSteps, version: Versions \cup {None}, keys: SUBSET Versions]
PassStates == [at: PassSteps, batch: SUBSET Claims, claim: Claims, files: SUBSET RunFiles]
JobStates == [id: 0..MaxJobs, attempts: Nat, phase: {"done", "due", "leased", "backoff"}]

IdleWriter == [at |-> "idle", version |-> None, keys |-> {}]
IdlePass == [at |-> "idle", batch |-> {}, claim |-> NoClaim, files |-> {}]

OutboxTypeOK ==
  /\ package \in BOOLEAN
  /\ row \in [Versions -> Writers \cup {None}]
  /\ artifact \in [Versions -> Writers \cup {None}]
  /\ replaced \subseteq Versions
  /\ run \in {"open", "closed", "deleted"}
  /\ workspace \subseteq RunFiles \cup {Manifest}
  /\ job \in [Keys -> JobStates]
  /\ lock \in Writers \cup Passes \cup {None}
  /\ writer \in [Writers -> WriterStates]
  /\ \A w \in Writers : writer[w].version = None => writer[w].at \in {"idle", "enumerated"}
  /\ pass \in [Passes -> PassStates]
  /\ faults \in 0..MaxFaults

Init ==
  /\ package = TRUE
  /\ row = [v \in Versions |-> None]
  /\ artifact = [v \in Versions |-> None]
  /\ replaced = {}
  /\ run = "open"
  /\ workspace = RunFiles \cup {Manifest}
  /\ job = [k \in Keys |-> NoJob]
  /\ lock = None
  /\ writer = [w \in Writers |-> IdleWriter]
  /\ pass = [p \in Passes |-> IdlePass]
  /\ faults = 0

-----------------------------------------------------------------------------
Pending(k) == job[k].phase # "done"
Live(v) == row[v] # None

Fault == faults < MaxFaults /\ faults' = faults + 1
NoFault == UNCHANGED faults

\* Mutant: no unique index, a job per enqueue.
EnqueueAgain(keys) ==
  /\ \A k \in keys : Pending(k) \/ job[k].id < MaxJobs
  /\ job' = [k \in Keys |->
       IF k \in keys THEN [id |-> job[k].id + 1, attempts |-> 0, phase |-> "due"] ELSE job[k]]

\* INSERT ... ON CONFLICT DO NOTHING against the unique index on pending jobs.
Enqueue(keys) ==
  /\ \A k \in keys : Pending(k) \/ job[k].id < MaxJobs
  /\ job' = [k \in Keys |->
       IF k \in keys /\ ~ Pending(k)
         THEN [id |-> job[k].id + 1, attempts |-> 0, phase |-> "due"]
         ELSE job[k]]

WriterAt(w, label) == writer[w].at = label
WriterGoes(w, label) == writer' = [writer EXCEPT ![w].at = label]
WriterReturns(w) == writer' = [writer EXCEPT ![w] = IdleWriter]
Release(x) == lock' = IF lock = x THEN None ELSE lock

(***************************************************************************)
(* Publishing a version: one transaction, under the lock, that uploads the *)
(* artifact before it commits the row.                                     *)
(***************************************************************************)

\* Forward-only: no row of this version, none of a higher one.
Publishable(v) == \A u \in Versions : Live(u) => u < v

InsertVersion(w, v) ==
  /\ w \in Publishers
  /\ WriterAt(w, "idle")
  /\ package
  /\ lock = None
  /\ Publishable(v)
  /\ lock' = w
  /\ writer' = [writer EXCEPT ![w] = [at |-> "inserted", version |-> v, keys |-> {}]]
  /\ NoFault
  /\ UNCHANGED <<rows, objects, job, pass>>

UploadZip(w) ==
  /\ WriterAt(w, "inserted")
  /\ artifact' = [artifact EXCEPT ![writer[w].version] = w]
  /\ WriterGoes(w, "uploaded")
  /\ NoFault
  /\ UNCHANGED <<rows, replaced, workspace, job, lock, pass>>

CommitVersion(w) ==
  /\ WriterAt(w, "uploaded")
  /\ row' = [row EXCEPT ![writer[w].version] = w]
  /\ Release(w)
  /\ WriterReturns(w)
  /\ NoFault
  /\ UNCHANGED <<package, run, objects, job, pass>>

\* The upload is refused, lost after it was applied, or the commit fails.
PublishFails(w) ==
  /\ writer[w].at \in Publishing
  /\ Fault
  /\ \/ UNCHANGED artifact
     \/ artifact' = [artifact EXCEPT ![writer[w].version] = w]
  /\ Release(w)
  /\ WriterGoes(w, "cleanup")
  /\ UNCHANGED <<rows, replaced, workspace, job, pass>>

\* The best-effort delete of what the rolled back upload may have left.
CheckBeforeCleanup(w) ==
  /\ WriterAt(w, "cleanup")
  /\ lock = None
  /\ IF Live(writer[w].version)
       THEN WriterReturns(w) /\ UNCHANGED lock
       ELSE WriterGoes(w, "cleaning") /\ lock' = w
  /\ NoFault
  /\ UNCHANGED <<rows, objects, job, pass>>

CleanUp(w) ==
  /\ WriterAt(w, "cleaning")
  /\ \/ artifact' = [artifact EXCEPT ![writer[w].version] = None] /\ NoFault
     \/ UNCHANGED artifact /\ Fault
  /\ Release(w)
  /\ WriterReturns(w)
  /\ UNCHANGED <<rows, replaced, workspace, job, pass>>

(***************************************************************************)
(* Replacing the content of a version: no lock, upload before the update.  *)
(***************************************************************************)
CheckVersion(w, v) ==
  /\ w \in Replacers
  /\ WriterAt(w, "idle")
  /\ Live(v)
  /\ writer' = [writer EXCEPT ![w] = [at |-> "replacing", version |-> v, keys |-> {}]]
  /\ NoFault
  /\ UNCHANGED <<rows, objects, job, lock, pass>>

OverwriteZip(w) ==
  /\ WriterAt(w, "replacing")
  /\ artifact' = [artifact EXCEPT ![writer[w].version] = w]
  /\ replaced' = replaced \cup {writer[w].version}
  /\ WriterGoes(w, "replaced")
  /\ NoFault
  /\ UNCHANGED <<rows, workspace, job, lock, pass>>

UpdateVersion(w) ==
  /\ WriterAt(w, "replaced")
  /\ row' = IF Live(writer[w].version)
              THEN [row EXCEPT ![writer[w].version] = w] ELSE row
  /\ WriterReturns(w)
  /\ NoFault
  /\ UNCHANGED <<package, run, objects, job, lock, pass>>

(***************************************************************************)
(* Deleting rows.                                                          *)
(***************************************************************************)
DeleteVersion(v) ==
  /\ lock = None
  /\ Live(v)
  /\ row' = [row EXCEPT ![v] = None]
  /\ Enqueue({v})
  /\ NoFault
  /\ UNCHANGED <<package, run, objects, lock, writer, pass>>

\* The package's keys are read before its row is deleted, and without the lock.
EnumerateVersions(w) ==
  /\ w \in Deleters
  /\ WriterAt(w, "idle")
  /\ package
  /\ writer' = [writer EXCEPT ![w] = [IdleWriter EXCEPT !.at = "enumerated",
                                                        !.keys = {v \in Versions : Live(v)}]]
  /\ NoFault
  /\ UNCHANGED <<rows, objects, job, lock, pass>>

\* The foreign key of a version being inserted holds the delete back; the cascade
\* then takes every version, the ones committed since the enumeration included.
DeletePackage(w) ==
  /\ WriterAt(w, "enumerated")
  /\ \A x \in Writers : writer[x].at \notin Publishing
  /\ IF package
       THEN /\ package' = FALSE
            /\ row' = [v \in Versions |-> None]
            /\ Enqueue(writer[w].keys)
       ELSE UNCHANGED <<package, row, job>>
  /\ WriterReturns(w)
  /\ NoFault
  /\ UNCHANGED <<run, objects, lock, pass>>

CreatePackage ==
  /\ ~ package
  /\ package' = TRUE
  /\ NoFault
  /\ UNCHANGED <<row, run, objects, job, lock, writer, pass>>

CloseRun ==
  /\ run = "open"
  /\ run' = "closed"
  /\ Enqueue({Manifest})
  /\ NoFault
  /\ UNCHANGED <<package, row, objects, lock, writer, pass>>

DeleteRun ==
  /\ run = "closed"
  /\ run' = "deleted"
  /\ Enqueue({Manifest})
  /\ NoFault
  /\ UNCHANGED <<package, row, objects, lock, writer, pass>>

WriterDies(w) ==
  /\ ~ WriterAt(w, "idle")
  /\ Fault
  /\ Release(w)
  /\ WriterReturns(w)
  /\ UNCHANGED <<rows, objects, job, pass>>

(***************************************************************************)
(* One pass of the worker: claim, then per job execute and settle.         *)
(***************************************************************************)
PassAt(p, label) == pass[p].at = label
PassGoes(p, label) == pass' = [pass EXCEPT ![p].at = label]

\* Mutants: the settle counts the attempt and not the claim; a job that failed once is
\* given up.
ClaimUncounted(p) ==
  LET due == {k \in Keys : job[k].phase = "due"} IN
  /\ PassAt(p, "idle")
  /\ due # {}
  /\ job' = [k \in Keys |-> IF k \in due THEN [job[k] EXCEPT !.phase = "leased"] ELSE job[k]]
  /\ pass' = [pass EXCEPT ![p] =
       [IdlePass EXCEPT !.at = "claimed",
          !.batch = {[key |-> k, id |-> job[k].id, attempts |-> job[k].attempts] : k \in due}]]
  /\ NoFault
  /\ UNCHANGED <<rows, objects, lock, writer>>

ClaimOnce(p) ==
  LET due == {k \in Keys : job[k].phase = "due" /\ job[k].attempts = 0} IN
  /\ PassAt(p, "idle")
  /\ due # {}
  /\ job' = [k \in Keys |->
       IF k \in due
         THEN [id |-> job[k].id, attempts |-> job[k].attempts + 1, phase |-> "leased"]
         ELSE job[k]]
  /\ pass' = [pass EXCEPT ![p] =
       [IdlePass EXCEPT !.at = "claimed",
          !.batch = {[key |-> k, id |-> job[k].id, attempts |-> job[k].attempts + 1] : k \in due}]]
  /\ NoFault
  /\ UNCHANGED <<rows, objects, lock, writer>>

\* The batch limit is beyond the instances: a pass claims every due job.
Claim(p) ==
  LET due == {k \in Keys : job[k].phase = "due"} IN
  /\ PassAt(p, "idle")
  /\ due # {}
  /\ job' = [k \in Keys |->
       IF k \in due
         THEN [id |-> job[k].id, attempts |-> job[k].attempts + 1, phase |-> "leased"]
         ELSE job[k]]
  /\ pass' = [pass EXCEPT ![p] =
       [IdlePass EXCEPT !.at = "claimed",
          !.batch = {[key |-> k, id |-> job[k].id, attempts |-> job[k].attempts + 1] : k \in due}]]
  /\ NoFault
  /\ UNCHANGED <<rows, objects, lock, writer>>

\* Takes the next job of the batch up, at the step it then is at.
Execute(p, claim, label, files) ==
  pass' = [pass EXCEPT ![p] = [at |-> label, batch |-> pass[p].batch \ {claim},
                               claim |-> claim, files |-> files]]

\* Mutant: the check and the delete are not under the writers' lock.
CheckReclaimedUnlocked(p, claim) ==
  /\ PassAt(p, "claimed")
  /\ claim.key \in Versions
  /\ IF Live(claim.key)
       THEN Execute(p, claim, "purged", {})
       ELSE Execute(p, claim, "purging", {})
  /\ NoFault
  /\ UNCHANGED <<rows, objects, job, lock, writer>>

\* deleteUnlessReclaimed: under the lock, keep the object if a row claims its key.
CheckReclaimed(p, claim) ==
  /\ PassAt(p, "claimed")
  /\ claim.key \in Versions
  /\ lock = None
  /\ IF Live(claim.key)
       THEN Execute(p, claim, "purged", {}) /\ UNCHANGED lock
       ELSE Execute(p, claim, "purging", {}) /\ lock' = p
  /\ NoFault
  /\ UNCHANGED <<rows, objects, job, writer>>

Purge(p) ==
  /\ PassAt(p, "purging")
  /\ artifact' = [artifact EXCEPT ![pass[p].claim.key] = None]
  /\ Release(p)
  /\ PassGoes(p, "purged")
  /\ NoFault
  /\ UNCHANGED <<rows, replaced, workspace, job, writer>>

\* The delete is refused, or applied although its answer is an error.
PurgeFails(p) ==
  /\ PassAt(p, "purging")
  /\ Fault
  /\ \/ UNCHANGED artifact
     \/ artifact' = [artifact EXCEPT ![pass[p].claim.key] = None]
  /\ Release(p)
  /\ PassGoes(p, "failed")
  /\ UNCHANGED <<rows, replaced, workspace, job, writer>>

\* deleteStorageTarget on a manifest: the files it lists first, itself last.
ReadManifest(p, claim) ==
  /\ PassAt(p, "claimed")
  /\ claim.key = Manifest
  /\ Execute(p, claim, "expanding", IF Manifest \in workspace THEN RunFiles ELSE {})
  /\ NoFault
  /\ UNCHANGED <<rows, objects, job, lock, writer>>

PurgeFile(p) ==
  /\ PassAt(p, "expanding")
  /\ \E f \in pass[p].files :
       /\ workspace' = workspace \ {f}
       /\ pass' = [pass EXCEPT ![p].files = @ \ {f}]
  /\ NoFault
  /\ UNCHANGED <<rows, artifact, replaced, job, lock, writer>>

\* Mutant: the manifest need not be the last to go.
PurgeManifestFirst(p) ==
  /\ PassAt(p, "expanding")
  /\ workspace' = workspace \ {Manifest}
  /\ pass' = [pass EXCEPT ![p].at = IF pass[p].files = {} THEN "purged" ELSE "expanding"]
  /\ NoFault
  /\ UNCHANGED <<rows, artifact, replaced, job, lock, writer>>

PurgeManifest(p) ==
  /\ PassAt(p, "expanding")
  /\ pass[p].files = {}
  /\ workspace' = workspace \ {Manifest}
  /\ PassGoes(p, "purged")
  /\ NoFault
  /\ UNCHANGED <<rows, artifact, replaced, job, lock, writer>>

\* The manifest cannot be read, or a delete is refused or applied with an error.
ExpansionFails(p) ==
  /\ PassAt(p, "expanding")
  /\ Fault
  /\ \/ UNCHANGED workspace
     \/ \E f \in pass[p].files : workspace' = workspace \ {f}
     \/ pass[p].files = {} /\ workspace' = workspace \ {Manifest}
  /\ PassGoes(p, "failed")
  /\ UNCHANGED <<rows, artifact, replaced, job, lock, writer>>

\* The claim is still the job's: not completed, not claimed again since.
Owned(claim) ==
  /\ job[claim.key].id = claim.id
  /\ job[claim.key].attempts = claim.attempts
  /\ Pending(claim.key)

NextJob(p) ==
  pass' = [pass EXCEPT ![p] =
    IF pass[p].batch = {} THEN IdlePass
    ELSE [at |-> "claimed", batch |-> pass[p].batch, claim |-> NoClaim, files |-> {}]]

Settle(p, phase) ==
  job' = IF Owned(pass[p].claim)
           THEN [job EXCEPT ![pass[p].claim.key].phase = phase] ELSE job

Complete(p) ==
  /\ PassAt(p, "purged")
  /\ Settle(p, "done")
  /\ NextJob(p)
  /\ NoFault
  /\ UNCHANGED <<rows, objects, lock, writer>>

BackOff(p) ==
  /\ PassAt(p, "failed")
  /\ Settle(p, "backoff")
  /\ NextJob(p)
  /\ NoFault
  /\ UNCHANGED <<rows, objects, lock, writer>>

\* A completion that throws is taken for a failed delete; a backoff that throws
\* ends the pass.
SettleFails(p) ==
  /\ Fault
  /\ \/ PassAt(p, "purged") /\ PassGoes(p, "failed")
     \/ PassAt(p, "failed") /\ pass' = [pass EXCEPT ![p] = IdlePass]
  /\ UNCHANGED <<rows, objects, job, lock, writer>>

PassDies(p) ==
  /\ ~ PassAt(p, "idle")
  /\ Fault
  /\ Release(p)
  /\ pass' = [pass EXCEPT ![p] = IdlePass]
  /\ UNCHANGED <<rows, objects, job, writer>>

(***************************************************************************)
(* The schedule of a job.                                                  *)
(***************************************************************************)
BecomesDue(k) == job' = [job EXCEPT ![k].phase = "due"]

\* No live pass works on the claim that leased k.
Abandoned(k) ==
  \A p \in Passes : \A c \in pass[p].batch \cup {pass[p].claim} : c.key = k => ~ Owned(c)

\* The lease of a pass that is gone runs out, a backoff ends.
TimePasses(k) ==
  /\ \/ job[k].phase = "leased" /\ Abandoned(k)
     \/ job[k].phase = "backoff"
  /\ BecomesDue(k)
  /\ NoFault
  /\ UNCHANGED <<rows, objects, lock, writer, pass>>

\* The lease runs out under a slow pass, or an operator asks for a retry now.
DueEarly(k) ==
  /\ job[k].phase \in {"leased", "backoff"}
  /\ Fault
  /\ BecomesDue(k)
  /\ UNCHANGED <<rows, objects, lock, writer, pass>>

-----------------------------------------------------------------------------
WriterStep(w) ==
  \/ UploadZip(w) \/ CommitVersion(w) \/ PublishFails(w) \/ CheckBeforeCleanup(w) \/ CleanUp(w)
  \/ OverwriteZip(w) \/ UpdateVersion(w) \/ DeletePackage(w) \/ WriterDies(w)

Request(w) ==
  \/ \E v \in Versions : InsertVersion(w, v) \/ CheckVersion(w, v)
  \/ EnumerateVersions(w)

PassStep(p) ==
  \/ Claim(p)
  \/ \E claim \in pass[p].batch : CheckReclaimed(p, claim) \/ ReadManifest(p, claim)
  \/ Purge(p) \/ PurgeFails(p) \/ PurgeFile(p) \/ PurgeManifest(p) \/ ExpansionFails(p)
  \/ Complete(p) \/ BackOff(p) \/ SettleFails(p) \/ PassDies(p)

Next ==
  \/ \E w \in Writers : WriterStep(w) \/ Request(w)
  \/ \E v \in Versions : DeleteVersion(v)
  \/ CreatePackage \/ CloseRun \/ DeleteRun
  \/ \E p \in Passes : PassStep(p)
  \/ \E k \in Keys : TimePasses(k) \/ DueEarly(k)

Spec == Init /\ [][Next]_vars

\* A request in flight ends, every process runs its worker on a timer, PostgreSQL
\* grants a lock in the order it was asked for, and time passes.  Nothing obliges
\* anybody to publish, to delete or to fail.
FairOutboxSpec ==
  /\ Spec
  /\ \A w \in Writers : WF_vars(WriterStep(w))
  /\ \A p \in Passes :
       /\ WF_vars(PassStep(p))
       /\ SF_vars(\E claim \in pass[p].batch : CheckReclaimed(p, claim))
  /\ \A k \in Keys : WF_vars(TimePasses(k))

-----------------------------------------------------------------------------
\* A version that is committed has its artifact, the one it vouches for, in spite of
\* jobs left by earlier versions of the same key, of workers whose lease ran out
\* and of failed publishes that clean up (createPackageVersion's upload inside its
\* transaction, deleteUnlessReclaimed under the same lock).  Only a replacement,
\* which takes no lock, may leave another content; never none.
LiveRowHasBytes ==
  \A v \in Versions : Live(v) =>
    /\ artifact[v] # None
    /\ v \notin replaced => artifact[v] = row[v]

\* What a run's teardown leaves is always within reach of a pending job: as long
\* as an input file is left so is the manifest that lists it, and once the run is
\* closed a job for the manifest is pending until nothing is left
\* (deleteStorageTarget's order, the settle of a pass that was overtaken).
NoWorkspaceOrphan ==
  /\ workspace # {} => Manifest \in workspace
  /\ run # "open" /\ workspace # {} => Pending(Manifest)

\* Two passes never both own a job, so a pass overtaken by another cannot settle
\* it: the claim's increment of attempts tells them apart.
OneOwner ==
  \A p, q \in Passes :
    \A c \in pass[p].batch \cup {pass[p].claim}, d \in pass[q].batch \cup {pass[q].claim} :
      p # q /\ c.key = d.key /\ Owned(c) => ~ Owned(d)

\* Every job completes: there is no attempt after which a delete is given up, no
\* crash, failed settle or lapsed lease after which a job is not claimed again.
EveryJobCompletes == \A k \in Keys : Pending(k) ~> ~ Pending(k)

\* What storage-deletion.ts promises of a version's artifact: once its row is gone a
\* pending job remembers it, unless a request still works on the key.
NoSilentOrphan ==
  \A v \in Versions : artifact[v] # None /\ ~ Live(v) =>
    Pending(v) \/ \E w \in Writers : writer[w].version = v
=============================================================================
