-------------------------- MODULE StorageOutboxProofs --------------------------
(***************************************************************************)
(* What TLAPS proves of StorageOutbox, for any number of versions, files,  *)
(* requests, workers, jobs and faults: a committed version has its         *)
(* artifact, the workspace of a closed run stays within reach of a pending *)
(* job, and two workers never own one job.                                 *)
(***************************************************************************)
EXTENDS StorageOutbox, TLAPS

LEMMA IdleStates ==
  /\ IdleWriter \in WriterStates
  /\ IdlePass \in PassStates
  /\ NoJob \in JobStates
  /\ NoClaim \in Claims
BY BoundsAssumption
DEF IdleWriter, IdlePass, NoJob, NoClaim, WriterStates, PassStates, JobStates, Claims, Keys,
    WriterSteps, PassSteps, Publishing

LEMMA TypeInit == Init => OutboxTypeOK
<1> SUFFICES ASSUME Init PROVE OutboxTypeOK
    OBVIOUS
<1>1. \A w \in Writers : writer[w].at = "idle"
    BY DEF Init, IdleWriter
<1>2. QED
    BY <1>1, BoundsAssumption, IdleStates DEF Init, OutboxTypeOK

-----------------------------------------------------------------------------
(* What the operators the actions are built from leave of the types.       *)

LEMMA WriterStaysTyped ==
  ASSUME OutboxTypeOK, NEW w \in Writers, NEW label \in WriterSteps,
         WriterGoes(w, label) \/ WriterReturns(w)
  PROVE  /\ writer' \in [Writers -> WriterStates]
         /\ writer[w].at \notin {"idle", "enumerated"} =>
              \A x \in Writers :
                writer'[x].version = None => writer'[x].at \in {"idle", "enumerated"}
         /\ WriterReturns(w) =>
              \A x \in Writers :
                writer'[x].version = None => writer'[x].at \in {"idle", "enumerated"}
BY IdleStates DEF OutboxTypeOK, WriterGoes, WriterReturns, WriterStates, IdleWriter

LEMMA PassStaysTyped ==
  ASSUME OutboxTypeOK, NEW p \in Passes, NEW label \in PassSteps,
         PassGoes(p, label) \/ pass' = [pass EXCEPT ![p] = IdlePass] \/ NextJob(p)
  PROVE  pass' \in [Passes -> PassStates]
<1>1. CASE PassGoes(p, label)
    BY <1>1 DEF OutboxTypeOK, PassGoes, PassStates
<1>2. CASE pass' = [pass EXCEPT ![p] = IdlePass]
    BY <1>2, IdleStates DEF OutboxTypeOK
<1>3. CASE NextJob(p)
  <2>1. [at |-> "claimed", batch |-> pass[p].batch, claim |-> NoClaim, files |-> {}] \in PassStates
      BY IdleStates DEF OutboxTypeOK, PassStates, PassSteps
  <2>2. QED
      BY <1>3, <2>1, IdleStates DEF OutboxTypeOK, NextJob
<1>4. QED
    BY <1>1, <1>2, <1>3

LEMMA ExecuteTyped ==
  ASSUME OutboxTypeOK, NEW p \in Passes, NEW claim \in pass[p].batch,
         NEW label \in PassSteps, NEW files \in SUBSET RunFiles, Execute(p, claim, label, files)
  PROVE  pass' \in [Passes -> PassStates] /\ claim \in Claims
<1>1. claim \in Claims
    BY DEF OutboxTypeOK, PassStates
<1>2. [at |-> label, batch |-> pass[p].batch \ {claim}, claim |-> claim, files |-> files] \in PassStates
    BY <1>1 DEF OutboxTypeOK, PassStates
<1>3. QED
    BY <1>1, <1>2 DEF OutboxTypeOK, Execute

LEMMA FaultsStayTyped ==
  ASSUME OutboxTypeOK, Fault \/ NoFault
  PROVE  faults' \in 0..MaxFaults
BY BoundsAssumption DEF OutboxTypeOK, Fault, NoFault

LEMMA EnqueueTyped ==
  ASSUME OutboxTypeOK, NEW keys \in SUBSET Keys, Enqueue(keys)
  PROVE  job' \in [Keys -> JobStates]
<1>1. \A k \in keys : ~ Pending(k) => [id |-> job[k].id + 1, attempts |-> 0, phase |-> "due"] \in JobStates
    BY BoundsAssumption DEF OutboxTypeOK, Enqueue, JobStates
<1>2. QED
    BY <1>1 DEF OutboxTypeOK, Enqueue

LEMMA PhaseTyped ==
  ASSUME OutboxTypeOK, NEW k \in Keys, NEW phase \in {"done", "due", "leased", "backoff"},
         job' = [job EXCEPT ![k].phase = phase]
  PROVE  job' \in [Keys -> JobStates]
BY DEF OutboxTypeOK, JobStates

LEMMA SettleTyped ==
  ASSUME OutboxTypeOK, NEW p \in Passes, NEW phase \in {"done", "backoff"}, Settle(p, phase)
  PROVE  job' \in [Keys -> JobStates]
BY PhaseTyped DEF OutboxTypeOK, Settle, PassStates, Claims

LEMMA LockStaysTyped ==
  ASSUME OutboxTypeOK, NEW x \in Writers \cup Passes, Release(x)
  PROVE  lock' \in Writers \cup Passes \cup {None}
BY DEF OutboxTypeOK, Release

-----------------------------------------------------------------------------
(* Steps keep the types.                                                   *)

LEMMA WriterTypes ==
  ASSUME OutboxTypeOK, NEW w \in Writers, WriterStep(w) \/ Request(w)
  PROVE  OutboxTypeOK'
<1> USE FaultsStayTyped, NoneAssumption DEF rows, objects, WriterAt, Publishing
<1>0. writer[w] \in WriterStates /\ w \in Writers \cup Passes
    BY DEF OutboxTypeOK
<1>1. ASSUME NEW v \in Versions, InsertVersion(w, v)
      PROVE  OutboxTypeOK'
  <2>1. [at |-> "inserted", version |-> v, keys |-> {}] \in WriterStates
      BY DEF WriterStates, WriterSteps, Publishing
  <2>2. QED
      BY <1>1, <2>1 DEF InsertVersion, OutboxTypeOK
<1>2. ASSUME NEW v \in Versions, CheckVersion(w, v)
      PROVE  OutboxTypeOK'
  <2>1. [at |-> "replacing", version |-> v, keys |-> {}] \in WriterStates
      BY DEF WriterStates, WriterSteps, Publishing
  <2>2. QED
      BY <1>2, <2>1 DEF CheckVersion, OutboxTypeOK
<1>3. CASE EnumerateVersions(w)
  <2>1. [IdleWriter EXCEPT !.at = "enumerated", !.keys = {v \in Versions : Live(v)}] \in WriterStates
      BY IdleStates DEF WriterStates, WriterSteps, Publishing
  <2>2. QED
      BY <1>3, <2>1 DEF EnumerateVersions, OutboxTypeOK
<1>4. CASE UploadZip(w)
    BY <1>4, WriterStaysTyped DEF UploadZip, OutboxTypeOK, WriterSteps, Publishing
<1>5. CASE CommitVersion(w)
    BY <1>0, <1>5, WriterStaysTyped, LockStaysTyped DEF CommitVersion, OutboxTypeOK, WriterSteps
<1>6. CASE PublishFails(w)
    BY <1>0, <1>6, WriterStaysTyped, LockStaysTyped DEF PublishFails, OutboxTypeOK, WriterSteps
<1>7. CASE CheckBeforeCleanup(w)
    BY <1>7, WriterStaysTyped DEF CheckBeforeCleanup, OutboxTypeOK, WriterSteps
<1>8. CASE CleanUp(w)
    BY <1>0, <1>8, WriterStaysTyped, LockStaysTyped DEF CleanUp, OutboxTypeOK, WriterSteps
<1>9. CASE OverwriteZip(w)
  <2>1. writer[w].version \in Versions
      BY <1>9 DEF OverwriteZip, OutboxTypeOK, WriterStates
  <2>2. QED
      BY <1>9, <2>1, WriterStaysTyped DEF OverwriteZip, OutboxTypeOK, WriterSteps
<1>10. CASE UpdateVersion(w)
    BY <1>10, WriterStaysTyped DEF UpdateVersion, OutboxTypeOK, WriterSteps
<1>11. CASE DeletePackage(w)
  <2>1. writer[w].keys \in SUBSET Keys
      BY <1>0 DEF WriterStates, Keys
  <2>2. job' \in [Keys -> JobStates]
      BY <1>11, <2>1, EnqueueTyped DEF DeletePackage, OutboxTypeOK
  <2>3. QED
      BY <1>11, <2>2, WriterStaysTyped DEF DeletePackage, OutboxTypeOK, WriterSteps
<1>12. CASE WriterDies(w)
    BY <1>0, <1>12, WriterStaysTyped, LockStaysTyped DEF WriterDies, OutboxTypeOK, WriterSteps
<1>13. QED
    BY <1>1, <1>2, <1>3, <1>4, <1>5, <1>6, <1>7, <1>8, <1>9, <1>10, <1>11, <1>12
    DEF WriterStep, Request

LEMMA RowTypes ==
  ASSUME OutboxTypeOK,
         (\E v \in Versions : DeleteVersion(v)) \/ CreatePackage \/ CloseRun \/ DeleteRun
  PROVE  OutboxTypeOK'
<1> USE FaultsStayTyped DEF rows, objects
<1>1. ASSUME NEW v \in Versions, DeleteVersion(v)
      PROVE  OutboxTypeOK'
  <2>1. job' \in [Keys -> JobStates]
      BY <1>1, EnqueueTyped DEF DeleteVersion, Keys
  <2>2. QED
      BY <1>1, <2>1 DEF DeleteVersion, OutboxTypeOK
<1>2. CASE CreatePackage
    BY <1>2 DEF CreatePackage, OutboxTypeOK
<1>3. CASE CloseRun \/ DeleteRun
  <2>1. job' \in [Keys -> JobStates]
      BY <1>3, EnqueueTyped DEF CloseRun, DeleteRun, Keys
  <2>2. QED
      BY <1>3, <2>1 DEF CloseRun, DeleteRun, OutboxTypeOK
<1>4. QED
    BY <1>1, <1>2, <1>3

LEMMA PassTypes ==
  ASSUME OutboxTypeOK, NEW p \in Passes, PassStep(p)
  PROVE  OutboxTypeOK'
<1> USE FaultsStayTyped DEF rows, objects
<1>0. p \in Writers \cup Passes /\ pass[p] \in PassStates
    BY DEF OutboxTypeOK
<1>1. CASE Claim(p)
  <2> DEFINE due == {k \in Keys : job[k].phase = "due"}
             batch == {[key |-> k, id |-> job[k].id, attempts |-> job[k].attempts + 1] : k \in due}
  <2>1. batch \in SUBSET Claims
      BY DEF OutboxTypeOK, JobStates, Claims
  <2>2. [IdlePass EXCEPT !.at = "claimed", !.batch = batch] \in PassStates
      BY <2>1, IdleStates DEF PassStates, PassSteps
  <2>3. \A k \in Keys : job[k] \in JobStates
      BY DEF OutboxTypeOK
  <2> HIDE DEF due, batch
  <2>8. \A k \in Keys :
          [id |-> job[k].id, attempts |-> job[k].attempts + 1, phase |-> "leased"] \in JobStates
      BY <2>3 DEF JobStates
  <2>4. job' = [k \in Keys |->
          IF k \in due
            THEN [id |-> job[k].id, attempts |-> job[k].attempts + 1, phase |-> "leased"]
            ELSE job[k]]
      BY <1>1 DEF Claim, due
  <2>5. job' \in [Keys -> JobStates]
      BY <2>3, <2>4, <2>8, Zenon
  <2>6. pass' = [pass EXCEPT ![p] = [IdlePass EXCEPT !.at = "claimed", !.batch = batch]]
      BY <1>1 DEF Claim, due, batch
  <2>7. QED
      BY <1>1, <2>2, <2>5, <2>6 DEF Claim, OutboxTypeOK
<1>2. ASSUME NEW claim \in pass[p].batch, CheckReclaimed(p, claim)
      PROVE  OutboxTypeOK'
    BY <1>2, ExecuteTyped DEF CheckReclaimed, OutboxTypeOK, PassSteps
<1>3. ASSUME NEW claim \in pass[p].batch, ReadManifest(p, claim)
      PROVE  OutboxTypeOK'
    BY <1>3, ExecuteTyped DEF ReadManifest, OutboxTypeOK, PassSteps
<1>4. CASE Purge(p)
    BY <1>0, <1>4, PassStaysTyped, LockStaysTyped DEF Purge, OutboxTypeOK, PassSteps
<1>5. CASE PurgeFails(p)
    BY <1>0, <1>5, PassStaysTyped, LockStaysTyped DEF PurgeFails, OutboxTypeOK, PassSteps
<1>6. CASE PurgeFile(p)
    BY <1>0, <1>6 DEF PurgeFile, OutboxTypeOK, PassStates
<1>7. CASE PurgeManifest(p)
    BY <1>7, PassStaysTyped DEF PurgeManifest, OutboxTypeOK, PassSteps
<1>8. CASE ExpansionFails(p)
    BY <1>8, PassStaysTyped DEF ExpansionFails, OutboxTypeOK, PassSteps
<1>9. CASE Complete(p)
    BY <1>9, PassStaysTyped, SettleTyped DEF Complete, OutboxTypeOK, PassSteps
<1>10. CASE BackOff(p)
    BY <1>10, PassStaysTyped, SettleTyped DEF BackOff, OutboxTypeOK, PassSteps
<1>11. CASE SettleFails(p)
    BY <1>11, PassStaysTyped DEF SettleFails, OutboxTypeOK, PassSteps
<1>12. CASE PassDies(p)
    BY <1>0, <1>12, PassStaysTyped, LockStaysTyped DEF PassDies, OutboxTypeOK, PassSteps
<1>13. QED
    BY <1>1, <1>2, <1>3, <1>4, <1>5, <1>6, <1>7, <1>8, <1>9, <1>10, <1>11, <1>12
    DEF PassStep

LEMMA TypeNext == OutboxTypeOK /\ [Next]_vars => OutboxTypeOK'
<1> SUFFICES ASSUME OutboxTypeOK, [Next]_vars PROVE OutboxTypeOK'
    OBVIOUS
<1>1. ASSUME NEW k \in Keys, TimePasses(k) \/ DueEarly(k)
      PROVE  OutboxTypeOK'
    BY <1>1, PhaseTyped, FaultsStayTyped
    DEF TimePasses, DueEarly, BecomesDue, OutboxTypeOK, rows, objects
<1>2. CASE UNCHANGED vars
    BY <1>2 DEF vars, rows, objects, OutboxTypeOK
<1>3. QED
    BY <1>1, <1>2, WriterTypes, RowTypes, PassTypes DEF Next

\* Every variable keeps to its type.
THEOREM OutboxTypeCorrect == Spec => []OutboxTypeOK
BY TypeInit, TypeNext, PTL DEF Spec

-----------------------------------------------------------------------------
(* A committed version has its artifact.  Whoever adds or removes one holds *)
(* the lock and works on a version without a row; a row appears only under  *)
(* the lock, for what was uploaded under it.  Rows deleted and artifacts    *)
(* replaced without the lock take nothing away from this.                   *)

\* The lock is its holder's, and what it works on has no row.
HolderWorksOnDead ==
  /\ \A w \in Writers : writer[w].at \in Publishing \cup {"cleaning"} =>
       lock = w /\ row[writer[w].version] = None
  /\ \A p \in Passes : pass[p].at = "purging" =>
       lock = p /\ pass[p].claim.key \in Versions /\ row[pass[p].claim.key] = None

\* An uploaded artifact stays until its row is committed.
UploadKept ==
  \A w \in Writers : writer[w].at = "uploaded" =>
    /\ artifact[writer[w].version] # None
    /\ writer[w].version \notin replaced => artifact[writer[w].version] = w

\* A row is updated after its artifact only.
ReplacementUploaded ==
  \A w \in Writers : writer[w].at = "replaced" => writer[w].version \in replaced

ArtifactInv == HolderWorksOnDead /\ UploadKept /\ ReplacementUploaded /\ LiveRowHasBytes

LEMMA ArtifactInit == Init => ArtifactInv
BY DEF Init, ArtifactInv, HolderWorksOnDead, UploadKept, ReplacementUploaded, LiveRowHasBytes,
       Live, IdleWriter, IdlePass, Publishing

\* Steps away from the package: nothing but workers move, and none starts to purge.
LEMMA ArtifactAway ==
  ASSUME ArtifactInv, UNCHANGED <<row, artifact, replaced, lock, writer>>,
         \A p \in Passes : pass'[p].at = "purging" =>
           pass[p].at = "purging" /\ pass'[p].claim = pass[p].claim
  PROVE  ArtifactInv'
BY DEF ArtifactInv, HolderWorksOnDead, UploadKept, ReplacementUploaded, LiveRowHasBytes, Live

\* A worker that goes on to anything but a purge is away in this sense.
LEMMA PassGoesAway ==
  ASSUME OutboxTypeOK, NEW p \in Passes, NEW label \in PassSteps \ {"purging"},
         PassGoes(p, label) \/ pass' = [pass EXCEPT ![p] = IdlePass] \/ NextJob(p)
  PROVE  \A q \in Passes : pass'[q].at = "purging" =>
           pass[q].at = "purging" /\ pass'[q].claim = pass[q].claim
<1>1. ASSUME NEW q \in Passes, q # p
      PROVE  pass'[q] = pass[q]
    BY <1>1 DEF OutboxTypeOK, PassGoes, NextJob
<1>2. pass'[p].at # "purging"
    BY DEF OutboxTypeOK, PassStates, PassGoes, NextJob, IdlePass
<1>3. QED
    BY <1>1, <1>2

LEMMA PublishKeepsArtifacts ==
  ASSUME OutboxTypeOK, ArtifactInv, NEW w \in Writers,
         \/ \E v \in Versions : InsertVersion(w, v)
         \/ UploadZip(w) \/ CommitVersion(w) \/ PublishFails(w)
         \/ CheckBeforeCleanup(w) \/ CleanUp(w)
  PROVE  ArtifactInv'
<1> USE NoneAssumption, ActorsAssumption, KeysAssumption
    DEF OutboxTypeOK, WriterStates, ArtifactInv, rows, objects, WriterAt, Publishing, Live
<1> USE DEF HolderWorksOnDead, UploadKept, ReplacementUploaded, LiveRowHasBytes
<1>1. ASSUME NEW v \in Versions, InsertVersion(w, v)
      PROVE  ArtifactInv'
  <2>1. row[v] = None
      BY <1>1 DEF InsertVersion, Publishable
  <2>2. QED
      BY <1>1, <2>1 DEF InsertVersion
<1>2. CASE UploadZip(w)
    BY <1>2 DEF UploadZip, WriterGoes
<1>3. CASE CommitVersion(w)
    BY <1>3 DEF CommitVersion, WriterReturns, IdleWriter, Release
<1>4. CASE PublishFails(w)
    BY <1>4 DEF PublishFails, WriterGoes, Release
<1>5. CASE CheckBeforeCleanup(w)
    BY <1>5 DEF CheckBeforeCleanup, WriterGoes, WriterReturns, IdleWriter
<1>6. CASE CleanUp(w)
    BY <1>6 DEF CleanUp, WriterReturns, IdleWriter, Release
<1>7. QED
    BY <1>1, <1>2, <1>3, <1>4, <1>5, <1>6

LEMMA LockFreeKeepsArtifacts ==
  ASSUME OutboxTypeOK, ArtifactInv, NEW w \in Writers,
         \/ \E v \in Versions : CheckVersion(w, v)
         \/ OverwriteZip(w) \/ UpdateVersion(w)
         \/ EnumerateVersions(w) \/ DeletePackage(w) \/ WriterDies(w)
  PROVE  ArtifactInv'
<1> USE NoneAssumption, ActorsAssumption, KeysAssumption
    DEF OutboxTypeOK, WriterStates, ArtifactInv, rows, objects, WriterAt, Publishing, Live
<1> USE DEF HolderWorksOnDead, UploadKept, ReplacementUploaded, LiveRowHasBytes
<1>1. ASSUME NEW v \in Versions, CheckVersion(w, v)
      PROVE  ArtifactInv'
    BY <1>1 DEF CheckVersion
<1>3. CASE OverwriteZip(w)
    BY <1>3 DEF OverwriteZip, WriterGoes
<1>4. CASE UpdateVersion(w)
    BY <1>4 DEF UpdateVersion, WriterReturns, IdleWriter
<1>5. CASE EnumerateVersions(w)
    BY <1>5 DEF EnumerateVersions, IdleWriter
<1>6. CASE DeletePackage(w)
  <2>1. \A x \in Writers : writer'[x].at # "idle" => writer'[x] = writer[x]
      BY <1>6 DEF DeletePackage, WriterReturns, IdleWriter
  <2>2. \A v \in Versions : row'[v] = None \/ row'[v] = row[v]
      BY <1>6 DEF DeletePackage
  <2>3. UNCHANGED <<artifact, replaced, lock, pass>>
      BY <1>6 DEF DeletePackage
  <2>4. HolderWorksOnDead'
    <3>1. \A x \in Writers : writer[x].at = "cleaning" => writer[x].version \in Versions
        OBVIOUS
    <3>2. \A x \in Writers : writer[x].at \notin Publishing
        BY <1>6 DEF DeletePackage
    <3>3. \A x \in Writers : writer'[x].at \in Publishing \cup {"cleaning"} =>
            lock' = x /\ row'[writer'[x].version] = None
      <4> SUFFICES ASSUME NEW x \in Writers, writer'[x].at \in Publishing \cup {"cleaning"}
                   PROVE  lock' = x /\ row'[writer'[x].version] = None
          OBVIOUS
      <4>1. writer'[x] = writer[x]
          BY <2>1
      <4>2. writer[x].at = "cleaning" /\ writer[x].version \in Versions
          BY <4>1, <3>1, <3>2
      <4>3. QED
          BY <2>2, <2>3, <4>1, <4>2
    <3>4. QED
        BY <2>2, <2>3, <3>3
  <2>5. QED
      BY <2>1, <2>2, <2>3, <2>4
<1>7. CASE WriterDies(w)
    BY <1>7 DEF WriterDies, WriterReturns, IdleWriter, Release
<1>8. QED
    BY <1>1, <1>3, <1>4, <1>5, <1>6, <1>7

LEMMA PurgeKeepsArtifacts ==
  ASSUME OutboxTypeOK, ArtifactInv, NEW p \in Passes,
         \/ \E claim \in pass[p].batch : CheckReclaimed(p, claim)
         \/ Purge(p) \/ PurgeFails(p) \/ PassDies(p)
  PROVE  ArtifactInv'
<1> USE NoneAssumption, ActorsAssumption
    DEF OutboxTypeOK, PassStates, WriterStates, ArtifactInv, rows, objects, PassAt, Publishing, Live
<1> USE DEF HolderWorksOnDead, UploadKept, ReplacementUploaded, LiveRowHasBytes
<1>1. ASSUME NEW claim \in pass[p].batch, CheckReclaimed(p, claim)
      PROVE  ArtifactInv'
  <2>1. UNCHANGED <<row, artifact, replaced, writer>> /\ lock = None
      BY <1>1 DEF CheckReclaimed
  <2>2. \A w \in Writers : writer[w].at \notin Publishing \cup {"cleaning"}
      BY <2>1
  <2>3. \A q \in Passes : pass[q].at # "purging"
      BY <2>1
  <2>4. \A q \in Passes : pass'[q].at = "purging" =>
          q = p /\ lock' = p /\ pass'[p].claim = claim /\ row[claim.key] = None
      BY <1>1, <2>3 DEF CheckReclaimed, Execute
  <2>5. QED
      BY <1>1, <2>1, <2>2, <2>4 DEF CheckReclaimed
<1>2. CASE Purge(p) \/ PurgeFails(p)
  <2>1. /\ UNCHANGED <<row, replaced, writer>>
        /\ pass[p].at = "purging"
        /\ artifact' = artifact \/ artifact' = [artifact EXCEPT ![pass[p].claim.key] = None]
      BY <1>2 DEF Purge, PurgeFails
  <2>2. lock = p
      BY <2>1
  <2>3. \A w \in Writers : writer[w].at \notin Publishing \cup {"cleaning"}
      BY <2>2
  <2>4. \A q \in Passes : pass'[q].at # "purging"
      BY <1>2, <2>2 DEF Purge, PurgeFails, PassGoes
  <2>5. LiveRowHasBytes'
      BY <2>1
  <2>6. QED
      BY <2>1, <2>3, <2>4, <2>5
<1>3. CASE PassDies(p)
    BY <1>3 DEF PassDies, IdlePass, Release
<1>4. QED
    BY <1>1, <1>2, <1>3

LEMMA ArtifactNext == OutboxTypeOK /\ ArtifactInv /\ [Next]_vars => ArtifactInv'
<1> SUFFICES ASSUME OutboxTypeOK, ArtifactInv, [Next]_vars PROVE ArtifactInv'
    OBVIOUS
<1>1. ASSUME NEW w \in Writers, WriterStep(w) \/ Request(w)
      PROVE  ArtifactInv'
    BY <1>1, PublishKeepsArtifacts, LockFreeKeepsArtifacts DEF WriterStep, Request
<1>2. ASSUME NEW v \in Versions, DeleteVersion(v)
      PROVE  ArtifactInv'
    BY <1>2
    DEF DeleteVersion, OutboxTypeOK, WriterStates, PassStates, ArtifactInv, rows, objects, Live,
        HolderWorksOnDead, UploadKept, ReplacementUploaded, LiveRowHasBytes
<1>3. CASE CreatePackage \/ CloseRun \/ DeleteRun \/ \E k \in Keys : TimePasses(k) \/ DueEarly(k)
    BY <1>3, ArtifactAway DEF CreatePackage, CloseRun, DeleteRun, TimePasses, DueEarly, rows, objects
<1>4. ASSUME NEW p \in Passes, PassStep(p)
      PROVE  ArtifactInv'
  <2> USE ArtifactAway DEF rows, objects, PassSteps
  <2>1. CASE Claim(p)
      BY <2>1 DEF Claim, IdlePass, OutboxTypeOK
  <2>2. ASSUME NEW claim \in pass[p].batch, ReadManifest(p, claim)
        PROVE  ArtifactInv'
      BY <2>2 DEF ReadManifest, Execute, OutboxTypeOK
  <2>3. CASE PurgeFile(p)
      BY <2>3 DEF PurgeFile, PassAt, OutboxTypeOK
  <2>4. CASE PurgeManifest(p) \/ ExpansionFails(p)
      BY <2>4, PassGoesAway DEF PurgeManifest, ExpansionFails
  <2>5. CASE Complete(p) \/ BackOff(p) \/ SettleFails(p)
      BY <2>5, PassGoesAway DEF Complete, BackOff, SettleFails
  <2>6. QED
      BY <1>4, <2>1, <2>2, <2>3, <2>4, <2>5, PurgeKeepsArtifacts DEF PassStep
<1>5. CASE UNCHANGED vars
    BY <1>5, ArtifactAway DEF vars, rows, objects
<1>6. QED
    BY <1>1, <1>2, <1>3, <1>4, <1>5 DEF Next

\* A committed version has its artifact, whatever jobs, workers and failed publishes
\* are left of earlier versions under the same key.
THEOREM CommittedVersionsHaveBytes == Spec => []LiveRowHasBytes
<1>1. OutboxTypeOK /\ ArtifactInv /\ [Next]_vars => (OutboxTypeOK /\ ArtifactInv)'
    BY TypeNext, ArtifactNext
<1>2. ArtifactInv => LiveRowHasBytes
    BY DEF ArtifactInv
<1>3. QED
    BY TypeInit, ArtifactInit, <1>1, <1>2, PTL DEF Spec

-----------------------------------------------------------------------------
(* The workspace: a worker that expands the manifest knows every file that  *)
(* is left, so the manifest goes last and a completed job leaves nothing.   *)

ExpansionComplete ==
  \A p \in Passes :
    /\ pass[p].at = "expanding" =>
         pass[p].claim.key = Manifest /\ workspace \cap RunFiles \subseteq pass[p].files
    /\ pass[p].at = "purging" => pass[p].claim.key # Manifest
    /\ pass[p].at = "purged" /\ pass[p].claim.key = Manifest => workspace = {}

WorkspaceInv == ExpansionComplete /\ NoWorkspaceOrphan

LEMMA WorkspaceInit == Init => WorkspaceInv
BY DEF Init, WorkspaceInv, ExpansionComplete, NoWorkspaceOrphan, IdlePass

\* Steps that leave the run, its workspace and the manifest's job alone.
LEMMA WorkspaceAway ==
  ASSUME WorkspaceInv, UNCHANGED <<run, workspace, pass>>, job'[Manifest] = job[Manifest]
  PROVE  WorkspaceInv'
BY DEF WorkspaceInv, ExpansionComplete, NoWorkspaceOrphan, Pending

\* Enqueuing never takes a pending job away, and leaves one for each of its keys.
LEMMA EnqueueKeepsPending ==
  ASSUME NEW keys \in SUBSET Keys, Enqueue(keys)
  PROVE  /\ \A k \in keys : Pending(k)'
         /\ \A k \in Keys : Pending(k) => job'[k] = job[k]
         /\ \A k \in Keys \ keys : job'[k] = job[k]
BY DEF Enqueue, Pending

LEMMA WritersKeepWorkspace ==
  ASSUME OutboxTypeOK, WorkspaceInv, NEW w \in Writers, WriterStep(w) \/ Request(w)
  PROVE  WorkspaceInv'
<1> USE WorkspaceAway DEF rows, objects
<1>1. CASE DeletePackage(w)
  <2>1. writer[w].keys \in SUBSET Keys /\ Manifest \notin writer[w].keys /\ Manifest \in Keys
      BY KeysAssumption DEF OutboxTypeOK, WriterStates, Keys
  <2>2. job'[Manifest] = job[Manifest]
      BY <1>1, <2>1, EnqueueKeepsPending DEF DeletePackage
  <2>3. QED
      BY <1>1, <2>2 DEF DeletePackage
<1>2. CASE Request(w)
    BY <1>2 DEF Request, InsertVersion, CheckVersion, EnumerateVersions
<1>3. CASE WriterStep(w) /\ ~ DeletePackage(w)
    BY <1>3
    DEF WriterStep, UploadZip, CommitVersion, PublishFails, CheckBeforeCleanup, CleanUp,
        OverwriteZip, UpdateVersion, WriterDies
<1>4. QED
    BY <1>1, <1>2, <1>3

LEMMA RowsKeepWorkspace ==
  ASSUME OutboxTypeOK, WorkspaceInv,
         (\E v \in Versions : DeleteVersion(v)) \/ CreatePackage \/ CloseRun \/ DeleteRun
  PROVE  WorkspaceInv'
<1> USE DEF rows, objects
<1>1. ASSUME NEW v \in Versions, DeleteVersion(v)
      PROVE  WorkspaceInv'
  <2>1. {v} \in SUBSET Keys /\ Manifest \in Keys \ {v}
      BY KeysAssumption DEF Keys
  <2>2. QED
      BY <1>1, <2>1, EnqueueKeepsPending, WorkspaceAway DEF DeleteVersion
<1>2. CASE CreatePackage
    BY <1>2, WorkspaceAway DEF CreatePackage
<1>3. CASE CloseRun \/ DeleteRun
  <2>1. Pending(Manifest)' /\ UNCHANGED <<workspace, pass>>
      BY <1>3, EnqueueKeepsPending DEF CloseRun, DeleteRun, Keys
  <2>2. QED
      BY <2>1 DEF WorkspaceInv, ExpansionComplete, NoWorkspaceOrphan
<1>4. QED
    BY <1>1, <1>2, <1>3

LEMMA PassesKeepWorkspace ==
  ASSUME OutboxTypeOK, WorkspaceInv, NEW p \in Passes, PassStep(p)
  PROVE  WorkspaceInv'
<1> USE KeysAssumption
    DEF OutboxTypeOK, PassStates, WorkspaceInv, ExpansionComplete, NoWorkspaceOrphan, Pending,
        rows, objects, PassAt
<1>1. CASE Claim(p)
  <2>1. \A k \in Keys : job'[k].phase = "done" <=> job[k].phase = "done"
      BY <1>1 DEF Claim
  <2>2. pass'[p].at = "claimed" /\ \A q \in Passes : q # p => pass'[q] = pass[q]
      BY <1>1 DEF Claim, IdlePass
  <2>3. QED
      BY <1>1, <2>1, <2>2 DEF Claim, Keys
<1>2. ASSUME NEW claim \in pass[p].batch, CheckReclaimed(p, claim)
      PROVE  WorkspaceInv'
    BY <1>2 DEF CheckReclaimed, Execute
<1>3. ASSUME NEW claim \in pass[p].batch, ReadManifest(p, claim)
      PROVE  WorkspaceInv'
  <2>1. pass'[p].at = "expanding" /\ pass'[p].claim.key = Manifest
          /\ workspace \cap RunFiles \subseteq pass'[p].files
      BY <1>3 DEF ReadManifest, Execute
  <2>2. \A q \in Passes : q # p => pass'[q] = pass[q]
      BY <1>3 DEF ReadManifest, Execute
  <2>3. QED
      BY <1>3, <2>1, <2>2 DEF ReadManifest
<1>4. CASE Purge(p)
    BY <1>4 DEF Purge, PassGoes
<1>5. CASE PurgeFails(p)
    BY <1>5 DEF PurgeFails, PassGoes
<1>6. CASE PurgeFile(p)
    BY <1>6 DEF PurgeFile
<1>7. CASE PurgeManifest(p)
  <2>1. workspace' = {}
      BY <1>7 DEF PurgeManifest
  <2>2. QED
      BY <1>7, <2>1 DEF PurgeManifest, PassGoes
<1>8. CASE ExpansionFails(p)
    BY <1>8 DEF ExpansionFails, PassGoes
<1>9. CASE Complete(p)
  <2>1. pass'[p].at \in {"idle", "claimed"} /\ \A q \in Passes : q # p => pass'[q] = pass[q]
      BY <1>9 DEF Complete, NextJob, IdlePass
  <2>2. job'[Manifest] = job[Manifest] \/ workspace = {}
      BY <1>9 DEF Complete, Settle
  <2>3. QED
      BY <1>9, <2>1, <2>2 DEF Complete
<1>10. CASE BackOff(p)
  <2>1. pass'[p].at \in {"idle", "claimed"} /\ \A q \in Passes : q # p => pass'[q] = pass[q]
      BY <1>10 DEF BackOff, NextJob, IdlePass
  <2>2. Pending(Manifest) => Pending(Manifest)'
      BY <1>10 DEF BackOff, Settle, Keys
  <2>3. QED
      BY <1>10, <2>1, <2>2 DEF BackOff
<1>11. CASE SettleFails(p)
    BY <1>11 DEF SettleFails, PassGoes, IdlePass
<1>12. CASE PassDies(p)
    BY <1>12 DEF PassDies, IdlePass
<1>13. QED
    BY <1>1, <1>2, <1>3, <1>4, <1>5, <1>6, <1>7, <1>8, <1>9, <1>10, <1>11, <1>12
    DEF PassStep

LEMMA WorkspaceNext == OutboxTypeOK /\ WorkspaceInv /\ [Next]_vars => WorkspaceInv'
<1> SUFFICES ASSUME OutboxTypeOK, WorkspaceInv, [Next]_vars PROVE WorkspaceInv'
    OBVIOUS
<1>1. ASSUME NEW k \in Keys, TimePasses(k) \/ DueEarly(k)
      PROVE  WorkspaceInv'
  <2>1. Pending(Manifest) => Pending(Manifest)'
      BY <1>1 DEF TimePasses, DueEarly, BecomesDue, Pending, OutboxTypeOK, JobStates, Keys
  <2>2. UNCHANGED <<run, workspace, pass>>
      BY <1>1 DEF TimePasses, DueEarly, rows, objects
  <2>3. QED
      BY <2>1, <2>2 DEF WorkspaceInv, ExpansionComplete, NoWorkspaceOrphan
<1>2. CASE UNCHANGED vars
    BY <1>2, WorkspaceAway DEF vars, rows, objects
<1>3. QED
    BY <1>1, <1>2, WritersKeepWorkspace, RowsKeepWorkspace, PassesKeepWorkspace DEF Next

\* What the teardown of a run leaves stays within reach of a pending job.
THEOREM WorkspacesStayReachable == Spec => []NoWorkspaceOrphan
<1>1. OutboxTypeOK /\ WorkspaceInv /\ [Next]_vars => (OutboxTypeOK /\ WorkspaceInv)'
    BY TypeNext, WorkspaceNext
<1>2. WorkspaceInv => NoWorkspaceOrphan
    BY DEF WorkspaceInv
<1>3. QED
    BY TypeInit, WorkspaceInit, <1>1, <1>2, PTL DEF Spec

-----------------------------------------------------------------------------
(* One owner per job: the attempts of a job only grow, a claim carries the  *)
(* number it raised them to, and so no two workers hold the same claim.     *)

ClaimsOf(p) == pass[p].batch \cup {pass[p].claim}

\* No claim is ahead of its job; the first job of a key has the id 1.
ClaimsPast ==
  /\ \A p \in Passes : \A c \in ClaimsOf(p) :
       /\ c.id <= job[c.key].id
       /\ c.id = job[c.key].id => c.attempts <= job[c.key].attempts
  /\ \A k \in Keys : Pending(k) => job[k].id # 0

\* Workers hold no claim in common, but for the absent one.
ClaimsDistinct ==
  \A p, q \in Passes : p # q => \A c \in ClaimsOf(p) \cap ClaimsOf(q) : c.id = 0

ClaimsInv == ClaimsPast /\ ClaimsDistinct

LEMMA ClaimsInit == Init => ClaimsInv
BY BoundsAssumption
DEF Init, ClaimsInv, ClaimsPast, ClaimsDistinct, ClaimsOf, Pending, IdlePass, NoClaim, NoJob, Keys

LEMMA ClaimsTyped ==
  ASSUME OutboxTypeOK, NEW p \in Passes
  PROVE  ClaimsOf(p) \subseteq Claims
BY DEF OutboxTypeOK, PassStates, ClaimsOf

\* Steps that raise no attempts and hand out no claim.
LEMMA ClaimsAway ==
  ASSUME OutboxTypeOK, ClaimsInv,
         \A p \in Passes : ClaimsOf(p)' \subseteq ClaimsOf(p) \cup {NoClaim},
         \A k \in Keys : /\ job'[k].id >= job[k].id
                         /\ job'[k].id = job[k].id => job'[k].attempts = job[k].attempts
                         /\ Pending(k)' => job'[k].id # 0,
         job' \in [Keys -> JobStates]
  PROVE  ClaimsInv'
<1>1. NoClaim \in Claims /\ NoClaim.id = 0 /\ NoClaim.attempts = 0
    BY IdleStates DEF NoClaim
<1>2. ASSUME NEW p \in Passes, NEW c \in ClaimsOf(p)'
      PROVE  /\ c.id <= job'[c.key].id
             /\ c.id = job'[c.key].id => c.attempts <= job'[c.key].attempts
  <2>1. c \in Claims
      BY <1>1, <1>2, ClaimsTyped
  <2>2. c \in ClaimsOf(p) \/ c = NoClaim
      BY <1>2
  <2>3. job[c.key] \in JobStates /\ job'[c.key] \in JobStates /\ c.key \in Keys
      BY <2>1 DEF OutboxTypeOK, Claims
  <2>4. CASE c \in ClaimsOf(p)
      BY <2>1, <2>3, <2>4, BoundsAssumption DEF ClaimsInv, ClaimsPast, Claims, JobStates
  <2>5. CASE c = NoClaim
      BY <1>1, <2>3, <2>5, BoundsAssumption DEF JobStates
  <2>6. QED
      BY <2>2, <2>4, <2>5
<1>3. ClaimsDistinct'
    BY <1>1 DEF ClaimsInv, ClaimsDistinct
<1>4. QED
    BY <1>2, <1>3 DEF ClaimsInv, ClaimsPast

\* An enqueue starts a new job or leaves the pending one.
LEMMA EnqueueKeepsClaims ==
  ASSUME OutboxTypeOK, ClaimsInv, UNCHANGED pass, NEW keys \in SUBSET Keys, Enqueue(keys)
  PROVE  ClaimsInv'
<1>1. job' \in [Keys -> JobStates]
    BY EnqueueTyped
<1>2. \A k \in Keys : job'[k] = job[k] \/ job'[k].id = job[k].id + 1
    BY DEF Enqueue
<1>3. \A k \in Keys : job[k].id \in Nat /\ job'[k].id \in Nat
    BY <1>1, BoundsAssumption DEF OutboxTypeOK, JobStates
<1>4. \A k \in Keys : /\ job'[k].id >= job[k].id
                      /\ job'[k].id = job[k].id => job'[k].attempts = job[k].attempts
                      /\ Pending(k)' => job'[k].id # 0
    BY <1>2, <1>3 DEF ClaimsInv, ClaimsPast, Pending
<1>5. QED
    BY <1>1, <1>4, ClaimsAway DEF ClaimsOf

\* A change of phase within the pending ones, or to done.
LEMMA PhaseKeepsClaims ==
  ASSUME OutboxTypeOK, ClaimsInv, NEW k \in Keys,
         NEW phase \in {"done", "due", "leased", "backoff"}, Pending(k),
         job' = [job EXCEPT ![k].phase = phase] \/ job' = job,
         \A p \in Passes : ClaimsOf(p)' \subseteq ClaimsOf(p) \cup {NoClaim}
  PROVE  ClaimsInv'
<1>1. job' \in [Keys -> JobStates]
    BY PhaseTyped DEF OutboxTypeOK
<1>2. \A x \in Keys : job'[x].id = job[x].id /\ job'[x].attempts = job[x].attempts
                        /\ (Pending(x)' => Pending(x))
    BY DEF OutboxTypeOK, JobStates, Pending
<1>3. \A x \in Keys : job[x].id \in Nat
    BY BoundsAssumption DEF OutboxTypeOK, JobStates
<1>4. \A x \in Keys : /\ job'[x].id >= job[x].id
                      /\ job'[x].id = job[x].id => job'[x].attempts = job[x].attempts
                      /\ Pending(x)' => job'[x].id # 0
    BY <1>2, <1>3 DEF ClaimsInv, ClaimsPast
<1>5. QED
    BY <1>1, <1>4, ClaimsAway

\* A step that leaves the jobs and takes up, drops or forgets claims.
LEMMA JobsAway ==
  ASSUME OutboxTypeOK, ClaimsInv, UNCHANGED job,
         \A p \in Passes : ClaimsOf(p)' \subseteq ClaimsOf(p) \cup {NoClaim}
  PROVE  ClaimsInv'
<1>1. job' \in [Keys -> JobStates] /\ \A k \in Keys : job[k].id \in Nat
    BY BoundsAssumption DEF OutboxTypeOK, JobStates
<1>2. \A k \in Keys : /\ job'[k].id >= job[k].id
                      /\ job'[k].id = job[k].id => job'[k].attempts = job[k].attempts
                      /\ Pending(k)' => job'[k].id # 0
    BY <1>1 DEF ClaimsInv, ClaimsPast, Pending
<1>3. QED
    BY <1>1, <1>2, ClaimsAway

LEMMA ClaimKeepsClaims ==
  ASSUME OutboxTypeOK, ClaimsInv, NEW p \in Passes, Claim(p)
  PROVE  ClaimsInv'
<1> DEFINE due == {k \in Keys : job[k].phase = "due"}
           fresh == {[key |-> k, id |-> job[k].id, attempts |-> job[k].attempts + 1] : k \in due}
<1>1. ClaimsOf(p)' = fresh \cup {NoClaim}
    BY DEF Claim, ClaimsOf, OutboxTypeOK, IdlePass
<1>2. \A q \in Passes : q # p => ClaimsOf(q)' = ClaimsOf(q)
    BY DEF Claim, ClaimsOf, OutboxTypeOK
<1>3. \A k \in Keys : job[k].id \in Nat /\ job[k].attempts \in Nat
    BY BoundsAssumption DEF OutboxTypeOK, JobStates
<1>4. \A k \in due : job'[k].id = job[k].id /\ job'[k].attempts = job[k].attempts + 1
                       /\ job[k].id # 0 /\ k \in Keys
    BY DEF Claim, ClaimsInv, ClaimsPast, Pending
<1>5. \A k \in Keys \ due : job'[k] = job[k]
    BY DEF Claim
<1>6. \A q \in Passes : \A c \in ClaimsOf(q) :
        c.key \in Keys /\ c.id \in Nat /\ c.attempts \in Nat
    BY ClaimsTyped, BoundsAssumption DEF Claims
<1>7. \A q \in Passes : \A c \in ClaimsOf(q) : c \notin fresh
  <2> SUFFICES ASSUME NEW q \in Passes, NEW c \in ClaimsOf(q), NEW k \in due,
                      c = [key |-> k, id |-> job[k].id, attempts |-> job[k].attempts + 1]
               PROVE  FALSE
      OBVIOUS
  <2>1. c.key = k /\ c.id = job[k].id /\ c.attempts = job[k].attempts + 1
      OBVIOUS
  <2>2. c.attempts <= job[k].attempts
      BY <2>1 DEF ClaimsInv, ClaimsPast
  <2>3. QED
      BY <1>3, <1>4, <2>1, <2>2
<1>8. ClaimsDistinct'
  <2>1. NoClaim.id = 0
      BY DEF NoClaim
  <2>2. ASSUME NEW q \in Passes, q # p, NEW c \in ClaimsOf(p)' \cap ClaimsOf(q)'
        PROVE  c.id = 0
      BY <1>1, <1>2, <1>7, <2>1, <2>2
  <2>3. QED
      BY <1>2, <2>2 DEF ClaimsInv, ClaimsDistinct
<1>9. ASSUME NEW q \in Passes, NEW c \in ClaimsOf(q)'
      PROVE  /\ c.id <= job'[c.key].id
             /\ c.id = job'[c.key].id => c.attempts <= job'[c.key].attempts
  <2>1. CASE q # p
    <3>1. c \in ClaimsOf(q) /\ c.key \in Keys
        BY <1>2, <1>6, <1>9, <2>1
    <3>2. c.id <= job[c.key].id /\ (c.id = job[c.key].id => c.attempts <= job[c.key].attempts)
        BY <3>1 DEF ClaimsInv, ClaimsPast
    <3>3. job'[c.key].id = job[c.key].id
            /\ (job'[c.key].attempts = job[c.key].attempts
                  \/ job'[c.key].attempts = job[c.key].attempts + 1)
        BY <1>4, <1>5, <3>1
    <3>4. QED
        BY <1>3, <1>6, <3>1, <3>2, <3>3
  <2>2. CASE c = NoClaim
    <3>1. NoClaim.id = 0 /\ NoClaim.key = Manifest /\ NoClaim.attempts = 0 /\ Manifest \in Keys
        BY DEF NoClaim, Keys
    <3>2. job'[Manifest].id = job[Manifest].id /\ job'[Manifest].attempts \in Nat
        BY <1>3, <1>4, <1>5, <3>1
    <3>3. QED
        BY <1>3, <2>2, <3>1, <3>2
  <2>3. ASSUME NEW k \in due,
               c = [key |-> k, id |-> job[k].id, attempts |-> job[k].attempts + 1]
        PROVE  c.id <= job'[c.key].id
                 /\ (c.id = job'[c.key].id => c.attempts <= job'[c.key].attempts)
      BY <1>3, <1>4, <2>3
  <2>4. QED
      BY <1>1, <1>9, <2>1, <2>2, <2>3
<1>10. \A k \in Keys : Pending(k)' => job'[k].id # 0
    BY <1>4, <1>5 DEF ClaimsInv, ClaimsPast, Pending
<1>11. QED
    BY <1>8, <1>9, <1>10 DEF ClaimsInv, ClaimsPast

LEMMA ClaimsNext == OutboxTypeOK /\ ClaimsInv /\ [Next]_vars => ClaimsInv'
<1> SUFFICES ASSUME OutboxTypeOK, ClaimsInv, [Next]_vars PROVE ClaimsInv'
    OBVIOUS
<1> USE DEF rows, objects
<1>1. ASSUME NEW w \in Writers, WriterStep(w) \/ Request(w)
      PROVE  ClaimsInv'
  <2>1. CASE DeletePackage(w)
    <3>1. writer[w].keys \in SUBSET Keys
        BY DEF OutboxTypeOK, WriterStates, Keys
    <3>2. QED
        BY <2>1, <3>1, EnqueueKeepsClaims, JobsAway DEF DeletePackage, ClaimsOf
  <2>2. CASE ~ DeletePackage(w)
      BY <1>1, <2>2, JobsAway
      DEF ClaimsOf, WriterStep, Request, InsertVersion, CheckVersion, EnumerateVersions, UploadZip,
          CommitVersion, PublishFails, CheckBeforeCleanup, CleanUp, OverwriteZip, UpdateVersion,
          WriterDies
  <2>3. QED
      BY <2>1, <2>2
<1>2. ASSUME NEW v \in Versions, DeleteVersion(v)
      PROVE  ClaimsInv'
  <2>1. {v} \in SUBSET Keys
      BY DEF Keys
  <2>2. QED
      BY <1>2, <2>1, EnqueueKeepsClaims DEF DeleteVersion
<1>3. CASE CloseRun \/ DeleteRun
  <2>1. {Manifest} \in SUBSET Keys
      BY DEF Keys
  <2>2. QED
      BY <1>3, <2>1, EnqueueKeepsClaims DEF CloseRun, DeleteRun
<1>4. CASE CreatePackage \/ UNCHANGED vars
    BY <1>4, JobsAway DEF CreatePackage, vars, ClaimsOf
<1>5. ASSUME NEW k \in Keys, TimePasses(k) \/ DueEarly(k)
      PROVE  ClaimsInv'
  <2>1. Pending(k)
      BY <1>5 DEF TimePasses, DueEarly, Pending
  <2>2. QED
      BY <1>5, <2>1, PhaseKeepsClaims DEF TimePasses, DueEarly, BecomesDue, ClaimsOf
<1>6. ASSUME NEW p \in Passes, PassStep(p)
      PROVE  ClaimsInv'
  <2>1. CASE Complete(p) \/ BackOff(p)
    <3>1. \A q \in Passes : ClaimsOf(q)' \subseteq ClaimsOf(q) \cup {NoClaim}
        BY <2>1 DEF Complete, BackOff, NextJob, ClaimsOf, OutboxTypeOK, PassStates, IdlePass
    <3>2. pass[p].claim.key \in Keys
        BY DEF OutboxTypeOK, PassStates, Claims
    <3>3. CASE Owned(pass[p].claim)
        BY <2>1, <3>1, <3>2, <3>3, PhaseKeepsClaims DEF Complete, BackOff, Settle, Owned
    <3>4. CASE ~ Owned(pass[p].claim)
        BY <2>1, <3>1, <3>4, JobsAway DEF Complete, BackOff, Settle
    <3>5. QED
        BY <3>3, <3>4
  <2>2. ASSUME NEW claim \in pass[p].batch, CheckReclaimed(p, claim) \/ ReadManifest(p, claim)
        PROVE  ClaimsInv'
    <3>1. \A q \in Passes : ClaimsOf(q)' \subseteq ClaimsOf(q)
        BY <2>2 DEF CheckReclaimed, ReadManifest, Execute, ClaimsOf, OutboxTypeOK, PassStates
    <3>2. QED
        BY <2>2, <3>1, JobsAway DEF CheckReclaimed, ReadManifest
  <2>3. CASE Purge(p) \/ PurgeFails(p) \/ PurgeFile(p) \/ PurgeManifest(p) \/ ExpansionFails(p)
               \/ SettleFails(p) \/ PassDies(p)
    <3>1. \A q \in Passes : ClaimsOf(q)' \subseteq ClaimsOf(q) \cup {NoClaim}
        BY <2>3
        DEF Purge, PurgeFails, PurgeFile, PurgeManifest, ExpansionFails, SettleFails, PassDies,
            PassGoes, IdlePass, ClaimsOf, OutboxTypeOK, PassStates
    <3>2. QED
        BY <2>3, <3>1, JobsAway
        DEF Purge, PurgeFails, PurgeFile, PurgeManifest, ExpansionFails, SettleFails, PassDies
  <2>4. QED
      BY <1>6, <2>1, <2>2, <2>3, ClaimKeepsClaims DEF PassStep
<1>7. QED
    BY <1>1, <1>2, <1>3, <1>4, <1>5, <1>6 DEF Next

\* Two workers never own the same job, however often its lease ran out.
THEOREM JobsHaveOneOwner == Spec => []OneOwner
<1>1. OutboxTypeOK /\ ClaimsInv /\ [Next]_vars => (OutboxTypeOK /\ ClaimsInv)'
    BY TypeNext, ClaimsNext
<1>2. OutboxTypeOK /\ ClaimsInv => OneOwner
  <2> SUFFICES ASSUME OutboxTypeOK, ClaimsInv, NEW p \in Passes, NEW q \in Passes, p # q,
                      NEW c \in ClaimsOf(p), NEW d \in ClaimsOf(q),
                      c.key = d.key, Owned(c), Owned(d)
               PROVE  FALSE
      BY DEF OneOwner, ClaimsOf
  <2>1. c \in Claims /\ d \in Claims
      BY ClaimsTyped
  <2>2. c = d
      BY <2>1 DEF Owned, Claims
  <2>3. c.id = 0
      BY <2>2 DEF ClaimsInv, ClaimsDistinct
  <2>4. QED
      BY <2>1, <2>3 DEF ClaimsInv, ClaimsPast, Owned, Claims
<1>3. QED
    BY TypeInit, ClaimsInit, <1>1, <1>2, PTL DEF Spec
=============================================================================
