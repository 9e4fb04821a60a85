# A verification project for Appstrate's runs, storage and billing

Appstrate runs AI agents: an HTTP API admits a *run*, launches a container for it, takes
the events the runner inside the container posts, and drives the run to one terminal
status; around it, rows and objects come and go and the usage is billed. This directory holds
TLA+ models of that core, TLC configurations that check them
on small instances, and theorems about them that TLAPS checks for every instance. Paths
below are relative to the repository root; `PROJECT.json` maps every definition to the
lines it stands for.

How to run, from this directory:

    tlc -workers 2 -config ingestion.cfg MCRunIngestion.tla
    tlapm RunIngestionProofs.tla

## 1. Inventory

### 1.1 Components

**Run event ingestion** (`apps/api/src/services/run-event-ingestion.ts`).
*State:* the run row (`status`, `last_event_sequence`, `sink_closed_at`,
`sink_expires_at`, `last_heartbeat_at`), `run_logs`, the replay cache, the ordering buffer,
the `onRunStatusChange` event. *Operations:* `ingestRunEvent`, `persistEventAndAdvance`,
`drainBufferedEvents`, `finalizeRun`, `synthesiseFinalize`. *Called by* the event routes,
the launcher, the cancel route, the watchdog and the boot sweep; *calls* the ledger, the
storage outbox and, through the event, webhooks and billing. *Hard:* every request works
on a snapshot of the row it read at its signature check and awaits between steps; the only
serialisation is two compare-and-set updates. *Correct when* the log is ordered and follows
the counter, an acknowledged event is kept, a closed run is frozen, one outcome is
announced, no drain runs forever.

**Event buffer** (`infra/event-buffer/*`). Per run, events keyed by sequence, a cap and a
TTL; a Redis backend shared by replicas and an in-memory one. *Hard:* overflow, expiry,
loss at a restart. *Correct when* what it drops is what the cap and the TTL say.

**Signature guard and event routes** (`middleware/verify-run-signature.ts`,
`lib/run-signature.ts`, `routes/runs-events.ts`). Read the run row, refuse a closed or
expired sink, hand the snapshot on. *Hard:* the snapshot is stale by the time it is used.

**HttpSink and the runner's end of the stream** (`packages/afps-runtime/src/sinks/
http-sink.ts`, `packages/runner-pi/src/pi-runner.ts`). Sequence counter, one webhook-id per
envelope, retries with backoff. *Hard:* lost requests, lost answers, retries beside a
first attempt that is still served. *Correct when* an event or a result the runner was told
is delivered has taken effect.

**Run launcher, tracker, cancellation, boot sweep** (`services/run-launcher/*`,
`services/run-tracker.ts`, `services/stop-workload.ts`, `routes/runs.ts`, `lib/boot.ts`).
Per launched run an `AbortController` in the replica's in-flight map, a container, a
safety-net timer; a pub/sub channel for aborts. *Hard:* launcher, runner, cancel, watchdog
and boot sweep all close the run; the abort is fire-and-forget and crosses replicas; the
owner of the outcome may die. *Correct when* the run ends once, with the outcome of whoever
ended it, and always ends.

**Watchdog and boot heartbeat** (`services/run-watchdog.ts`,
`services/run-boot-heartbeat.ts`). A periodic scan with two predicates (silent heartbeat,
boot deadline) and a pump that beats for a run while it is provisioned. *Hard:* real time,
stale candidates, several replicas under an advisory lock. *Correct when* no abandoned run
stays open and no run in provisioning is taken for a stalled one.

**Run rows and admission** (`services/state/runs.ts`, with `organizations.ts`, `spaces.ts`,
`files.ts`, `package-items/crud.ts`). *State:* `runs` (status, `run_number`), `files` with the
run that published each, `file_links`, `packages`, `spaces`, `organizations.deleting_at`.
*Operations:* `createRun`, `createFailedRun`, `deletePackageRuns`, `reserveOrgDeletion` and
`deleteOrganization`, `deleteSpace`, `deleteFile`, `cleanupExpiredFiles`,
`createFileFromStream`, `deleteOrgItem`. *Hard:* check-then-insert under READ COMMITTED, a lock
order that only comments state, locks that foreign keys take unseen, cascades over rows nobody
enumerated. *Correct when* the cap and the numbers are exact, no active run and no consumed file
is deleted, a reserved organization has no run in flight, every lost row leaves a job for its
bytes, and nobody waits for ever.

**Usage ledger and retry worker** (`services/llm-usage-ledger.ts`, `llm-usage-retry.ts`).
*State:* `llm_usage`. *Operations:* an insert per proxied or chat call, one cumulative row per
run that freezes when the run is terminal, a durable terminal write before the close. *Hard:*
serial ids are taken in one order and committed in another; a late metric races the close.

**Billing module** (`packages/module-ee/src/billing/*`). *State:* the cursor (watermark and
floor), the claims, the dollars per context, the credits per account. *Operations:* seed, sweep,
drain before an organization's deletion. *Hard:* several replicas sweep at once; a row may be
committed below the watermark, or not be final yet; credits are whole and dollars are not.
*Correct when* each row is billed once, at its final cost, and none is missed.

**Job queue and scheduler** (`infra/queue/*`, `services/scheduler.ts`). Delayed and
repeating jobs with retries, in process or over BullMQ; schedule rows and queue jobs that
must agree. *Hard:* upsert while firing, shutdown with jobs in flight, double fires.

**Storage deletion outbox** (`services/storage-deletion.ts`, `package-storage-deletion.ts`).
*State:* `storage_deletion_jobs`, at most one pending per object. *Operations:* an enqueue in
the transaction that makes an object dead; a worker per process that claims, deletes and
settles. *Hard:* a lease that runs out under a pass that still runs; keys that a republished
version takes up again; a manifest that is the only list of what is to be deleted. *Correct
when* a live row has its bytes, a dead one's bytes stay within reach of a job, and every job
completes.

**Package versions and package deletion** (`services/package-versions.ts`,
`package-storage.ts`, `package-items/crud.ts`). Rows whose artifact is uploaded inside the
transaction (publish), before it (replace) or deleted after it (delete), under an advisory lock
per package that two of the paths do not take.

**Uploads and files** (`services/uploads.ts`, `files.ts`). Published, detached, deleted and
swept files (see admission); staged uploads consumed once.

**Cache, pub/sub, cookie jar, rate limits** (`infra/*`). Adapters over Redis or a map.

**Token refresh** (`integration-token-refresh.ts`, `lib/deduped-refresh.ts`,
`lib/distributed-lock.ts`, `model-providers/*`). One refresh in flight per credential while
refresh tokens rotate. *Hard:* a lock that expires under its holder.

**LLM and credential proxies, orchestrators, webhooks/OIDC/MCP modules, chat, connections
and end users, agent runtime and sidecar, CLI, web app**: see `PROJECT.json`
for what each is and why it is left out or later.

### 1.2 How they interact

    HttpSink --HTTP (lossy)--> guard + routes --> ingestion --> run row, run_logs
                                                    |  ^          (PostgreSQL)
                                     replay cache, buffer         ^
                                     (Redis or in memory)         |
    launcher / cancel / watchdog / boot sweep --> finalizeRun ----+--> onRunStatusChange
        |         ^
        |         +-- abort signal: in-flight map, pub/sub `runs:cancel` (lossy)
        +--> orchestrator: container created, started, stopped, removed

    createRun / createFailedRun --> runs, file_links     (advisory key, row locks, FK locks)
    delete package runs / file / space / org / package --> rows + storage_deletion_jobs
    publish / replace / delete a version --> package_versions + artifact
                                                |
    worker pass (one per process) --lease--> storage_deletion_jobs --> objects

    metric events, proxy, chat --> llm_usage <--window below the watermark-- sweepers, drain
                    finalizeRun --> settles the run's row          --> claims, credits

### 1.3 Hazards

`PROJECT.json` lists each hazard at the line where it bites and names the properties that
would catch it. In short: stale snapshots racing for a sequence; a claim and its row coming
apart; a close between a check and a write; two buffered events each waiting for the
other's drain; retries absorbed by the replay key; buffer and key lost at a restart or an
expiry; several outcomes for one run; an aborter that dies after the launcher has deferred
to it; lost aborts and unacknowledged stops; late heartbeats; counts read before the insert they
guard; rows that go while somebody stands on them, or without a job for their bytes; lock cycles;
keys taken up again under a pending purge; leases that run out; rows committed out of order under
a cursor; sweeps that overlap.

## 2. Modules

| module | what it is | depends on |
| --- | --- | --- |
| `RunRecord` | what the platform promises about one run: an abstract record | |
| `RunIngestion` | all requests in flight on one run's sink, await by await | implements `RunRecord` |
| `RunStream` | HttpSink and the network composed with `RunIngestion` | extends `RunIngestion` |
| `RunTermination` | everyone who may end one run, and its container | implements `RunRecord` |
| `StorageOutbox` | the outbox and its workers, a package's version artifacts, a run's workspace | |
| `AdmissionRecord` | what admitting and deleting promise about an organization: each transaction one step | |
| `RunAdmission` | the transactions that admit runs, and those that delete what runs stand on, with their locks | implements `AdmissionRecord` |
| `UsageRecord` | what the billing promises about an organization's usage: an abstract record | |
| `Billing` | the usage ledger, the sweep and the drain | implements `UsageRecord` |
| `RunIngestionProofs`, `RunStreamProofs`, `RunTerminationProofs`, `StorageOutboxProofs`, `RunAdmissionProofs`, `BillingProofs` | the theorems of the module of that name | extend it |
| `RunBufferProofs` | the theorems of `RunIngestion` about buffer and answers | extends `RunIngestionProofs` |
| `SumTheorems` | what sums over finite sets are worth | used by `BillingProofs` |
| `MC...` | small instances of the module of that name | extend it |

### 2.1 RunRecord

Four variables: status, counter, log, broadcasts. `Record(s)` appends a sequence above the
counter to an open run; `Begin` and `Conclude` move the status pending -> running -> one
terminal status; `Announce` broadcasts that status, once. Nothing is logged after the end.
`RunIngestion` and `RunTermination` both refine it, from different sides: the first with
the log and an opaque decision to finalize, the second without the log and with
the decisions.

### 2.2 RunIngestion

One action is what one request does between two awaits of the code. A request is a slot
with a program counter and the snapshot it works on.

| variable | code |
| --- | --- |
| `run` | `runs.status`, `last_event_sequence`, `sink_closed_at`, `sink_expires_at` passed |
| `runLog` | the event rows of `run_logs`, in commit order |
| `buffer`, `replayKeys` | `EventBuffer` entries; claimed webhook-ids |
| `request[r]` | `pc`, the event (`seq`), the snapshot (`last` = `run.lastEventSequence`), the entry being persisted (`head`), and whether it is the fast path, a drain, or a drain with `allowGaps` (`mode`) |
| `answered` | outcomes returned to the runner |
| `broadcasts` | `onRunStatusChange` emissions |

`VerifyRunSignature` reads the row; `IngestRunEvent` claims the replay key and routes on
the snapshot; `BufferEvent`, `SyncBeforeDrain`, `PeekLowest`, `DropBufferedEvent` and
`RefreshSequence` are the buffered path and `drainBufferedEvents`;
`PersistEventAndAdvance`, `RefuseRow`, `PersistPlaceholder`, `LoseClaim`, `RereadAfterLoss`
and `AnnounceStarted` are `persistEventAndAdvance`, with the placeholder row for a value
PostgreSQL refuses; `Reply` and `ReleaseReplayKey` end a POST; `StartFinalize`,
`WriteTerminalLedger`, `CloseSink`, `BroadcastTerminal`, `ClearBuffer` are `finalizeRun`.
Around them `InfrastructureError`, `ReleaseFails`, `DropFails`, `ClearFails`,
`ReplicaDies` (under any of its requests; a single process also loses buffer and replay cache) and
`BufferExpires` are faults, bounded by `MaxFaults`, and
`SinkExpires` is time passing.

Abstractions: an event is its sequence number, which is also its webhook-id; the outcome of
a `finalizeRun` is any terminal status; the terminal ledger barrier is one step that may
fail; the metric side channel, the memories and files written after the close and the
payload of events are left out.

### 2.3 RunStream

Per message (each event, and the result) what HttpSink knows of it, the fetches it has
made, and which platform request its current fetch waits for. `Post`, `Retry`, `Refuse` and
`Answer` are `sendSigned`; `Handle` and `Finalize` the runner's calls; `Serve` and
`ServeFault` carry the platform's step and its HTTP status back. `RequestLost` and
`AnswerLost` are the network: a request whose answer is lost is still served, beside its
retry. `ServerDies` cuts the connections of a replica. `PlatformCloses` is a finalize that is not
the runner's.

### 2.4 RunTermination

| variable | code |
| --- | --- |
| `run` | status, who closed it, `last_heartbeat_at` past the stall threshold, boot progress (`last_event_sequence = 0`, `boot_deadline_at`) |
| `stage`, `verdict` | where each actor is and the status it will finalize with |
| `launcher` | `signal.aborted`, `timedOut`, whether its outer catch is running |
| `workload` | the agent container |
| `published` | messages on `runs:cancel` |
| `announced` | terminal broadcasts |

Actors are the launcher, the runner, and `Closers`: slots that are now a cancel, now a
watchdog tick, now a boot sweep, as often as they like. `TrackRun`, `FlipToRunning`,
`CreateWorkload`, `StartWorkload`, `WaitForWorkload`, `RemoveWorkload`, `Decide`,
`LauncherCatches` are `executeAgentInBackground` and `runPlatformContainer`; `TimeOut`,
`SidecarDies`, `OrchestratorFails`, `RemoveFails` what befalls them. `CancelRun`,
`SweepStalled`, `SweepOrphans` start an aborter, which goes through `AbortRun` (the boot
sweep does not), `StopWorkload` or `StopUnacknowledged`, and `CloseSink`.
`AbortRun`'s message is delivered (`DeliverAbort`) or lost (`LoseAbort`) at any later time.
`CloseSink` and `BroadcastTerminal` are the two steps of `finalizeRun` that
`RunIngestion` opens up.

The heartbeat's age and the boot deadline are untimed: they pass at any moment. This is
weaker than the code and sound for the safety properties.

### 2.5 StorageOutbox

| variable | code |
| --- | --- |
| `package`, `row`, `run` | the `packages` row; `package_versions`, each with the content its integrity hash names; the run row |
| `artifact`, `workspace` | objects in `agent-packages`; the run's input files and manifest |
| `job` | the last `storage_deletion_jobs` row of each key: attempts, and its place in time (due, leased, in backoff, completed) |
| `lock` | `lockPackageVersions` |
| `writer`, `pass` | where each request and each worker pass is |
| `replaced` | history: versions a `replaceVersionContent` has written |

`InsertVersion`, `UploadZip`, `CommitVersion`, `PublishFails`, `CheckBeforeCleanup`, `CleanUp`
are `createVersionAndUpload`; `CheckVersion`, `OverwriteZip`, `UpdateVersion`
`replaceVersionContent`; `DeleteVersion`, `EnumerateVersions` and `DeletePackage`,
`CreatePackage`, `CloseRun`, `DeleteRun` the row writes. `Claim`, `CheckReclaimed`, `Purge`,
`ReadManifest`, `PurgeFile`, `PurgeManifest`, `Complete`, `BackOff` are
`processStorageDeletionJobs`; `PurgeFails`, `ExpansionFails`, `SettleFails`, `PassDies`,
`WriterDies` its faults and the requests'. Content is the name of the request that brought it.
A lease runs out (`TimePasses`) when nobody works under it; that it runs out under a slow pass is
`DueEarly`, a bounded fault, as is the operator's retry, which looks the same.

### 2.6 RunAdmission

A transaction is a program counter, the locks it holds and what it has read; one action is one
statement, which first is granted its lock. Locks have the mode of PostgreSQL (`FOR UPDATE`
and the advisory keys exclude everything, the `FOR KEY SHARE` of a foreign key shares with its
kind). A statement that waits for a lock and then reads is one step: acquiring a lock changes
nothing others see, so nothing is gained by a step in between; the rows of a multi-row
`FOR UPDATE` are locked one by one, in any order. Writes become visible with the commit, which is
the last step of each transaction. `DeadlockDetected` rolls back a member of a cycle.

| variable | code |
| --- | --- |
| `pc`, `held`, `mine` | the next statement, the locks, and the number, runs and files read so far |
| `run` | `runs.status` (pending and running alike) and `run_number` |
| `file`, `container` | `files` rows and their `run_id`; `file_links` are `Input` of the runs there are |
| `packages`, `org`, `space` | the parents' rows; `org` also says whether `deleting_at` is set |
| `jobs` | files whose purge is enqueued |

`OrgDeleters` go through `reserveOrgDeletion`, the modules' teardown and `deleteOrganization`,
the two transactions of `DELETE /orgs/:orgId`. Each transaction is made once.

`AdmissionRecord` keeps the runs, the files there are, the objects to purge and whether the
organization is open. `Launch` takes its guards from all that `createRun` checks on the way to
its insert: organization, cap, inputs, number. `RecordFailure`, `End`, `Publish`, `Delete`, `Reserve`
and `DeleteAll` are the rest. `Delete` is any set of runs and files of which none is in flight or consumed
by a run that stays, and it purges exactly the files it takes. Locks, packages, spaces and the
statements before the last are not in the record; what they are for is that the record holds.

### 2.7 Billing

| variable | code |
| --- | --- |
| `ids`, `row` | the serial sequence; `llm_usage`: id, cost, uncommitted or committed |
| `run`, `finalizer` | whether the run is terminal; its finalize between ledger write and close |
| `cursor` | `ee_billing_cursor` |
| `claimed`, `charged`, `spent`, `credits` | `ee_billed_llm_usage`; what was billed for each row (history); dollars per context; `credits_used` |
| `sweeper`, `drainer` | what each pass and each drain has read and will bill |

`InsertCall`, `InsertMetric`, `Grow`, `CommitRow`, `RollBackRow`, `WriteBarrier`, `Close` and
`CloseSynthesised` write the ledger; `ReadFrontier`, `SeedCursor`, `ReadCursor`, `ListLedger`,
`SweepBatch`, `SweepFails` are a sweep; `StartDrain`, `ListForDrain`, `DrainBatch`,
`DrainFails` a drain. Money is counted in half credits, the coarsest unit on which rounding shows.
`WindowSpansCommits` is the assumption `env.ts:50` states of the replay window, that it exceeds
the ids others take while a transaction holds an uncommitted one; without it
`NoRowOutOfReach` is false.

`UsageRecord` has three variables: the usage that is due, with its final cost; the usage that is
billed; the credits debited. `FallDue` adds usage, `BillUsage` bills some of what is due and leaves
the account at the credits all billed usage comes to, each context rounded once. `Billing` maps
`due` to its committed, final rows above the floor, `billed` to `ee_billed_llm_usage`, `debit` to
`credits_used`. A row that falls due may have been committed, or closed with its run, or
be found when the cursor is seeded; the record does not tell.

## 3. Runs

A run carries the properties that share its instance; each checks in seconds to about two
minutes on two workers.

| run | instance | shows |
| --- | --- | --- |
| `ingestion` | POSTs of 3 events (the last terminal, the second refused by PostgreSQL) beside finalizeRun, shared stores, a buffer of 1 entry, 2 faults, an expiring sink, fair | `LogFollowsCounter`, `AckedIsKept`, `RequestsReturn`, `ClosedRunIsFrozen`, `ImplementsRunRecord` |
| `stream_delivers` | HttpSink with 3 attempts, 3 events, 2 requests at a time, 1 lost request and 1 lost answer, fair | `StreamTypeOK` (with `TypeOK`), `GapFree`, `NothingStranded`, `DeliveredIsKept`, `EveryEventStored` |
| `stream_restart` | 4 attempts, 2 events, the runner's finalizeRun and the platform's, in-memory stores, 1 fault (a restart among them), 1 lost request and 1 lost answer, fair | `OneTerminalBroadcast`, `FinishedRunIsComplete`, `AcceptedResultClosed`, `EveryRunCloses` |
| `termination` | launcher, runner, 1 aborter slot, 2 faults, fair | `TerminationTypeOK`, `LauncherDefersToAborter`, `EveryRunEnds`, `TerminationImplementsRunRecord` |
| `storage_outbox` | 1 version, 1 input file, a publisher, a request that replaces or deletes the package, 2 workers, 1 fault, fair | `OutboxTypeOK`, `LiveRowHasBytes`, `NoWorkspaceOrphan`, `OneOwner`, `EveryJobCompletes` |
| `admission` | 2 admissions, of which one consumes the output of an old run, and one each of the eight other transactions, any 5 of them; 2 packages, 2 files, a cap of 1, fair | `AdmissionTypeOK`, `CapHolds`, `NumbersUnique`, `NothingBehindReservation`, `InputsResolve`, `NoFileSilentlyDropped`, `KeyTakersNeverDeadlock`, `ActiveRunsAreKept`, `ImplementsAdmissionRecord`, `RequestsAreAnswered` |
| `billing` | 1 run, 1 call in the run's context, 2 sweepers, 1 drain, window 2, batch 1, 3 ids, 1 fault, fair | `BillingTypeOK`, `BilledIsFinal`, `NoRowOutOfReach`, `WonUsageIsKept`, `DrainBillsAllDue`, `EveryRowIsBilled`, `ImplementsUsageRecord` |
| `lost_race`, `retry_absorbed`, `finalize_replayed`, `storage_orphan`, `lock_cycle` | small | see Findings |

**Why the bounds are enough.** *Ingestion and stream:* with two sequences a snapshot can be
behind, at or ahead of an event, and a gap flush jumps one; three add an event behind the gap, and
a terminal one whose own flush meets finalizeRun's. Two drains are what a race over one entry
needs: two POSTs in `stream_delivers`, a POST and a finalizeRun in `ingestion`, two finalizeRuns in
`stream_restart`. A buffer of one entry overflows as soon as two events wait, which three sequences
allow. A fault may hit any await, a replica, the buffer's expiry or a removal. One more attempt than losses (and, with a
restart, two) leaves one to succeed. *Termination:* two faults let a handler meet an error of
its own (a launcher whose finalize and whose catch both fail; an aborter that dies after an abort
that was lost). One slot may be a cancel, then a watchdog tick, then a sweep: the race of three
actors is there, and two aborters at once are covered by the theorems. *Outbox:* one key is
what a worker, its successor after a lapsed lease and the publish of a new version meet on; a
key is enqueued once more only if `MaxJobs` allows, and 1 suffices for a republication under a
pending job, the hazard; a second enqueue is in `storage_orphan`. *Admission:* no property
involves more than three transactions that race and two that came before; `MaxRequests = 5`
takes any such choice of the ten. *Billing:* a window of 2 over 3 ids lets a row commit below a
watermark that has passed it, at the edge of the window, with one id lost to a rollback; a batch
of 1 splits rows over passes, so that rounding shows.

`MaxSequence`, `MaxFaults`, `MaxLosses`, `MaxJobs`, `MaxRequests`, `MaxIds` and `MaxCost` exist
for TLC; `MaxBufferEntries`, `MaxAttempts`, `Cap`, `ReplayWindow` and `BatchSize` are the code's.
The theorems hold for every value of all of them.

**Deadlock** is checked in the ingestion runs, where a request may always arrive. It is not
in the others: a run that has ended, requests that are all answered and a ledger that is all
billed really stop.

**Fairness.** `RunIngestion` and `RunStream`: the event loop resumes a request whose await
has settled; the runner calls `handle` and `finalize` and sleeps out its backoffs; a posted
request that is not lost arrives. `RunTermination`: the launcher's, the aborters' and the
finalizers' steps (again the event loop); the watchdog ticks while a replica runs
(`startRunWatchdog`'s interval); every container exits in the end, since the orchestrator
is given `maxLifetimeSeconds` for exactly the case that nobody can stop it; and silence
lasts once nobody is left to beat. `StorageOutbox`: a request in flight and a worker's pass go
on, and a worker runs on a timer in every process (`startStorageDeletionWorker`); leases and
backoffs end; the versions' lock is strongly fair to a worker, because PostgreSQL grants it in
the order of requests. `RunAdmission`: while some transaction that has begun can take its next
statement, one does, and the deadlock detector runs `deadlock_timeout` after a wait began; this
does not say which. `RequestsAreAnswered` therefore speaks of all that have begun. `Billing`:
some replica sweeps again and again (`EE_RECONCILIATION_INTERVAL_SECONDS`), a transaction commits
or is rolled back, and a run ends, which is `EveryRunEnds`. Nothing makes a user cancel, a
replica boot, a fault happen, a signal arrive, or anybody publish, delete or launch.

**Hypotheses of properties.** An event answered `persisted` is kept through every fault;
the second half of `AckedIsKept`, on the events answered `buffered`, and `NothingStranded` and
`DeliveredIsKept` speak of states with no fault so far: expiry and restart do lose buffered
events, by design of the buffer. An overflow loses them, too: `Crowded(s)` says that the buffer
is full of later events than `s`, and is the only loss those properties allow an open run beside a
gap flush's. A terminal event that was buffered is answered `persisted` whatever its drain
met, and is not among those `AckedIsKept` vouches for. `GapFree` is about a sink without
terminal events and finalizeRuns: both flush, and a flush may jump. `FinishedRunIsComplete` also excludes lost answers (Observations) and is about runs that the runner's
own finalize closes.
`LauncherDefersToAborter` starts when the abort reaches a launch that is still under way:
a launcher that already knows its container's exit may report it. `LiveRowHasBytes` asks for the
row's own content only of versions nobody replaced. `DrainBillsAllDue` is about what was due when
the drain began. `EveryRowIsBilled` and `NoRowOutOfReach` are about rows above the floor.

## 4. Findings

Five runs expect a violation; each refutes a sentence of the repository.

* `lost_race`: a gap flush may claim a sequence above one that another drain is about to
  claim. That drain loses, re-reads an open sink, and takes its event for persisted by
  another drainer, as the comment at `run-event-ingestion.ts:1242` says; the event was
  stored by nobody and its buffered copy is removed.
* `retry_absorbed`: the comment at `run-event-ingestion.ts:243` says that releasing the
  replay key keeps the retry from being absorbed. The release comes after the failure, and
  a retry sent because the connection broke may arrive before it: it is answered `replay`,
  HttpSink is done with the event, and the first attempt then fails.
* `storage_orphan`: a version is deleted, published again and deleted again while the job of the
  first deletion is pending. The worker has found the key claimed by the second row and left the
  object; the second deletion's enqueue meets the pending job and does nothing
  (`storage-deletion.ts:135`); the worker then completes the job. The artifact has neither row nor
  job, which `storage-deletion.ts:6` says cannot be.
* `lock_cycle`: `createRun` locks its input files and, with its INSERT, the organization's row
  (`FOR KEY SHARE`, by the foreign key); `deleteFile` locks the organization's row and then the
  file. `state/runs.ts:508-515` says that every participant takes its locks in one order, the
  organization's row before the files. PostgreSQL breaks the cycle by failing one of the two.
  `RequestsAreAnswered` shows that nothing worse happens, and `KeyTakersNeverDeadlock` that the
  order does hold among those who take the admission key.
* `finalize_replayed`: the API description (`openapi/paths/runs.ts:1478`) says a replayed
  finalize returns 200. The guard refuses a closed sink with 410 before the handler runs.

**Observations**, met while modelling; no document promises the contrary.

* `started` may be announced twice for a remote run: a flush that works on a zero snapshot
  and wins a claim takes its event for the first.
* When an answer is lost, a runner may finalize while the first attempt of an event is on
  its way to the buffer; the event it was told is delivered (to the retry, as a replay) then
  misses the log.
* A terminal broadcast is lost if the process dies, or the actor's row cannot be read,
  between the close and the broadcast. At most once is what the code gives.
* An aborter whose stop reaches the container before its abort reaches the launcher is
  overtaken: the launcher sees an exit it did not ask for and reports `failed` first.
* An abort before `trackRun` finds no controller; the container of a cancelled run is
  launched all the same, and stopped by nobody but its own end, its timeout or the ceiling.
* A success the launcher synthesises and whose finalize fails is synthesised again, as
  `failed`, by the outer catch.
* The launcher emits `started` whether or not the flip to running matched a row.
* The cancel route records `cancelled` in the audit log when its close lost, too.
* `deleteOrgItem` enumerates a package's artifacts without the versions' lock; a version whose
  publish commits before the delete is cascaded away and its artifact stays. A publish that
  crashes after its upload, and a replacement that uploads after its row was deleted and purged,
  leave an artifact without a row too; `scripts/storage-orphans.ts` exists to find such objects.
* Two concurrent `replaceVersionContent` leave the bytes of one under the integrity hash of the
  other.
* More lock cycles of the kind of `lock_cycle`: `createFailedRun` and `deletePackageRuns` (packages
  row and organization's row), `createRun` and `deleteSpace` (organization's and space's row),
  `deleteOrganization` and `deleteOrgItem`. `NoLockCycle` fails for each; one run is enough.
* A row that is not committed while as many ids are taken as the replay window holds is never
  billed; `env.ts` says so. A row uncommitted when the cursor is seeded, with an id below the
  frontier read then, is left out with what is below the floor.
* A call that is still in flight, or waits for its retry, when an organization is drained is not
  billed; a drain that fails is logged and the deletion goes on.
* The watchdog acts on its candidate row and does not look at the heartbeat again after the
  abort and the wait for the stop.

## 5. Theorems

TLAPS checks them for every number of slots, events and faults, from the modules' named
assumptions only (actors of different kinds are different; bounds are naturals; terminal and
active statuses are disjoint; the replay window and the batch size are positive).

**RunIngestionProofs.** The inductive invariant is `RunInv`, the conjunction of `Typed`
(`TypeOK` and: a POST in flight carries an event), `ClosedIffTerminal`,
`LogFollowsCounter` and `OneTerminalBroadcast`.
* `TypeCorrect`: `Typed` is inductive by itself. `TypeOK` is not: without the sequence a
  POST carries being an event, a claim could store sequence 0.
* `LogOrdered`, `ClosedStaysFrozen`: every step either keeps the row, or claims a sequence
  above the counter of an open run, or closes it (`RowStep`); the two follow from these
  three cases.
* `AnnouncedOnce`: only `CloseSink` brings a closer to the broadcast, and it finds the sink
  open, so there is nobody else there and nothing is announced.
* `Implementation`: a claim is `Record`, a close `Conclude`, the broadcast `Announce`,
  everything else a stutter. `ClosedIffTerminal` is what makes `RunRecord`'s guards, which
  read the status, true where the code's read `sink_closed_at`.

**RunBufferProofs.** What the buffer keeps. Every request works on a snapshot that may be stale, so the
first invariant, `SnapshotsSound`, says what each label is worth: the snapshot is at most the
row's counter; what a request is about to claim lies above its snapshot, and right above unless it
is a flush; what it is about to drop is spent, or the run is closed; the fast path carries its own
event. None of the properties below is inductive without it.
* `OnlyFlushesSkip`, `LogHasNoHoles`: a claim that is not a flush's follows the counter. The
  invariant of the second, `GapInv`, adds that nobody is a flush.
* `AnswersAreKept`, first half: `AnswersDurable` adds that a POST is a flush only for a terminal
  event, so `persisted` was answered on a snapshot that had the event, and the counter never falls.
* `AnswersAreKept`, second half, and `DrainsLeaveNothing`: `CalmInv`, which holds while no store has failed
  and the run is open. It cannot speak of answered events alone: an event must be kept from the
  moment it leaves the fast path (`TakenKept`), a claimed replay key must stand for one that is
  kept or still carried (`KeysKept`, by which retries are answered), and while the buffer holds
  something that could be stored or dropped, some request is on its way to look
  (`DrainAssured`). The last is the argument for two buffered events that each miss the other: a
  drain that is about to stop has looked at the row after its last peek, so whoever moved the row
  or put the entry since has its own peek ahead. `Kept` says crowded out by counting the
  entries above; `CappedKeeps` shows that an overflow keeps it so.
* `BufferStaysCapped`: the cap holds under any number of concurrent puts.

**RunStreamProofs.** `StreamIsIngestion`: each step of the composition is a step of the
ingestion or leaves it alone, so every theorem above holds under the runner's sink
(`StreamKeepsIngestion` lists them). What the sink is promised is `StreamInv`:
* `StreamTypeCorrect`: an attempt is left for whatever is about to be posted (`AttemptsLeft`).
* `AcceptedMeansClosed`: a slot whose answer has a reader serves an open message, and no other
  slot with a reader serves the same (`WaitingServed`): the 200 is that of the request that closed
  the run or found it closed, not of another attempt.
* `DeliveredEventsAreKept`: `DeliveredKept`, from `CalmInv`: a POST ends well only with its event
  kept, or absorbed by a key that `KeysKept` vouches for.
* `FinishedRunsAreComplete`: the result is posted once no event is under way (`ResultAfterEvents`),
  an undisturbed POST in flight has a reader (`PostsHeard`), so none is left to put anything, and
  a finalize past its drain has an empty buffer (`Flushed`); what was delivered is then at or
  below the counter.

**RunTerminationProofs.** The inductive invariant is `TerminationInv`: types; whoever is
about to close has a terminal verdict (`VerdictReached`, without which the close could
write `threw` into the row); `ClosedIffTerminal`; only the closer announces
(`AnnouncedByCloser`); a run closed by the launcher finds it at the end of its launch
(`LauncherClosesLast`).
* `TerminationTypeCorrect`.
* `LauncherDefers`: the abort of a launch under way establishes `Deferred` (the launcher is
  on its way to find that it was asked to stop, or is gone), by `LauncherClosesLast`; every
  step preserves `Deferred`, because the flag is read before the timeout and again when
  something was thrown.
* `OutcomeImplementation`: flip and report are `Begin`, the winning close `Conclude`, its
  broadcast `Announce`.

**StorageOutboxProofs.** Types, and three parts that rest on them alone. `ArtifactInv`: who holds the
versions' lock is exactly who is between its check and its write, and nobody uploads, cleans up or
purges under a live row (`CommittedVersionsHaveBytes` follows: an artifact goes only under the lock
and only while its row is absent, and a row appears only under the lock after the upload). `ClaimsInv`: a pass's
claims bear the ids and attempts of jobs as they were when claimed, and two passes never the same
ones (`JobsHaveOneOwner`). `WorkspaceInv`: a pass that expands a manifest still lists what is left of
the workspace, and one that has deleted the manifest leaves nothing (`WorkspacesStayReachable`).

**RunAdmissionProofs.** `LockInv`, on which all else rests: two transactions never hold one
lock in conflicting modes. `KeyInv`: an admission that
has passed its check holds the admission key, so the count it read still bounds the active runs
(`CapIsExact`), and no reservation comes in between (`ReservationHolds`). `DeleteInv`: a deleter that
has passed its own check still finds no run active (`DeletesSpareActive`). `OrgInv`: who publishes
or enumerates files holds the organization's row. `NumberInv`: whoever is about to insert holds the package's number key and a
number above all there are. `FileInv`: a file that a transaction is about to take is locked by it
and linked by nobody (`InputsAreKept`); what a cascade takes is what was enumerated, because no file
appears while the organization's row is held (`FilesLeaveJobs`). `RecordInv` (`AdmissionImplementation`):
the jobs are those of the files that went and of no other, a delete has listed only files that are
still there, and what is about to be inserted is not there yet. With the others it makes each
last statement a step of `AdmissionRecord` and every other statement a stutter: what a
transaction has checked still holds when it writes, which is what its locks are for. `KeyFirst`: a transaction that
takes the key and holds any lock holds the key, so of two of them at most one holds anything, and
no circle can form (`KeyOrdersItsTakers`).

**BillingProofs.** `SeedInv`: before the cursor is seeded nothing is claimed and no pass bills;
`BillInv`: what a pass or a drain will bill are committed, final rows above the floor at the cost they
have for good; `ClaimInv` (`BillsAreFinal`, `NoRetroactiveBill`); `BarrierInv` (`UsageIsKept`): a
finalize past its write finds its usage committed, and nothing raises or lowers it;
`WindowInv`: an uncommitted row is less than the window behind the last id; `ReachInv`
(`RowsStayInReach`): what a pass would move the watermark to leaves no unclaimed billable row
further behind than the window, because a row that is not final stops it; `DrainInv`
(`DrainsBillAllDue`): what was due is claimed, about to be, or still ahead of the drain.
`SpendInv` (`RoundsOnce`): a context's dollars are the sum of what its rows were charged, and the
credits the sum of the rounded dollars. A pass bills one line per row at the row's final cost, which
`BillInv` gives, so what it adds to a context's dollars is what it adds to the charges of its rows.
`UsageInv` ties these to `UsageRecord`: claimed rows are payable, the costs of payable rows
are credits' worth, and `credits` is what the claimed rows come to (`DebitIsOwed`). A step that
charges nobody only lets usage fall due, because a payable row stays payable at its cost
(`PayableStays`); a bill is a `BillUsage` (`BillingImplementation`).

**SumTheorems.** Sums over finite sets, by the community modules' `SumFunctionOnSet`: an element splits
off, the sum of two functions is the sum of the sums, equal terms give equal sums. The library's
induction theorems take an operator, which no installed prover instantiates, so `InductionOnNat`
and `InductionOnSubsets` take the SET of the instances that hold and follow from
well-foundedness (`WFMin`); the sums, which are `CHOOSE`n functions, then exist and are
unique by induction on the set.

**Model-checked only.** The seven liveness properties, since fairness and ENABLED are outside
the prover's reach: `RequestsReturn`, `EveryEventStored`, `EveryRunCloses`, `EveryRunEnds`,
`EveryJobCompletes`, `RequestsAreAnswered`, `EveryRowIsBilled`. Every other property that a passing
run checks is a theorem. No module declares a RECURSIVE operator.

## 6. Plan

Done, in this order: `RunRecord`, `RunIngestion`, `RunStream`, `RunTermination`,
`StorageOutbox`, `RunAdmission`, `Billing`, with the proofs of all of them.

Next, the most important behaviour first:

1. `RunLiveness`: the watchdog with a clock, the boot pump, the advisory lock and the batch
   limit; a run in provisioning is not swept, an abandoned one is within a bound.
2. `LocalQueue` and `Scheduler`: retries, cron upserts while firing, shutdown; rows and jobs
   agree in the end.
3. `TokenRefresh`: one refresh in flight over an expiring lock; a rotated token is not lost.
4. `RunVerdict`: the derivation of status and error from a result, as operators checked
   against a decision table.
5. `Uploads` (consume once) and webhook delivery, then chat.

Proofs still to write: that `RunTermination`'s two finalize steps are an abstraction of
`RunIngestion`'s (both implement `RunRecord`, which is what ties them now), and the safety halves
of the liveness properties (what an actor that is still busy has ahead of it). `StorageOutbox`
has no abstract specification: what one would promise, that an object without a row has a job,
is the sentence `storage_orphan` refutes, and with its exceptions it would be the module again.

## 7. Not modelled, and why

HMAC arithmetic, header and payload formats, logging, metrics and tracing: no property here
depends on them. Docker, process and microVM drivers: their effects on a run are actions of
`RunTermination`'s environment. PostgreSQL and Redis: a statement or a committed transaction
is one step, except in `RunAdmission`, which has the locks, and `Billing`, which has the gap
between insert and commit. The graceful shutdown of a replica: after its drain a replica is as in
`ReplicaDies`. OIDC, MCP, providers, web app, CLI and UI: protocol adapters and presentation.
Resolution and validation rules (packages, connections, spaces): sequential functions that
unit tests reach.

Of the modelled components: the outbox's draft artifacts and the run's bundle object (plain keys,
as a version's without a republication), an upload that is added to a workspace after its run
was closed, the batch limit of 50 jobs, and a purge whose connection loses its lock while the
delete is under way; in admission, quotas and caps of files, end users, several spaces and the
unguarded count before the pipeline; in billing, accounts without a row, mirror rows, the
detachment of a deleted run's row, pricing status, the resumability guard, batch ceilings, and the
statement that reads a page while another commits (a statement is atomic).
