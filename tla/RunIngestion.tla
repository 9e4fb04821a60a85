----------------------------- MODULE RunIngestion -----------------------------
(***************************************************************************)
(* The event sink of ONE run: POST /api/runs/:runId/events and the          *)
(* finalizeRun every terminal path goes through                            *)
(* (apps/api/src/services/run-event-ingestion.ts).                         *)
(*                                                                         *)
(* Many requests are in flight at once, on one replica or on several.  Each *)
(* of them works on the snapshot of the run row it read when its signature *)
(* was checked (`last`), and awaits the database, the replay cache or the  *)
(* ordering buffer between its steps; one action below is what a request   *)
(* does from one await to the next.  Serialisation comes from two compare- *)
(* and-set updates of the run row only: the sequence claim and the close.  *)
(*                                                                         *)
(* An event is its envelope's sequence number, and so is its webhook-id:   *)
(* HttpSink draws one id per envelope and keeps both over its retries.     *)
(***************************************************************************)
EXTENDS Integers, Sequences, FiniteSets, FiniteSetsExt

CONSTANTS
  Posts,             \* slots for concurrent POST .../events requests
  Closers,           \* slots for concurrent finalizeRun calls
  MaxSequence,       \* bound: the runner emits events 1..MaxSequence
  TerminalEvents,    \* the events whose type is run.<terminal status>
  Unstorable,        \* events whose row PostgreSQL refuses by value (22xxx, 23514)
  Terminal,          \* terminal run statuses
  RunOrigin,         \* "remote" or "platform"
  MaxBufferEntries,  \* cap of the ordering buffer
  SharedStore,       \* TRUE: Redis buffer and cache; FALSE: in the one API process
  SinkMayExpire,     \* whether sink_expires_at may pass while the run is open
  MaxFaults          \* bound on infrastructure faults in a behaviour

Active == {"pending", "running"}
Events == 1..MaxSequence
Requests == Posts \cup Closers

ASSUME RequestsAssumption == Posts \cap Closers = {}
ASSUME BoundsAssumption ==
  /\ MaxSequence \in Nat \ {0}
  /\ MaxBufferEntries \in Nat \ {0}
  /\ MaxFaults \in Nat
ASSUME EventsAssumption == TerminalEvents \subseteq Events /\ Unstorable \subseteq Events
ASSUME StatusAssumption == Terminal # {} /\ Terminal \cap Active = {}
ASSUME SwitchesAssumption ==
  /\ RunOrigin \in {"remote", "platform"}
  /\ SharedStore \in BOOLEAN
  /\ SinkMayExpire \in BOOLEAN

VARIABLES
  run,         \* the run row: status, last_event_sequence, sink_closed_at, expiry passed
  runLog,      \* run_logs: the sequence of every event row, in insertion order
  buffer,      \* the run's ordering buffer: sequences waiting for a predecessor
  replayKeys,  \* webhook-ids claimed in the replay cache
  request,     \* what each in-flight request is about to do, and its snapshot
  answered,    \* outcomes `persisted` and `buffered` returned to the runner so far
  broadcasts,  \* onRunStatusChange emitted: `started` events, terminal statuses in order
  faults       \* infrastructure faults so far

vars == <<run, runLog, buffer, replayKeys, request, answered, broadcasts, faults>>

Labels == {"idle", "claimKey", "put", "sync", "peek", "persist", "placeholder",
           "reread", "announce", "drop", "refresh", "reply", "releaseKey",
           "releaseGone", "barrier", "close", "broadcast", "clear"}

\* How the request persists: its own contiguous event, a drain that stops at
\* the first gap, or a drain with allowGaps.
Modes == {"fast", "drain", "flush"}

Request == [pc: Labels, mode: Modes, seq: 0..MaxSequence,
            last: 0..MaxSequence, head: 0..MaxSequence]

Idle == [pc |-> "idle", mode |-> "drain", seq |-> 0, last |-> 0, head |-> 0]

TypeOK ==
  /\ run \in [status: Active \cup Terminal, last: 0..MaxSequence,
              closed: BOOLEAN, expired: BOOLEAN]
  /\ runLog \in Seq(Events)
  /\ buffer \subseteq Events
  /\ replayKeys \subseteq Events
  /\ request \in [Requests -> Request]
  /\ answered \subseteq Events \X {"persisted", "buffered"}
  /\ broadcasts \in [started: Nat, terminal: Seq(Active \cup Terminal)]
  /\ faults \in 0..MaxFaults

Init ==
  /\ run = [status |-> "pending", last |-> 0, closed |-> FALSE, expired |-> FALSE]
  /\ runLog = <<>>
  /\ buffer = {}
  /\ replayKeys = {}
  /\ request = [r \in Requests |-> Idle]
  /\ answered = {}
  /\ broadcasts = [started |-> 0, terminal |-> <<>>]
  /\ faults = 0

-----------------------------------------------------------------------------
At(r, label) == request[r].pc = label

\* How a step leaves the request that takes it.
Becomes(r, q) == request' = [request EXCEPT ![r] = q]
Goto(r, label) == Becomes(r, [request[r] EXCEPT !.pc = label])
GotoSeeing(r, label, last) == Becomes(r, [request[r] EXCEPT !.pc = label, !.last = last])
GotoFor(r, label, head) == Becomes(r, [request[r] EXCEPT !.pc = label, !.head = head])
Done(r) == Becomes(r, Idle)

\* Where a request is once its drain has returned.
Drained(r) == IF r \in Closers THEN "barrier" ELSE "reply"

Later(m, n) == IF m > n THEN m ELSE n

-----------------------------------------------------------------------------
(* POST .../events, up to the routing of the event.                        *)

\* The signature guard reads the run row and refuses a closed or an expired
\* sink on that snapshot; a refused request changes nothing.
VerifyRunSignature(p, s) ==
  /\ At(p, "idle")
  /\ ~run.closed /\ ~run.expired
  /\ Becomes(p, [pc |-> "claimKey", mode |-> "fast", seq |-> s, last |-> run.last, head |-> s])
  /\ UNCHANGED <<run, runLog, buffer, replayKeys, answered, broadcasts, faults>>

\* Where an event goes once its replay key is claimed: the contiguous one is
\* persisted at once, one already seen is a replay, any other is buffered.
Route(p) ==
  LET q == request[p] IN
  \/ q.seq = q.last + 1 /\ Goto(p, "persist")
  \/ q.seq <= q.last    /\ Done(p)
  \/ q.seq > q.last + 1 /\ Goto(p, "put")

IngestRunEvent(p) ==
  /\ At(p, "claimKey")
  /\ \/ /\ request[p].seq \in replayKeys
        /\ Done(p)
        /\ UNCHANGED replayKeys
     \/ /\ request[p].seq \notin replayKeys
        /\ replayKeys' = replayKeys \cup {request[p].seq}
        /\ Route(p)
  /\ UNCHANGED <<run, runLog, buffer, answered, broadcasts, faults>>

\* Mutant: the buffer drops an entry when it gets full, one too early.
CappedOneEarly(S) == IF Cardinality(S) >= MaxBufferEntries THEN S \ {Min(S)} ELSE S

\* EventBuffer.put: keyed by sequence, the lowest entries go when it is full.
Capped(S) == IF Cardinality(S) > MaxBufferEntries THEN S \ {Min(S)} ELSE S

\* Mutant: a buffered event is left for the next arrival to drain.
BufferEventOnly(p) ==
  /\ At(p, "put")
  /\ buffer' = Capped(buffer \cup {request[p].seq})
  /\ Goto(p, "reply")
  /\ UNCHANGED <<run, runLog, replayKeys, answered, broadcasts, faults>>

BufferEvent(p) ==
  LET terminal == request[p].seq \in TerminalEvents IN
  /\ At(p, "put")
  /\ buffer' = Capped(buffer \cup {request[p].seq})
  /\ Becomes(p, [request[p] EXCEPT
       !.pc = IF terminal THEN "peek" ELSE "sync",
       !.mode = IF terminal THEN "flush" ELSE "drain"])
  /\ UNCHANGED <<run, runLog, replayKeys, answered, broadcasts, faults>>

\* refreshSequence before the drain of a buffered event.
SyncBeforeDrain(p) ==
  /\ At(p, "sync")
  /\ GotoSeeing(p, "peek", Later(request[p].last, run.last))
  /\ UNCHANGED <<run, runLog, buffer, replayKeys, answered, broadcasts, faults>>

\* The answer to the runner.  A terminal event that was buffered is answered
\* `persisted` whatever its drain met.
Reply(p) ==
  LET q == request[p]
      outcome == IF q.mode = "flush" \/ q.last >= q.seq THEN "persisted" ELSE "buffered"
  IN
  /\ At(p, "reply")
  /\ answered' = answered \cup {<<q.seq, outcome>>}
  /\ Done(p)
  /\ UNCHANGED <<run, runLog, buffer, replayKeys, broadcasts, faults>>

\* What follows an error, or the 410 of a closed sink: the key goes, so that the
\* same webhook-id may retry.
ReleaseReplayKey(p) ==
  /\ At(p, "releaseKey") \/ At(p, "releaseGone")
  /\ replayKeys' = replayKeys \ {request[p].seq}
  /\ Done(p)
  /\ UNCHANGED <<run, runLog, buffer, answered, broadcasts, faults>>

-----------------------------------------------------------------------------
(* persistEventAndAdvance: the transaction that claims a sequence.          *)

\* Mutants: the claim does not look at sink_closed_at, or at the counter.
ClaimableClosed(r) ==
  LET q == request[r] IN
  IF q.head > q.last + 1 THEN run.last < q.head ELSE run.last = q.head - 1

ClaimableTwice(r) == ~run.closed /\ request[r].head \in Events

\* The WHERE clause of the claim.  Only a drain with allowGaps asks for a
\* sequence that does not follow its snapshot.
Claimable(r) ==
  LET q == request[r] IN
  /\ ~run.closed
  /\ IF q.head > q.last + 1 THEN run.last < q.head ELSE run.last = q.head - 1

\* What the caller does once its event is stored: drain the buffer, or remove the
\* entry its drain peeked.
Stored(q) ==
  IF q.mode = "fast" THEN [q EXCEPT !.pc = "peek", !.mode = "drain"]
  ELSE [q EXCEPT !.pc = "drop"]

\* Counter, row and the flip to `running` commit together.  The flip goes with
\* a zero snapshot, and updateRun applies it to an active row only.
Claim(r) ==
  LET q == request[r]
      firstEvent == q.last = 0
  IN
  /\ Claimable(r)
  /\ run' = [run EXCEPT
       !.last = q.head,
       !.status = IF firstEvent /\ run.status \in Active THEN "running" ELSE run.status]
  /\ runLog' = Append(runLog, q.head)
  /\ Becomes(r, IF firstEvent /\ RunOrigin = "remote"
                THEN [q EXCEPT !.last = q.head, !.pc = "announce"]
                ELSE Stored([q EXCEPT !.last = q.head]))
  /\ UNCHANGED <<buffer, replayKeys, answered, broadcasts, faults>>

PersistEventAndAdvance(r) ==
  /\ At(r, "persist")
  /\ request[r].head \notin Unstorable
  /\ Claim(r)

\* The row is refused by value: the transaction rolls back and a second one
\* claims the sequence with an `event_dropped` row in the event's place.
RefuseRow(r) ==
  /\ At(r, "persist")
  /\ request[r].head \in Unstorable
  /\ Claimable(r)
  /\ Goto(r, "placeholder")
  /\ UNCHANGED <<run, runLog, buffer, replayKeys, answered, broadcasts, faults>>

PersistPlaceholder(r) == At(r, "placeholder") /\ Claim(r)

LoseClaim(r) ==
  /\ At(r, "persist") \/ At(r, "placeholder")
  /\ ~Claimable(r)
  /\ Goto(r, "reread")
  /\ UNCHANGED <<run, runLog, buffer, replayKeys, answered, broadcasts, faults>>

\* Mutant: a lost race is run again until the sink closes.
RereadAndClaimAgain(r) ==
  LET q == request[r] IN
  /\ At(r, "reread")
  /\ \/ /\ run.closed
        /\ Goto(r, IF q.mode = "fast" THEN "releaseGone" ELSE Drained(r))
     \/ /\ ~run.closed
        /\ Goto(r, "persist")
  /\ UNCHANGED <<run, runLog, buffer, replayKeys, answered, broadcasts, faults>>

\* The second read tells a closed sink (410 on the fast path, end of a drain)
\* from a lost race, after which the caller goes on as if it had claimed.
RereadAfterLoss(r) ==
  LET q == request[r] IN
  /\ At(r, "reread")
  /\ \/ /\ run.closed
        /\ Goto(r, IF q.mode = "fast" THEN "releaseGone" ELSE Drained(r))
     \/ /\ ~run.closed
        /\ Becomes(r, Stored([q EXCEPT !.last = Later(q.last, run.last)]))
  /\ UNCHANGED <<run, runLog, buffer, replayKeys, answered, broadcasts, faults>>

\* The `started` broadcast of a remote run, after the claim has committed.
AnnounceStarted(r) ==
  /\ At(r, "announce")
  /\ broadcasts' = [broadcasts EXCEPT !.started = @ + 1]
  /\ Becomes(r, Stored(request[r]))
  /\ UNCHANGED <<run, runLog, buffer, replayKeys, answered, faults>>

-----------------------------------------------------------------------------
(* drainBufferedEvents.                                                    *)

\* Mutants: the drain takes the next event for one it has stored, or jumps over a
\* gap without allowGaps.
PeekLowestSpent(r) ==
  LET q == request[r]
      next == q.last + 1
  IN
  /\ At(r, "peek")
  /\ \/ buffer = {} /\ Goto(r, Drained(r))
     \/ \E head \in buffer :
          /\ \A s \in buffer : head <= s
          /\ \/ head <= next /\ GotoFor(r, "drop", head)
             \/ head > next /\ q.mode = "flush" /\ GotoFor(r, "persist", head)
             \/ head > next /\ q.mode # "flush" /\ Goto(r, "refresh")
  /\ UNCHANGED <<run, runLog, buffer, replayKeys, answered, broadcasts, faults>>

PeekLowestAnyGap(r) ==
  /\ At(r, "peek")
  /\ \/ buffer = {} /\ Goto(r, Drained(r))
     \/ \E head \in buffer :
          /\ \A s \in buffer : head <= s
          /\ \/ head <= request[r].last /\ GotoFor(r, "drop", head)
             \/ head > request[r].last /\ GotoFor(r, "persist", head)
  /\ UNCHANGED <<run, runLog, buffer, replayKeys, answered, broadcasts, faults>>

PeekLowest(r) ==
  LET q == request[r]
      next == q.last + 1
  IN
  /\ At(r, "peek")
  /\ \/ buffer = {} /\ Goto(r, Drained(r))
     \/ \E head \in buffer :
          /\ \A s \in buffer : head <= s
          /\ \/ /\ head < next
                /\ GotoFor(r, "drop", head)
             \/ /\ head = next \/ (head > next /\ q.mode = "flush")
                /\ GotoFor(r, "persist", head)
             \/ /\ head > next /\ q.mode # "flush"
                /\ Goto(r, "refresh")
  /\ UNCHANGED <<run, runLog, buffer, replayKeys, answered, broadcasts, faults>>

DropBufferedEvent(r) ==
  /\ At(r, "drop")
  /\ buffer' = buffer \ {request[r].head}
  /\ Goto(r, "peek")
  /\ UNCHANGED <<run, runLog, replayKeys, answered, broadcasts, faults>>

\* Mutant: the snapshot is left on the sequence the gap waits for.
RefreshSequenceToNext(r) ==
  /\ At(r, "refresh")
  /\ IF run.last > request[r].last
     THEN GotoSeeing(r, "peek", run.last + 1)
     ELSE Goto(r, Drained(r))
  /\ UNCHANGED <<run, runLog, buffer, replayKeys, answered, broadcasts, faults>>

\* A gap at the head: look at the row once more, and stop if it did not move.
RefreshSequence(r) ==
  /\ At(r, "refresh")
  /\ IF run.last > request[r].last
     THEN GotoSeeing(r, "peek", run.last)
     ELSE Goto(r, Drained(r))
  /\ UNCHANGED <<run, runLog, buffer, replayKeys, answered, broadcasts, faults>>

-----------------------------------------------------------------------------
(* finalizeRun.                                                            *)

\* The runner's POST .../finalize, the cancel route, the watchdog, the exit of
\* the container, the boot sweep: all read the row and flush the buffer first.
StartFinalize(c) ==
  /\ At(c, "idle")
  /\ Becomes(c, [Idle EXCEPT !.pc = "peek", !.mode = "flush", !.last = run.last])
  /\ UNCHANGED <<run, runLog, buffer, replayKeys, answered, broadcasts, faults>>

\* The verdict is derived and the terminal ledger row written; a failure of
\* the write (InfrastructureError) leaves the run open.
WriteTerminalLedger(c) ==
  /\ At(c, "barrier")
  /\ Goto(c, "close")
  /\ UNCHANGED <<run, runLog, buffer, replayKeys, answered, broadcasts, faults>>

\* Mutant: the close does not look at sink_closed_at.
CloseSinkAgain(c) ==
  /\ At(c, "close")
  /\ \E status \in Terminal : run' = [run EXCEPT !.status = status, !.closed = TRUE]
  /\ Goto(c, "broadcast")
  /\ UNCHANGED <<runLog, buffer, replayKeys, answered, broadcasts, faults>>

\* Closes the sink if nobody did; only the winner goes on to the side effects.
CloseSink(c) ==
  /\ At(c, "close")
  /\ \/ /\ ~run.closed
        /\ \E status \in Terminal :
             run' = [run EXCEPT !.status = status, !.closed = TRUE]
        /\ Goto(c, "broadcast")
     \/ /\ run.closed
        /\ Done(c)
        /\ UNCHANGED run
  /\ UNCHANGED <<runLog, buffer, replayKeys, answered, broadcasts, faults>>

BroadcastTerminal(c) ==
  /\ At(c, "broadcast")
  /\ broadcasts' = [broadcasts EXCEPT !.terminal = Append(@, run.status)]
  /\ Goto(c, "clear")
  /\ UNCHANGED <<run, runLog, buffer, replayKeys, answered, faults>>

ClearBuffer(c) ==
  /\ At(c, "clear")
  /\ buffer' = {}
  /\ Done(c)
  /\ UNCHANGED <<run, runLog, replayKeys, answered, broadcasts, faults>>

-----------------------------------------------------------------------------
(* What goes wrong around the requests.                                    *)

Fault == faults < MaxFaults /\ faults' = faults + 1

\* Mutant: the claim is not in the transaction of the row that fails.
InfrastructureErrorHalfway(r) ==
  /\ At(r, "persist")
  /\ Claimable(r)
  /\ Fault
  /\ run' = [run EXCEPT !.last = request[r].head]
  /\ IF r \in Closers THEN Done(r) ELSE Goto(r, "releaseKey")
  /\ UNCHANGED <<runLog, buffer, replayKeys, answered, broadcasts>>

\* A database, cache or buffer call rejects.  The POST releases its replay key
\* and answers 500; finalizeRun throws to its caller, also where it re-reads the
\* actor of the run it has just closed, and the broadcast is never made.
InfrastructureError(r) ==
  /\ request[r].pc \in {"put", "sync", "peek", "persist", "placeholder", "reread",
                        "refresh", "barrier", "close", "broadcast"}
  /\ Fault
  /\ IF r \in Closers THEN Done(r) ELSE Goto(r, "releaseKey")
  /\ UNCHANGED <<run, runLog, buffer, replayKeys, answered, broadcasts>>

\* The DEL of the replay key is best effort: the key stays.
ReleaseFails(p) ==
  /\ At(p, "releaseKey") \/ At(p, "releaseGone")
  /\ Fault
  /\ Done(p)
  /\ UNCHANGED <<run, runLog, buffer, replayKeys, answered, broadcasts>>

\* A spent entry that cannot be removed ends the drain.
DropFails(r) ==
  /\ At(r, "drop")
  /\ Fault
  /\ Goto(r, Drained(r))
  /\ UNCHANGED <<run, runLog, buffer, replayKeys, answered, broadcasts>>

\* The buffer of the closed run cannot be cleared: logged, and left to its TTL.
ClearFails(c) ==
  /\ At(c, "clear")
  /\ Fault
  /\ Done(c)
  /\ UNCHANGED <<run, runLog, buffer, replayKeys, answered, broadcasts>>

\* A replica dies under the requests it serves; what is in PostgreSQL and in Redis
\* stays.  A single process takes every request with it, and the buffer and the
\* replay cache that were in its memory.
ReplicaDies(dead) ==
  /\ SharedStore \/ dead = Requests
  /\ Fault
  /\ request' = [r \in Requests |-> IF r \in dead THEN Idle ELSE request[r]]
  /\ buffer' = IF SharedStore THEN buffer ELSE {}
  /\ replayKeys' = IF SharedStore THEN replayKeys ELSE {}
  /\ UNCHANGED <<run, runLog, answered, broadcasts>>

\* The TTL of the buffer passes: of the run's key in Redis, of each entry in memory.
BufferExpires ==
  /\ buffer # {}
  /\ Fault
  /\ \E kept \in SUBSET buffer :
       /\ kept # buffer
       /\ SharedStore => kept = {}
       /\ buffer' = kept
  /\ UNCHANGED <<run, runLog, replayKeys, request, answered, broadcasts>>

SinkExpires ==
  /\ SinkMayExpire
  /\ ~run.expired
  /\ run' = [run EXCEPT !.expired = TRUE]
  /\ UNCHANGED <<runLog, buffer, replayKeys, request, answered, broadcasts, faults>>

-----------------------------------------------------------------------------
\* The steps of drain and claim, common to POSTs and to finalizeRun.
DrainStep(r) ==
  \/ PersistEventAndAdvance(r) \/ RefuseRow(r) \/ PersistPlaceholder(r)
  \/ LoseClaim(r) \/ RereadAfterLoss(r) \/ AnnounceStarted(r)
  \/ PeekLowest(r) \/ DropBufferedEvent(r) \/ RefreshSequence(r)

PostStep(p) ==
  \/ IngestRunEvent(p) \/ BufferEvent(p) \/ SyncBeforeDrain(p)
  \/ Reply(p) \/ ReleaseReplayKey(p)

CloserStep(c) ==
  WriteTerminalLedger(c) \/ CloseSink(c) \/ BroadcastTerminal(c) \/ ClearBuffer(c)

Step(r) ==
  \/ DrainStep(r)
  \/ r \in Posts /\ PostStep(r)
  \/ r \in Closers /\ CloserStep(r)

Arrival ==
  \/ \E p \in Posts, s \in Events : VerifyRunSignature(p, s)
  \/ \E c \in Closers : StartFinalize(c)

FaultStep ==
  \/ \E r \in Requests : InfrastructureError(r) \/ DropFails(r)
  \/ \E p \in Posts : ReleaseFails(p)
  \/ \E c \in Closers : ClearFails(c)
  \/ \E dead \in SUBSET Requests : ReplicaDies(dead)
  \/ BufferExpires

Next ==
  \/ \E r \in Requests : Step(r)
  \/ Arrival
  \/ FaultStep
  \/ SinkExpires

Spec == Init /\ [][Next]_vars

\* The event loop resumes every request whose await has settled.
Fairness == \A r \in Requests : WF_vars(Step(r))

FairSpec == Spec /\ Fairness

-----------------------------------------------------------------------------
(* Properties.                                                             *)

Log == {runLog[i] : i \in DOMAIN runLog}

\* Sequences a gap flush jumped over: at or below the counter, never stored.
Skipped == {s \in Events : s <= run.last /\ s \notin Log}

Quiet == \A r \in Requests : At(r, "idle")

\* run_logs holds the events in emission order and none of them twice, and
\* last_event_sequence is the sequence of the last row: whatever POSTs, drains
\* and flushes race on their stale snapshots, and whatever transactions fail
\* half way (the claim and the row are one transaction).
LogFollowsCounter ==
  /\ \A i, j \in DOMAIN runLog : i < j => runLog[i] < runLog[j]
  /\ run.last = IF runLog = <<>> THEN 0 ELSE runLog[Len(runLog)]

\* The run is announced over at most once, by the request that closed it, and
\* only once it is closed; the status announced is the one in the row.
OneTerminalBroadcast ==
  /\ \A c, d \in Closers : At(c, "broadcast") /\ At(d, "broadcast") => c = d
  /\ \A c \in Closers : At(c, "broadcast") => run.closed /\ broadcasts.terminal = <<>>
  /\ broadcasts.terminal # <<>> => run.closed /\ broadcasts.terminal = <<run.status>>

\* CRIT-12: a request whose snapshot predates the close writes nothing to the
\* closed run: no event row, no counter, no flip back to `running`.
ClosedRunIsFrozen ==
  [][run.closed => /\ run'.closed /\ run'.status = run.status
                   /\ run'.last = run.last /\ runLog' = runLog]_vars

\* Without a flush (no terminal event, no finalizeRun) the log has no holes: a drain
\* never jumps over a sequence that is still on its way, however stale the snapshot
\* it works from.
GapFree ==
  (Closers = {} /\ TerminalEvents = {}) => \A i \in DOMAIN runLog : runLog[i] = i

\* A buffer full of events later than s: an overflow drops s, never a later one.
Crowded(s) == Cardinality({t \in buffer : t > s}) >= MaxBufferEntries

\* An event answered `persisted` is in the log, or a flush jumped over it, and no crash
\* or failure afterwards takes it back (a terminal event that was buffered is answered
\* so whatever its drain met, and is left out).  One answered `buffered` is stored or
\* buffered, or jumped over, or the run is over, or later events crowded it out of a
\* full buffer: as long as the infrastructure loses nothing.  (HttpSink forgets an
\* event once it is answered 2xx, so nobody would send it again.)
AckedIsKept ==
  \A a \in answered :
    /\ (a[2] = "persisted" /\ a[1] \notin TerminalEvents) => a[1] \in Log \cup Skipped
    /\ faults = 0 => a[1] \in Log \cup buffer \cup Skipped \/ Crowded(a[1]) \/ run.closed

\* Once the requests of a burst have all returned, the buffer holds no event that
\* could have been stored and none that is spent: of two requests that each see
\* the other's event missing, at least one drains both.
NothingStranded ==
  (Quiet /\ faults = 0 /\ ~run.closed) =>
    \A s \in buffer : s > run.last + 1

\* Every request returns: the drain loop ends even when a spent entry cannot be
\* removed, and under any interleaving with the other drains.
RequestsReturn == \A r \in Requests : []<>At(r, "idle")

\* The comment on a lost claim in the drain says: another drainer claimed this exact
\* sequence, its event is persisted, so the buffered copy is spent.
LostRaceMeansPersisted ==
  [][\A r \in Requests :
       (RereadAfterLoss(r) /\ ~run.closed /\ request[r].mode # "fast"
          /\ request[r].head = request[r].last + 1)
         => request[r].head \in Log]_vars

\* The ingestion implements the abstract run record: RunRecord's steps, whatever
\* the interleaving.
Promise == INSTANCE RunRecord WITH
  Sequences <- Events, Final <- Terminal,
  status <- run.status, counter <- run.last, log <- runLog,
  announced <- broadcasts.terminal

ImplementsRunRecord == Promise!RecordSpec
=============================================================================
