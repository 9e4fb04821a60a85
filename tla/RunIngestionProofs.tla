-------------------------- MODULE RunIngestionProofs --------------------------
(***************************************************************************)
(* What TLAPS proves of RunIngestion, for any number of requests, any       *)
(* number of events and any bound on the faults: type correctness, the      *)
(* order of the log, the freeze of a closed run, and that the ingestion     *)
(* implements RunRecord.                                                   *)
(***************************************************************************)
EXTENDS RunIngestion, TLAPS

\* A POST in flight carries one of the runner's events.
PostsCarryEvents == \A p \in Posts : At(p, "idle") \/ request[p].seq \in Events

RequestsTyped == request \in [Requests -> Request] /\ PostsCarryEvents

RunType == [status: Active \cup Terminal, last: 0..MaxSequence,
            closed: BOOLEAN, expired: BOOLEAN]

\* TypeOK but for the requests.
StoresTyped ==
  /\ run \in RunType
  /\ runLog \in Seq(Events)
  /\ buffer \subseteq Events
  /\ replayKeys \subseteq Events
  /\ answered \subseteq Events \X {"persisted", "buffered"}
  /\ broadcasts \in [started: Nat, terminal: Seq(Active \cup Terminal)]
  /\ faults \in 0..MaxFaults

Typed == StoresTyped /\ RequestsTyped

-----------------------------------------------------------------------------
(* What the ways a step may leave its request do to the requests' types.      *)

\* The states a step may leave request r in.
Legal(r, q) == q \in Request /\ (r \in Posts => q.pc = "idle" \/ q.seq \in Events)

LEMMA BecomesTyped ==
  ASSUME RequestsTyped, NEW r \in Requests, NEW q, Legal(r, q), Becomes(r, q)
  PROVE  RequestsTyped'
BY DEF RequestsTyped, PostsCarryEvents, Legal, Becomes, At, Requests

LEMMA IdleLegal == ASSUME NEW r PROVE Legal(r, Idle)
BY BoundsAssumption DEF Legal, Idle, Request, Labels, Modes

LEMMA BusyLegal ==
  ASSUME RequestsTyped, NEW r \in Requests, ~At(r, "idle")
  PROVE  request[r] \in Request /\ (r \in Posts => request[r].seq \in Events)
BY DEF RequestsTyped, PostsCarryEvents, At

LEMMA DoneTyped ==
  ASSUME RequestsTyped, NEW r \in Requests, Done(r)
  PROVE  RequestsTyped'
BY IdleLegal, BecomesTyped DEF Done

LEMMA GotoTyped ==
  ASSUME RequestsTyped, NEW r \in Requests, ~At(r, "idle"), NEW label \in Labels, Goto(r, label)
  PROVE  RequestsTyped'
<1> DEFINE q == [request[r] EXCEPT !.pc = label]
<1>1. Legal(r, q)
  BY BusyLegal DEF Legal, Request
<1> QED BY <1>1, BecomesTyped DEF Goto

LEMMA GotoSeeingTyped ==
  ASSUME RequestsTyped, NEW r \in Requests, ~At(r, "idle"), NEW label \in Labels,
         NEW last \in 0..MaxSequence, GotoSeeing(r, label, last)
  PROVE  RequestsTyped'
<1> DEFINE q == [request[r] EXCEPT !.pc = label, !.last = last]
<1>1. Legal(r, q)
  BY BusyLegal DEF Legal, Request
<1> QED BY <1>1, BecomesTyped DEF GotoSeeing

LEMMA GotoForTyped ==
  ASSUME RequestsTyped, NEW r \in Requests, ~At(r, "idle"), NEW label \in Labels,
         NEW head \in Events, GotoFor(r, label, head)
  PROVE  RequestsTyped'
<1> DEFINE q == [request[r] EXCEPT !.pc = label, !.head = head]
<1>0. head \in 0..MaxSequence
  BY BoundsAssumption DEF Events
<1>1. Legal(r, q)
  BY <1>0, BusyLegal DEF Legal, Request
<1> QED BY <1>1, BecomesTyped DEF GotoFor

\* A request that has its event stored, or lost the race for it.
LEMMA StoredTyped ==
  ASSUME RequestsTyped, NEW r \in Requests, NEW t \in Request,
         r \in Posts => t.seq \in Events, Becomes(r, Stored(t))
  PROVE  RequestsTyped'
<1>1. "peek" \in Labels /\ "drop" \in Labels /\ "drain" \in Modes
  BY DEF Labels, Modes
<1>2. Legal(r, Stored(t))
  <2>1. CASE t.mode = "fast"
    BY <1>1, <2>1 DEF Legal, Request, Stored
  <2>2. CASE t.mode # "fast"
    BY <1>1, <2>2 DEF Legal, Request, Stored
  <2> QED BY <2>1, <2>2
<1> QED BY <1>2, BecomesTyped

LEMMA SeenTyped ==
  ASSUME NEW q \in Request, NEW last \in 0..MaxSequence
  PROVE  [q EXCEPT !.last = last] \in Request /\ [q EXCEPT !.last = last].seq = q.seq
BY DEF Request

-----------------------------------------------------------------------------
(* Type correctness, one step per action.                                     *)

LEMMA InitTyped == Init => Typed
<1>1. Idle \in Request /\ Idle.pc = "idle"
  BY IdleLegal DEF Legal, Idle
<1> QED BY <1>1, BoundsAssumption DEF Init, Typed, StoresTyped, RequestsTyped, PostsCarryEvents,
              RunType, Active, At, Requests

\* The claim of a sequence that one of the runner's events carries.
LEMMA ClaimTyped ==
  ASSUME Typed, NEW r \in Requests, ~At(r, "idle"), Claim(r)
  PROVE  Typed' /\ request[r].head \in Events
<1> DEFINE q == request[r]
<1>1. q \in Request /\ (r \in Posts => q.seq \in Events)
  BY BusyLegal DEF Typed
<1>2. q.head \in 0..MaxSequence /\ run.last \in 0..MaxSequence /\ run.status \in Active \cup Terminal
  BY <1>1 DEF Typed, StoresTyped, RunType, Request
<1>3. run.last < q.head
  <2>1. IF q.head > q.last + 1 THEN run.last < q.head ELSE run.last = q.head - 1
    BY DEF Claim, Claimable
  <2> QED BY <1>2, <2>1
<1>4. q.head \in Events
  BY <1>2, <1>3, BoundsAssumption DEF Events
<1>5. run' \in RunType
  <2>1. "running" \in Active
    BY DEF Active
  <2> QED BY <1>2, <2>1 DEF Claim, Typed, StoresTyped, RunType
<1>6. runLog' \in Seq(Events)
  BY <1>4 DEF Claim, Typed, StoresTyped
<1>7. RequestsTyped'
  <2> DEFINE t == [q EXCEPT !.last = q.head]
  <2>1. t \in Request /\ t.seq = q.seq
    BY <1>1, <1>2, SeenTyped
  <2>2. CASE q.last = 0 /\ RunOrigin = "remote"
    <3> DEFINE u == [q EXCEPT !.last = q.head, !.pc = "announce"]
    <3>1. Legal(r, u)
      BY <1>1, <1>2 DEF Legal, Request, Labels
    <3>2. Becomes(r, u)
      BY <2>2 DEF Claim
    <3> QED BY <3>1, <3>2, BecomesTyped DEF Typed
  <2>3. CASE ~(q.last = 0 /\ RunOrigin = "remote")
    <3>1. Becomes(r, Stored(t))
      BY <2>3 DEF Claim
    <3> QED BY <1>1, <2>1, <3>1, StoredTyped DEF Typed
  <2> QED BY <2>2, <2>3
<1> QED BY <1>4, <1>5, <1>6, <1>7 DEF Claim, Typed, StoresTyped

LEMMA DrainStepTyped ==
  ASSUME Typed, NEW r \in Requests, DrainStep(r)
  PROVE  Typed'
<1>0. RequestsTyped /\ run.last \in 0..MaxSequence /\ buffer \subseteq Events
  BY DEF Typed, StoresTyped, RunType
<1>1. ~At(r, "idle")
  BY DEF DrainStep, PersistEventAndAdvance, RefuseRow, PersistPlaceholder, LoseClaim,
     RereadAfterLoss, AnnounceStarted, PeekLowest, DropBufferedEvent, RefreshSequence, At
<1>2. request[r] \in Request /\ (r \in Posts => request[r].seq \in Events)
  BY <1>0, <1>1, BusyLegal
<1>3. ASSUME RequestsTyped',
             UNCHANGED <<run, runLog, replayKeys, answered, broadcasts, faults>>,
             buffer' \subseteq buffer
      PROVE  Typed'
  BY <1>3 DEF Typed, StoresTyped
<1>4. CASE PersistEventAndAdvance(r) \/ PersistPlaceholder(r)
  BY <1>1, <1>4, ClaimTyped DEF PersistEventAndAdvance, PersistPlaceholder
<1>5. CASE RefuseRow(r)
  <2>1. Goto(r, "placeholder") /\ "placeholder" \in Labels
    BY <1>5 DEF RefuseRow, Labels
  <2> QED BY <1>0, <1>1, <1>3, <1>5, <2>1, GotoTyped DEF RefuseRow
<1>6. CASE LoseClaim(r)
  <2>1. Goto(r, "reread") /\ "reread" \in Labels
    BY <1>6 DEF LoseClaim, Labels
  <2> QED BY <1>0, <1>1, <1>3, <1>6, <2>1, GotoTyped DEF LoseClaim
<1>7. CASE RereadAfterLoss(r)
  <2> DEFINE seen == Later(request[r].last, run.last)
             t    == [request[r] EXCEPT !.last = seen]
  <2>1. UNCHANGED <<run, runLog, buffer, replayKeys, answered, broadcasts, faults>>
    BY <1>7 DEF RereadAfterLoss
  <2>2. CASE \E label \in Labels : Goto(r, label)
    BY <1>0, <1>1, <1>3, <2>1, <2>2, GotoTyped
  <2>3. CASE Becomes(r, Stored(t))
    <3>1. seen \in 0..MaxSequence
      BY <1>0, <1>2 DEF Later, Request
    <3>2. t \in Request /\ t.seq = request[r].seq
      BY <1>2, <3>1, SeenTyped
    <3> QED BY <1>0, <1>2, <1>3, <2>1, <2>3, <3>2, StoredTyped
  <2>4. "releaseGone" \in Labels /\ Drained(r) \in Labels
    BY DEF Labels, Drained
  <2> QED BY <1>7, <2>2, <2>3, <2>4 DEF RereadAfterLoss
<1>8. CASE AnnounceStarted(r)
  <2>1. Becomes(r, Stored(request[r]))
    BY <1>8 DEF AnnounceStarted
  <2>2. RequestsTyped'
    BY <1>0, <1>2, <2>1, StoredTyped
  <2>3. broadcasts' \in [started: Nat, terminal: Seq(Active \cup Terminal)]
    BY <1>8 DEF AnnounceStarted, Typed, StoresTyped
  <2> QED BY <1>8, <2>2, <2>3 DEF AnnounceStarted, Typed, StoresTyped
<1>9. CASE PeekLowest(r)
  <2>1. UNCHANGED <<run, runLog, buffer, replayKeys, answered, broadcasts, faults>>
    BY <1>9 DEF PeekLowest
  <2>2. {"drop", "persist", "refresh", Drained(r)} \subseteq Labels
    BY DEF Labels, Drained
  <2>3. \/ Goto(r, Drained(r)) \/ Goto(r, "refresh")
        \/ \E head \in buffer : GotoFor(r, "drop", head) \/ GotoFor(r, "persist", head)
    BY <1>9 DEF PeekLowest
  <2>4. CASE Goto(r, Drained(r)) \/ Goto(r, "refresh")
    BY <1>0, <1>1, <1>3, <2>1, <2>2, <2>4, GotoTyped
  <2>5. ASSUME NEW head \in buffer, GotoFor(r, "drop", head) \/ GotoFor(r, "persist", head)
        PROVE  Typed'
    BY <1>0, <1>1, <1>3, <2>1, <2>2, <2>5, GotoForTyped
  <2> QED BY <2>3, <2>4, <2>5
<1>10. CASE DropBufferedEvent(r)
  <2>1. Goto(r, "peek") /\ "peek" \in Labels
    BY <1>10 DEF DropBufferedEvent, Labels
  <2> QED BY <1>0, <1>1, <1>3, <1>10, <2>1, GotoTyped DEF DropBufferedEvent
<1>11. CASE RefreshSequence(r)
  <2>1. {"peek", Drained(r)} \subseteq Labels
    BY DEF Labels, Drained
  <2>2. GotoSeeing(r, "peek", run.last) \/ Goto(r, Drained(r))
    BY <1>11 DEF RefreshSequence
  <2>3. UNCHANGED <<run, runLog, buffer, replayKeys, answered, broadcasts, faults>>
    BY <1>11 DEF RefreshSequence
  <2> QED BY <1>0, <1>1, <1>3, <2>1, <2>2, <2>3, GotoTyped, GotoSeeingTyped
<1> QED BY <1>4, <1>5, <1>6, <1>7, <1>8, <1>9, <1>10, <1>11 DEF DrainStep

LEMMA PostStepTyped ==
  ASSUME Typed, NEW p \in Posts, PostStep(p)
  PROVE  Typed'
<1>0. RequestsTyped /\ run.last \in 0..MaxSequence /\ buffer \subseteq Events /\ p \in Requests
  BY DEF Typed, StoresTyped, RunType, Requests
<1>1. ~At(p, "idle")
  BY DEF PostStep, IngestRunEvent, BufferEvent, SyncBeforeDrain, Reply, ReleaseReplayKey, At
<1>2. request[p] \in Request /\ request[p].seq \in Events
  BY <1>0, <1>1, BusyLegal
<1>3. CASE IngestRunEvent(p)
  <2>1. {"persist", "put"} \subseteq Labels
    BY DEF Labels
  <2>2. Done(p) \/ Goto(p, "persist") \/ Goto(p, "put")
    BY <1>3 DEF IngestRunEvent, Route
  <2>3. RequestsTyped'
    BY <1>0, <1>1, <2>1, <2>2, GotoTyped, DoneTyped
  <2>4. replayKeys' \subseteq Events
    BY <1>2, <1>3 DEF IngestRunEvent, Typed, StoresTyped
  <2> QED BY <1>3, <2>3, <2>4 DEF IngestRunEvent, Typed, StoresTyped
<1>4. CASE BufferEvent(p)
  <2> DEFINE terminal == request[p].seq \in TerminalEvents
             label == IF terminal THEN "peek" ELSE "sync"
             mode == IF terminal THEN "flush" ELSE "drain"
             q == [request[p] EXCEPT !.pc = label, !.mode = mode]
  <2>1. label \in Labels /\ mode \in Modes
    BY DEF Labels, Modes
  <2> HIDE DEF label, mode
  <2>2. Legal(p, q)
    BY <1>2, <2>1 DEF Legal, Request
  <2>3. Becomes(p, q)
    BY <1>4 DEF BufferEvent, label, mode
  <2>4. RequestsTyped'
    BY <1>0, <2>2, <2>3, BecomesTyped
  <2>5. buffer' \subseteq Events
    BY <1>0, <1>2, <1>4 DEF BufferEvent, Capped
  <2> QED BY <1>4, <2>4, <2>5 DEF BufferEvent, Typed, StoresTyped
<1>5. CASE SyncBeforeDrain(p)
  <2>1. "peek" \in Labels /\ Later(request[p].last, run.last) \in 0..MaxSequence
    BY <1>0, <1>2 DEF Labels, Later, Request
  <2>2. RequestsTyped'
    BY <1>0, <1>1, <1>5, <2>1, GotoSeeingTyped DEF SyncBeforeDrain
  <2> QED BY <1>5, <2>2 DEF SyncBeforeDrain, Typed, StoresTyped
<1>6. CASE Reply(p)
  <2>1. RequestsTyped'
    BY <1>0, <1>6, DoneTyped DEF Reply
  <2>2. answered' \subseteq Events \X {"persisted", "buffered"}
    BY <1>2, <1>6 DEF Reply, Typed, StoresTyped
  <2> QED BY <1>6, <2>1, <2>2 DEF Reply, Typed, StoresTyped
<1>7. CASE ReleaseReplayKey(p)
  <2>1. RequestsTyped'
    BY <1>0, <1>7, DoneTyped DEF ReleaseReplayKey
  <2> QED BY <1>7, <2>1 DEF ReleaseReplayKey, Typed, StoresTyped
<1> QED BY <1>3, <1>4, <1>5, <1>6, <1>7 DEF PostStep

LEMMA CloserStepTyped ==
  ASSUME Typed, NEW c \in Closers, CloserStep(c)
  PROVE  Typed'
<1>0. RequestsTyped /\ run \in RunType /\ c \in Requests
      /\ broadcasts \in [started: Nat, terminal: Seq(Active \cup Terminal)]
  BY DEF Typed, StoresTyped, Requests
<1>1. {"close", "broadcast", "clear"} \subseteq Labels /\ ~At(c, "idle")
  BY DEF Labels, At, CloserStep, WriteTerminalLedger, CloseSink, BroadcastTerminal, ClearBuffer
<1>2. Goto(c, "close") \/ Goto(c, "broadcast") \/ Goto(c, "clear") \/ Done(c)
  BY DEF CloserStep, WriteTerminalLedger, CloseSink, BroadcastTerminal, ClearBuffer
<1>3. RequestsTyped'
  BY <1>0, <1>1, <1>2, GotoTyped, DoneTyped
<1>4. CASE WriteTerminalLedger(c)
  BY <1>3, <1>4 DEF WriteTerminalLedger, Typed, StoresTyped
<1>5. CASE CloseSink(c)
  <2>1. run' \in RunType
    BY <1>0, <1>5 DEF CloseSink, RunType
  <2> QED BY <1>3, <1>5, <2>1 DEF CloseSink, Typed, StoresTyped
<1>6. CASE BroadcastTerminal(c)
  <2>1. run.status \in Active \cup Terminal
    BY <1>0 DEF RunType
  <2> DEFINE heard == Append(broadcasts.terminal, run.status)
  <2>2. heard \in Seq(Active \cup Terminal)
    BY <1>0, <2>1
  <2>3. broadcasts' = [broadcasts EXCEPT !.terminal = heard]
    BY <1>6 DEF BroadcastTerminal
  <2> HIDE DEF heard
  <2>4. broadcasts' \in [started: Nat, terminal: Seq(Active \cup Terminal)]
    BY <1>0, <2>2, <2>3
  <2> QED BY <1>3, <1>6, <2>4 DEF BroadcastTerminal, Typed, StoresTyped
<1>7. CASE ClearBuffer(c)
  BY <1>3, <1>7 DEF ClearBuffer, Typed, StoresTyped
<1> QED BY <1>4, <1>5, <1>6, <1>7 DEF CloserStep

LEMMA ArrivalTyped ==
  ASSUME Typed, Arrival
  PROVE  Typed'
<1>0. RequestsTyped /\ run.last \in 0..MaxSequence
  BY DEF Typed, StoresTyped, RunType
<1>1. UNCHANGED <<run, runLog, buffer, replayKeys, answered, broadcasts, faults>>
  BY DEF Arrival, VerifyRunSignature, StartFinalize
<1>2. ASSUME NEW p \in Posts, NEW s \in Events, VerifyRunSignature(p, s)
      PROVE  RequestsTyped'
  <2> DEFINE q == [pc |-> "claimKey", mode |-> "fast", seq |-> s, last |-> run.last, head |-> s]
  <2>1. s \in 0..MaxSequence /\ "claimKey" \in Labels /\ "fast" \in Modes
    BY BoundsAssumption DEF Events, Labels, Modes
  <2>2. Legal(p, q)
    BY <1>0, <2>1 DEF Legal, Request
  <2>3. Becomes(p, q) /\ p \in Requests
    BY <1>2 DEF VerifyRunSignature, Requests
  <2> QED BY <1>0, <2>2, <2>3, BecomesTyped
<1>3. ASSUME NEW c \in Closers, StartFinalize(c)
      PROVE  RequestsTyped'
  <2> DEFINE q == [Idle EXCEPT !.pc = "peek", !.mode = "flush", !.last = run.last]
  <2>1. "peek" \in Labels /\ "flush" \in Modes /\ Idle \in Request /\ c \notin Posts
    BY IdleLegal, RequestsAssumption DEF Legal, Labels, Modes
  <2>2. Legal(c, q)
    BY <1>0, <2>1 DEF Legal, Request
  <2>3. Becomes(c, q) /\ c \in Requests
    BY <1>3 DEF StartFinalize, Requests
  <2> QED BY <1>0, <2>2, <2>3, BecomesTyped
<1> QED BY <1>1, <1>2, <1>3 DEF Arrival, Typed, StoresTyped

LEMMA FaultTyped ==
  ASSUME Typed, FaultStep
  PROVE  Typed'
<1>0. RequestsTyped /\ buffer \subseteq Events /\ replayKeys \subseteq Events
      /\ faults \in 0..MaxFaults
  BY DEF Typed, StoresTyped
<1>1. Fault /\ UNCHANGED <<run, runLog, answered, broadcasts>>
  BY DEF FaultStep, InfrastructureError, DropFails, ReplicaDies, ReleaseFails, ClearFails,
     BufferExpires
<1>2. faults' \in 0..MaxFaults
  BY <1>0, <1>1, BoundsAssumption DEF Fault
<1>3. buffer' \subseteq Events /\ replayKeys' \subseteq Events
  BY <1>0 DEF FaultStep, InfrastructureError, DropFails, ReplicaDies, ReleaseFails, ClearFails,
     BufferExpires
<1>4. ASSUME NEW r \in Requests, InfrastructureError(r) \/ DropFails(r)
      PROVE  RequestsTyped'
  <2>1. {"releaseKey", Drained(r)} \subseteq Labels
    BY DEF Labels, Drained
  <2>2. ~At(r, "idle") /\ (Done(r) \/ Goto(r, "releaseKey") \/ Goto(r, Drained(r)))
    BY <1>4 DEF InfrastructureError, DropFails, At
  <2> QED BY <1>0, <2>1, <2>2, DoneTyped, GotoTyped
<1>5. ASSUME NEW r \in Requests, ReleaseFails(r) \/ ClearFails(r)
      PROVE  RequestsTyped'
  <2>1. Done(r)
    BY <1>5 DEF ReleaseFails, ClearFails
  <2> QED BY <1>0, <2>1, DoneTyped
<1>6. ASSUME NEW dead, ReplicaDies(dead)
      PROVE  Typed'
  <2>1. Idle \in Request /\ Idle.pc = "idle"
    BY IdleLegal DEF Legal, Idle
  <2> QED BY <1>1, <1>2, <1>3, <1>6, <2>1
          DEF ReplicaDies, RequestsTyped, PostsCarryEvents, At, Requests, Typed, StoresTyped
<1>7. CASE BufferExpires
  BY <1>0, <1>1, <1>2, <1>3, <1>7
     DEF BufferExpires, RequestsTyped, PostsCarryEvents, At, Typed, StoresTyped
<1> QED BY <1>1, <1>2, <1>3, <1>4, <1>5, <1>6, <1>7 DEF FaultStep, Requests, Typed, StoresTyped

LEMMA NextTyped == Typed /\ [Next]_vars => Typed'
<1> SUFFICES ASSUME Typed, [Next]_vars PROVE Typed'
  OBVIOUS
<1>1. CASE UNCHANGED vars
  BY <1>1 DEF vars, Typed, StoresTyped, RequestsTyped, PostsCarryEvents, At
<1>2. ASSUME NEW r \in Requests, Step(r) PROVE Typed'
  BY <1>2, DrainStepTyped, PostStepTyped, CloserStepTyped DEF Step
<1>3. CASE SinkExpires
  BY <1>3 DEF SinkExpires, Typed, StoresTyped, RequestsTyped, PostsCarryEvents, At, RunType
<1> QED BY <1>1, <1>2, <1>3, ArrivalTyped, FaultTyped DEF Next

LEMMA AlwaysTyped == Spec => []Typed
BY InitTyped, NextTyped, PTL DEF Spec

\* Every reachable state is well typed: no interleaving takes a request out of its
\* protocol, a counter out of its range or a store away from the runner's events.
THEOREM TypeCorrect == Spec => []TypeOK
<1>1. Typed => TypeOK
  BY DEF Typed, StoresTyped, RequestsTyped, RunType, TypeOK
<1> QED BY <1>1, AlwaysTyped, PTL

-----------------------------------------------------------------------------
(* What a step may do to the row, the log and the terminal broadcast.         *)

\* The row is closed exactly when its status is terminal.
ClosedIffTerminal == run.closed <=> run.status \in Terminal

RowKept ==
  /\ run'.status = run.status /\ run'.last = run.last /\ run'.closed = run.closed
  /\ runLog' = runLog

Claims(r) == ~At(r, "idle") /\ Claim(r)

Closes(c) == CloseSink(c) /\ ~run.closed

LEMMA RowStep ==
  ASSUME Typed, [Next]_vars
  PROVE  RowKept \/ (\E r \in Requests : Claims(r)) \/ (\E c \in Closers : Closes(c))
<1>1. CASE UNCHANGED vars
  BY <1>1 DEF vars, RowKept
<1>2. ASSUME NEW r \in Requests, DrainStep(r)
      PROVE  RowKept \/ Claims(r)
  <2>1. CASE PersistEventAndAdvance(r) \/ PersistPlaceholder(r)
    BY <2>1 DEF PersistEventAndAdvance, PersistPlaceholder, Claims, At
  <2>2. CASE RefuseRow(r) \/ LoseClaim(r) \/ RereadAfterLoss(r) \/ AnnounceStarted(r)
             \/ PeekLowest(r) \/ DropBufferedEvent(r) \/ RefreshSequence(r)
    BY <2>2 DEF RefuseRow, LoseClaim, RereadAfterLoss, AnnounceStarted, PeekLowest,
                DropBufferedEvent, RefreshSequence, RowKept
  <2> QED BY <1>2, <2>1, <2>2 DEF DrainStep
<1>3. ASSUME NEW p \in Posts, PostStep(p)
      PROVE  RowKept
  BY <1>3 DEF PostStep, IngestRunEvent, BufferEvent, SyncBeforeDrain, Reply, ReleaseReplayKey,
              RowKept
<1>4. ASSUME NEW c \in Closers, CloserStep(c)
      PROVE  RowKept \/ Closes(c)
  BY <1>4 DEF CloserStep, WriteTerminalLedger, CloseSink, BroadcastTerminal, ClearBuffer,
              RowKept, Closes
<1>5. CASE Arrival
  BY <1>5 DEF Arrival, VerifyRunSignature, StartFinalize, RowKept
<1>6. CASE FaultStep
  BY <1>6 DEF FaultStep, InfrastructureError, DropFails, ReplicaDies, ReleaseFails, ClearFails,
     BufferExpires, RowKept
<1>7. CASE SinkExpires
  BY <1>7 DEF SinkExpires, RowKept, Typed, StoresTyped, RunType
<1> QED BY <1>1, <1>2, <1>3, <1>4, <1>5, <1>6, <1>7 DEF Next, Step

\* A claim stores one event, above all that are stored, in a run that is open.
LEMMA ClaimEffect ==
  ASSUME Typed, NEW r \in Requests, Claims(r)
  PROVE  /\ ~run.closed /\ run'.closed = run.closed
         /\ request[r].head \in Events /\ run.last < request[r].head
         /\ run'.last = request[r].head
         /\ run'.status \in {run.status, "running"}
         /\ run.status \in Active => run'.status \in Active
         /\ run.status \notin Active => run'.status = run.status
         /\ runLog' = Append(runLog, request[r].head)
         /\ broadcasts' = broadcasts
<1>1. request[r].head \in Events /\ run \in RunType /\ run.last \in 0..MaxSequence
  BY ClaimTyped DEF Claims, Typed, StoresTyped, RunType
<1>2. run.last < request[r].head
  BY <1>1, BoundsAssumption DEF Claims, Claim, Claimable, Events
<1> QED BY <1>1, <1>2 DEF Claims, Claim, Claimable, RunType, Active

LEMMA CloseEffect ==
  ASSUME Typed, NEW c \in Closers, Closes(c)
  PROVE  /\ ~run.closed /\ run'.closed /\ run'.last = run.last /\ run'.status \in Terminal
         /\ runLog' = runLog /\ broadcasts' = broadcasts
BY DEF Closes, CloseSink, Typed, StoresTyped, RunType

LEMMA RowInvariants ==
  ASSUME Typed, ClosedIffTerminal, LogFollowsCounter, [Next]_vars
  PROVE  ClosedIffTerminal' /\ LogFollowsCounter'
<1>1. CASE RowKept
  BY <1>1 DEF RowKept, ClosedIffTerminal, LogFollowsCounter
<1>2. ASSUME NEW r \in Requests, Claims(r)
      PROVE  ClosedIffTerminal' /\ LogFollowsCounter'
  <2> DEFINE s == request[r].head
  <2>1. ClosedIffTerminal'
    BY <1>2, ClaimEffect, StatusAssumption DEF ClosedIffTerminal, Typed, StoresTyped, RunType
  <2>2. runLog \in Seq(Events) /\ s \in Events /\ runLog' = Append(runLog, s)
        /\ run'.last = s /\ run.last < s /\ run.last \in 0..MaxSequence
    BY <1>2, ClaimEffect DEF Typed, StoresTyped, RunType
  <2>3. \A i \in DOMAIN runLog : runLog[i] <= run.last /\ runLog[i] \in Events
    <3>1. CASE runLog = <<>>
      BY <3>1
    <3>2. CASE runLog # <<>>
      BY <2>2, <3>2, BoundsAssumption DEF LogFollowsCounter, Events
    <3> QED BY <3>1, <3>2
  <2> HIDE DEF s
  <2>4. \A i, j \in DOMAIN runLog' : i < j => runLog'[i] < runLog'[j]
    BY <2>2, <2>3, BoundsAssumption DEF LogFollowsCounter, Events
  <2>5. runLog' # <<>> /\ runLog'[Len(runLog')] = s
    BY <2>2
  <2> QED BY <2>1, <2>2, <2>4, <2>5 DEF LogFollowsCounter
<1>3. ASSUME NEW c \in Closers, Closes(c)
      PROVE  ClosedIffTerminal' /\ LogFollowsCounter'
  BY <1>3, CloseEffect DEF ClosedIffTerminal, LogFollowsCounter
<1> QED BY <1>1, <1>2, <1>3, RowStep

LEMMA AlwaysRow == Spec => [](Typed /\ ClosedIffTerminal /\ LogFollowsCounter)
<1>1. Init => ClosedIffTerminal /\ LogFollowsCounter
  BY StatusAssumption DEF Init, ClosedIffTerminal, LogFollowsCounter, Active
<1> QED BY <1>1, InitTyped, NextTyped, RowInvariants, PTL DEF Spec

\* The log is in emission order without a repetition and the counter is its last
\* entry, for any number of racing requests and any faults.
THEOREM LogOrdered == Spec => []LogFollowsCounter
BY AlwaysRow, PTL

\* No step of a request that outlived the close changes the closed run.
THEOREM ClosedStaysFrozen == Spec => ClosedRunIsFrozen
<1>1. Typed /\ [Next]_vars =>
        [run.closed => /\ run'.closed /\ run'.status = run.status
                       /\ run'.last = run.last /\ runLog' = runLog]_vars
  <2> SUFFICES ASSUME Typed, [Next]_vars, run.closed
               PROVE  /\ run'.closed /\ run'.status = run.status
                      /\ run'.last = run.last /\ runLog' = runLog
    OBVIOUS
  <2>1. RowKept
    BY RowStep, ClaimEffect, CloseEffect
  <2> QED BY <2>1 DEF RowKept
<1> QED BY <1>1, AlwaysTyped, PTL DEF Spec, ClosedRunIsFrozen
-----------------------------------------------------------------------------
(* The terminal broadcast.                                                    *)

\* No closer comes to its broadcast by this step.
NoneEnters == \A c \in Closers : At(c, "broadcast")' => At(c, "broadcast")

LEMMA BecomesElsewhere ==
  ASSUME RequestsTyped, NEW r \in Requests, NEW q, Becomes(r, q), q.pc # "broadcast"
  PROVE  NoneEnters
BY DEF NoneEnters, RequestsTyped, Becomes, At, Requests

LEMMA GotoElsewhere ==
  ASSUME RequestsTyped, NEW r \in Requests, NEW label, label # "broadcast",
         \/ Goto(r, label)
         \/ \E last : GotoSeeing(r, label, last)
         \/ \E head : GotoFor(r, label, head)
  PROVE  NoneEnters
<1>1. request[r] \in Request
  BY DEF RequestsTyped
<1>2. [request[r] EXCEPT !.pc = label].pc = label
      /\ (\A last : [request[r] EXCEPT !.pc = label, !.last = last].pc = label)
      /\ (\A head : [request[r] EXCEPT !.pc = label, !.head = head].pc = label)
  BY <1>1 DEF Request
<1> QED BY <1>2, BecomesElsewhere DEF Goto, GotoSeeing, GotoFor

LEMMA DoneElsewhere ==
  ASSUME RequestsTyped, NEW r \in Requests, Done(r)
  PROVE  NoneEnters
BY BecomesElsewhere DEF Done, Idle

LEMMA StoredElsewhere ==
  ASSUME NEW q \in Request
  PROVE  Stored(q).pc \in {"peek", "drop"}
BY DEF Stored, Request

LEMMA DrainStepElsewhere ==
  ASSUME Typed, NEW r \in Requests, DrainStep(r)
  PROVE  NoneEnters /\ broadcasts'.terminal = broadcasts.terminal
<1>0. RequestsTyped /\ request[r] \in Request /\ run.last \in 0..MaxSequence
  BY DEF Typed, RequestsTyped, StoresTyped, RunType
<1>1. broadcasts'.terminal = broadcasts.terminal
  BY DEF DrainStep, PersistEventAndAdvance, RefuseRow, PersistPlaceholder, Claim, LoseClaim,
     RereadAfterLoss, AnnounceStarted, PeekLowest, DropBufferedEvent, RefreshSequence,
     Typed, StoresTyped
<1>2. CASE PersistEventAndAdvance(r) \/ PersistPlaceholder(r)
  <2> DEFINE t == [request[r] EXCEPT !.last = request[r].head]
             u == [request[r] EXCEPT !.last = request[r].head, !.pc = "announce"]
  <2>1. Becomes(r, u) \/ Becomes(r, Stored(t))
    BY <1>2 DEF PersistEventAndAdvance, PersistPlaceholder, Claim
  <2>2. t \in Request /\ u.pc = "announce"
    BY <1>0 DEF Request
  <2>3. Stored(t).pc # "broadcast" /\ u.pc # "broadcast"
    BY <2>2, StoredElsewhere
  <2> QED BY <1>0, <1>1, <2>1, <2>3, BecomesElsewhere
<1>3. CASE RereadAfterLoss(r)
  <2> DEFINE t == [request[r] EXCEPT !.last = Later(request[r].last, run.last)]
  <2>1. t \in Request
    BY <1>0, SeenTyped DEF Later, Request
  <2>2. Stored(t).pc # "broadcast" /\ Drained(r) # "broadcast"
    BY <2>1, StoredElsewhere DEF Drained
  <2>3. Goto(r, "releaseGone") \/ Goto(r, Drained(r)) \/ Becomes(r, Stored(t))
    BY <1>3 DEF RereadAfterLoss
  <2> QED BY <1>0, <1>1, <2>2, <2>3, BecomesElsewhere, GotoElsewhere
<1>4. CASE AnnounceStarted(r)
  <2>1. Stored(request[r]).pc # "broadcast" /\ Becomes(r, Stored(request[r]))
    BY <1>0, <1>4, StoredElsewhere DEF AnnounceStarted
  <2> QED BY <1>0, <1>1, <2>1, BecomesElsewhere
<1>5. CASE RefuseRow(r) \/ LoseClaim(r) \/ PeekLowest(r) \/ DropBufferedEvent(r)
           \/ RefreshSequence(r)
  <2>1. Drained(r) # "broadcast"
    BY DEF Drained
  <2>2. \E label \in {"placeholder", "reread", "drop", "persist", "refresh", "peek", Drained(r)} :
          \/ Goto(r, label)
          \/ \E last : GotoSeeing(r, label, last)
          \/ \E head : GotoFor(r, label, head)
    BY <1>5 DEF RefuseRow, LoseClaim, PeekLowest, DropBufferedEvent, RefreshSequence
  <2> QED BY <1>0, <1>1, <2>1, <2>2, GotoElsewhere
<1> QED BY <1>2, <1>3, <1>4, <1>5 DEF DrainStep

LEMMA PostStepElsewhere ==
  ASSUME Typed, NEW p \in Posts, PostStep(p)
  PROVE  NoneEnters /\ broadcasts' = broadcasts
<1>0. RequestsTyped /\ p \in Requests /\ request[p] \in Request
  BY DEF Typed, RequestsTyped, Requests
<1>1. broadcasts' = broadcasts
  BY DEF PostStep, IngestRunEvent, BufferEvent, SyncBeforeDrain, Reply, ReleaseReplayKey
<1>2. CASE BufferEvent(p)
  <2> DEFINE label == IF request[p].seq \in TerminalEvents THEN "peek" ELSE "sync"
             mode == IF request[p].seq \in TerminalEvents THEN "flush" ELSE "drain"
             q == [request[p] EXCEPT !.pc = label, !.mode = mode]
  <2>1. Becomes(p, q) /\ label # "broadcast"
    BY <1>2 DEF BufferEvent
  <2> HIDE DEF label, mode
  <2>2. q.pc = label
    BY <1>0 DEF Request
  <2> QED BY <1>0, <1>1, <2>1, <2>2, BecomesElsewhere
<1>3. CASE IngestRunEvent(p) \/ SyncBeforeDrain(p) \/ Reply(p) \/ ReleaseReplayKey(p)
  <2>1. Done(p) \/ Goto(p, "persist") \/ Goto(p, "put") \/ \E last : GotoSeeing(p, "peek", last)
    BY <1>3 DEF IngestRunEvent, Route, SyncBeforeDrain, Reply, ReleaseReplayKey
  <2> QED BY <1>0, <1>1, <2>1, DoneElsewhere, GotoElsewhere
<1> QED BY <1>2, <1>3 DEF PostStep

LEMMA OutsideElsewhere ==
  ASSUME Typed, Arrival \/ FaultStep \/ SinkExpires
  PROVE  NoneEnters /\ broadcasts' = broadcasts
<1>0. RequestsTyped
  BY DEF Typed
<1>1. CASE Arrival
  <2>1. ASSUME NEW p \in Posts, NEW s \in Events, VerifyRunSignature(p, s)
        PROVE  NoneEnters
    BY <1>0, <2>1, BecomesElsewhere DEF VerifyRunSignature, Requests
  <2>2. ASSUME NEW c \in Closers, StartFinalize(c)
        PROVE  NoneEnters
    BY <1>0, <2>2, BecomesElsewhere DEF StartFinalize, Requests, Idle
  <2> QED BY <1>1, <2>1, <2>2 DEF Arrival, VerifyRunSignature, StartFinalize
<1>2. CASE FaultStep
  <2>1. broadcasts' = broadcasts
    BY <1>2 DEF FaultStep, InfrastructureError, DropFails, ReplicaDies, ReleaseFails, ClearFails,
                BufferExpires
  <2>2. \/ \E r \in Requests : Done(r) \/ Goto(r, "releaseKey") \/ Goto(r, Drained(r))
        \/ (\E dead : ReplicaDies(dead)) \/ BufferExpires
    BY <1>2 DEF FaultStep, InfrastructureError, DropFails, ReleaseFails, ClearFails, Requests
  <2>3. ASSUME NEW r \in Requests, Done(r) \/ Goto(r, "releaseKey") \/ Goto(r, Drained(r))
        PROVE  NoneEnters
    <3>1. Drained(r) # "broadcast"
      BY DEF Drained
    <3> QED BY <1>0, <2>3, <3>1, DoneElsewhere, GotoElsewhere
  <2>4. CASE (\E dead : ReplicaDies(dead)) \/ BufferExpires
    BY <2>4 DEF ReplicaDies, BufferExpires, NoneEnters, At, Idle, Requests
  <2> QED BY <2>1, <2>2, <2>3, <2>4
<1>3. CASE SinkExpires
  BY <1>3 DEF SinkExpires, NoneEnters, At
<1> QED BY <1>1, <1>2, <1>3

\* A closer comes to its broadcast by closing the run; the log of broadcasts grows
\* only by a closer that leaves its broadcast.
LEMMA BroadcastStep ==
  ASSUME Typed, [Next]_vars
  PROVE  \/ NoneEnters /\ broadcasts'.terminal = broadcasts.terminal
         \/ \E c \in Closers : Closes(c) \/ BroadcastTerminal(c)
<1>1. CASE UNCHANGED vars
  BY <1>1 DEF vars, NoneEnters, At
<1>2. ASSUME NEW c \in Closers, CloserStep(c)
      PROVE  \/ NoneEnters /\ broadcasts'.terminal = broadcasts.terminal
             \/ Closes(c) \/ BroadcastTerminal(c)
  <2>0. RequestsTyped /\ c \in Requests
    BY DEF Typed, Requests
  <2>1. CASE WriteTerminalLedger(c) \/ ClearBuffer(c) \/ (CloseSink(c) /\ run.closed)
    <3>1. Goto(c, "close") \/ Done(c)
      BY <2>1 DEF WriteTerminalLedger, ClearBuffer, CloseSink
    <3>2. broadcasts' = broadcasts
      BY <2>1 DEF WriteTerminalLedger, ClearBuffer, CloseSink
    <3> QED BY <2>0, <3>1, <3>2, DoneElsewhere, GotoElsewhere
  <2> QED BY <1>2, <2>1 DEF CloserStep, Closes
<1> QED BY <1>1, <1>2, DrainStepElsewhere, PostStepElsewhere, OutsideElsewhere DEF Next, Step

LEMMA BroadcastKept ==
  ASSUME Typed, ClosedIffTerminal, OneTerminalBroadcast, [Next]_vars
  PROVE  OneTerminalBroadcast'
<1>0. run.closed => run'.closed /\ run'.status = run.status
  BY RowStep, ClaimEffect, CloseEffect DEF RowKept
<1>1. CASE NoneEnters /\ broadcasts'.terminal = broadcasts.terminal
  BY <1>0, <1>1 DEF NoneEnters, OneTerminalBroadcast
<1>2. ASSUME NEW c \in Closers, Closes(c)
      PROVE  OneTerminalBroadcast'
  <2>1. ~run.closed /\ run'.closed /\ broadcasts' = broadcasts
    BY <1>2, CloseEffect
  <2>2. \A d \in Closers : At(d, "broadcast")' => d = c
    BY <1>2, <2>1 DEF OneTerminalBroadcast, Closes, CloseSink, Goto, Becomes, At, Typed,
                      RequestsTyped, Requests
  <2> QED BY <2>1, <2>2 DEF OneTerminalBroadcast
<1>3. ASSUME NEW c \in Closers, BroadcastTerminal(c)
      PROVE  OneTerminalBroadcast'
  <2>1. run.closed /\ broadcasts.terminal = <<>> /\ run' = run
    BY <1>3 DEF OneTerminalBroadcast, BroadcastTerminal
  <2>2. broadcasts'.terminal = <<run.status>>
    BY <1>3, <2>1 DEF BroadcastTerminal, Typed, StoresTyped
  <2>3. \A d \in Closers : ~At(d, "broadcast")'
    <3>1. request[c] \in Request /\ request \in [Requests -> Request] /\ c \in Requests
      BY DEF Typed, RequestsTyped, Requests
    <3>2. request' = [request EXCEPT ![c] = [request[c] EXCEPT !.pc = "clear"]]
      BY <1>3 DEF BroadcastTerminal, Goto, Becomes
    <3>3. request'[c].pc = "clear"
      BY <3>1, <3>2 DEF Request
    <3>4. \A d \in Closers : d # c => request'[d] = request[d] /\ ~At(d, "broadcast")
      BY <1>3, <3>1, <3>2 DEF OneTerminalBroadcast, BroadcastTerminal, Requests
    <3> QED BY <3>3, <3>4 DEF At
  <2> QED BY <2>1, <2>2, <2>3 DEF OneTerminalBroadcast
<1> QED BY <1>1, <1>2, <1>3, BroadcastStep

\* What the refinement needs of a reachable state.
RunInv == Typed /\ ClosedIffTerminal /\ LogFollowsCounter /\ OneTerminalBroadcast

LEMMA AlwaysRunInv == Spec => []RunInv
<1>1. Init => OneTerminalBroadcast
  BY DEF Init, OneTerminalBroadcast, At, Idle, Requests
<1> QED BY <1>1, AlwaysRow, BroadcastKept, PTL DEF Spec, RunInv

\* Of any number of racing finalizeRun calls one announces the outcome, once, and
\* the outcome is the one in the row.
THEOREM AnnouncedOnce == Spec => []OneTerminalBroadcast
BY AlwaysRunInv, PTL DEF RunInv

-----------------------------------------------------------------------------
(* The ingestion implements the run record.                                   *)

LEMMA RecordStep ==
  ASSUME RunInv, [Next]_vars
  PROVE  [Promise!RecordNext]_(Promise!recordVars)
<1>0. Typed /\ run \in RunType /\ ClosedIffTerminal
  BY DEF RunInv, Typed, StoresTyped
<1>1. ASSUME NEW c \in Closers, BroadcastTerminal(c)
      PROVE  Promise!Announce
  <2>1. run.closed /\ broadcasts.terminal = <<>> /\ run.status \in Terminal
    BY <1>0, <1>1 DEF RunInv, OneTerminalBroadcast, BroadcastTerminal, ClosedIffTerminal
  <2>2. broadcasts'.terminal = <<run.status>>
    BY <1>0, <1>1, <2>1 DEF BroadcastTerminal, Typed, StoresTyped
  <2>3. UNCHANGED <<run, runLog>>
    BY <1>1 DEF BroadcastTerminal
  <2> QED BY <2>1, <2>2, <2>3 DEF Promise!Announce, Promise!Open
<1>2. ASSUME NEW c \in Closers, Closes(c)
      PROVE  \E verdict \in Terminal : Promise!Conclude(verdict)
  <2>1. Promise!Conclude(run'.status) /\ run'.status \in Terminal
    BY <1>0, <1>2, CloseEffect DEF Promise!Conclude, Promise!Open, ClosedIffTerminal
  <2> QED BY <2>1
<1>3. ASSUME NEW r \in Requests, Claims(r)
      PROVE  \E s \in Events : Promise!Record(s)
  <2>1. Promise!Record(request[r].head) /\ request[r].head \in Events
    BY <1>0, <1>3, ClaimEffect, BoundsAssumption
       DEF Promise!Record, Promise!Open, ClosedIffTerminal, RunType, Events
  <2> QED BY <2>1
<1>4. CASE RowKept /\ broadcasts'.terminal = broadcasts.terminal
  BY <1>4 DEF RowKept, Promise!recordVars
<1> QED BY <1>0, <1>1, <1>2, <1>3, <1>4, RowStep, BroadcastStep DEF Promise!RecordNext

\* Every behaviour of the ingestion, seen through the row, the log and the terminal
\* broadcast, is one of RunRecord.
THEOREM Implementation == Spec => ImplementsRunRecord
<1>1. Init => Promise!RecordInit
  BY DEF Init, Promise!RecordInit
<1> QED BY <1>1, RecordStep, AlwaysRunInv, PTL DEF Spec, ImplementsRunRecord, Promise!RecordSpec
=============================================================================
