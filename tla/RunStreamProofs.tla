---------------------------- MODULE RunStreamProofs ----------------------------
(***************************************************************************)
(* What TLAPS proves of RunStream.  Every step of the stream is a step of   *)
(* the ingestion or leaves it alone, so whatever is proved of RunIngestion  *)
(* holds under the runner's sink as well; on top of it come the promises to *)
(* the runner: what it was told is delivered is kept, a result accepted is  *)
(* a run closed, and the run its finalize closes is complete.              *)
(***************************************************************************)
EXTENDS RunStream, RunBufferProofs

-----------------------------------------------------------------------------
(* The stream implements the ingestion.                                       *)

LEMMA StreamStep == [StreamNext]_streamVars => [Next]_vars
<1> SUFFICES ASSUME [StreamNext]_streamVars PROVE [Next]_vars
  OBVIOUS
<1>0. Posts \cup Finalizers \subseteq Requests /\ Closers \subseteq Requests
  BY StreamAssumption DEF Requests
<1>1. CASE UNCHANGED streamVars
  BY <1>1 DEF streamVars
<1>2. ASSUME NEW m, Post(m) \/ Refuse(m) \/ RequestLost(m) PROVE UNCHANGED vars
  BY <1>2 DEF Post, Refuse, RequestLost
<1>3. CASE (\E s \in Events : Handle(s)) \/ Finalize \/ (\E m \in Messages : Retry(m) \/ RequestLost(m))
  BY <1>2, <1>3 DEF Handle, Finalize, Retry
<1>4. ASSUME NEW m \in Messages, Arrive(m) PROVE [Next]_vars
  <2>1. CASE Refuse(m)
    BY <1>2, <2>1
  <2>2. CASE ~Refuse(m)
    <3>1. (\E p \in Posts : m \in Events /\ VerifyRunSignature(p, m))
          \/ (\E c \in Finalizers : StartFinalize(c))
      BY <1>4, <2>2 DEF Arrive, ArriveEvent, ArriveResult
    <3>2. Arrival
      BY <3>1, StreamAssumption DEF Arrival
    <3> QED BY <3>2 DEF Next
  <2> QED BY <2>1, <2>2
<1>5. ASSUME NEW r \in Posts \cup Finalizers,
             Serve(r) \/ ServeBestEffort(r) \/ ServeFault(r) \/ AnswerLost(r)
      PROVE  [Next]_vars
  <2>0. r \in Requests /\ (r \notin Posts => r \in Closers)
    BY <1>0, StreamAssumption
  <2>1. CASE AnswerLost(r)
    BY <2>1 DEF AnswerLost
  <2>2. CASE Serve(r)
    BY <2>0, <2>2 DEF Serve, Next
  <2>3. CASE ServeBestEffort(r) \/ ServeFault(r)
    BY <2>0, <2>3 DEF ServeBestEffort, ServeFault, FaultStep, Next
  <2> QED BY <1>5, <2>1, <2>2, <2>3
<1>6. CASE PlatformCloses
  BY <1>0, <1>6 DEF PlatformCloses, Arrival, FaultStep, Next
<1>7. CASE (\E dead \in SUBSET Requests : ServerDies(dead)) \/ BufferExpires
  BY <1>7 DEF ServerDies, FaultStep, Next
<1> QED BY <1>1, <1>3, <1>4, <1>5, <1>6, <1>7 DEF StreamNext

\* Whatever the sink and the network do, the platform sees no behaviour that the
\* ingestion alone does not have: its theorems hold of the stream.
THEOREM StreamIsIngestion == StreamSpec => Spec
<1>1. StreamInit => Init
  BY DEF StreamInit
<1> QED BY <1>1, StreamStep, PTL DEF StreamSpec, Spec

-----------------------------------------------------------------------------
(* Type correctness.                                                          *)

SinkTyped ==
  /\ delivery \in [Messages -> Deliveries]
  /\ attempts \in [Messages -> 0..MaxAttempts]
  /\ waiting \subseteq Posts \cup Finalizers
  /\ losses \in [requests: 0..MaxLosses.requests, answers: 0..MaxLosses.answers]

\* An attempt is left for whatever is about to be posted.
AttemptsLeft ==
  \A m \in Messages : /\ delivery[m] = "unsent" => attempts[m] = 0
                      /\ delivery[m] = "backoff" => attempts[m] < MaxAttempts

SinkInv == SinkTyped /\ AttemptsLeft

LEMMA MessagesAre == Messages = 0..MaxSequence /\ Result \in Messages /\ Events \subseteq Messages
                     /\ Result \notin Events
BY BoundsAssumption DEF Messages, Result, Events

LEMMA MessageTyped ==
  ASSUME Typed, NEW r \in Requests
  PROVE  Message(r) \in Messages
BY MessagesAre DEF Typed, RequestsTyped, Request, Message

LEMMA AfterFailureIs ==
  ASSUME NEW m \in Messages
  PROVE  /\ AfterFailure(m) \in {"backoff", "gaveUp"}
         /\ AfterFailure(m) = "backoff" => attempts[m] < MaxAttempts
BY DEF AfterFailure

\* A step that settles or reopens one message and makes no attempt.
LEMMA DeliveryChanged ==
  ASSUME SinkInv, SinkTyped', attempts' = attempts,
         \A m \in Messages :
           \/ delivery'[m] = delivery[m]
           \/ delivery'[m] \in {"open", "delivered", "refused"}
           \/ delivery'[m] = AfterFailure(m)
  PROVE  SinkInv'
BY AfterFailureIs DEF SinkInv, AttemptsLeft

LEMMA PostTyped ==
  ASSUME SinkInv, NEW m \in Messages, delivery[m] \in {"unsent", "backoff"}, Post(m)
  PROVE  SinkInv'
<1>1. attempts[m] \in 0..MaxAttempts /\ attempts[m] < MaxAttempts /\ MaxAttempts \in Nat
  BY StreamAssumption DEF SinkInv, SinkTyped, AttemptsLeft
<1>2. attempts' \in [Messages -> 0..MaxAttempts] /\ delivery' \in [Messages -> Deliveries]
  BY <1>1 DEF Post, SinkInv, SinkTyped, Deliveries
<1>3. AttemptsLeft'
  BY DEF Post, SinkInv, SinkTyped, AttemptsLeft
<1> QED BY <1>2, <1>3 DEF Post, SinkInv, SinkTyped

LEMMA AnswerTyped ==
  ASSUME Typed, SinkInv, NEW r \in Requests, NEW verdict,
         verdict \in {"delivered", "refused"} \/ verdict = AfterFailure(Message(r)),
         Answer(r, verdict)
  PROVE  SinkInv'
<1>1. Message(r) \in Messages
  BY MessageTyped
<1>2. verdict \in Deliveries
  BY <1>1, AfterFailureIs DEF Deliveries, Settled
<1>3. SinkTyped'
  BY <1>1, <1>2 DEF Answer, SinkInv, SinkTyped
<1>4. \A m \in Messages : \/ delivery'[m] = delivery[m]
                          \/ delivery'[m] \in {"open", "delivered", "refused"}
                          \/ delivery'[m] = AfterFailure(m)
  BY <1>1 DEF Answer, SinkInv, SinkTyped
<1> QED BY <1>3, <1>4, DeliveryChanged DEF Answer

LEMMA VerdictIs ==
  ASSUME NEW r
  PROVE  Verdict(r) \in {"delivered", "refused"} \/ Verdict(r) = AfterFailure(Message(r))
BY DEF Verdict

LEMMA LossTyped ==
  ASSUME SinkTyped, NEW kind \in {"requests", "answers"}, Loss(kind)
  PROVE  losses' \in [requests: 0..MaxLosses.requests, answers: 0..MaxLosses.answers]
BY StreamAssumption DEF Loss, SinkTyped

LEMMA SinkKept ==
  ASSUME Typed, SinkInv, [StreamNext]_streamVars
  PROVE  SinkInv'
<1>0. Posts \cup Finalizers \subseteq Requests /\ Events \subseteq Messages /\ Result \in Messages
  BY StreamAssumption, MessagesAre DEF Requests
<1>1. CASE UNCHANGED sinkVars
  BY <1>1 DEF sinkVars, SinkInv, SinkTyped, AttemptsLeft
<1>2. CASE (\E s \in Events : Handle(s)) \/ Finalize \/ (\E m \in Messages : Retry(m))
  BY <1>0, <1>2, PostTyped DEF Handle, Finalize, Retry
<1>3. ASSUME NEW m \in Messages, NEW r \in Posts \cup Finalizers, Admitted(r, m)
      PROVE  SinkInv'
  <2>1. SinkTyped'
    BY <1>3 DEF Admitted, SinkInv, SinkTyped, Deliveries
  <2>2. attempts' = attempts /\ \A n \in Messages : delivery'[n] \in {delivery[n], "open"}
    BY <1>3 DEF Admitted, SinkInv, SinkTyped
  <2> QED BY <2>1, <2>2, DeliveryChanged
<1>4. ASSUME NEW m \in Messages, Refuse(m) \/ RequestLost(m)
      PROVE  SinkInv'
  <2>1. losses' \in [requests: 0..MaxLosses.requests, answers: 0..MaxLosses.answers]
    BY <1>4, LossTyped DEF Refuse, RequestLost, SinkInv, SinkTyped
  <2>2. SinkTyped'
    BY <1>4, <2>1, AfterFailureIs DEF Refuse, RequestLost, SinkInv, SinkTyped, Deliveries, Settled
  <2>3. attempts' = attempts
        /\ \A n \in Messages : delivery'[n] \in {delivery[n], "refused", AfterFailure(n)}
    BY <1>4 DEF Refuse, RequestLost, SinkInv, SinkTyped
  <2> QED BY <2>2, <2>3, DeliveryChanged
<1>5. ASSUME NEW r \in Posts \cup Finalizers,
             Serve(r) \/ ServeBestEffort(r) \/ ServeFault(r)
      PROVE  SinkInv'
  <2>1. \/ UNCHANGED sinkVars
        \/ \E verdict : /\ Answer(r, verdict)
                        /\ verdict \in {"delivered", "refused"} \/ verdict = AfterFailure(Message(r))
    BY <1>5, VerdictIs DEF Serve, ServeBestEffort, ServeFault
  <2> QED BY <1>0, <1>1, <2>1, AnswerTyped
<1>6. ASSUME NEW r \in Posts \cup Finalizers, AnswerLost(r)
      PROVE  SinkInv'
  <2>0. Message(r) \in Messages
    BY <1>0, MessageTyped
  <2>1. losses' \in [requests: 0..MaxLosses.requests, answers: 0..MaxLosses.answers]
    BY <1>6, LossTyped DEF AnswerLost, SinkInv
  <2>2. SinkTyped'
    BY <1>6, <2>0, <2>1, AfterFailureIs DEF AnswerLost, SinkInv, SinkTyped, Deliveries, Settled
  <2>3. attempts' = attempts
        /\ \A n \in Messages : delivery'[n] \in {delivery[n], AfterFailure(n)}
    BY <1>6, <2>0 DEF AnswerLost, SinkInv, SinkTyped
  <2> QED BY <2>2, <2>3, DeliveryChanged
<1>7. ASSUME NEW dead \in SUBSET Requests, ServerDies(dead)
      PROVE  SinkInv'
  <2>1. SinkTyped'
    BY <1>7, AfterFailureIs DEF ServerDies, SinkInv, SinkTyped, Deliveries, Settled
  <2>2. attempts' = attempts
        /\ \A n \in Messages : delivery'[n] \in {delivery[n], AfterFailure(n)}
    BY <1>7 DEF ServerDies, SinkInv, SinkTyped
  <2> QED BY <2>1, <2>2, DeliveryChanged
<1>8. CASE PlatformCloses \/ (BufferExpires /\ UNCHANGED sinkVars) \/ UNCHANGED streamVars
  BY <1>1, <1>8 DEF PlatformCloses, streamVars
<1> QED BY <1>0, <1>2, <1>3, <1>4, <1>5, <1>6, <1>7, <1>8
        DEF StreamNext, Arrive, ArriveEvent, ArriveResult

LEMMA AlwaysSink == StreamSpec => []SinkInv
<1>1. StreamInit => SinkInv
  BY StreamAssumption DEF StreamInit, SinkInv, SinkTyped, AttemptsLeft, Deliveries
<1> QED BY <1>1, SinkKept, StreamIsIngestion, AlwaysTyped, PTL DEF StreamSpec

\* The sink posts no message more often than it has attempts, every answer goes to a
\* message that waits for one, and the platform stays well typed under it.
THEOREM StreamTypeCorrect == StreamSpec => []StreamTypeOK
<1>1. TypeOK /\ SinkInv => StreamTypeOK
  BY DEF SinkInv, SinkTyped, StreamTypeOK
<1> QED BY <1>1, AlwaysSink, StreamIsIngestion, TypeCorrect, PTL

-----------------------------------------------------------------------------
(* The requests whose answer still has a reader.                              *)

\* A slot with a reader is busy, its message is open, and no other slot has a reader
\* for the same message.  finalizeRun carries no sequence: it serves the result.
WaitingServed ==
  /\ \A r \in waiting : request[r].pc # "idle" /\ delivery[Message(r)] = "open"
  /\ \A r, u \in waiting : Message(r) = Message(u) => r = u
  /\ \A c \in Closers : Message(c) = Result

\* What a step does to its request: it ends, or goes on with the same message.
Served(r) ==
  /\ OthersStay(r) /\ request[r].pc # "idle"
  /\ \/ request'[r] = Idle
     \/ request'[r].pc # "idle" /\ request'[r].seq = request[r].seq

LEMMA GotoServed ==
  ASSUME Typed, NEW r \in Requests, request[r].pc # "idle", NEW label, label # "idle",
         \/ Goto(r, label)
         \/ \E last : GotoSeeing(r, label, last)
         \/ \E head : GotoFor(r, label, head)
  PROVE  Served(r) /\ request'[r].pc # "idle"
BY GotoOnly, GotoSeeingOnly, GotoForOnly DEF Served

LEMMA DoneServed ==
  ASSUME Typed, NEW r \in Requests, request[r].pc # "idle", Done(r)
  PROVE  Served(r)
BY BecomesOnly DEF Done, Served

LEMMA DrainServed ==
  ASSUME Typed, NEW r \in Requests, DrainStep(r)
  PROVE  Served(r) /\ request'[r].pc # "idle"
<1> DEFINE q == request[r]
<1>1. q \in Request /\ q.pc # "idle" /\ run.last \in 0..MaxSequence
  BY DEF Typed, RequestsTyped, StoresTyped, RunType, DrainStep, PersistEventAndAdvance, RefuseRow,
     PersistPlaceholder, LoseClaim, RereadAfterLoss, AnnounceStarted, PeekLowest,
     DropBufferedEvent, RefreshSequence, At
<1>2. Drained(r) # "idle"
  BY DEF Drained
<1>3. ASSUME NEW t \in Request, t.seq = q.seq, Becomes(r, Stored(t))
      PROVE  Served(r) /\ request'[r].pc # "idle"
  <2>1. OthersStay(r) /\ request'[r] = Stored(t)
    BY <1>3, BecomesOnly
  <2>2. Stored(t).pc \in {"peek", "drop"} /\ Stored(t).seq = t.seq
    BY <1>3, StoredFields
  <2> QED BY <1>1, <1>3, <2>1, <2>2 DEF Served
<1>4. CASE Claim(r)
  <2> DEFINE t == [q EXCEPT !.last = q.head]
             u == [q EXCEPT !.last = q.head, !.pc = "announce"]
  <2>1. t \in Request /\ t.seq = q.seq /\ u.pc = "announce" /\ u.seq = q.seq
    BY <1>1 DEF Request
  <2>2. Becomes(r, u) \/ Becomes(r, Stored(t))
    BY <1>4 DEF Claim
  <2> HIDE DEF t, u
  <2>3. CASE Becomes(r, u)
    <3>1. OthersStay(r) /\ request'[r] = u
      BY <2>3, BecomesOnly
    <3> QED BY <1>1, <2>1, <3>1 DEF Served
  <2> QED BY <1>3, <2>1, <2>2, <2>3
<1>5. CASE RereadAfterLoss(r)
  <2> DEFINE t == [q EXCEPT !.last = Later(q.last, run.last)]
  <2>1. t \in Request /\ t.seq = q.seq
    BY <1>1 DEF Request, Later
  <2>2. Goto(r, "releaseGone") \/ Goto(r, Drained(r)) \/ Becomes(r, Stored(t))
    BY <1>5 DEF RereadAfterLoss
  <2> HIDE DEF t
  <2> QED BY <1>1, <1>2, <1>3, <2>1, <2>2, GotoServed
<1>6. CASE AnnounceStarted(r)
  BY <1>1, <1>3, <1>6 DEF AnnounceStarted
<1>7. CASE RefuseRow(r) \/ LoseClaim(r) \/ PeekLowest(r) \/ DropBufferedEvent(r)
           \/ RefreshSequence(r)
  <2>1. \E label \in {"placeholder", "reread", "drop", "persist", "refresh", "peek", Drained(r)} :
          \/ Goto(r, label)
          \/ \E last : GotoSeeing(r, label, last)
          \/ \E head : GotoFor(r, label, head)
    BY <1>7 DEF RefuseRow, LoseClaim, PeekLowest, DropBufferedEvent, RefreshSequence
  <2> QED BY <1>1, <1>2, <2>1, GotoServed
<1> QED BY <1>4, <1>5, <1>6, <1>7 DEF DrainStep, PersistEventAndAdvance, PersistPlaceholder

\* Only finalizeRun's last two steps, and a POST's refusal or answer, end a request.
LEMMA StepServed ==
  ASSUME Typed, NEW r \in Requests, Step(r)
  PROVE  Served(r)
<1>0. RequestsTyped /\ request[r] \in Request
  BY DEF Typed, RequestsTyped
<1>1. CASE r \in Posts /\ PostStep(r)
  <2>0. request[r].pc # "idle"
    BY <1>1 DEF PostStep, IngestRunEvent, BufferEvent, SyncBeforeDrain, Reply, ReleaseReplayKey, At
  <2>1. CASE BufferEvent(r)
    <3> DEFINE label == IF request[r].seq \in TerminalEvents THEN "peek" ELSE "sync"
               mode == IF request[r].seq \in TerminalEvents THEN "flush" ELSE "drain"
    <3>1. Becomes(r, [request[r] EXCEPT !.pc = label, !.mode = mode]) /\ label # "idle"
      BY <2>1 DEF BufferEvent
    <3> HIDE DEF label, mode
    <3>2. OthersStay(r) /\ request'[r] = [request[r] EXCEPT !.pc = label, !.mode = mode]
      BY <3>1, BecomesOnly
    <3>3. request'[r].pc = label /\ request'[r].seq = request[r].seq
      BY <1>0, <3>2 DEF Request
    <3> QED BY <2>0, <3>1, <3>2, <3>3 DEF Served
  <2>2. CASE ~BufferEvent(r)
    <3>1. \/ Done(r) \/ Goto(r, "persist") \/ Goto(r, "put")
          \/ \E last : GotoSeeing(r, "peek", last)
      BY <1>1, <2>2 DEF PostStep, IngestRunEvent, Route, SyncBeforeDrain, Reply, ReleaseReplayKey
    <3> QED BY <2>0, <3>1, DoneServed, GotoServed
  <2> QED BY <2>1, <2>2
<1>2. CASE r \in Closers /\ CloserStep(r)
  <2>1. request[r].pc # "idle"
        /\ (Done(r) \/ \E label \in {"close", "broadcast", "clear"} : Goto(r, label))
    BY <1>2 DEF CloserStep, WriteTerminalLedger, CloseSink, BroadcastTerminal, ClearBuffer, At
  <2> QED BY <2>1, DoneServed, GotoServed
<1> QED BY <1>1, <1>2, DrainServed DEF Step

LEMMA FaultServed ==
  ASSUME Typed, NEW r \in Requests,
         InfrastructureError(r) \/ DropFails(r) \/ ReleaseFails(r) \/ ClearFails(r)
  PROVE  Served(r)
<1>1. request[r].pc # "idle"
  BY DEF InfrastructureError, DropFails, ReleaseFails, ClearFails, At
<1>2. Done(r) \/ \E label \in {"releaseKey", Drained(r)} : Goto(r, label)
  BY DEF InfrastructureError, DropFails, ReleaseFails, ClearFails
<1>3. Drained(r) # "idle"
  BY DEF Drained
<1> QED BY <1>1, <1>2, <1>3, DoneServed, GotoServed

\* finalizeRun is given no sequence.
LEMMA ClosersServeResult ==
  ASSUME Typed, [Next]_vars, NEW c \in Closers, request[c].seq = Result
  PROVE  request'[c].seq = Result
<1>0. c \in Requests /\ Idle.seq = Result /\ Idle \in Request
  BY IdleLegal DEF Legal, Requests, Idle, Result
<1>1. ASSUME NEW r \in Requests, Served(r)
      PROVE  request'[c].seq = Result
  <2>1. CASE r = c
    BY <1>0, <1>1, <2>1 DEF Served
  <2>2. CASE r # c
    BY <1>0, <1>1, <2>2 DEF Served, OthersStay
  <2> QED BY <2>1, <2>2
<1>2. CASE \E r \in Requests : Step(r)
  BY <1>1, <1>2, StepServed
<1>3. ASSUME NEW p \in Posts, NEW s \in Events, VerifyRunSignature(p, s)
      PROVE  request'[c].seq = Result
  <2>1. OthersStay(p) /\ p # c
    BY <1>3, BecomesOnly, RequestsAssumption DEF VerifyRunSignature, Requests
  <2> QED BY <1>0, <2>1 DEF OthersStay
<1>4. ASSUME NEW d \in Closers, StartFinalize(d)
      PROVE  request'[c].seq = Result
  <2>1. /\ OthersStay(d)
        /\ request'[d] = [Idle EXCEPT !.pc = "peek", !.mode = "flush", !.last = run.last]
    BY <1>4, BecomesOnly DEF StartFinalize, Requests
  <2>2. request'[d].seq = Idle.seq
    BY <1>0, <2>1 DEF Request
  <2> QED BY <1>0, <2>1, <2>2 DEF OthersStay
<1>5. CASE FaultStep
  <2>1. ASSUME NEW r \in Requests,
               InfrastructureError(r) \/ DropFails(r) \/ ReleaseFails(r) \/ ClearFails(r)
        PROVE  request'[c].seq = Result
    BY <1>1, <2>1, FaultServed
  <2>2. ASSUME NEW dead \in SUBSET Requests, ReplicaDies(dead)
        PROVE  request'[c].seq = Result
    BY <1>0, <2>2 DEF ReplicaDies
  <2>3. CASE BufferExpires
    BY <2>3 DEF BufferExpires
  <2> QED BY <1>5, <2>1, <2>2, <2>3 DEF FaultStep, Requests
<1>6. CASE SinkExpires \/ UNCHANGED vars
  BY <1>6 DEF SinkExpires, vars
<1> QED BY <1>2, <1>3, <1>4, <1>5, <1>6 DEF Next, Arrival

\* The slots that keep their reader go on with their message, which stays open.
LEMMA ReadersStay ==
  ASSUME WaitingServed, \A c \in Closers : request'[c].seq = Result, waiting' \subseteq waiting,
         \A u \in waiting' : /\ request'[u].pc # "idle" /\ request'[u].seq = request[u].seq
                             /\ delivery'[request[u].seq] = "open"
  PROVE  WaitingServed'
BY DEF WaitingServed, Message

LEMMA WaitingKept ==
  ASSUME Typed, SinkInv, WaitingServed, [StreamNext]_streamVars
  PROVE  WaitingServed'
<1>0. /\ Posts \subseteq Requests /\ Finalizers \subseteq Requests /\ Closers \subseteq Requests
      /\ waiting \subseteq Requests
      /\ Events \subseteq Messages /\ Result \in Messages /\ Idle.pc = "idle"
  BY StreamAssumption, MessagesAre DEF Requests, Idle, SinkInv, SinkTyped
<1>1. \A c \in Closers : request'[c].seq = Result
  BY ClosersServeResult, StreamStep DEF WaitingServed, Message
<1>2. \A u \in waiting : /\ request[u].pc # "idle" /\ delivery[request[u].seq] = "open"
                         /\ request[u].seq \in Messages
  BY <1>0, MessageTyped DEF WaitingServed, Message
<1>3. ASSUME NEW m \in Messages, delivery[m] # "open", waiting' = waiting, request' = request,
             \A n \in Messages \ {m} : delivery'[n] = delivery[n]
      PROVE  WaitingServed'
  BY <1>1, <1>2, <1>3, ReadersStay
<1>4. CASE \/ \E s \in Events : Handle(s)
           \/ Finalize
           \/ \E m \in Messages : Retry(m) \/ Refuse(m) \/ RequestLost(m)
  <2>1. PICK m \in Messages : /\ Post(m) \/ Refuse(m) \/ RequestLost(m)
                              /\ delivery[m] \in {"unsent", "backoff", "posted"}
    BY <1>0, <1>4 DEF Handle, Finalize, Retry, Refuse, RequestLost
  <2>2. waiting' = waiting /\ request' = request
        /\ \A n \in Messages \ {m} : delivery'[n] = delivery[n]
    BY <2>1 DEF Post, Refuse, RequestLost, vars, SinkInv, SinkTyped
  <2> QED BY <1>3, <2>1, <2>2
<1>5. ASSUME NEW m \in Messages, NEW r \in Posts \cup Finalizers, Admitted(r, m), OthersStay(r),
             request[r].pc = "idle", request'[r].pc # "idle", request'[r].seq = m
      PROVE  WaitingServed'
  <2>1. /\ waiting' = waiting \cup {r} /\ r \notin waiting /\ delivery[m] = "posted"
        /\ delivery'[m] = "open" /\ \A n \in Messages \ {m} : delivery'[n] = delivery[n]
    BY <1>2, <1>5 DEF Admitted, SinkInv, SinkTyped
  <2>2. \A u \in waiting : /\ request'[u] = request[u] /\ request[u].seq # m
                           /\ delivery'[request[u].seq] = "open"
    BY <1>0, <1>2, <1>5, <2>1 DEF OthersStay
  <2> QED BY <1>1, <1>2, <1>5, <2>1, <2>2 DEF WaitingServed, Message
<1>6. ASSUME NEW p \in Posts, NEW s \in Events, ArriveEvent(p, s)
      PROVE  WaitingServed'
  <2>1. OthersStay(p) /\ request[p].pc = "idle" /\ request'[p].pc # "idle" /\ request'[p].seq = s
    BY <1>0, <1>6, BecomesOnly DEF ArriveEvent, VerifyRunSignature, At
  <2> QED BY <1>0, <1>5, <1>6, <2>1 DEF ArriveEvent
<1>7. ASSUME NEW c \in Finalizers, ArriveResult(c)
      PROVE  WaitingServed'
  <2>1. /\ OthersStay(c) /\ request[c].pc = "idle"
        /\ request'[c] = [Idle EXCEPT !.pc = "peek", !.mode = "flush", !.last = run.last]
    BY <1>0, <1>7, BecomesOnly DEF ArriveResult, StartFinalize, At
  <2>2. request'[c].pc # "idle" /\ request'[c].seq = Result
    BY <2>1, IdleLegal DEF Legal, Request, Idle, Result
  <2> QED BY <1>0, <1>5, <1>7, <2>1, <2>2 DEF ArriveResult
<1>8. ASSUME NEW r \in Requests, Served(r), \A u \in waiting' : request'[u].pc # "idle",
             \/ UNCHANGED sinkVars
             \/ \E verdict : Answer(r, verdict)
      PROVE  WaitingServed'
  <2>1. \A u \in waiting' : request'[u].seq = request[u].seq
    BY <1>0, <1>8 DEF Served, OthersStay, sinkVars, Answer
  <2>2. CASE UNCHANGED sinkVars
    BY <1>1, <1>2, <1>8, <2>1, <2>2, ReadersStay DEF sinkVars
  <2>3. ASSUME NEW verdict, Answer(r, verdict)
        PROVE  WaitingServed'
    <3>1. \A u \in waiting \ {r} : r \in waiting => request[u].seq # request[r].seq
      BY DEF WaitingServed, Message
    <3>2. \A u \in waiting' : delivery'[request[u].seq] = "open"
      BY <1>2, <2>3, <3>1 DEF Answer, Message, SinkInv, SinkTyped
    <3> QED BY <1>1, <1>8, <2>1, <2>3, <3>2, ReadersStay DEF Answer
  <2> QED BY <1>8, <2>2, <2>3
<1>9. ASSUME NEW r \in Posts \cup Finalizers, Serve(r) \/ ServeBestEffort(r) \/ ServeFault(r)
      PROVE  WaitingServed'
  <2>0. r \in Requests
    BY <1>0
  <2>1. Served(r)
    BY <1>9, <2>0, StepServed, FaultServed DEF Serve, ServeBestEffort, ServeFault
  <2>2. \/ UNCHANGED sinkVars /\ request'[r].pc # "idle"
        \/ \E verdict : Answer(r, verdict)
    BY <1>9 DEF Serve, ServeBestEffort, ServeFault
  <2>3. \A u \in waiting' : request'[u].pc # "idle"
    BY <1>0, <1>2, <2>1, <2>2 DEF Served, OthersStay, sinkVars, Answer
  <2> QED BY <1>8, <2>0, <2>1, <2>2, <2>3
<1>10. ASSUME NEW r \in Posts \cup Finalizers, AnswerLost(r)
       PROVE  WaitingServed'
  <2>1. r \in waiting /\ waiting' = waiting \ {r} /\ request' = request
        /\ \A n \in Messages : n # request[r].seq => delivery'[n] = delivery[n]
    BY <1>10 DEF AnswerLost, vars, Message, SinkInv, SinkTyped
  <2>2. \A u \in waiting \ {r} : request[u].seq # request[r].seq
    BY <2>1 DEF WaitingServed, Message
  <2> QED BY <1>1, <1>2, <2>1, <2>2, ReadersStay
<1>11. ASSUME NEW dead \in SUBSET Requests, ServerDies(dead)
       PROVE  WaitingServed'
  <2> DEFINE cut == {Message(r) : r \in waiting \cap dead}
  <2>1. /\ waiting' = waiting \ dead
        /\ \A u \in Requests \ dead : request'[u] = request[u]
        /\ \A m \in Messages : m \notin cut => delivery'[m] = delivery[m]
    BY <1>11 DEF ServerDies, ReplicaDies
  <2>2. \A u \in waiting' : Message(u) \notin cut
    BY <2>1 DEF WaitingServed
  <2> QED BY <1>0, <1>1, <1>2, <2>1, <2>2, ReadersStay DEF Message
<1>12. CASE PlatformCloses
  <2>1. PICK c \in Closers \ Finalizers :
          \/ StartFinalize(c) \/ Step(c)
          \/ InfrastructureError(c) \/ DropFails(c) \/ ClearFails(c)
    BY <1>12 DEF PlatformCloses
  <2>2. OthersStay(c) /\ c \notin waiting
    <3>1. c \in Requests /\ c \notin Posts
      BY RequestsAssumption DEF Requests
    <3>2. StartFinalize(c) => OthersStay(c)
      BY <3>1, BecomesOnly DEF StartFinalize
    <3> QED BY <2>1, <3>1, <3>2, StepServed, FaultServed DEF Served, SinkInv, SinkTyped
  <2>3. UNCHANGED sinkVars
    BY <1>12 DEF PlatformCloses
  <2> QED BY <1>0, <1>1, <1>2, <2>2, <2>3, ReadersStay DEF OthersStay, sinkVars
<1>13. CASE (BufferExpires /\ UNCHANGED sinkVars) \/ UNCHANGED streamVars
  BY <1>1, <1>2, <1>13, ReadersStay DEF BufferExpires, streamVars, sinkVars, vars
<1> QED BY <1>4, <1>6, <1>7, <1>9, <1>10, <1>11, <1>12, <1>13 DEF StreamNext, Arrive

-----------------------------------------------------------------------------
(* What the sink is told.                                                     *)

\* A message is delivered in the step that ends a request for it, and that the
\* platform answers 2xx.
LEMMA Delivers ==
  ASSUME Typed, SinkInv, WaitingServed, [StreamNext]_streamVars,
         NEW m \in Messages, delivery[m] # "delivered", delivery'[m] = "delivered"
  PROVE  \E r \in waiting :
           /\ r \in Requests /\ Message(r) = m
           /\ Serve(r) \/ ServeBestEffort(r)
           /\ request'[r].pc = "idle" /\ Verdict(r) = "delivered"
<1>0. /\ waiting \subseteq Posts \cup Finalizers /\ Posts \cup Finalizers \subseteq Requests
      /\ Idle.pc = "idle" /\ delivery \in [Messages -> Deliveries]
  BY StreamAssumption DEF Requests, Idle, SinkInv, SinkTyped
<1>1. ~UNCHANGED delivery
  BY <1>0
<1>2. ~ \E n \in Messages : Post(n) \/ Refuse(n) \/ RequestLost(n)
  BY <1>0, AfterFailureIs DEF Post, Refuse, RequestLost
<1>3. ~ \E n \in Messages, r \in Posts \cup Finalizers : Admitted(r, n)
  BY <1>0 DEF Admitted
<1>4. ~ \E r \in Posts \cup Finalizers : AnswerLost(r)
  <2>1. ASSUME NEW r \in Posts \cup Finalizers, AnswerLost(r) PROVE FALSE
    <3>1. Message(r) \in Messages
      BY <1>0, MessageTyped
    <3> QED BY <1>0, <2>1, <3>1, AfterFailureIs DEF AnswerLost
  <2> QED BY <2>1
<1>5. ~ \E dead \in SUBSET Requests : ServerDies(dead)
  BY <1>0, AfterFailureIs DEF ServerDies
<1>6. PICK r \in Posts \cup Finalizers : Serve(r) \/ ServeBestEffort(r) \/ ServeFault(r)
  BY <1>1, <1>2, <1>3, <1>4, <1>5, MessagesAre
     DEF StreamNext, Arrive, ArriveEvent, ArriveResult, Handle, Finalize, Retry, PlatformCloses,
         sinkVars, streamVars
<1>7. Message(r) \in Messages
  BY <1>0, MessageTyped
<1>8. ASSUME NEW verdict, Answer(r, verdict)
      PROVE  r \in waiting /\ Message(r) = m /\ verdict = "delivered"
  BY <1>0, <1>7, <1>8 DEF Answer
<1>9. CASE ServeFault(r)
  BY <1>1, <1>7, <1>8, <1>9, AfterFailureIs DEF ServeFault, sinkVars
<1>10. CASE Serve(r)
  BY <1>0, <1>1, <1>8, <1>10 DEF Serve, sinkVars
<1>11. CASE ServeBestEffort(r)
  <2>1. Done(r)
    BY <1>11 DEF ServeBestEffort, ReleaseFails, ClearFails
  <2>2. request'[r].pc = "idle"
    BY <1>0, <2>1, BecomesOnly DEF Done
  <2> QED BY <1>0, <1>8, <1>11, <2>2 DEF ServeBestEffort
<1> QED BY <1>6, <1>9, <1>10, <1>11

\* A closer that ends well has closed the run, or has found it closed.
LEMMA CloserEnds ==
  ASSUME Typed, SnapshotsSound, NEW c \in Closers, c \notin Posts,
         Step(c) \/ ClearFails(c), request'[c].pc = "idle"
  PROVE  run.closed /\ run' = run
<1>0. c \in Requests
  BY DEF Requests
<1>1. CASE ClearFails(c) \/ ClearBuffer(c)
  BY <1>0, <1>1 DEF ClearFails, ClearBuffer, At, SnapshotsSound, Sound
<1>2. CASE CloseSink(c)
  <2>1. Goto(c, "broadcast") => request'[c].pc = "broadcast"
    BY <1>0, GotoOnly
  <2>2. Goto(c, "broadcast") \/ (run.closed /\ UNCHANGED run)
    BY <1>2, Zenon DEF CloseSink
  <2> QED BY <2>1, <2>2
<1>3. ~DrainStep(c)
  BY <1>0, DrainServed
<1>4. ~WriteTerminalLedger(c) /\ ~BroadcastTerminal(c)
  BY <1>0, GotoOnly DEF WriteTerminalLedger, BroadcastTerminal
<1> QED BY <1>1, <1>2, <1>3, <1>4 DEF Step, CloserStep

LEMMA AlwaysWaiting == StreamSpec => [](Typed /\ SnapshotsSound /\ SinkInv /\ WaitingServed)
<1>1. StreamInit => WaitingServed
  BY DEF StreamInit, Init, WaitingServed, Message, Idle, Result, Requests
<1> QED BY <1>1, WaitingKept, AlwaysSink, AlwaysSound, StreamIsIngestion, PTL DEF StreamSpec

\* Whatever restarts, errors, losses and retries the runner's result goes through, it is
\* told that the result is accepted only after the close has committed.
THEOREM AcceptedMeansClosed == StreamSpec => []AcceptedResultClosed
<1>1. StreamInit => AcceptedResultClosed
  BY MessagesAre DEF StreamInit, AcceptedResultClosed
<1>2. Typed /\ SnapshotsSound /\ SinkInv /\ WaitingServed /\ AcceptedResultClosed
        /\ [StreamNext]_streamVars => AcceptedResultClosed'
  <2> SUFFICES ASSUME Typed, SnapshotsSound, SinkInv, WaitingServed, AcceptedResultClosed,
                      [StreamNext]_streamVars, delivery'[Result] = "delivered"
               PROVE  run'.closed
    BY DEF AcceptedResultClosed
  <2>1. CASE delivery[Result] = "delivered"
    BY <2>1, StreamStep, RowNeverFalls DEF AcceptedResultClosed, RowGrows
  <2>2. CASE delivery[Result] # "delivered"
    <3>1. PICK r \in waiting : /\ r \in Requests /\ Message(r) = Result
                               /\ Serve(r) \/ ServeBestEffort(r)
                               /\ request'[r].pc = "idle"
      BY <2>2, Delivers, MessagesAre
    <3>2. r \notin Posts /\ r \in Closers
      BY <3>1, BusyLegal, MessagesAre DEF WaitingServed, Message, At, Typed, Requests
    <3> QED BY <3>1, <3>2, CloserEnds DEF Serve, ServeBestEffort
  <2> QED BY <2>1, <2>2
<1> QED BY <1>1, <1>2, AlwaysWaiting, PTL DEF StreamSpec

-----------------------------------------------------------------------------
(* Delivered events.                                                          *)

\* An event somebody was told is delivered is kept, or carried by the request that
\* claimed its key: the retry that the replay check absorbed was told so too early.
DeliveredKept ==
  Calm => \A s \in Events : delivery[s] = "delivered" => Kept(s) \/ Held(s)

\* Without a fault a POST ends well only with its event kept, or found claimed.
LEMMA PostEnds ==
  ASSUME Typed, SnapshotsSound, CalmInv, [Next]_vars, Calm',
         NEW p \in Posts, Step(p), request'[p].pc = "idle"
  PROVE  Kept(request[p].seq) \/ Held(request[p].seq)
<1>0. Calm /\ p \in Requests /\ p \notin Closers /\ TakenKept /\ KeysKept /\ NoneFailed
  BY CalmStep, RequestsAssumption DEF CalmInv, Requests
<1>1. PostStep(p)
  BY <1>0, DrainServed DEF Step
<1>2. Absorbed(p) \/ Routed(p) \/ Buffers(p) \/ Replies(p)
  BY <1>0, <1>1, PostMoves DEF NoneFailed
<1>3. CASE Absorbed(p)
  BY <1>0, <1>3 DEF Absorbed, KeysKept
<1>4. CASE Routed(p)
  BY <1>4 DEF Routed, Kept
<1>5. CASE Replies(p)
  BY <1>0, <1>5 DEF Replies, TakenKept
<1>6. ~Buffers(p)
  BY DEF Buffers
<1> QED BY <1>2, <1>3, <1>4, <1>5, <1>6

LEMMA DeliveredStays ==
  ASSUME Typed, SnapshotsSound, CalmInv, SinkInv, WaitingServed, DeliveredKept,
         [StreamNext]_streamVars
  PROVE  DeliveredKept'
<1> SUFFICES ASSUME Calm', NEW s \in Events, delivery'[s] = "delivered"
             PROVE  KeptAfter(s) \/ HeldAfter(s)
  BY DEF DeliveredKept, Kept, Held, KeptAfter, HeldAfter, Crowded, Above
<1>0. [Next]_vars /\ Calm /\ s \in Messages
  BY StreamStep, CalmStep, MessagesAre
<1>1. Kept(s) \/ Held(s)
  <2>1. CASE delivery[s] = "delivered"
    BY <1>0, <2>1 DEF DeliveredKept
  <2>2. CASE delivery[s] # "delivered"
    <3>1. PICK r \in waiting : /\ r \in Requests /\ Message(r) = s
                               /\ Serve(r) \/ ServeBestEffort(r)
                               /\ request'[r].pc = "idle"
      BY <1>0, <2>2, Delivers
    <3>2. r \in Posts
      BY <3>1, MessagesAre DEF WaitingServed, Requests
    <3>3. ~ReleaseFails(r)
      BY <1>0 DEF ReleaseFails, Fault, Calm
    <3>4. Step(r)
      BY <3>1, <3>2, <3>3 DEF Serve, ServeBestEffort
    <3> QED BY <1>0, <3>1, <3>2, <3>4, PostEnds DEF Message
  <2> QED BY <2>1, <2>2
<1> QED BY <1>0, <1>1, KeptOrHeldStays

LEMMA AlwaysDelivered ==
  StreamSpec => [](Typed /\ SnapshotsSound /\ CalmInv /\ SinkInv /\ WaitingServed /\ DeliveredKept)
<1>1. StreamInit => DeliveredKept
  BY MessagesAre DEF StreamInit, DeliveredKept
<1> QED BY <1>1, DeliveredStays, AlwaysWaiting, AlwaysCalm, StreamIsIngestion, PTL DEF StreamSpec

\* With any number of requests and answers lost, of attempts and of drains racing: what
\* handle() returned from is in the log, in the buffer or in a request still served,
\* unless a flush jumped over it, later events crowded it out, or the run is over.
THEOREM DeliveredEventsAreKept == StreamSpec => []DeliveredIsKept
<1>1. DeliveredKept => DeliveredIsKept
  <2> SUFFICES ASSUME DeliveredKept, Calm, NEW s \in Events, delivery[s] = "delivered"
               PROVE  s \in Log \cup buffer \cup Skipped \cup InService \/ Crowded(s)
    BY DEF DeliveredIsKept, Calm
  <2>1. CASE Kept(s)
    BY <2>1, KeptMeans
  <2>2. CASE Held(s)
    BY <2>2 DEF Held, InService, Message, At
  <2> QED BY <2>1, <2>2 DEF DeliveredKept
<1> QED BY <1>1, AlwaysDelivered, PTL

-----------------------------------------------------------------------------
(* The run the runner's finalize closes.                                      *)

\* A message is posted for the first time once, and a settled one stays settled.
LEMMA DeliveryMoves ==
  ASSUME Typed, SinkInv, WaitingServed, [StreamNext]_streamVars,
         NEW m \in Messages, delivery'[m] # delivery[m]
  PROVE  \/ delivery[m] = "unsent" /\ ((m \in Events /\ Handle(m)) \/ (m = Result /\ Finalize))
         \/ delivery[m] \in {"backoff", "posted", "open"} /\ delivery'[m] # "unsent"
<1>0. /\ waiting \subseteq Posts \cup Finalizers /\ Posts \cup Finalizers \subseteq Requests
      /\ delivery \in [Messages -> Deliveries] /\ Events \subseteq Messages /\ Result \in Messages
  BY StreamAssumption, MessagesAre DEF Requests, SinkInv, SinkTyped
<1>1. \A n \in Messages : AfterFailure(n) # "unsent"
  BY AfterFailureIs
<1>2. ASSUME NEW n \in Messages, Post(n)
      PROVE  n = m /\ delivery'[m] = "posted"
  BY <1>0, <1>2 DEF Post
<1>3. CASE (\E s \in Events : Handle(s)) \/ Finalize \/ (\E n \in Messages : Retry(n))
  <2>1. ASSUME NEW s \in Events, Handle(s)
        PROVE  s = m /\ delivery[m] = "unsent"
    BY <1>0, <1>2, <2>1 DEF Handle
  <2>2. Finalize => Result = m /\ delivery[m] = "unsent"
    BY <1>0, <1>2 DEF Finalize
  <2>3. ASSUME NEW n \in Messages, Retry(n)
        PROVE  delivery[m] = "backoff" /\ delivery'[m] # "unsent"
    BY <1>2, <2>3 DEF Retry
  <2> QED BY <1>3, <2>1, <2>2, <2>3
<1>4. CASE \E n \in Messages : Refuse(n) \/ RequestLost(n)
  BY <1>0, <1>1, <1>4 DEF Refuse, RequestLost
<1>5. CASE \E n \in Messages, r \in Posts \cup Finalizers : Admitted(r, n)
  BY <1>0, <1>5 DEF Admitted
<1>6. ASSUME NEW r \in waiting
      PROVE  Message(r) \in Messages /\ delivery[Message(r)] = "open"
  BY <1>0, MessageTyped DEF WaitingServed
<1>7. ASSUME NEW r \in Posts \cup Finalizers, NEW verdict, verdict # "unsent", Answer(r, verdict)
      PROVE  delivery[m] = "open" /\ delivery'[m] # "unsent"
  BY <1>0, <1>6, <1>7 DEF Answer
<1>8. ASSUME NEW r \in Posts \cup Finalizers, Serve(r) \/ ServeBestEffort(r) \/ ServeFault(r)
      PROVE  delivery[m] = "open" /\ delivery'[m] # "unsent"
  <2>1. ~UNCHANGED sinkVars
    BY DEF sinkVars
  <2>2. PICK verdict : /\ Answer(r, verdict)
                       /\ verdict \in {"delivered", "refused"} \/ verdict = AfterFailure(Message(r))
    BY <1>8, <2>1, VerdictIs DEF Serve, ServeBestEffort, ServeFault
  <2>3. verdict # "unsent"
    BY <1>0, <1>1, <2>2, MessageTyped
  <2> QED BY <1>7, <2>2, <2>3
<1>9. ASSUME NEW r \in Posts \cup Finalizers, AnswerLost(r)
      PROVE  delivery[m] = "open" /\ delivery'[m] # "unsent"
  BY <1>0, <1>1, <1>6, <1>9 DEF AnswerLost
<1>10. ASSUME NEW dead \in SUBSET Requests, ServerDies(dead)
       PROVE  delivery[m] = "open" /\ delivery'[m] # "unsent"
  BY <1>0, <1>1, <1>6, <1>10 DEF ServerDies
<1>11. ~(PlatformCloses \/ (BufferExpires /\ UNCHANGED sinkVars) \/ UNCHANGED streamVars)
  BY DEF PlatformCloses, streamVars, sinkVars
<1> QED BY <1>3, <1>4, <1>5, <1>8, <1>9, <1>10, <1>11
        DEF StreamNext, Arrive, ArriveEvent, ArriveResult

\* The result is posted, and served, once no event is under way.
ResultAfterEvents ==
  /\ \A c \in Finalizers : request[c].pc # "idle" => delivery[Result] # "unsent"
  /\ delivery[Result] # "unsent" => \A s \in Events : delivery[s] \in {"unsent"} \cup Settled

LEMMA ResultStaysAfter ==
  ASSUME Typed, SinkInv, WaitingServed, ResultAfterEvents, [StreamNext]_streamVars
  PROVE  ResultAfterEvents'
<1>0. /\ Finalizers \subseteq Closers /\ Posts \subseteq Requests /\ Closers \subseteq Requests
      /\ Result \in Messages /\ Events \subseteq Messages /\ Idle.pc = "idle" /\ Posts \cap Closers = {}
  BY StreamAssumption, MessagesAre, RequestsAssumption DEF Requests, Idle
<1>1. delivery[Result] # "unsent" => delivery'[Result] # "unsent"
  BY <1>0, DeliveryMoves
<1>2. ASSUME delivery'[Result] # "unsent", NEW s \in Events
      PROVE  delivery'[s] \in {"unsent"} \cup Settled
  <2>1. (delivery[s] \in {"unsent"} \cup Settled /\ delivery[Result] # "unsent") \/ Finalize
    BY <1>0, <1>2, DeliveryMoves, MessagesAre DEF ResultAfterEvents, Handle
  <2>2. CASE Finalize
    BY <1>0, <2>2, MessagesAre DEF Finalize, Post, SinkInv, SinkTyped
  <2>3. CASE delivery[s] \in {"unsent"} \cup Settled /\ delivery[Result] # "unsent"
    <3>1. delivery'[s] = delivery[s]
      BY <1>0, <2>3, DeliveryMoves, MessagesAre DEF Handle, Settled
    <3> QED BY <2>3, <3>1
  <2> QED BY <2>1, <2>2, <2>3
<1>3. ASSUME NEW c \in Finalizers, request'[c].pc # "idle"
      PROVE  delivery'[Result] # "unsent"
  <2>0. c \in Requests /\ c \notin Posts
    BY <1>0
  <2>1. CASE request[c].pc # "idle"
    BY <1>1, <2>1 DEF ResultAfterEvents
  <2>2. CASE request[c].pc = "idle"
    <3>1. ASSUME NEW r \in Requests, Served(r) PROVE FALSE
      BY <1>3, <2>0, <2>2, <3>1 DEF Served, OthersStay
    <3>2. ASSUME NEW p \in Posts, NEW s \in Events, VerifyRunSignature(p, s) PROVE FALSE
      BY <1>0, <1>3, <2>0, <2>2, <3>2, BecomesOnly DEF VerifyRunSignature, OthersStay
    <3>3. ASSUME NEW d \in Closers \ Finalizers, StartFinalize(d) PROVE FALSE
      BY <1>0, <1>3, <2>0, <2>2, <3>3, BecomesOnly DEF StartFinalize, OthersStay
    <3>4. ASSUME NEW dead \in SUBSET Requests, ServerDies(dead) PROVE FALSE
      BY <1>0, <1>3, <2>0, <2>2, <3>4 DEF ServerDies, ReplicaDies
    <3>5. ASSUME NEW r \in Posts \cup Finalizers,
                 Serve(r) \/ ServeBestEffort(r) \/ ServeFault(r)
          PROVE  FALSE
      BY <1>0, <3>1, <3>5, StepServed, FaultServed DEF Serve, ServeBestEffort, ServeFault
    <3>6. ~PlatformCloses
      BY <1>0, <3>1, <3>3, StepServed, FaultServed DEF PlatformCloses
    <3>7. request' # request
      BY <1>3, <2>2
    <3>8. \E d \in Finalizers : ArriveResult(d)
      BY <3>2, <3>4, <3>5, <3>6, <3>7
         DEF StreamNext, Arrive, ArriveEvent, Handle, Finalize, Retry, Post, Refuse, RequestLost,
             AnswerLost, BufferExpires, streamVars, vars
    <3> QED BY <1>0, <3>8 DEF ArriveResult, Admitted, SinkInv, SinkTyped
  <2> QED BY <2>1, <2>2
<1> QED BY <1>2, <1>3 DEF ResultAfterEvents

\* No fault, the run open, and no answer lost.
Undisturbed == Calm /\ losses.answers = 0

\* What the platform does in an undisturbed step of the stream.
LEMMA UndisturbedStep ==
  ASSUME Typed, SinkInv, [StreamNext]_streamVars, Undisturbed'
  PROVE  /\ Undisturbed /\ [Next]_vars
         /\ \/ request' = request /\ waiting' = waiting /\ buffer' = buffer
            \/ \E p \in Posts : /\ OthersStay(p) /\ request'[p].pc = "claimKey"
                                /\ waiting' = waiting \cup {p} /\ buffer' = buffer
            \/ \E c \in Finalizers : StartFinalize(c) /\ waiting' = waiting \cup {c}
            \/ \E r \in Posts \cup Finalizers :
                 /\ Step(r) /\ waiting' \subseteq waiting
                 /\ request'[r].pc # "idle" => waiting' = waiting
                 /\ waiting \ {r} \subseteq waiting'
            \/ \E c \in Closers \ Finalizers : (StartFinalize(c) \/ Step(c)) /\ waiting' = waiting
<1>0. [Next]_vars /\ Calm /\ Calm' /\ Finalizers \subseteq Closers /\ Posts \subseteq Requests
  BY StreamStep, CalmStep, StreamAssumption DEF Undisturbed, Requests
<1>1. losses.answers \in Nat /\ losses'.answers = 0
  BY StreamAssumption DEF SinkInv, SinkTyped, Undisturbed
<1>2. faults' = 0 /\ faults = 0
  BY <1>0 DEF Calm
<1>3. ~Fault
  BY <1>2 DEF Fault
<1>4. CASE \/ UNCHANGED streamVars
           \/ \E s \in Events : Handle(s)
           \/ Finalize
           \/ \E m \in Messages : Retry(m) \/ Refuse(m)
  <2>1. request' = request /\ waiting' = waiting /\ buffer' = buffer /\ losses' = losses
    BY <1>4 DEF streamVars, sinkVars, vars, Handle, Finalize, Retry, Post, Refuse
  <2> QED BY <1>0, <1>1, <2>1 DEF Undisturbed
<1>5. ASSUME NEW m \in Messages, RequestLost(m)
      PROVE  /\ losses'.answers = losses.answers
             /\ request' = request /\ waiting' = waiting /\ buffer' = buffer
  BY <1>5 DEF RequestLost, Loss, vars, SinkInv, SinkTyped
<1>6. ASSUME NEW p \in Posts, NEW s \in Events, ArriveEvent(p, s)
      PROVE  /\ losses' = losses /\ OthersStay(p) /\ request'[p].pc = "claimKey"
             /\ waiting' = waiting \cup {p} /\ buffer' = buffer
  BY <1>0, <1>6, BecomesOnly DEF ArriveEvent, VerifyRunSignature, Admitted
<1>7. ASSUME NEW c \in Finalizers, ArriveResult(c)
      PROVE  losses' = losses /\ StartFinalize(c) /\ waiting' = waiting \cup {c}
  BY <1>7 DEF ArriveResult, Admitted
<1>8. ASSUME NEW r \in Posts \cup Finalizers, Serve(r)
      PROVE  /\ losses' = losses /\ Step(r) /\ waiting' \subseteq waiting
             /\ request'[r].pc # "idle" => waiting' = waiting
             /\ waiting \ {r} \subseteq waiting'
  BY <1>8 DEF Serve, Answer, sinkVars
<1>9. ~ \E r \in Posts \cup Finalizers : ServeBestEffort(r) \/ ServeFault(r)
  BY <1>3 DEF ServeBestEffort, ServeFault, InfrastructureError, DropFails, ReleaseFails, ClearFails
<1>10. ~ \E r \in Posts \cup Finalizers : AnswerLost(r)
  BY <1>1 DEF AnswerLost, Loss, SinkInv, SinkTyped
<1>11. CASE PlatformCloses
  <2>1. PICK c \in Closers \ Finalizers : StartFinalize(c) \/ Step(c)
    BY <1>3, <1>11 DEF PlatformCloses, InfrastructureError, DropFails, ClearFails
  <2>2. waiting' = waiting /\ losses' = losses
    BY <1>11 DEF PlatformCloses, sinkVars
  <2> QED BY <1>0, <1>1, <2>1, <2>2 DEF Undisturbed
<1>12. ~BufferExpires /\ ~ \E dead \in SUBSET Requests : ServerDies(dead)
  BY <1>3 DEF BufferExpires, ServerDies, ReplicaDies
<1> QED BY <1>0, <1>1, <1>4, <1>5, <1>6, <1>7, <1>8, <1>9, <1>10, <1>11, <1>12
        DEF StreamNext, Arrive, Undisturbed

\* Every POST in flight has a reader, so that none outlives the sink's wait for it.
PostsHeard == Undisturbed => \A p \in Posts : request[p].pc # "idle" => p \in waiting

\* A finalizeRun drains with allowGaps to the end: past its drain the buffer is empty,
\* since the runner posts nothing more.
ClosersFlush == Calm => \A c \in Closers : request[c].pc = "idle" \/ request[c].mode = "flush"

Flushed == Undisturbed => \A c \in Finalizers : request[c].pc \in {"barrier", "close"} => buffer = {}

LEMMA HeardStays ==
  ASSUME Typed, SinkInv, PostsHeard, [StreamNext]_streamVars
  PROVE  PostsHeard'
<1> SUFFICES ASSUME Undisturbed', NEW p \in Posts, request'[p].pc # "idle"
             PROVE  p \in waiting'
  BY DEF PostsHeard
<1>0. Posts \subseteq Requests /\ Finalizers \subseteq Closers /\ Closers \subseteq Requests
      /\ Posts \cap Closers = {} /\ Idle.pc = "idle"
  BY StreamAssumption, RequestsAssumption DEF Requests, Idle
<1>1. Undisturbed
  BY UndisturbedStep
<1>2. ASSUME NEW r \in Requests, r # p, OthersStay(r), waiting \ {r} \subseteq waiting'
      PROVE  p \in waiting'
  BY <1>0, <1>1, <1>2 DEF OthersStay, PostsHeard
<1>3. CASE request' = request /\ waiting' = waiting
  BY <1>1, <1>3 DEF PostsHeard
<1>4. ASSUME NEW o \in Posts, OthersStay(o), waiting' = waiting \cup {o}
      PROVE  p \in waiting'
  BY <1>0, <1>2, <1>4
<1>5. ASSUME NEW c \in Closers, StartFinalize(c), waiting \subseteq waiting'
      PROVE  p \in waiting'
  BY <1>0, <1>2, <1>5, BecomesOnly DEF StartFinalize
<1>6. ASSUME NEW r \in Requests, Step(r), waiting \ {r} \subseteq waiting',
             request'[r].pc # "idle" => waiting' = waiting
      PROVE  p \in waiting'
  BY <1>0, <1>1, <1>2, <1>6, StepServed DEF Served, PostsHeard
<1> QED BY <1>0, <1>3, <1>4, <1>5, <1>6, UndisturbedStep

LEMMA FlushStays ==
  ASSUME Typed, SnapshotsSound, CalmInv, ClosersFlush, [Next]_vars
  PROVE  ClosersFlush'
<1> SUFFICES ASSUME Calm', NEW c \in Closers, request'[c].pc # "idle"
             PROVE  request'[c].mode = "flush"
  BY DEF ClosersFlush
<1>0. /\ Typed' /\ RowGrows /\ Calm /\ NoneFailed /\ c \in Requests /\ c \notin Posts
      /\ Posts \subseteq Requests
  BY CalmStep, NextTyped, RowNeverFalls, RequestsAssumption DEF CalmInv, Requests
<1>1. request[c].pc = "idle" \/ request[c].mode = "flush"
  BY <1>0 DEF ClosersFlush
<1>2. ASSUME NEW r \in Requests, r # c, OthersStay(r)
      PROVE  request'[c].mode = "flush"
  BY <1>0, <1>1, <1>2 DEF OthersStay
<1>3. CASE UNCHANGED vars \/ SinkExpires
  BY <1>1, <1>3 DEF vars, SinkExpires
<1>4. ASSUME NEW r \in Requests, DrainStep(r)
      PROVE  request'[c].mode = "flush"
  BY <1>0, <1>1, <1>2, <1>4, DrainMoves
<1>5. ASSUME NEW p \in Posts, PostStep(p)
      PROVE  request'[c].mode = "flush"
  BY <1>0, <1>2, <1>5, PostMoves DEF NoneFailed
<1>6. ASSUME NEW d \in Closers, CloserStep(d)
      PROVE  request'[c].mode = "flush"
  <2>1. /\ OthersStay(d) /\ request[d].pc = "barrier" /\ request'[d].mode = request[d].mode
        /\ d \in Requests
    BY <1>0, <1>6, CloserMoves DEF Requests
  <2> QED BY <1>1, <1>2, <2>1
<1>7. CASE Arrival
  <2>1. PICK r \in Requests : /\ OthersStay(r)
                              /\ \/ r \in Posts
                                 \/ r \in Closers /\ request'[r].mode = "flush"
    BY <1>7, ArrivalMoves
  <2> QED BY <1>0, <1>2, <2>1
<1> QED BY <1>3, <1>4, <1>5, <1>6, <1>7, CalmStep DEF Step

\* A drain with allowGaps that meets no fault and no close ends on an empty buffer.
LEMMA FlushEnds ==
  ASSUME Typed, Typed', SnapshotsSound, RowGrows, Calm, NEW c \in Requests, DrainStep(c),
         request[c].mode = "flush", request'[c].pc \in {"barrier", "close"}
  PROVE  buffer' = {}
<1>1. Sound(request[c], run)
  BY DEF SnapshotsSound
<1>2. ~PersistEventAndAdvance(c) /\ ~PersistPlaceholder(c)
  BY ClaimSound DEF PersistEventAndAdvance, PersistPlaceholder, At
<1>3. ASSUME NEW t \in Request, Becomes(c, Stored(t)) PROVE FALSE
  <2>1. Stored(t).pc \in {"peek", "drop"}
    BY <1>3, StoredFields
  <2> QED BY <1>3, <2>1, BecomesOnly
<1>4. ~RereadAfterLoss(c)
  <2> DEFINE t == [request[c] EXCEPT !.last = Later(request[c].last, run.last)]
  <2>1. t \in Request
    BY DEF Typed, RequestsTyped, StoresTyped, RunType, Request, Later
  <2>2. RereadAfterLoss(c) => Becomes(c, Stored(t))
    BY DEF RereadAfterLoss, Calm
  <2> HIDE DEF t
  <2> QED BY <1>3, <2>1, <2>2
<1>5. ~AnnounceStarted(c)
  BY <1>3 DEF AnnounceStarted, Typed, RequestsTyped
<1>6. ~RefuseRow(c) /\ ~LoseClaim(c) /\ ~DropBufferedEvent(c)
  BY GotoOnly DEF RefuseRow, LoseClaim, DropBufferedEvent
<1>7. ~RefreshSequence(c)
  BY <1>1 DEF RefreshSequence, At, Sound
<1>8. CASE PeekLowest(c)
  <2>1. ~ \E head : GotoFor(c, "drop", head) \/ GotoFor(c, "persist", head)
    BY GotoForOnly
  <2>2. ~Goto(c, "refresh")
    BY GotoOnly
  <2> QED BY <1>8, <2>1, <2>2 DEF PeekLowest
<1> QED BY <1>2, <1>4, <1>5, <1>6, <1>7, <1>8 DEF DrainStep

\* Nothing in flight carries an event once the result is posted.
LEMMA NoPostLeft ==
  ASSUME Typed, SinkInv, WaitingServed, ResultAfterEvents, PostsHeard, Undisturbed,
         NEW c \in Finalizers, request[c].pc # "idle", NEW p \in Posts
  PROVE  request[p].pc = "idle"
<1> SUFFICES ASSUME request[p].pc # "idle" PROVE FALSE
  OBVIOUS
<1>1. p \in waiting /\ delivery[request[p].seq] = "open"
  BY DEF PostsHeard, WaitingServed, Message
<1>2. request[p].seq \in Events
  BY BusyLegal DEF Typed, At, Requests
<1> QED BY <1>1, <1>2 DEF ResultAfterEvents, Settled

LEMMA FlushedStays ==
  ASSUME Typed, SnapshotsSound, SinkInv, WaitingServed, ResultAfterEvents, PostsHeard,
         ClosersFlush, Flushed, [StreamNext]_streamVars
  PROVE  Flushed'
<1> SUFFICES ASSUME Undisturbed', NEW c \in Finalizers, request'[c].pc \in {"barrier", "close"}
             PROVE  buffer' = {}
  BY DEF Flushed
<1>0. /\ Undisturbed /\ [Next]_vars /\ Calm /\ Calm' /\ c \in Closers /\ c \in Requests
      /\ c \notin Posts /\ Closers \subseteq Requests /\ Finalizers \subseteq Closers
      /\ Posts \subseteq Requests
  BY UndisturbedStep, StreamAssumption, RequestsAssumption DEF Undisturbed, Requests
<1>1. Typed' /\ RowGrows
  BY <1>0, NextTyped, RowNeverFalls
<1>2. request[c].pc # "idle" => buffer' \subseteq buffer
  <2> SUFFICES ASSUME request[c].pc # "idle" PROVE buffer' \subseteq buffer
    OBVIOUS
  <2>1. \A p \in Posts : request[p].pc = "idle"
    BY <1>0, NoPostLeft
  <2> QED BY <1>0, <2>1, BufferStep
<1>3. CASE request[c].pc \in {"barrier", "close"}
  BY <1>0, <1>2, <1>3 DEF Flushed
<1>4. ASSUME request[c].pc \notin {"barrier", "close"}
      PROVE  buffer' = {}
  <2>1. request'[c] # request[c]
    BY <1>4
  <2>2. ASSUME NEW r \in Requests, OthersStay(r)
        PROVE  r = c
    BY <1>0, <2>1, <2>2 DEF OthersStay
  <2>3. ASSUME NEW d \in Closers, StartFinalize(d)
        PROVE  FALSE
    <3>1. /\ OthersStay(d)
          /\ request'[d] = [Idle EXCEPT !.pc = "peek", !.mode = "flush", !.last = run.last]
      BY <1>0, <2>3, BecomesOnly DEF StartFinalize
    <3>2. request'[d].pc = "peek"
      BY <3>1, IdleLegal DEF Legal, Request
    <3> QED BY <1>0, <2>2, <3>1, <3>2
  <2>4. \E r \in Requests : Step(r)
    BY <1>0, <2>1, <2>2, <2>3, UndisturbedStep
  <2>5. Step(c)
    BY <1>0, <2>2, <2>4, StepServed DEF Served
  <2>6. ~CloserStep(c)
    BY <1>0, <1>4, CloserMoves
  <2>7. DrainStep(c) /\ request[c].pc # "idle"
    BY <1>0, <2>5, <2>6, DrainServed DEF Step, Served
  <2>8. request[c].mode = "flush"
    BY <1>0, <2>7 DEF ClosersFlush
  <2> QED BY <1>0, <1>1, <2>7, <2>8, FlushEnds
<1> QED BY <1>3, <1>4

StreamInv ==
  /\ Typed /\ SnapshotsSound /\ CalmInv
  /\ SinkInv /\ WaitingServed /\ DeliveredKept
  /\ ResultAfterEvents /\ PostsHeard /\ ClosersFlush /\ Flushed

LEMMA AlwaysStream == StreamSpec => []StreamInv
<1>1. StreamInit => ResultAfterEvents /\ PostsHeard /\ ClosersFlush /\ Flushed
  BY MessagesAre, StreamAssumption
     DEF StreamInit, Init, ResultAfterEvents, PostsHeard, ClosersFlush, Flushed, Idle, Requests
<1>2. Typed /\ SnapshotsSound /\ CalmInv /\ ClosersFlush /\ [StreamNext]_streamVars => ClosersFlush'
  BY FlushStays, StreamStep
<1> QED BY <1>1, <1>2, AlwaysDelivered, ResultStaysAfter, HeardStays, FlushedStays, PTL
        DEF StreamSpec, StreamInv

\* At the close the buffer holds nothing, and no request carries an event any more.
LEMMA CloseComplete ==
  ASSUME StreamInv, NEW c \in Finalizers, At(c, "close"), ~run.closed, faults = 0,
         losses.answers = 0, NEW s \in Events, delivery[s] = "delivered"
  PROVE  s \in Log \cup Skipped
<1>1. Undisturbed /\ Calm /\ request[c].pc = "close"
  BY DEF Undisturbed, Calm, At
<1>2. buffer = {}
  BY <1>1 DEF StreamInv, Flushed
<1>3. \A p \in Posts : request[p].pc = "idle"
  BY <1>1, NoPostLeft DEF StreamInv
<1>4. Kept(s)
  BY <1>1, <1>3 DEF StreamInv, DeliveredKept, Held
<1>5. ~Crowded(s)
  <2>1. {t \in buffer : t > s} = {}
    BY <1>2
  <2> QED BY <2>1, FS_EmptySet, BoundsAssumption DEF Crowded
<1> QED BY <1>2, <1>4, <1>5, KeptMeans

\* The runner settles its events before it finalizes, and finalizeRun flushes before it
\* closes: a run its finalize closes holds every event it was told is delivered, those
\* buffered behind a gap included, but for those another finalize's flush jumped over.
THEOREM FinishedRunsAreComplete == StreamSpec => FinishedRunIsComplete
<1>1. StreamInv =>
        \A c \in Finalizers :
          (Serve(c) /\ At(c, "close") /\ ~run.closed /\ run'.closed
             /\ faults = 0 /\ losses.answers = 0) =>
            \A s \in Events : delivery[s] = "delivered" => s \in Log \cup Skipped
  BY CloseComplete
<1> QED BY <1>1, AlwaysStream, PTL DEF FinishedRunIsComplete

-----------------------------------------------------------------------------
(* What the sink's side inherits.                                             *)

\* The composition keeps every promise of the ingestion: what the runner posts, loses,
\* repeats and gives up only chooses among the requests the platform serves anyway.
THEOREM StreamKeepsIngestion ==
  StreamSpec => /\ ImplementsRunRecord /\ ClosedRunIsFrozen
                /\ [](LogFollowsCounter /\ OneTerminalBroadcast /\ GapFree)
                /\ [](AckedIsKept /\ NothingStranded)
BY StreamIsIngestion, Implementation, ClosedStaysFrozen, LogOrdered, AnnouncedOnce, LogHasNoHoles,
   AnswersAreKept, DrainsLeaveNothing, PTL
=============================================================================
