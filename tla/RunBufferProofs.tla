---------------------------- MODULE RunBufferProofs ----------------------------
(***************************************************************************)
(* What TLAPS proves of the ordering buffer and of the replay cache in      *)
(* RunIngestion: what was answered 2xx is kept, nothing that could be       *)
(* stored is left behind when the requests have returned, and only a flush  *)
(* makes a hole in the log.  Every request works on a snapshot of the row   *)
(* that may be stale, so the argument is one inductive invariant: what each *)
(* label of a request says of its snapshot and of the row, and what a store *)
(* without an error says of every event somebody has been told of.          *)
(***************************************************************************)
EXTENDS RunIngestionProofs, FiniteSetTheorems, WellFoundedInduction

-----------------------------------------------------------------------------
(* The capped buffer.                                                         *)

Above(S, s) == {t \in S : t > s}

LEMMA FiniteEvents ==
  ASSUME NEW S \in SUBSET Events
  PROVE  IsFiniteSet(S) /\ Cardinality(S) \in Nat
<1>1. IsFiniteSet(Events)
  BY BoundsAssumption, FS_Interval DEF Events
<1> QED BY <1>1, FS_Subset, FS_CardinalityType

LEMMA LeastEvent ==
  ASSUME NEW S \in SUBSET Events, S # {}
  PROVE  Min(S) \in S /\ \A t \in S : Min(S) <= t
<1> DEFINE below == {p \in Nat \X Nat : p[1] < p[2]}
<1>1. IsWellFoundedOn(below, Nat)
  BY NatLessThanWellFounded DEF OpToRel
<1>2. S \subseteq Nat
  BY DEF Events
<1>3. PICK x \in S : \A y \in S : <<y, x>> \notin below
  <2> HIDE DEF below
  <2> QED BY <1>1, <1>2, WFMin
<1>4. ASSUME NEW y \in S PROVE x <= y
  <2>1. x \in Nat /\ y \in Nat /\ <<y, x>> \notin below
    BY <1>2, <1>3
  <2> QED BY <2>1
<1> QED BY <1>4 DEF Min

LEMMA AboveGrows ==
  ASSUME NEW S \in SUBSET Events, NEW T \in SUBSET Events, NEW s,
         Above(S, s) \subseteq T, Cardinality(Above(S, s)) >= MaxBufferEntries
  PROVE  Cardinality(Above(T, s)) >= MaxBufferEntries
<1>1. Above(S, s) \subseteq Above(T, s) /\ Above(T, s) \in SUBSET Events
      /\ Above(S, s) \in SUBSET Events
  BY DEF Above
<1>2. Cardinality(Above(S, s)) <= Cardinality(Above(T, s))
      /\ Cardinality(Above(S, s)) \in Nat /\ Cardinality(Above(T, s)) \in Nat
  BY <1>1, FiniteEvents, FS_Subset
<1> QED BY <1>2, BoundsAssumption

\* What was in the buffer or crowded out of it, or is being put, stays so: the entry
\* an overflow drops lies below MaxBufferEntries others.
LEMMA CappedKeeps ==
  ASSUME NEW S \in SUBSET Events, NEW e \in Events, NEW s \in Events,
         s = e \/ s \in S \/ Cardinality(Above(S, s)) >= MaxBufferEntries
  PROVE  LET T == Capped(S \cup {e}) IN
         s \in T \/ Cardinality(Above(T, s)) >= MaxBufferEntries
<1> DEFINE U == S \cup {e}
           T == Capped(U)
<1>1. U \in SUBSET Events /\ U # {}
  OBVIOUS
<1>2. IsFiniteSet(U) /\ Cardinality(U) \in Nat
  BY <1>1, FiniteEvents
<1>3. CASE Cardinality(U) <= MaxBufferEntries
  <2>1. T = U
    BY <1>2, <1>3, BoundsAssumption DEF Capped
  <2>2. Above(S, s) \subseteq T
    BY <2>1 DEF Above
  <2> QED BY <1>1, <2>1, <2>2, AboveGrows
<1>4. CASE Cardinality(U) > MaxBufferEntries
  <2> DEFINE m == Min(U)
  <2> HIDE DEF U
  <2>1. m \in U /\ \A t \in U : m <= t
    BY <1>1, LeastEvent
  <2>2. T = U \ {m}
    BY <1>4 DEF Capped
  <2>3. Cardinality(T) >= MaxBufferEntries
    <3>1. Cardinality(U \ {m}) = Cardinality(U) - 1
      BY <1>2, <2>1, FS_RemoveElement
    <3> QED BY <1>2, <1>4, <2>2, <3>1, BoundsAssumption
  <2> HIDE DEF m, T
  <2>4. m \in Int /\ s \in Int /\ T \in SUBSET Events /\ U \subseteq Int
    BY <1>1, <2>1, <2>2 DEF Events
  <2>5. CASE s <= m
    <3>1. ASSUME NEW t \in T PROVE t > s
      <4>1. t \in Int /\ t # m /\ m <= t
        BY <2>1, <2>2, <2>4
      <4> QED BY <2>4, <2>5, <4>1
    <3>2. Above(T, s) = T
      BY <3>1 DEF Above
    <3> QED BY <2>3, <3>2 DEF T, U
  <2>6. CASE m < s
    <3>1. Above(S, s) \subseteq T
      BY <2>1, <2>2, <2>4, <2>6 DEF Above, U
    <3>2. s \in U => s \in T
      BY <2>2, <2>4, <2>6
    <3> QED BY <2>4, <3>1, <3>2, AboveGrows DEF T, U
  <2> QED BY <2>4, <2>5, <2>6
<1> QED BY <1>2, <1>3, <1>4, BoundsAssumption

-----------------------------------------------------------------------------
(* What a request's label says of its snapshot and of the row.                *)

\* An event stays on the fast path until its claim has committed or was refused.
FastLabels == {"claimKey", "put", "persist", "placeholder", "reread", "announce",
               "releaseKey", "releaseGone"}

\* The snapshot is at most the row's counter; what is about to be claimed follows it,
\* and leaves a hole in a flush only; what is about to be dropped is spent.
Sound(q, row) ==
  /\ q.last <= row.last
  /\ q.pc \in {"persist", "placeholder"} =>
       q.last < q.head /\ (q.mode # "flush" => q.head = q.last + 1)
  /\ q.pc \in {"reread", "announce", "drop"} => row.closed \/ q.head <= row.last
  /\ q.pc \in {"releaseGone", "broadcast", "clear"} => row.closed
  /\ q.pc = "refresh" => q.mode # "flush"
  /\ q.pc = "claimKey" => q.mode = "fast"
  /\ q.mode = "fast" => q.pc \in FastLabels /\ q.head = q.seq

SnapshotsSound == \A r \in Requests : Sound(request[r], run)

\* The row a step leaves: its counter does not fall, a closed run stays closed.
RowGrows == run.last <= run'.last /\ (run.closed => run'.closed)

LEMMA RowNeverFalls ==
  ASSUME Typed, [Next]_vars
  PROVE  RowGrows /\ run.last \in 0..MaxSequence /\ run'.last \in 0..MaxSequence
<1>1. Typed' /\ run.last \in 0..MaxSequence /\ run'.last \in 0..MaxSequence
  BY NextTyped DEF Typed, StoresTyped, RunType
<1>2. ASSUME NEW r \in Requests, Claims(r)
      PROVE  RowGrows
  BY <1>1, <1>2, ClaimEffect DEF RowGrows, Events
<1> QED BY <1>1, <1>2, RowStep, CloseEffect DEF RowGrows, RowKept

LEMMA SoundLater ==
  ASSUME NEW q \in Request, NEW row \in RunType, NEW later \in RunType, Sound(q, row),
         row.last <= later.last, row.closed => later.closed
  PROVE  Sound(q, later)
BY DEF Sound, Request, RunType

LEMMA SnapshotsBecome ==
  ASSUME Typed, Typed', SnapshotsSound, RowGrows,
         NEW r \in Requests, NEW q, Becomes(r, q), Sound(q, run')
  PROVE  SnapshotsSound'
<1>1. ASSUME NEW u \in Requests PROVE Sound(request'[u], run')
  <2>1. CASE u = r
    BY <1>1, <2>1 DEF Typed, RequestsTyped, Becomes
  <2>2. CASE u # r
    <3>1. request'[u] = request[u] /\ request[u] \in Request
      BY <1>1, <2>2 DEF Typed, RequestsTyped, Becomes
    <3> QED BY <1>1, <3>1, SoundLater DEF Typed, StoresTyped, SnapshotsSound, RowGrows
  <2> QED BY <2>1, <2>2
<1> QED BY <1>1 DEF SnapshotsSound

LEMMA SnapshotsStay ==
  ASSUME Typed, Typed', SnapshotsSound, RowGrows,
         \A r \in Requests : request'[r] = request[r] \/ request'[r] = Idle
  PROVE  SnapshotsSound'
<1>1. ASSUME NEW r \in Requests PROVE Sound(request'[r], run')
  <2>1. request[r] \in Request /\ run \in RunType /\ run' \in RunType
    BY DEF Typed, RequestsTyped, StoresTyped
  <2>2. Sound(Idle, run')
    BY <2>1, BoundsAssumption DEF Sound, Idle, RunType
  <2> QED BY <2>1, <2>2, SoundLater DEF SnapshotsSound, RowGrows
<1> QED BY <1>1 DEF SnapshotsSound

\* Goto and its variants, field by field.
LEMMA EditedFields ==
  ASSUME NEW q \in Request, NEW x, NEW y
  PROVE  /\ LET u == [q EXCEPT !.pc = x] IN
            u.pc = x /\ u.mode = q.mode /\ u.seq = q.seq /\ u.last = q.last /\ u.head = q.head
         /\ LET u == [q EXCEPT !.pc = x, !.last = y] IN
            u.pc = x /\ u.mode = q.mode /\ u.seq = q.seq /\ u.last = y /\ u.head = q.head
         /\ LET u == [q EXCEPT !.pc = x, !.head = y] IN
            u.pc = x /\ u.mode = q.mode /\ u.seq = q.seq /\ u.last = q.last /\ u.head = y
         /\ LET u == [q EXCEPT !.pc = x, !.mode = y] IN
            u.pc = x /\ u.mode = y /\ u.seq = q.seq /\ u.last = q.last /\ u.head = q.head
         /\ LET u == [q EXCEPT !.last = y, !.pc = x] IN
            u.pc = x /\ u.mode = q.mode /\ u.seq = q.seq /\ u.last = y /\ u.head = q.head
BY DEF Request

\* A request that has its event stored, or lost the race for it.
LEMMA StoredFields ==
  ASSUME NEW q \in Request
  PROVE  /\ Stored(q).pc \in {"peek", "drop"} /\ Stored(q).mode # "fast"
         /\ Stored(q).pc = "peek" <=> q.mode = "fast"
         /\ q.mode # "fast" => Stored(q).mode = q.mode
         /\ Stored(q).seq = q.seq /\ Stored(q).last = q.last /\ Stored(q).head = q.head
BY DEF Stored, Request

\* What the claim of a sequence leaves behind.
LEMMA ClaimSound ==
  ASSUME Typed, Typed', SnapshotsSound, RowGrows, NEW r \in Requests,
         request[r].pc \in {"persist", "placeholder"}, Claim(r)
  PROVE  /\ SnapshotsSound' /\ request'[r].pc \in {"announce", "peek", "drop"}
         /\ request'[r].seq = request[r].seq /\ run'.last = request[r].head
         /\ request'[r].mode = "fast" => request[r].mode = "fast"
<1> DEFINE q == request[r]
           t == [q EXCEPT !.last = q.head]
           u == [q EXCEPT !.last = q.head, !.pc = "announce"]
<1>1. q \in Request /\ request \in [Requests -> Request] /\ run \in RunType /\ run' \in RunType
  BY DEF Typed, RequestsTyped, StoresTyped
<1>2. run'.last = q.head /\ q.last < q.head /\ q.last \in Int /\ q.head \in Int
  BY <1>1 DEF Claim, RunType, SnapshotsSound, Sound, Request
<1>3. q.mode = "fast" => q.head = q.seq
  BY DEF SnapshotsSound, Sound
<1>4. /\ u.pc = "announce" /\ u.mode = q.mode /\ u.seq = q.seq /\ u.last = q.head /\ u.head = q.head
      /\ t \in Request /\ t.mode = q.mode /\ t.seq = q.seq /\ t.last = q.head /\ t.head = q.head
  BY <1>1, EditedFields, SeenTyped DEF Request
<1> HIDE DEF t, u
<1>5. Becomes(r, u) \/ Becomes(r, Stored(t))
  BY DEF Claim, t, u
<1>6. Sound(u, run')
  BY <1>1, <1>2, <1>3, <1>4 DEF Sound, FastLabels, Request
<1>7. Sound(Stored(t), run') /\ Stored(t).seq = q.seq /\ Stored(t).mode # "fast"
      /\ Stored(t).pc \in {"peek", "drop"}
  BY <1>1, <1>2, <1>4, StoredFields DEF Sound, Request
<1> QED BY <1>1, <1>2, <1>4, <1>5, <1>6, <1>7, SnapshotsBecome DEF Becomes

LEMMA DrainStepSound ==
  ASSUME Typed, Typed', SnapshotsSound, RowGrows, NEW r \in Requests, DrainStep(r)
  PROVE  SnapshotsSound'
<1> DEFINE q == request[r]
<1>1. /\ q \in Request /\ request \in [Requests -> Request] /\ run \in RunType /\ Sound(q, run)
      /\ q.last \in Int /\ q.head \in Int /\ run.last \in Int /\ buffer \subseteq Int
  BY DEF Typed, RequestsTyped, StoresTyped, RunType, Request, SnapshotsSound, Events
<1>2. Drained(r) \in {"barrier", "reply"}
  BY DEF Drained
<1>3. CASE PersistEventAndAdvance(r) \/ PersistPlaceholder(r)
  BY <1>3, ClaimSound DEF PersistEventAndAdvance, PersistPlaceholder, At
<1>4. CASE RefuseRow(r)
  <2> DEFINE u == [q EXCEPT !.pc = "placeholder"]
  <2>1. Becomes(r, u) /\ run' = run
    BY <1>4 DEF RefuseRow, Goto
  <2>2. Sound(u, run)
    BY <1>1, <1>4, EditedFields DEF RefuseRow, At, Sound, FastLabels
  <2> QED BY <2>1, <2>2, SnapshotsBecome
<1>5. CASE LoseClaim(r)
  <2> DEFINE u == [q EXCEPT !.pc = "reread"]
  <2>1. Becomes(r, u) /\ run' = run
    BY <1>5 DEF LoseClaim, Goto
  <2>2. run.closed \/ q.head <= run.last
    BY <1>1, <1>5 DEF LoseClaim, Claimable, At, Sound
  <2>3. Sound(u, run)
    BY <1>1, <1>5, <2>2, EditedFields DEF LoseClaim, At, Sound, FastLabels
  <2> QED BY <2>1, <2>3, SnapshotsBecome
<1>6. CASE RereadAfterLoss(r)
  <2> DEFINE t == [q EXCEPT !.last = Later(q.last, run.last)]
  <2>1. run' = run /\ At(r, "reread")
    BY <1>6 DEF RereadAfterLoss
  <2>2. CASE run.closed
    <3>1. PICK label \in {"releaseGone", "barrier", "reply"} :
            Goto(r, label) /\ (q.mode = "fast" => label = "releaseGone")
      BY <1>2, <1>6, <2>2 DEF RereadAfterLoss
    <3> DEFINE u == [q EXCEPT !.pc = label]
    <3>2. Sound(u, run)
      BY <1>1, <2>2, <3>1, EditedFields DEF Sound, FastLabels
    <3> QED BY <2>1, <3>1, <3>2, SnapshotsBecome DEF Goto
  <2>3. CASE ~run.closed
    <3>1. Becomes(r, Stored(t))
      BY <1>6, <2>3 DEF RereadAfterLoss
    <3>2. Later(q.last, run.last) = run.last
      BY <1>1 DEF Later, Sound
    <3>3. t \in Request /\ t.last = run.last /\ t.head = q.head /\ t.mode = q.mode
      BY <1>1, <3>2, SeenTyped DEF Request, RunType
    <3> HIDE DEF t
    <3>4. Sound(Stored(t), run)
      BY <1>1, <2>1, <2>3, <3>3, StoredFields DEF Sound, At
    <3> QED BY <2>1, <3>1, <3>4, SnapshotsBecome
  <2> QED BY <2>2, <2>3
<1>7. CASE AnnounceStarted(r)
  <2>1. Becomes(r, Stored(q)) /\ run' = run
    BY <1>7 DEF AnnounceStarted
  <2>2. Sound(Stored(q), run)
    BY <1>1, <1>7, StoredFields DEF AnnounceStarted, At, Sound
  <2> QED BY <2>1, <2>2, SnapshotsBecome
<1>8. CASE PeekLowest(r)
  <2>0. run' = run /\ q.mode # "fast"
    BY <1>1, <1>8 DEF PeekLowest, At, Sound, FastLabels
  <2>1. ASSUME NEW label \in {"barrier", "reply"}, Goto(r, label)
        PROVE  SnapshotsSound'
    <3>1. Sound([q EXCEPT !.pc = label], run)
      BY <1>1, <2>0, EditedFields DEF Sound
    <3> QED BY <2>0, <2>1, <3>1, SnapshotsBecome DEF Goto
  <2>2. ASSUME q.mode # "flush", Goto(r, "refresh")
        PROVE  SnapshotsSound'
    <3>1. Sound([q EXCEPT !.pc = "refresh"], run)
      BY <1>1, <2>0, <2>2, EditedFields DEF Sound
    <3> QED BY <2>0, <2>2, <3>1, SnapshotsBecome DEF Goto
  <2>3. ASSUME NEW head \in buffer, head < q.last + 1, GotoFor(r, "drop", head)
        PROVE  SnapshotsSound'
    <3>0. head \in Int /\ q.last <= run.last
      BY <1>1, <2>3 DEF Sound
    <3>1. head \in Int /\ head <= run.last
      BY <1>1, <2>3, <3>0
    <3>2. Sound([q EXCEPT !.pc = "drop", !.head = head], run)
      BY <1>1, <2>0, <3>1, EditedFields DEF Sound
    <3> QED BY <2>0, <2>3, <3>2, SnapshotsBecome DEF GotoFor
  <2>4. ASSUME NEW head \in buffer, head = q.last + 1 \/ (head > q.last + 1 /\ q.mode = "flush"),
               GotoFor(r, "persist", head)
        PROVE  SnapshotsSound'
    <3>1. head \in Int
      BY <1>1, <2>4
    <3>2. Sound([q EXCEPT !.pc = "persist", !.head = head], run)
      BY <1>1, <2>0, <2>4, <3>1, EditedFields DEF Sound
    <3> QED BY <2>0, <2>4, <3>2, SnapshotsBecome DEF GotoFor
  <2> QED BY <1>2, <1>8, <2>1, <2>2, <2>3, <2>4 DEF PeekLowest
<1>9. CASE DropBufferedEvent(r)
  <2>1. Becomes(r, [q EXCEPT !.pc = "peek"]) /\ run' = run
    BY <1>9 DEF DropBufferedEvent, Goto
  <2>2. Sound([q EXCEPT !.pc = "peek"], run)
    BY <1>1, <1>9, EditedFields DEF DropBufferedEvent, At, Sound, FastLabels
  <2> QED BY <2>1, <2>2, SnapshotsBecome
<1>10. CASE RefreshSequence(r)
  <2>0. run' = run /\ q.mode # "fast" /\ q.mode # "flush"
    BY <1>1, <1>10 DEF RefreshSequence, At, Sound, FastLabels
  <2>1. CASE GotoSeeing(r, "peek", run.last)
    <3>1. Sound([q EXCEPT !.pc = "peek", !.last = run.last], run)
      BY <1>1, <2>0, EditedFields DEF Sound
    <3> QED BY <2>0, <2>1, <3>1, SnapshotsBecome DEF GotoSeeing
  <2>2. CASE Goto(r, Drained(r))
    <3>1. Sound([q EXCEPT !.pc = Drained(r)], run)
      BY <1>1, <1>2, <2>0, EditedFields DEF Sound
    <3> QED BY <2>0, <2>2, <3>1, SnapshotsBecome DEF Goto
  <2> QED BY <1>10, <2>1, <2>2 DEF RefreshSequence
<1> QED BY <1>3, <1>4, <1>5, <1>6, <1>7, <1>8, <1>9, <1>10 DEF DrainStep

LEMMA PostStepSound ==
  ASSUME Typed, Typed', SnapshotsSound, RowGrows, NEW p \in Posts, PostStep(p)
  PROVE  SnapshotsSound'
<1> DEFINE q == request[p]
<1>0. p \in Requests /\ run' = run
  BY DEF Requests, PostStep, IngestRunEvent, BufferEvent, SyncBeforeDrain, Reply, ReleaseReplayKey
<1>1. /\ q \in Request /\ request \in [Requests -> Request] /\ run \in RunType /\ Sound(q, run)
      /\ q.last \in Int /\ q.head \in Int /\ q.seq \in Int /\ run.last \in Int
  BY <1>0 DEF Typed, RequestsTyped, StoresTyped, RunType, Request, SnapshotsSound
<1>2. ASSUME Done(p) PROVE SnapshotsSound'
  BY <1>0, <1>1, <1>2, SnapshotsStay DEF Done, Becomes
<1>3. CASE IngestRunEvent(p)
  <2>1. ASSUME q.seq = q.last + 1, Goto(p, "persist")
        PROVE  SnapshotsSound'
    <3>1. Sound([q EXCEPT !.pc = "persist"], run)
      <4>1. q.mode = "fast" /\ q.head = q.seq
        BY <1>1, <1>3 DEF IngestRunEvent, At, Sound
      <4> QED BY <1>1, <2>1, <4>1, EditedFields DEF Sound, FastLabels
    <3> QED BY <1>0, <2>1, <3>1, SnapshotsBecome DEF Goto
  <2>2. ASSUME Goto(p, "put")
        PROVE  SnapshotsSound'
    <3>1. Sound([q EXCEPT !.pc = "put"], run)
      BY <1>1, EditedFields DEF Sound, FastLabels
    <3> QED BY <1>0, <2>2, <3>1, SnapshotsBecome DEF Goto
  <2> QED BY <1>2, <1>3, <2>1, <2>2 DEF IngestRunEvent, Route
<1>4. CASE BufferEvent(p)
  <2> DEFINE terminal == q.seq \in TerminalEvents
             label == IF terminal THEN "peek" ELSE "sync"
             mode == IF terminal THEN "flush" ELSE "drain"
  <2>1. label \in {"peek", "sync"} /\ mode \in {"flush", "drain"}
    OBVIOUS
  <2>2. Becomes(p, [q EXCEPT !.pc = label, !.mode = mode])
    BY <1>4 DEF BufferEvent
  <2> HIDE DEF label, mode
  <2>3. Sound([q EXCEPT !.pc = label, !.mode = mode], run)
    BY <1>1, <2>1, EditedFields DEF Sound
  <2> QED BY <1>0, <2>2, <2>3, SnapshotsBecome
<1>5. CASE SyncBeforeDrain(p)
  <2>1. Becomes(p, [q EXCEPT !.pc = "peek", !.last = Later(q.last, run.last)])
    BY <1>5 DEF SyncBeforeDrain, GotoSeeing
  <2>2. Later(q.last, run.last) = run.last
    BY <1>1 DEF Later, Sound
  <2>3. Sound([q EXCEPT !.pc = "peek", !.last = run.last], run)
    BY <1>1, <1>5, EditedFields DEF SyncBeforeDrain, At, Sound, FastLabels
  <2> QED BY <1>0, <2>1, <2>2, <2>3, SnapshotsBecome
<1> QED BY <1>2, <1>3, <1>4, <1>5 DEF PostStep, Reply, ReleaseReplayKey

LEMMA CloserStepSound ==
  ASSUME Typed, Typed', SnapshotsSound, RowGrows, NEW c \in Closers, CloserStep(c)
  PROVE  SnapshotsSound'
<1> DEFINE q == request[c]
<1>0. c \in Requests
  BY DEF Requests
<1>1. /\ q \in Request /\ request \in [Requests -> Request] /\ run \in RunType /\ run' \in RunType
      /\ Sound(q, run)
  BY <1>0 DEF Typed, RequestsTyped, StoresTyped, SnapshotsSound
<1>2. Sound(q, run')
  BY <1>1, SoundLater DEF RowGrows
<1>3. ASSUME Done(c) PROVE SnapshotsSound'
  BY <1>0, <1>1, <1>3, SnapshotsStay DEF Done, Becomes
<1>4. ASSUME NEW label \in {"close", "broadcast", "clear"}, Goto(c, label),
             label # "close" => run'.closed, q.mode # "fast"
      PROVE  SnapshotsSound'
  <2>1. Sound([q EXCEPT !.pc = label], run')
    BY <1>1, <1>2, <1>4, EditedFields DEF Sound
  <2> QED BY <1>0, <1>4, <2>1, SnapshotsBecome DEF Goto
<1>5. q.mode # "fast"
  BY <1>1 DEF CloserStep, WriteTerminalLedger, CloseSink, BroadcastTerminal, ClearBuffer, At,
              Sound, FastLabels
<1>6. CASE WriteTerminalLedger(c) \/ ClearBuffer(c)
  BY <1>3, <1>4, <1>5, <1>6 DEF WriteTerminalLedger, ClearBuffer
<1>7. CASE CloseSink(c)
  <2>1. Done(c) \/ (Goto(c, "broadcast") /\ run'.closed)
    BY <1>1, <1>7 DEF CloseSink, RunType
  <2> QED BY <1>3, <1>4, <1>5, <2>1
<1>8. CASE BroadcastTerminal(c)
  <2>1. run'.closed
    BY <1>1, <1>8 DEF BroadcastTerminal, At, Sound
  <2> QED BY <1>4, <1>5, <1>8, <2>1 DEF BroadcastTerminal
<1> QED BY <1>6, <1>7, <1>8 DEF CloserStep

LEMMA ArrivalSound ==
  ASSUME Typed, Typed', SnapshotsSound, RowGrows, Arrival
  PROVE  SnapshotsSound'
<1>0. run' = run
  BY DEF Arrival, VerifyRunSignature, StartFinalize
<1>1. run' = run /\ run.last \in Int
  BY <1>0 DEF Typed, StoresTyped, RunType
<1>2. ASSUME NEW p \in Posts, NEW s \in Events, VerifyRunSignature(p, s)
      PROVE  SnapshotsSound'
  <2> DEFINE q == [pc |-> "claimKey", mode |-> "fast", seq |-> s, last |-> run.last, head |-> s]
  <2>1. Becomes(p, q) /\ p \in Requests /\ Sound(q, run)
    BY <1>1, <1>2 DEF VerifyRunSignature, Requests, Sound, FastLabels
  <2> QED BY <1>1, <2>1, SnapshotsBecome
<1>3. ASSUME NEW c \in Closers, StartFinalize(c)
      PROVE  SnapshotsSound'
  <2> DEFINE q == [Idle EXCEPT !.pc = "peek", !.mode = "flush", !.last = run.last]
  <2>0. Idle \in Request
    BY IdleLegal DEF Legal
  <2>1. q.pc = "peek" /\ q.mode = "flush" /\ q.last = run.last
    BY <2>0 DEF Request
  <2>2. Becomes(c, q) /\ c \in Requests
    BY <1>3 DEF StartFinalize, Requests
  <2> HIDE DEF q
  <2>3. Sound(q, run)
    BY <1>1, <2>1 DEF Sound
  <2> QED BY <1>1, <2>2, <2>3, SnapshotsBecome
<1> QED BY <1>2, <1>3 DEF Arrival

LEMMA FaultSound ==
  ASSUME Typed, Typed', SnapshotsSound, RowGrows, FaultStep
  PROVE  SnapshotsSound'
<1>0. run' = run /\ request \in [Requests -> Request]
  BY DEF FaultStep, InfrastructureError, DropFails, ReplicaDies, ReleaseFails, ClearFails,
         BufferExpires, Typed, RequestsTyped
<1>1. ASSUME NEW r \in Requests, Done(r) PROVE SnapshotsSound'
  BY <1>0, <1>1, SnapshotsStay DEF Done, Becomes
<1>2. ASSUME NEW r \in Requests, NEW label \in {"barrier", "reply", "releaseKey"}, Goto(r, label),
             label # "releaseKey" => request[r].mode # "fast"
      PROVE  SnapshotsSound'
  <2>1. request[r] \in Request /\ Sound(request[r], run)
    BY <1>0 DEF SnapshotsSound
  <2>2. Sound([request[r] EXCEPT !.pc = label], run)
    BY <1>2, <2>1, EditedFields DEF Sound, FastLabels
  <2> QED BY <1>0, <1>2, <2>2, SnapshotsBecome DEF Goto
<1>3. ASSUME NEW r \in Requests, InfrastructureError(r) \/ DropFails(r)
      PROVE  SnapshotsSound'
  <2>1. CASE InfrastructureError(r)
    BY <1>1, <1>2, <2>1 DEF InfrastructureError
  <2>2. CASE DropFails(r)
    <3>1. request[r].mode # "fast"
      BY <2>2 DEF DropFails, At, SnapshotsSound, Sound, FastLabels
    <3> QED BY <1>2, <2>2, <3>1 DEF DropFails, Drained
  <2> QED BY <1>3, <2>1, <2>2
<1>4. CASE (\E dead : ReplicaDies(dead)) \/ BufferExpires
  BY <1>0, <1>4, SnapshotsStay DEF ReplicaDies, BufferExpires
<1> QED BY <1>1, <1>3, <1>4 DEF FaultStep, ReleaseFails, ClearFails, Requests

LEMMA SnapshotsKept ==
  ASSUME Typed, SnapshotsSound, [Next]_vars
  PROVE  SnapshotsSound'
<1>1. Typed' /\ RowGrows
  BY NextTyped, RowNeverFalls
<1>2. CASE UNCHANGED vars \/ SinkExpires
  BY <1>1, <1>2, SnapshotsStay DEF vars, SinkExpires
<1>3. ASSUME NEW r \in Requests, Step(r) PROVE SnapshotsSound'
  BY <1>1, <1>3, DrainStepSound, PostStepSound, CloserStepSound DEF Step
<1> QED BY <1>1, <1>2, <1>3, ArrivalSound, FaultSound DEF Next

LEMMA AlwaysSound == Spec => [](Typed /\ SnapshotsSound)
<1>1. Init => SnapshotsSound
  BY BoundsAssumption DEF Init, SnapshotsSound, Sound, Idle
<1> QED BY <1>1, InitTyped, NextTyped, SnapshotsKept, PTL DEF Spec

-----------------------------------------------------------------------------
(* Holes in the log.                                                          *)

\* A request that is not a flush claims the successor of the counter.
LEMMA ClaimFollows ==
  ASSUME Typed, SnapshotsSound, NEW r \in Requests, Claim(r),
         request[r].pc \in {"persist", "placeholder"}, request[r].mode # "flush"
  PROVE  request[r].head = run.last + 1
<1> DEFINE q == request[r]
<1>1. /\ q.head \in Int /\ q.last \in Int /\ run.last \in Int
  BY DEF Typed, RequestsTyped, StoresTyped, RunType, Request
<1>2. q.head = q.last + 1
  BY DEF SnapshotsSound, Sound
<1>3. IF q.head > q.last + 1 THEN run.last < q.head ELSE run.last = q.head - 1
  BY DEF Claim, Claimable
<1> QED BY <1>1, <1>2, <1>3

\* Who claims is about to persist an event, its own or its placeholder.
LEMMA Claimers ==
  ASSUME Typed, [Next]_vars
  PROVE  \/ RowKept
         \/ \E r \in Requests : request[r].pc \in {"persist", "placeholder"} /\ Claim(r)
         \/ \E c \in Closers : Closes(c)
<1>1. CASE UNCHANGED vars \/ SinkExpires
  BY <1>1 DEF vars, SinkExpires, RowKept, Typed, StoresTyped, RunType
<1>2. ASSUME NEW r \in Requests, DrainStep(r)
      PROVE  RowKept \/ (request[r].pc \in {"persist", "placeholder"} /\ Claim(r))
  <2>1. CASE PersistEventAndAdvance(r) \/ PersistPlaceholder(r)
    BY <2>1 DEF PersistEventAndAdvance, PersistPlaceholder, At
  <2>2. CASE ~(PersistEventAndAdvance(r) \/ PersistPlaceholder(r))
    BY <1>2, <2>2 DEF DrainStep, RefuseRow, LoseClaim, RereadAfterLoss, AnnounceStarted, PeekLowest,
                DropBufferedEvent, RefreshSequence, RowKept
  <2> QED BY <2>1, <2>2
<1>3. ASSUME NEW p \in Posts, PostStep(p)
      PROVE  RowKept
  BY <1>3 DEF PostStep, IngestRunEvent, BufferEvent, SyncBeforeDrain, Reply, ReleaseReplayKey,
              RowKept
<1>4. ASSUME NEW c \in Closers, CloserStep(c)
      PROVE  RowKept \/ Closes(c)
  BY <1>4 DEF CloserStep, WriteTerminalLedger, CloseSink, BroadcastTerminal, ClearBuffer,
              RowKept, Closes
<1>5. CASE Arrival \/ FaultStep
  BY <1>5 DEF Arrival, VerifyRunSignature, StartFinalize, FaultStep, InfrastructureError,
              DropFails, ReplicaDies, ReleaseFails, ClearFails, BufferExpires, RowKept
<1> QED BY <1>1, <1>2, <1>3, <1>4, <1>5 DEF Next, Step

\* Only a flush, of finalizeRun or of a terminal event, moves the counter by more
\* than one: a POST that drains what it finds in the buffer jumps over nothing.
THEOREM OnlyFlushesSkip ==
  Spec => [][run'.last > run.last + 1 =>
               \E r \in Requests : request[r].mode = "flush" /\ Claim(r)]_vars
<1>1. Typed /\ SnapshotsSound /\ [Next]_vars =>
        [run'.last > run.last + 1 =>
           \E r \in Requests : request[r].mode = "flush" /\ Claim(r)]_vars
  <2> SUFFICES ASSUME Typed, SnapshotsSound, [Next]_vars, run'.last > run.last + 1
               PROVE  \E r \in Requests : request[r].mode = "flush" /\ Claim(r)
    OBVIOUS
  <2>1. run.last \in Int
    BY DEF Typed, StoresTyped, RunType
  <2>2. ~RowKept /\ ~(\E c \in Closers : Closes(c))
    BY <2>1, CloseEffect DEF RowKept
  <2>3. PICK r \in Requests : request[r].pc \in {"persist", "placeholder"} /\ Claim(r)
    BY <2>2, Claimers
  <2>4. run'.last = request[r].head
    BY <2>3 DEF Claim, Typed, StoresTyped, RunType
  <2>5. request[r].mode = "flush"
    BY <2>1, <2>3, <2>4, ClaimFollows
  <2> QED BY <2>3, <2>5
<1> QED BY <1>1, AlwaysSound, PTL DEF Spec

\* A POST is a flush only if its event is a terminal one: a step that leaves it a flush
\* left it what it was, or buffered its terminal event.
FlushOfTerminal(q) == q.mode = "flush" => q.seq \in TerminalEvents

LEMMA ModesStay ==
  ASSUME Typed, [Next]_vars, NEW u \in Posts, FlushOfTerminal(request[u])
  PROVE  FlushOfTerminal(request'[u])
<1>0. /\ request \in [Requests -> Request] /\ u \in Requests /\ run.last \in 0..MaxSequence
      /\ \A r \in Requests : request[r] \in Request
      /\ Idle.mode = "drain"
  BY DEF Typed, RequestsTyped, StoresTyped, RunType, Idle, Requests
<1>1. ASSUME NEW r \in Requests, NEW q, Becomes(r, q),
             FlushOfTerminal(request[r]) => FlushOfTerminal(q)
      PROVE  FlushOfTerminal(request'[u])
  BY <1>0, <1>1 DEF Becomes
<1>2. ASSUME NEW r \in Requests, NEW label,
             \/ Goto(r, label)
             \/ \E last : GotoSeeing(r, label, last)
             \/ \E head : GotoFor(r, label, head)
             \/ Done(r)
      PROVE  FlushOfTerminal(request'[u])
  <2> DEFINE q == request[r]
  <2>1. /\ FlushOfTerminal(q) => FlushOfTerminal([q EXCEPT !.pc = label])
        /\ \A last : FlushOfTerminal(q) => FlushOfTerminal([q EXCEPT !.pc = label, !.last = last])
        /\ \A head : FlushOfTerminal(q) => FlushOfTerminal([q EXCEPT !.pc = label, !.head = head])
        /\ FlushOfTerminal(Idle)
    BY <1>0, EditedFields DEF FlushOfTerminal
  <2> QED BY <1>1, <1>2, <2>1 DEF Goto, GotoSeeing, GotoFor, Done
<1>3. ASSUME NEW r \in Requests, NEW t \in Request, Becomes(r, Stored(t)),
             t.mode = request[r].mode, t.seq = request[r].seq
      PROVE  FlushOfTerminal(request'[u])
  <2>1. Stored(t).mode \in {t.mode, "drain"} /\ Stored(t).seq = t.seq
    BY DEF Stored, Request
  <2>2. FlushOfTerminal(request[r]) => FlushOfTerminal(Stored(t))
    BY <1>3, <2>1 DEF FlushOfTerminal
  <2> QED BY <1>1, <1>3, <2>2
<1>4. ASSUME NEW r \in Requests, DrainStep(r)
      PROVE  FlushOfTerminal(request'[u])
  <2> DEFINE q == request[r]
  <2>0. q \in Request
    BY <1>0
  <2>1. CASE Claim(r)
    <3> DEFINE t == [q EXCEPT !.last = q.head]
               a == [q EXCEPT !.last = q.head, !.pc = "announce"]
    <3>1. t \in Request /\ t.mode = q.mode /\ t.seq = q.seq /\ a.mode = q.mode /\ a.seq = q.seq
      BY <2>0 DEF Request
    <3>2. Becomes(r, a) \/ Becomes(r, Stored(t))
      BY <2>1 DEF Claim
    <3> HIDE DEF t, a
    <3> QED BY <1>1, <1>3, <3>1, <3>2 DEF FlushOfTerminal
  <2>2. CASE RereadAfterLoss(r)
    <3> DEFINE t == [q EXCEPT !.last = Later(q.last, run.last)]
    <3>1. t \in Request /\ t.mode = q.mode /\ t.seq = q.seq
      BY <1>0, <2>0 DEF Request, Later
    <3>2. (\E label : Goto(r, label)) \/ Becomes(r, Stored(t))
      BY <2>2 DEF RereadAfterLoss
    <3> HIDE DEF t
    <3> QED BY <1>2, <1>3, <3>1, <3>2
  <2>3. CASE AnnounceStarted(r)
    BY <1>3, <2>0, <2>3 DEF AnnounceStarted
  <2>4. CASE RefuseRow(r) \/ LoseClaim(r) \/ PeekLowest(r) \/ DropBufferedEvent(r)
             \/ RefreshSequence(r)
    <3>1. \E label : \/ Goto(r, label)
                     \/ \E last : GotoSeeing(r, label, last)
                     \/ \E head : GotoFor(r, label, head)
      BY <2>4 DEF RefuseRow, LoseClaim, PeekLowest, DropBufferedEvent, RefreshSequence
    <3> QED BY <1>2, <3>1
  <2> QED BY <1>4, <2>1, <2>2, <2>3, <2>4 DEF DrainStep, PersistEventAndAdvance, PersistPlaceholder
<1>5. ASSUME NEW p \in Posts, PostStep(p)
      PROVE  FlushOfTerminal(request'[u])
  <2>0. p \in Requests /\ request[p] \in Request
    BY <1>0 DEF Requests
  <2>1. CASE BufferEvent(p)
    <3> DEFINE mode == IF request[p].seq \in TerminalEvents THEN "flush" ELSE "drain"
               label == IF request[p].seq \in TerminalEvents THEN "peek" ELSE "sync"
               q == [request[p] EXCEPT !.pc = label, !.mode = mode]
    <3>1. Becomes(p, q)
      BY <2>1 DEF BufferEvent
    <3>2. q.mode = mode /\ q.seq = request[p].seq
      BY <2>0, EditedFields
    <3>3. FlushOfTerminal(q)
      BY <3>2 DEF FlushOfTerminal
    <3> HIDE DEF q
    <3> QED BY <1>1, <2>0, <3>1, <3>3
  <2>2. CASE ~BufferEvent(p)
    <3>1. \E label : Done(p) \/ Goto(p, label) \/ \E last : GotoSeeing(p, label, last)
      BY <1>5, <2>2 DEF PostStep, IngestRunEvent, Route, SyncBeforeDrain, Reply, ReleaseReplayKey
    <3> QED BY <1>2, <2>0, <3>1
  <2> QED BY <2>1, <2>2
<1>6. ASSUME NEW c \in Closers, CloserStep(c) \/ StartFinalize(c)
      PROVE  FlushOfTerminal(request'[u])
  <2>1. \E q : Becomes(c, q)
    BY <1>6 DEF CloserStep, WriteTerminalLedger, CloseSink, BroadcastTerminal, ClearBuffer,
                StartFinalize, Goto, Done
  <2>2. c # u
    BY RequestsAssumption
  <2> QED BY <1>0, <2>1, <2>2 DEF Becomes
<1>7. ASSUME NEW p \in Posts, NEW s \in Events, VerifyRunSignature(p, s)
      PROVE  FlushOfTerminal(request'[u])
  BY <1>1, <1>7 DEF VerifyRunSignature, Requests, FlushOfTerminal
<1>8. CASE FaultStep
  <2>1. \/ \E r \in Requests : Done(r) \/ \E label : Goto(r, label)
        \/ (\E dead : ReplicaDies(dead)) \/ BufferExpires
    BY <1>8 DEF FaultStep, InfrastructureError, DropFails, ReleaseFails, ClearFails, Requests
  <2>2. FlushOfTerminal(Idle)
    BY <1>0 DEF FlushOfTerminal
  <2> QED BY <1>0, <1>2, <2>1, <2>2 DEF ReplicaDies, BufferExpires
<1>9. CASE UNCHANGED vars \/ SinkExpires
  BY <1>0, <1>9 DEF vars, SinkExpires
<1> QED BY <1>4, <1>5, <1>6, <1>7, <1>8, <1>9 DEF Next, Step, Arrival

\* An answer is given once, on the request's snapshot; the row never falls behind it.
AnswersDurable ==
  /\ \A p \in Posts : FlushOfTerminal(request[p])
  /\ \A a \in answered : a[2] = "persisted" /\ a[1] \notin TerminalEvents => a[1] <= run.last

LEMMA AnsweredStep ==
  ASSUME Typed, [Next]_vars
  PROVE  UNCHANGED answered \/ \E p \in Posts : Reply(p)
<1>1. CASE UNCHANGED vars \/ SinkExpires \/ Arrival
  BY <1>1 DEF vars, SinkExpires, Arrival, VerifyRunSignature, StartFinalize
<1>2. ASSUME NEW r \in Requests, DrainStep(r) PROVE UNCHANGED answered
  BY <1>2 DEF DrainStep, PersistEventAndAdvance, RefuseRow, PersistPlaceholder, Claim, LoseClaim,
              RereadAfterLoss, AnnounceStarted, PeekLowest, DropBufferedEvent, RefreshSequence
<1>3. ASSUME NEW p \in Posts, PostStep(p) PROVE UNCHANGED answered \/ Reply(p)
  BY <1>3 DEF PostStep, IngestRunEvent, BufferEvent, SyncBeforeDrain, ReleaseReplayKey
<1>4. ASSUME NEW c \in Closers, CloserStep(c) PROVE UNCHANGED answered
  BY <1>4 DEF CloserStep, WriteTerminalLedger, CloseSink, BroadcastTerminal, ClearBuffer
<1>5. CASE FaultStep
  BY <1>5 DEF FaultStep, InfrastructureError, DropFails, ReplicaDies, ReleaseFails, ClearFails,
              BufferExpires
<1> QED BY <1>1, <1>2, <1>3, <1>4, <1>5 DEF Next, Step

LEMMA DurableStays ==
  ASSUME Typed, SnapshotsSound, AnswersDurable, [Next]_vars
  PROVE  AnswersDurable'
<1>1. \A p \in Posts : FlushOfTerminal(request'[p])
  BY ModesStay DEF AnswersDurable
<1>2. run.last \in Int /\ run'.last \in Int /\ run.last <= run'.last
  BY RowNeverFalls DEF RowGrows
<1>3. answered \subseteq Events \X {"persisted", "buffered"}
  BY DEF Typed, StoresTyped
<1>4. ASSUME NEW a \in answered, a[2] = "persisted", a[1] \notin TerminalEvents
      PROVE  a[1] <= run'.last
  <2>1. a[1] \in Int /\ a[1] <= run.last
    BY <1>3, <1>4 DEF AnswersDurable, Events
  <2> QED BY <1>2, <2>1
<1>5. ASSUME NEW p \in Posts, Reply(p), NEW a \in answered' \ answered,
             a[2] = "persisted", a[1] \notin TerminalEvents
      PROVE  a[1] <= run'.last
  <2> DEFINE q == request[p]
  <2>1. p \in Requests /\ q \in Request /\ q.last <= run.last /\ q.last \in Int /\ q.seq \in Int
    BY DEF Requests, Typed, RequestsTyped, SnapshotsSound, Sound, Request
  <2>2. a = <<q.seq, IF q.mode = "flush" \/ q.last >= q.seq THEN "persisted" ELSE "buffered">>
    BY <1>5 DEF Reply
  <2>3. a[1] = q.seq /\ (q.mode = "flush" \/ q.last >= q.seq)
    BY <1>5, <2>2
  <2>4. q.mode # "flush"
    BY <1>5, <2>3 DEF AnswersDurable, FlushOfTerminal
  <2> QED BY <1>2, <2>1, <2>3, <2>4
<1>6. \A a \in answered' : a[2] = "persisted" /\ a[1] \notin TerminalEvents => a[1] <= run'.last
  BY <1>4, <1>5, AnsweredStep
<1> QED BY <1>1, <1>6 DEF AnswersDurable

LEMMA AlwaysDurable == Spec => [](Typed /\ SnapshotsSound /\ AnswersDurable)
<1>1. Init => AnswersDurable
  BY DEF Init, AnswersDurable, FlushOfTerminal, Idle, Requests
<1> QED BY <1>1, AlwaysSound, DurableStays, PTL DEF Spec

\* GapFree with what makes it inductive: no request is a flush.
GapInv ==
  (Closers = {} /\ TerminalEvents = {}) =>
    (\A r \in Requests : request[r].mode # "flush") /\ (\A i \in DOMAIN runLog : runLog[i] = i)

\* No terminal event and no finalizeRun: whatever POSTs race on their stale snapshots
\* and whatever the buffer held back, the log is 1, 2, 3, ... without a hole.
THEOREM LogHasNoHoles == Spec => []GapFree
<1>1. Init => GapInv
  BY DEF Init, GapInv, Idle
<1>2. Typed /\ SnapshotsSound /\ LogFollowsCounter /\ GapInv /\ [Next]_vars => GapInv'
  <2> SUFFICES ASSUME Typed, SnapshotsSound, LogFollowsCounter, GapInv, [Next]_vars,
                      Closers = {}, TerminalEvents = {}
               PROVE  /\ \A r \in Requests : request'[r].mode # "flush"
                      /\ \A i \in DOMAIN runLog' : runLog'[i] = i
    BY DEF GapInv
  <2>1. \A r \in Requests : request'[r].mode # "flush"
    BY ModesStay DEF GapInv, FlushOfTerminal, Requests
  <2>2. CASE RowKept
    BY <2>1, <2>2 DEF GapInv, RowKept
  <2>3. ASSUME NEW r \in Requests, request[r].pc \in {"persist", "placeholder"}, Claim(r)
        PROVE  \A i \in DOMAIN runLog' : runLog'[i] = i
    <3>1. runLog \in Seq(Events) /\ \A i \in DOMAIN runLog : runLog[i] = i
      BY DEF GapInv, Typed, StoresTyped
    <3>2. run.last = Len(runLog)
      BY <3>1 DEF LogFollowsCounter
    <3>3. request[r].head = Len(runLog) + 1
      BY <2>3, <3>2, ClaimFollows DEF GapInv
    <3>4. runLog' = Append(runLog, Len(runLog) + 1)
      BY <2>3, <3>3 DEF Claim
    <3> QED BY <3>1, <3>4
  <2> QED BY <2>1, <2>2, <2>3, Claimers
<1>3. GapInv => GapFree
  BY DEF GapInv, GapFree
<1> QED BY <1>1, <1>2, <1>3, AlwaysSound, AlwaysRow, PTL DEF Spec

-----------------------------------------------------------------------------
(* The events somebody has been told of, while no store fails.                *)

\* No infrastructure fault so far, and the run is open.
Calm == faults = 0 /\ ~run.closed

\* The event is at or below the counter, or waits in the buffer, or was crowded out.
Kept(s) == s <= run.last \/ s \in buffer \/ Crowded(s)

\* A calm state is reached by a calm step from a calm state.
LEMMA CalmStep ==
  ASSUME Typed, [Next]_vars, Calm'
  PROVE  /\ Calm
         /\ UNCHANGED vars \/ (\E r \in Requests : Step(r)) \/ Arrival \/ SinkExpires
<1>1. faults \in Nat /\ RowGrows
  BY RowNeverFalls DEF Typed, StoresTyped
<1>2. ~FaultStep
  <2>1. FaultStep => Fault
    BY DEF FaultStep, InfrastructureError, DropFails, ReplicaDies, ReleaseFails, ClearFails,
           BufferExpires
  <2> QED BY <1>1, <2>1 DEF Fault, Calm
<1>3. ASSUME NEW r \in Requests, Step(r)
      PROVE  faults' = faults
  BY <1>3 DEF Step, DrainStep, PostStep, CloserStep, PersistEventAndAdvance, PersistPlaceholder,
              Claim, RefuseRow, LoseClaim, RereadAfterLoss, AnnounceStarted, PeekLowest,
              DropBufferedEvent, RefreshSequence, IngestRunEvent, BufferEvent, SyncBeforeDrain,
              Reply, ReleaseReplayKey, WriteTerminalLedger, CloseSink, BroadcastTerminal, ClearBuffer
<1>4. Arrival \/ SinkExpires \/ UNCHANGED vars => faults' = faults
  BY DEF Arrival, VerifyRunSignature, StartFinalize, SinkExpires, vars
<1> QED BY <1>1, <1>2, <1>3, <1>4 DEF Next, Calm, RowGrows

\* What a calm step may do to the buffer.
LEMMA BufferStep ==
  ASSUME Typed, SnapshotsSound, [Next]_vars, Calm'
  PROVE  \/ buffer' = buffer
         \/ \E p \in Posts : /\ buffer' = Capped(buffer \cup {request[p].seq})
                            /\ request[p].seq \in Events /\ request[p].pc # "idle"
         \/ \E e \in Int : e <= run.last /\ buffer' = buffer \ {e}
<1>0. Calm /\ request \in [Requests -> Request] /\ run \in RunType
  BY CalmStep DEF Typed, RequestsTyped, StoresTyped
<1>1. ASSUME NEW r \in Requests, DrainStep(r)
      PROVE  buffer' = buffer \/ \E e \in Int : e <= run.last /\ buffer' = buffer \ {e}
  <2>1. CASE DropBufferedEvent(r)
    <3>1. request[r].head \in Int
      BY <1>0 DEF Request
    <3>2. request[r].head <= run.last
      BY <1>0, <2>1 DEF DropBufferedEvent, At, SnapshotsSound, Sound, Calm
    <3> QED BY <2>1, <3>1, <3>2 DEF DropBufferedEvent
  <2>2. CASE ~DropBufferedEvent(r)
    BY <1>1, <2>2 DEF DrainStep, PersistEventAndAdvance, PersistPlaceholder, Claim, RefuseRow,
                      LoseClaim, RereadAfterLoss, AnnounceStarted, PeekLowest, RefreshSequence
  <2> QED BY <2>1, <2>2
<1>2. ASSUME NEW p \in Posts, PostStep(p)
      PROVE  \/ buffer' = buffer
             \/ /\ buffer' = Capped(buffer \cup {request[p].seq})
                /\ request[p].seq \in Events /\ request[p].pc # "idle"
  <2>1. p \in Requests
    BY DEF Requests
  <2>2. At(p, "put") => request[p].seq \in Events
    BY <2>1, BusyLegal DEF Typed, At
  <2>3. At(p, "put") => request[p].pc # "idle"
    BY DEF At
  <2> QED BY <1>2, <2>2, <2>3 DEF PostStep, IngestRunEvent, BufferEvent, SyncBeforeDrain, Reply,
                                  ReleaseReplayKey
<1>3. ASSUME NEW c \in Closers, CloserStep(c)
      PROVE  buffer' = buffer
  <2>1. ~At(c, "clear")
    BY <1>0 DEF SnapshotsSound, Sound, At, Calm, Requests
  <2> QED BY <1>3, <2>1 DEF CloserStep, WriteTerminalLedger, CloseSink, BroadcastTerminal, ClearBuffer
<1>4. UNCHANGED vars \/ Arrival \/ SinkExpires => buffer' = buffer
  BY DEF vars, Arrival, VerifyRunSignature, StartFinalize, SinkExpires
<1> QED BY <1>1, <1>2, <1>3, <1>4, CalmStep DEF Step

\* A kept event stays kept.
LEMMA KeptStays ==
  ASSUME Typed, SnapshotsSound, [Next]_vars, Calm', NEW s \in Events, Kept(s)
  PROVE  Kept(s)'
<1>1. RowGrows /\ run.last \in Int /\ run'.last \in Int /\ s \in Int /\ buffer \in SUBSET Events
      /\ buffer' \in SUBSET Events
  BY RowNeverFalls, NextTyped DEF Typed, StoresTyped, Events
<1>2. CASE s <= run.last
  BY <1>1, <1>2 DEF Kept, RowGrows
<1>3. CASE ~(s <= run.last)
  <2>1. s \in buffer \/ Cardinality(Above(buffer, s)) >= MaxBufferEntries
    BY <1>3 DEF Kept, Crowded, Above
  <2>2. CASE buffer' = buffer
    BY <2>1, <2>2 DEF Kept, Crowded, Above
  <2>3. ASSUME NEW e \in Events, buffer' = Capped(buffer \cup {e})
        PROVE  Kept(s)'
    BY <1>1, <2>1, <2>3, CappedKeeps DEF Kept, Crowded, Above
  <2>4. ASSUME NEW e \in Int, e <= run.last, buffer' = buffer \ {e}
        PROVE  Kept(s)'
    <3>1. s # e /\ Above(buffer, s) \subseteq buffer'
      BY <1>1, <1>3, <2>4 DEF Above
    <3> QED BY <1>1, <2>1, <2>4, <3>1, AboveGrows DEF Kept, Crowded, Above
  <2> QED BY <2>2, <2>3, <2>4, BufferStep
<1> QED BY <1>2, <1>3

\* The requests that go on to look at the buffer after their next step.
Draining(q, row) ==
  \/ q.pc \in {"sync", "peek", "persist", "placeholder", "reread", "announce", "drop"}
  \/ q.pc = "refresh" /\ q.last < row.last

OthersStay(r) == \A u \in Requests : u # r => request'[u] = request[u]

LEMMA BecomesOnly ==
  ASSUME Typed, NEW r \in Requests, NEW q, Becomes(r, q)
  PROVE  request'[r] = q /\ OthersStay(r)
BY DEF Typed, RequestsTyped, Becomes, OthersStay

LEMMA GotoOnly ==
  ASSUME Typed, NEW r \in Requests, NEW label, Goto(r, label)
  PROVE  /\ OthersStay(r) /\ request'[r].pc = label /\ request'[r].seq = request[r].seq
         /\ request'[r].mode = request[r].mode /\ request'[r].last = request[r].last
<1>1. OthersStay(r) /\ request'[r] = [request[r] EXCEPT !.pc = label]
  BY BecomesOnly DEF Goto
<1> QED BY <1>1 DEF Typed, RequestsTyped, Request

LEMMA GotoForOnly ==
  ASSUME Typed, NEW r \in Requests, NEW label, NEW head, GotoFor(r, label, head)
  PROVE  /\ OthersStay(r) /\ request'[r].pc = label /\ request'[r].seq = request[r].seq
         /\ request'[r].mode = request[r].mode
<1>1. OthersStay(r) /\ request'[r] = [request[r] EXCEPT !.pc = label, !.head = head]
  BY BecomesOnly DEF GotoFor
<1> QED BY <1>1 DEF Typed, RequestsTyped, Request

LEMMA GotoSeeingOnly ==
  ASSUME Typed, NEW r \in Requests, NEW label, NEW last, GotoSeeing(r, label, last)
  PROVE  /\ OthersStay(r) /\ request'[r].pc = label /\ request'[r].seq = request[r].seq
         /\ request'[r].mode = request[r].mode
<1>1. OthersStay(r) /\ request'[r] = [request[r] EXCEPT !.pc = label, !.last = last]
  BY BecomesOnly DEF GotoSeeing
<1> QED BY <1>1 DEF Typed, RequestsTyped, Request

\* A step of drain or claim, seen from its request: it serves the event it served,
\* leaves the fast path only with its event stored, and either goes on draining or
\* has found nothing in the buffer that could be stored.
LEMMA DrainMoves ==
  ASSUME Typed, Typed', SnapshotsSound, RowGrows, Calm, Calm', NEW r \in Requests, DrainStep(r)
  PROVE  /\ OthersStay(r) /\ UNCHANGED <<replayKeys, answered>>
         /\ request[r].pc \notin {"idle", "claimKey"}
         /\ request'[r].pc \notin {"idle", "claimKey", "releaseKey"}
         /\ request'[r].seq = request[r].seq
         /\ \/ request'[r].mode = request[r].mode
            \/ request[r].mode = "fast" /\ request[r].seq <= run'.last
         /\ \/ Draining(request'[r], run')
            \/ ~Draining(request[r], run) /\ run'.last = run.last /\ buffer' = buffer
            \/ \A s \in buffer' : s > run'.last + 1
<1> DEFINE q == request[r]
<1>1. /\ q \in Request /\ run \in RunType /\ Sound(q, run) /\ run.last \in Int /\ ~run.closed
      /\ q.last \in Int /\ q.head \in Int /\ q.seq \in Int /\ buffer \subseteq Int
  BY DEF Typed, RequestsTyped, StoresTyped, RunType, Request, SnapshotsSound, Events, Calm
<1>2. Drained(r) \in {"barrier", "reply"}
  BY DEF Drained
<1>3. q.pc \notin {"idle", "claimKey"} /\ UNCHANGED <<replayKeys, answered>>
  BY DEF DrainStep, PersistEventAndAdvance, RefuseRow, PersistPlaceholder, Claim, LoseClaim,
     RereadAfterLoss, AnnounceStarted, PeekLowest, DropBufferedEvent, RefreshSequence, At
<1>4. CASE PersistEventAndAdvance(r) \/ PersistPlaceholder(r)
  <2>1. Claim(r) /\ q.pc \in {"persist", "placeholder"}
    BY <1>4 DEF PersistEventAndAdvance, PersistPlaceholder, At
  <2>2. /\ request'[r].pc \in {"announce", "peek", "drop"}
        /\ request'[r].seq = q.seq /\ run'.last = q.head
    BY <2>1, ClaimSound
  <2>3. request'[r].mode = q.mode \/ (q.mode = "fast" /\ q.seq <= run'.last)
    <3> DEFINE t == [q EXCEPT !.last = q.head]
               u == [q EXCEPT !.last = q.head, !.pc = "announce"]
    <3>1. t \in Request /\ t.mode = q.mode /\ u.mode = q.mode
      BY <1>1, EditedFields DEF Request
    <3> HIDE DEF t, u
    <3>2. Becomes(r, u) \/ Becomes(r, Stored(t))
      BY <2>1 DEF Claim, t, u
    <3>3. q.mode # "fast" => Stored(t).mode = q.mode
      BY <3>1, StoredFields
    <3>4. q.mode = "fast" => q.head = q.seq
      BY <1>1 DEF Sound
    <3> QED BY <1>1, <2>2, <3>1, <3>2, <3>3, <3>4, BecomesOnly
  <2>4. OthersStay(r)
    BY <2>1, BecomesOnly DEF Claim
  <2> QED BY <1>3, <2>2, <2>3, <2>4 DEF Draining
<1>5. ASSUME NEW t \in Request, t.mode = q.mode, t.seq = q.seq, Becomes(r, Stored(t)), run' = run,
             q.mode = "fast" => q.seq <= run.last
      PROVE  /\ OthersStay(r) /\ request'[r].pc \in {"peek", "drop"} /\ request'[r].seq = q.seq
             /\ request'[r].mode = q.mode \/ (q.mode = "fast" /\ q.seq <= run'.last)
  BY <1>5, StoredFields, BecomesOnly
<1>6. CASE RereadAfterLoss(r)
  <2> DEFINE t == [q EXCEPT !.last = Later(q.last, run.last)]
  <2>1. Becomes(r, Stored(t)) /\ run' = run
    BY <1>1, <1>6 DEF RereadAfterLoss
  <2>2. t \in Request /\ t.mode = q.mode /\ t.seq = q.seq
    BY <1>1 DEF Request, Later, RunType
  <2>3. q.mode = "fast" => q.seq <= run.last
    BY <1>1, <1>6 DEF RereadAfterLoss, At, Sound
  <2> HIDE DEF t
  <2> QED BY <1>3, <1>5, <2>1, <2>2, <2>3 DEF Draining
<1>7. CASE AnnounceStarted(r)
  <2>1. q.mode = "fast" => q.seq <= run.last
    BY <1>1, <1>7 DEF AnnounceStarted, At, Sound
  <2> QED BY <1>1, <1>3, <1>5, <1>7, <2>1 DEF AnnounceStarted, Draining
<1>8. ASSUME NEW label, Goto(r, label)
      PROVE  /\ OthersStay(r) /\ request'[r].pc = label /\ request'[r].seq = q.seq
             /\ request'[r].mode = q.mode /\ request'[r].last = q.last
  BY <1>8, GotoOnly
<1>9. ASSUME NEW label, NEW head, GotoFor(r, label, head)
      PROVE  /\ OthersStay(r) /\ request'[r].pc = label /\ request'[r].seq = q.seq
             /\ request'[r].mode = q.mode
  BY <1>9, GotoForOnly
<1>10. ASSUME NEW label, NEW last, GotoSeeing(r, label, last)
       PROVE  /\ OthersStay(r) /\ request'[r].pc = label /\ request'[r].seq = q.seq
              /\ request'[r].mode = q.mode
  BY <1>10, GotoSeeingOnly
<1>11. CASE RefuseRow(r) \/ LoseClaim(r) \/ DropBufferedEvent(r)
  <2>1. \E label \in {"placeholder", "reread", "peek"} : Goto(r, label)
    BY <1>11 DEF RefuseRow, LoseClaim, DropBufferedEvent
  <2> QED BY <1>3, <1>8, <2>1 DEF Draining
<1>12. CASE PeekLowest(r)
  <2>0. run' = run /\ buffer' = buffer
    BY <1>12 DEF PeekLowest
  <2>1. CASE buffer = {} /\ Goto(r, Drained(r))
    BY <1>2, <1>3, <1>8, <2>0, <2>1
  <2>2. ASSUME NEW head \in buffer, GotoFor(r, "drop", head) \/ GotoFor(r, "persist", head)
        PROVE  /\ OthersStay(r) /\ request'[r].pc \in {"drop", "persist"}
               /\ request'[r].seq = q.seq /\ request'[r].mode = q.mode
    BY <1>9, <2>2
  <2>3. ASSUME NEW head \in buffer, \A s \in buffer : head <= s, head > q.last + 1, Goto(r, "refresh")
        PROVE  Draining(request'[r], run) \/ \A s \in buffer : s > run.last + 1
    <3>1. request'[r].pc = "refresh" /\ request'[r].last = q.last
      BY <1>8, <2>3
    <3>2. q.last <= run.last
      BY <1>1 DEF Sound
    <3>3. CASE q.last < run.last
      BY <3>1, <3>3 DEF Draining
    <3>4. CASE q.last = run.last
      BY <1>1, <2>3, <3>4
    <3> QED BY <1>1, <3>2, <3>3, <3>4
  <2> QED BY <1>3, <1>8, <1>12, <2>0, <2>1, <2>2, <2>3 DEF PeekLowest, Draining
<1>13. CASE RefreshSequence(r)
  <2>0. run' = run /\ buffer' = buffer /\ q.pc = "refresh"
    BY <1>13 DEF RefreshSequence, At
  <2>1. CASE run.last > q.last
    BY <1>3, <1>10, <1>13, <2>1 DEF RefreshSequence, Draining
  <2>2. CASE ~(run.last > q.last)
    <3>1. ~Draining(q, run)
      BY <1>1, <2>0, <2>2 DEF Draining
    <3> QED BY <1>2, <1>3, <1>8, <1>13, <2>0, <2>2, <3>1 DEF RefreshSequence
  <2> QED BY <2>1, <2>2
<1> QED BY <1>4, <1>6, <1>7, <1>11, <1>12, <1>13 DEF DrainStep

\* What a POST's own step is, seen from its event: absorbed by the replay check,
\* routed after its key is claimed, on its way through the buffer, or answered.
Absorbed(p) ==
  /\ request[p].pc = "claimKey" /\ request'[p] = Idle
  /\ request[p].seq \in replayKeys
  /\ UNCHANGED <<buffer, replayKeys, answered>>

Routed(p) ==
  /\ request[p].pc = "claimKey"
  /\ replayKeys' = replayKeys \cup {request[p].seq}
  /\ UNCHANGED <<buffer, answered>>
  /\ \/ request'[p] = Idle /\ request[p].seq <= run.last
     \/ /\ request'[p].pc \in {"persist", "put"} /\ request'[p].mode = "fast"
        /\ request'[p].seq = request[p].seq

Buffers(p) ==
  /\ request[p].pc \in {"put", "sync"} /\ request'[p].pc \in {"sync", "peek"}
  /\ request'[p].seq = request[p].seq
  /\ UNCHANGED <<replayKeys, answered>>
  /\ \/ buffer' = Capped(buffer \cup {request[p].seq})
     \/ buffer' = buffer /\ request'[p].mode = request[p].mode

Replies(p) ==
  /\ request[p].pc = "reply" /\ request'[p] = Idle /\ request[p].mode # "fast"
  /\ UNCHANGED <<buffer, replayKeys>>
  /\ \E outcome : answered' = answered \cup {<<request[p].seq, outcome>>}

LEMMA PostMoves ==
  ASSUME Typed, SnapshotsSound, Calm, NEW p \in Posts, PostStep(p), ~At(p, "releaseKey")
  PROVE  /\ OthersStay(p) /\ run' = run /\ request[p].seq \in Events
         /\ Absorbed(p) \/ Routed(p) \/ Buffers(p) \/ Replies(p)
<1> DEFINE q == request[p]
<1>0. p \in Requests /\ run' = run /\ q.pc # "idle"
  BY DEF Requests, PostStep, IngestRunEvent, BufferEvent, SyncBeforeDrain, Reply,
         ReleaseReplayKey, At
<1>1. q \in Request /\ q.seq \in Events /\ Sound(q, run) /\ run.last \in Int /\ q.last \in Int
  BY <1>0, BusyLegal DEF Typed, StoresTyped, RunType, SnapshotsSound, At, Request
<1>2. ASSUME Done(p) PROVE OthersStay(p) /\ request'[p] = Idle
  BY <1>0, <1>2, BecomesOnly DEF Done
<1>3. CASE IngestRunEvent(p)
  <2>0. q.pc = "claimKey" /\ q.mode = "fast" /\ UNCHANGED <<buffer, answered>>
    BY <1>1, <1>3 DEF IngestRunEvent, At, Sound
  <2>1. CASE q.seq \in replayKeys
    BY <1>0, <1>1, <1>2, <1>3, <2>0, <2>1 DEF IngestRunEvent, Absorbed
  <2>2. CASE q.seq \notin replayKeys
    <3>0. replayKeys' = replayKeys \cup {q.seq} /\ Route(p)
      BY <1>3, <2>2 DEF IngestRunEvent
    <3>1. CASE Goto(p, "persist") \/ Goto(p, "put")
      <4>1. /\ OthersStay(p) /\ request'[p].pc \in {"persist", "put"} /\ request'[p].mode = q.mode
            /\ request'[p].seq = q.seq
        BY <1>0, <3>1, GotoOnly
      <4> QED BY <1>0, <1>1, <2>0, <3>0, <4>1 DEF Routed
    <3>2. CASE q.seq <= q.last /\ Done(p)
      <4>1. q.seq <= run.last
        BY <1>1, <3>2 DEF Sound, Events
      <4> QED BY <1>0, <1>1, <1>2, <2>0, <3>0, <3>2, <4>1 DEF Routed
    <3> QED BY <3>0, <3>1, <3>2 DEF Route
  <2> QED BY <2>1, <2>2
<1>4. CASE BufferEvent(p)
  <2> DEFINE terminal == q.seq \in TerminalEvents
             label == IF terminal THEN "peek" ELSE "sync"
             mode == IF terminal THEN "flush" ELSE "drain"
  <2>1. label \in {"peek", "sync"}
    OBVIOUS
  <2>2. Becomes(p, [q EXCEPT !.pc = label, !.mode = mode])
    BY <1>4 DEF BufferEvent
  <2>3. q.pc = "put" /\ buffer' = Capped(buffer \cup {q.seq}) /\ UNCHANGED <<replayKeys, answered>>
    BY <1>4 DEF BufferEvent, At
  <2> HIDE DEF label, mode
  <2>4. OthersStay(p) /\ request'[p] = [q EXCEPT !.pc = label, !.mode = mode]
    BY <1>0, <2>2, BecomesOnly
  <2>5. request'[p].pc = label /\ request'[p].seq = q.seq
    BY <1>1, <2>4 DEF Request
  <2> QED BY <1>0, <1>1, <2>1, <2>3, <2>4, <2>5 DEF Buffers
<1>5. CASE SyncBeforeDrain(p)
  <2>1. GotoSeeing(p, "peek", Later(q.last, run.last)) /\ q.pc = "sync"
        /\ UNCHANGED <<buffer, replayKeys, answered>>
    BY <1>5 DEF SyncBeforeDrain, At
  <2>2. /\ OthersStay(p) /\ request'[p].pc = "peek" /\ request'[p].seq = q.seq
        /\ request'[p].mode = q.mode
    BY <1>0, <2>1, GotoSeeingOnly
  <2> QED BY <1>0, <1>1, <2>1, <2>2 DEF Buffers
<1>6. CASE Reply(p)
  <2>1. q.pc = "reply" /\ q.mode # "fast"
    BY <1>1, <1>6 DEF Reply, At, Sound, FastLabels
  <2>2. /\ \E outcome : answered' = answered \cup {<<q.seq, outcome>>}
        /\ Done(p) /\ UNCHANGED <<buffer, replayKeys>>
    BY <1>6 DEF Reply
  <2> QED BY <1>0, <1>1, <1>2, <2>1, <2>2 DEF Replies
<1>7. ~ReleaseReplayKey(p)
  BY <1>1 DEF ReleaseReplayKey, At, Sound, Calm
<1> QED BY <1>3, <1>4, <1>5, <1>6, <1>7 DEF PostStep

\* The only calm step of finalizeRun outside its drain.
LEMMA CloserMoves ==
  ASSUME Typed, SnapshotsSound, Calm, Calm', NEW c \in Closers, CloserStep(c)
  PROVE  /\ OthersStay(c) /\ UNCHANGED <<run, buffer, replayKeys, answered>>
         /\ request[c].pc = "barrier" /\ request'[c].pc = "close"
         /\ request'[c].seq = request[c].seq /\ request'[c].mode = request[c].mode
<1>0. c \in Requests /\ run \in RunType
  BY DEF Requests, Typed, StoresTyped
<1>1. ~CloseSink(c)
  BY <1>0 DEF CloseSink, Calm, RunType
<1>2. ~BroadcastTerminal(c) /\ ~ClearBuffer(c)
  BY <1>0 DEF BroadcastTerminal, ClearBuffer, At, SnapshotsSound, Sound, Calm
<1>3. WriteTerminalLedger(c)
  BY <1>1, <1>2 DEF CloserStep
<1> QED BY <1>0, <1>3, GotoOnly DEF WriteTerminalLedger, At

\* An arrival puts a new request in an idle slot.
LEMMA ArrivalMoves ==
  ASSUME Typed, Arrival
  PROVE  /\ UNCHANGED <<run, buffer, replayKeys, answered>>
         /\ \E r \in Requests :
              /\ OthersStay(r) /\ request[r].pc = "idle"
              /\ \/ r \in Posts /\ request'[r].pc = "claimKey" /\ request'[r].mode = "fast"
                 \/ r \in Closers /\ request'[r].pc = "peek" /\ request'[r].mode = "flush"
<1>1. UNCHANGED <<run, buffer, replayKeys, answered>>
  BY DEF Arrival, VerifyRunSignature, StartFinalize
<1>2. ASSUME NEW p \in Posts, NEW s \in Events, VerifyRunSignature(p, s)
      PROVE  /\ OthersStay(p) /\ request[p].pc = "idle"
             /\ request'[p].pc = "claimKey" /\ request'[p].mode = "fast"
  BY <1>2, BecomesOnly DEF VerifyRunSignature, At, Requests
<1>3. ASSUME NEW c \in Closers, StartFinalize(c)
      PROVE  /\ OthersStay(c) /\ request[c].pc = "idle"
             /\ request'[c].pc = "peek" /\ request'[c].mode = "flush"
  <2>1. OthersStay(c) /\ request'[c] = [Idle EXCEPT !.pc = "peek", !.mode = "flush", !.last = run.last]
    BY <1>3, BecomesOnly DEF StartFinalize, Requests
  <2>2. Idle \in Request
    BY IdleLegal DEF Legal
  <2>3. request'[c].pc = "peek" /\ request'[c].mode = "flush"
    BY <2>1, <2>2 DEF Request
  <2> QED BY <1>3, <2>1, <2>3 DEF StartFinalize, At
<1> QED BY <1>1, <1>2, <1>3 DEF Arrival, Requests

\* The POST that claimed a replay key still carries its event.
Held(s) ==
  \E p \in Posts : request[p].pc \notin {"idle", "claimKey"} /\ request[p].seq = s

\* Without a fault no request is on its error path.
NoneFailed == \A r \in Requests : ~At(r, "releaseKey")

AnswersKept == \A a \in answered : Kept(a[1])

\* An event that has left the fast path is kept from then on, before its answer.
TakenKept ==
  \A p \in Posts : request[p].pc = "idle" \/ request[p].mode = "fast" \/ Kept(request[p].seq)

\* A claimed replay key, by which a retry is answered 2xx without being looked at,
\* stands for an event that is kept or still carried.
KeysKept == \A s \in replayKeys : Kept(s) \/ Held(s)

\* While an event in the buffer could be stored or dropped, a request is on its way
\* to look.
DrainAssured ==
  \A s \in buffer : s <= run.last + 1 => \E r \in Requests : Draining(request[r], run)

CalmInv == Calm => NoneFailed /\ AnswersKept /\ TakenKept /\ KeysKept /\ DrainAssured

\* Kept and Held in the state a step leads to, of an event named before the step.
KeptAfter(s) ==
  s <= run'.last \/ s \in buffer' \/ Cardinality(Above(buffer', s)) >= MaxBufferEntries

HeldAfter(s) ==
  \E p \in Posts : request'[p].pc \notin {"idle", "claimKey"} /\ request'[p].seq = s

LEMMA DrainCarried ==
  ASSUME Typed, Typed', RowGrows, run.last \in Int, run'.last \in Int, NEW r \in Requests,
         OthersStay(r), DrainAssured,
         \/ Draining(request'[r], run')
         \/ ~Draining(request[r], run) /\ run'.last = run.last /\ buffer' = buffer
         \/ \A s \in buffer' : s > run'.last + 1
  PROVE  DrainAssured'
<1>1. CASE Draining(request'[r], run')
  BY <1>1 DEF DrainAssured
<1>2. CASE ~Draining(request[r], run) /\ run'.last = run.last /\ buffer' = buffer
  <2> SUFFICES ASSUME NEW s \in buffer, s <= run.last + 1
               PROVE  \E u \in Requests : Draining(request'[u], run')
    BY <1>2 DEF DrainAssured
  <2>1. PICK u \in Requests : Draining(request[u], run)
    BY DEF DrainAssured
  <2>2. request'[u] = request[u]
    BY <1>2, <2>1 DEF OthersStay
  <2> QED BY <1>2, <2>1, <2>2 DEF Draining
<1>3. CASE \A s \in buffer' : s > run'.last + 1
  <2>1. ASSUME NEW s \in buffer', s <= run'.last + 1 PROVE FALSE
    <3>1. s > run'.last + 1 /\ s \in Int
      BY <1>3, <2>1 DEF Typed, StoresTyped, Events
    <3> QED BY <2>1, <3>1
  <2> QED BY <2>1 DEF DrainAssured
<1> QED BY <1>1, <1>2, <1>3

\* An event that is kept, or carried by the POST that claimed its key, stays so: the
\* POST lets go of it in its answer only.
LEMMA KeptOrHeldStays ==
  ASSUME Typed, SnapshotsSound, CalmInv, [Next]_vars, Calm', NEW s \in Events, Kept(s) \/ Held(s)
  PROVE  KeptAfter(s) \/ HeldAfter(s)
<1>0. /\ Typed' /\ RowGrows /\ Calm /\ NoneFailed /\ TakenKept
      /\ Posts \subseteq Requests /\ Idle.pc = "idle"
  BY CalmStep, NextTyped, RowNeverFalls DEF CalmInv, Requests, Idle
<1>1. Kept(s) => KeptAfter(s)
  BY KeptStays DEF Kept, Crowded, Above, KeptAfter
<1>2. SUFFICES ASSUME NEW p \in Posts, request[p].pc \notin {"idle", "claimKey"}, request[p].seq = s
               PROVE  KeptAfter(s) \/ HeldAfter(s)
  BY <1>1 DEF Held
<1>3. ASSUME request'[p].pc \notin {"idle", "claimKey"}, request'[p].seq = s
      PROVE  HeldAfter(s)
  BY <1>3 DEF HeldAfter
<1>4. ASSUME NEW r \in Requests, OthersStay(r), r # p
      PROVE  HeldAfter(s)
  BY <1>0, <1>2, <1>3, <1>4 DEF OthersStay
<1>5. CASE UNCHANGED vars \/ SinkExpires
  BY <1>2, <1>3, <1>5 DEF vars, SinkExpires
<1>6. ASSUME NEW r \in Requests, DrainStep(r)
      PROVE  HeldAfter(s)
  BY <1>0, <1>2, <1>3, <1>4, <1>6, DrainMoves
<1>7. ASSUME NEW o \in Posts, PostStep(o)
      PROVE  KeptAfter(s) \/ HeldAfter(s)
  <2>1. OthersStay(o) /\ (Absorbed(o) \/ Routed(o) \/ Buffers(o) \/ Replies(o)) /\ o \in Requests
    BY <1>0, <1>7, PostMoves DEF NoneFailed
  <2>2. CASE o = p
    <3>1. ~Absorbed(p) /\ ~Routed(p)
      BY <1>2 DEF Absorbed, Routed
    <3>2. Replies(p) => Kept(s)
      BY <1>0, <1>2 DEF Replies, TakenKept
    <3> QED BY <1>1, <1>2, <1>3, <2>1, <2>2, <3>1, <3>2 DEF Buffers
  <2> QED BY <1>4, <2>1, <2>2
<1>8. ASSUME NEW c \in Closers, CloserStep(c)
      PROVE  HeldAfter(s)
  BY <1>0, <1>4, <1>8, CloserMoves, RequestsAssumption DEF Requests
<1>9. CASE Arrival
  BY <1>2, <1>4, <1>9, ArrivalMoves
<1> QED BY <1>5, <1>6, <1>7, <1>8, <1>9, CalmStep DEF Step

LEMMA CalmKept ==
  ASSUME Typed, SnapshotsSound, CalmInv, [Next]_vars
  PROVE  CalmInv'
<1> SUFFICES ASSUME Calm'
             PROVE  NoneFailed' /\ AnswersKept' /\ TakenKept' /\ KeysKept' /\ DrainAssured'
  BY DEF CalmInv
<1>0. /\ Typed' /\ RowGrows /\ Calm /\ run.last \in Int /\ run'.last \in Int
      /\ NoneFailed /\ AnswersKept /\ TakenKept /\ KeysKept /\ DrainAssured
  BY CalmStep, NextTyped, RowNeverFalls DEF CalmInv
<1>1. /\ \A s \in Events : Kept(s) => KeptAfter(s)
      /\ replayKeys \subseteq Events /\ (\A a \in answered : a[1] \in Events)
      /\ \A p \in Posts : request[p].pc # "idle" => request[p].seq \in Events
      /\ Posts \subseteq Requests /\ Idle.pc = "idle"
  <2>1. \A s \in Events : Kept(s) => KeptAfter(s)
    BY KeptStays DEF Kept, Crowded, Above, KeptAfter
  <2>2. \A a \in answered : a[1] \in Events
    BY DEF Typed, StoresTyped
  <2> QED BY <2>1, <2>2 DEF Typed, StoresTyped, RequestsTyped, PostsCarryEvents, At, Requests, Idle
<1>2. answered' = answered => AnswersKept'
  BY <1>0, <1>1 DEF AnswersKept, Kept, Crowded, Above, KeptAfter
<1>3. ASSUME NEW r \in Requests, OthersStay(r), request'[r].pc # "releaseKey"
      PROVE  NoneFailed'
  BY <1>0, <1>3 DEF NoneFailed, OthersStay, At
<1>4. ASSUME NEW r \in Requests, OthersStay(r),
             r \in Posts => \/ request'[r].pc = "idle" \/ request'[r].mode = "fast"
                            \/ KeptAfter(request'[r].seq)
      PROVE  TakenKept'
  <2>1. ASSUME NEW p \in Posts, p # r
        PROVE  request'[p].pc = "idle" \/ request'[p].mode = "fast" \/ KeptAfter(request'[p].seq)
    BY <1>0, <1>1, <1>4, <2>1 DEF TakenKept, OthersStay
  <2> QED BY <1>4, <2>1 DEF TakenKept, Kept, Crowded, Above, KeptAfter
<1>5. ASSUME \A s \in replayKeys' : s \in replayKeys \/ KeptAfter(s) \/ HeldAfter(s)
      PROVE  KeysKept'
  <2>1. ASSUME NEW s \in replayKeys' PROVE KeptAfter(s) \/ HeldAfter(s)
    BY <1>0, <1>1, <1>5, <2>1, KeptOrHeldStays DEF KeysKept
  <2> QED BY <2>1 DEF KeysKept, Kept, Crowded, Above, KeptAfter, Held, HeldAfter
<1>6. CASE UNCHANGED vars \/ SinkExpires
  <2>1. UNCHANGED <<request, buffer, replayKeys, answered>> /\ run'.last = run.last
    BY <1>6 DEF vars, SinkExpires, Typed, StoresTyped, RunType
  <2>2. NoneFailed' /\ TakenKept'
    BY <1>0, <2>1 DEF NoneFailed, At, TakenKept, Kept, Crowded
  <2>4. KeysKept'
    BY <1>5, <2>1
  <2>3. DrainAssured'
    BY <1>0, <2>1 DEF DrainAssured, Draining
  <2> QED BY <1>2, <2>1, <2>2, <2>3, <2>4
<1>7. ASSUME NEW r \in Requests, DrainStep(r)
      PROVE  NoneFailed' /\ AnswersKept' /\ TakenKept' /\ KeysKept' /\ DrainAssured'
  <2>1. /\ OthersStay(r) /\ UNCHANGED <<replayKeys, answered>>
        /\ request[r].pc \notin {"idle", "claimKey"}
        /\ request'[r].pc \notin {"idle", "claimKey", "releaseKey"}
        /\ request'[r].seq = request[r].seq
        /\ \/ request'[r].mode = request[r].mode
           \/ request[r].mode = "fast" /\ request[r].seq <= run'.last
        /\ \/ Draining(request'[r], run')
           \/ ~Draining(request[r], run) /\ run'.last = run.last /\ buffer' = buffer
           \/ \A s \in buffer' : s > run'.last + 1
    BY <1>0, <1>7, DrainMoves
  <2>2. TakenKept'
    <3>1. ASSUME r \in Posts, request'[r].mode # "fast"
          PROVE  KeptAfter(request'[r].seq)
      <4>1. CASE request[r].seq <= run'.last
        BY <2>1, <4>1 DEF KeptAfter
      <4>2. CASE request'[r].mode = request[r].mode
        BY <1>0, <1>1, <2>1, <3>1, <4>2 DEF TakenKept
      <4> QED BY <2>1, <4>1, <4>2
    <3> QED BY <1>4, <2>1, <3>1
  <2>3. DrainAssured'
    BY <1>0, <2>1, DrainCarried
  <2> QED BY <1>2, <1>3, <1>5, <2>1, <2>2, <2>3
<1>8. ASSUME NEW p \in Posts, PostStep(p)
      PROVE  NoneFailed' /\ AnswersKept' /\ TakenKept' /\ KeysKept' /\ DrainAssured'
  <2> DEFINE q == request[p]
  <2>1. /\ OthersStay(p) /\ run' = run /\ q.seq \in Events /\ p \in Requests
        /\ Absorbed(p) \/ Routed(p) \/ Buffers(p) \/ Replies(p)
    BY <1>0, <1>1, <1>8, PostMoves DEF NoneFailed
  <2>2. CASE Absorbed(p)
    <3>1. DrainAssured'
      BY <1>0, <2>1, <2>2, DrainCarried DEF Absorbed, Draining
    <3> QED BY <1>1, <1>2, <1>3, <1>4, <1>5, <2>1, <2>2, <3>1 DEF Absorbed
  <2>3. CASE Routed(p)
    <3>1. DrainAssured'
      BY <1>0, <2>1, <2>3, DrainCarried DEF Routed, Draining
    <3>2. NoneFailed' /\ TakenKept' /\ AnswersKept'
      BY <1>1, <1>2, <1>3, <1>4, <2>1, <2>3 DEF Routed
    <3>3. KeysKept'
      <4>1. KeptAfter(q.seq) \/ HeldAfter(q.seq)
        BY <2>1, <2>3 DEF Routed, KeptAfter, HeldAfter
      <4> QED BY <1>5, <2>3, <4>1 DEF Routed
    <3> QED BY <3>1, <3>2, <3>3
  <2>4. CASE Buffers(p)
    <3>1. DrainAssured'
      BY <1>0, <2>1, <2>4, DrainCarried DEF Buffers, Draining
    <3>2. KeptAfter(q.seq) \/ request'[p].mode = "fast"
      <4>1. CASE buffer' = Capped(buffer \cup {q.seq})
        <5>1. q.seq \in buffer' \/ Cardinality(Above(buffer', q.seq)) >= MaxBufferEntries
          BY <2>1, <4>1, CappedKeeps DEF Typed, StoresTyped
        <5> QED BY <5>1 DEF KeptAfter
      <4>2. CASE request'[p].mode = q.mode
        BY <1>0, <1>1, <2>1, <2>4, <4>2 DEF TakenKept, Buffers
      <4> QED BY <2>4, <4>1, <4>2 DEF Buffers
    <3>3. TakenKept'
      BY <1>4, <2>1, <2>4, <3>2 DEF Buffers
    <3> QED BY <1>2, <1>3, <1>5, <2>1, <2>4, <3>1, <3>3 DEF Buffers
  <2>5. CASE Replies(p)
    <3>1. KeptAfter(q.seq)
      BY <1>0, <1>1, <2>1, <2>5 DEF TakenKept, Replies
    <3>2. AnswersKept'
      <4>1. ASSUME NEW a \in answered' PROVE KeptAfter(a[1])
        <5>1. CASE a \in answered
          BY <1>0, <1>1, <5>1 DEF AnswersKept
        <5>2. CASE a \notin answered
          <6>1. a[1] = q.seq
            BY <2>5, <4>1, <5>2 DEF Replies
          <6> QED BY <3>1, <6>1
        <5> QED BY <5>1, <5>2
      <4> QED BY <4>1 DEF AnswersKept, Kept, Crowded, Above, KeptAfter
    <3>3. DrainAssured'
      BY <1>0, <2>1, <2>5, DrainCarried DEF Replies, Draining
    <3> QED BY <1>1, <1>3, <1>4, <1>5, <2>1, <2>5, <3>2, <3>3 DEF Replies
  <2> QED BY <2>1, <2>2, <2>3, <2>4, <2>5
<1>9. ASSUME NEW c \in Closers, CloserStep(c)
      PROVE  NoneFailed' /\ AnswersKept' /\ TakenKept' /\ KeysKept' /\ DrainAssured'
  <2>1. /\ OthersStay(c) /\ UNCHANGED <<run, buffer, replayKeys, answered>>
        /\ request[c].pc = "barrier" /\ request'[c].pc = "close"
        /\ request'[c].seq = request[c].seq /\ request'[c].mode = request[c].mode
        /\ c \in Requests
    BY <1>0, <1>9, CloserMoves DEF Requests
  <2>2. DrainAssured'
    BY <1>0, <2>1, DrainCarried DEF Draining
  <2>3. c \notin Posts
    BY RequestsAssumption
  <2> QED BY <1>2, <1>3, <1>4, <1>5, <2>1, <2>2, <2>3
<1>10. CASE Arrival
  <2>1. PICK r \in Requests :
          /\ OthersStay(r) /\ request[r].pc = "idle" /\ UNCHANGED <<run, buffer, replayKeys, answered>>
          /\ \/ r \in Posts /\ request'[r].pc = "claimKey" /\ request'[r].mode = "fast"
             \/ r \in Closers /\ request'[r].pc = "peek" /\ request'[r].mode = "flush"
    BY <1>10, ArrivalMoves
  <2>2. DrainAssured'
    BY <1>0, <2>1, DrainCarried DEF Draining
  <2> QED BY <1>2, <1>3, <1>4, <1>5, <2>1, <2>2, RequestsAssumption
<1> QED BY <1>6, <1>7, <1>8, <1>9, <1>10, CalmStep DEF Step

LEMMA AlwaysCalm == Spec => [](Typed /\ SnapshotsSound /\ CalmInv)
<1>1. Init => CalmInv
  BY DEF Init, CalmInv, NoneFailed, AnswersKept, TakenKept, KeysKept, DrainAssured, At, Idle,
         Requests
<1> QED BY <1>1, AlwaysSound, CalmKept, PTL DEF Spec

\* At or below the counter is stored, or was jumped over.
LEMMA KeptMeans ==
  ASSUME NEW s \in Events, Kept(s)
  PROVE  s \in Log \cup buffer \cup Skipped \/ Crowded(s)
BY DEF Kept, Skipped

\* Whatever POSTs, drains, flushes and retries race and whatever fails: an event answered
\* `persisted` is in the log for good or was jumped over, and as long as no store fails,
\* one answered `buffered` is too, or is in the buffer, or later events filled the
\* buffer above it, or the run is over.
THEOREM AnswersAreKept == Spec => []AckedIsKept
<1>1. Typed /\ CalmInv /\ AnswersDurable => AckedIsKept
  <2> SUFFICES ASSUME Typed, CalmInv, AnswersDurable, NEW a \in answered
               PROVE  /\ (a[2] = "persisted" /\ a[1] \notin TerminalEvents)
                           => a[1] \in Log \cup Skipped
                      /\ (faults = 0 /\ ~run.closed)
                           => a[1] \in Log \cup buffer \cup Skipped \/ Crowded(a[1])
    BY DEF AckedIsKept
  <2>1. a[1] \in Events
    BY DEF Typed, StoresTyped
  <2>2. (a[2] = "persisted" /\ a[1] \notin TerminalEvents) => a[1] \in Log \cup Skipped
    BY <2>1 DEF AnswersDurable, Skipped
  <2>3. (faults = 0 /\ ~run.closed) => Kept(a[1])
    BY DEF CalmInv, Calm, AnswersKept
  <2> QED BY <2>1, <2>2, <2>3, KeptMeans
<1> QED BY <1>1, AlwaysCalm, AlwaysDurable, PTL

\* Of any number of requests that each found the other's event missing, the last to
\* look has drained both: when all have returned, the buffer holds only events that
\* wait for a predecessor.
THEOREM DrainsLeaveNothing == Spec => []NothingStranded
<1>1. Typed /\ CalmInv => NothingStranded
  <2> SUFFICES ASSUME Typed, CalmInv, Quiet, faults = 0, ~run.closed, NEW s \in buffer
               PROVE  s > run.last + 1
    BY DEF NothingStranded
  <2>1. s \in Int /\ run.last \in Int /\ DrainAssured
    BY DEF Typed, StoresTyped, RunType, Events, CalmInv, Calm
  <2>2. \A r \in Requests : ~Draining(request[r], run)
    BY DEF Quiet, At, Draining
  <2> QED BY <2>1, <2>2 DEF DrainAssured
<1> QED BY <1>1, AlwaysCalm, PTL

-----------------------------------------------------------------------------
(* The bound of the buffer.                                                   *)

BufferBounded == Cardinality(buffer) <= MaxBufferEntries

LEMMA CappedBounded ==
  ASSUME NEW S \in SUBSET Events, NEW e \in Events, Cardinality(S) <= MaxBufferEntries
  PROVE  Cardinality(Capped(S \cup {e})) <= MaxBufferEntries
<1> DEFINE U == S \cup {e}
<1>1. U \in SUBSET Events /\ U # {}
  OBVIOUS
<1>2. /\ IsFiniteSet(S) /\ Cardinality(S) \in Nat /\ IsFiniteSet(U) /\ Cardinality(U) \in Nat
      /\ MaxBufferEntries \in Nat
  BY <1>1, FiniteEvents, BoundsAssumption
<1>3. Cardinality(U) <= Cardinality(S) + 1
  BY <1>2, FS_AddElement
<1> HIDE DEF U
<1>4. CASE Cardinality(U) > MaxBufferEntries
  <2>1. Min(U) \in U
    BY <1>1, LeastEvent
  <2>2. Cardinality(U \ {Min(U)}) = Cardinality(U) - 1
    BY <1>2, <2>1, FS_RemoveElement
  <2>3. Capped(U) = U \ {Min(U)}
    BY <1>4 DEF Capped
  <2>4. Cardinality(Capped(U)) <= MaxBufferEntries
    BY <1>2, <1>3, <2>2, <2>3
  <2> QED BY <2>4 DEF U
<1>5. CASE ~(Cardinality(U) > MaxBufferEntries)
  <2>1. Capped(U) = U
    BY <1>5 DEF Capped
  <2> QED BY <1>2, <1>5, <2>1 DEF U
<1> QED BY <1>4, <1>5 DEF U

\* What a step may do to the buffer: put one event under the cap, or take some out.
LEMMA BufferMoves ==
  ASSUME Typed, [Next]_vars
  PROVE  buffer' \subseteq buffer \/ \E e \in Events : buffer' = Capped(buffer \cup {e})
<1>1. CASE UNCHANGED vars \/ SinkExpires \/ Arrival
  BY <1>1 DEF vars, SinkExpires, Arrival, VerifyRunSignature, StartFinalize
<1>2. ASSUME NEW r \in Requests, DrainStep(r) PROVE buffer' \subseteq buffer
  <2>1. CASE DropBufferedEvent(r)
    BY <2>1 DEF DropBufferedEvent
  <2>2. CASE PeekLowest(r)
    BY <2>2 DEF PeekLowest
  <2> QED BY <1>2, <2>1, <2>2 DEF DrainStep, PersistEventAndAdvance, RefuseRow, PersistPlaceholder,
              Claim, LoseClaim, RereadAfterLoss, AnnounceStarted, RefreshSequence
<1>3. ASSUME NEW p \in Posts, PostStep(p)
      PROVE  buffer' \subseteq buffer \/ \E e \in Events : buffer' = Capped(buffer \cup {e})
  <2>1. CASE BufferEvent(p)
    <3>1. request[p].seq \in Events
      BY <2>1 DEF BufferEvent, At, Typed, RequestsTyped, PostsCarryEvents
    <3> QED BY <2>1, <3>1 DEF BufferEvent
  <2>2. CASE ~BufferEvent(p)
    BY <1>3, <2>2 DEF PostStep, IngestRunEvent, SyncBeforeDrain, Reply, ReleaseReplayKey
  <2> QED BY <2>1, <2>2
<1>4. ASSUME NEW c \in Closers, CloserStep(c) PROVE buffer' \subseteq buffer
  <2>1. CASE ClearBuffer(c)
    BY <2>1 DEF ClearBuffer
  <2>2. CASE CloseSink(c)
    <3>1. UNCHANGED buffer
      BY <2>2, Zenon DEF CloseSink
    <3> QED BY <3>1
  <2>3. CASE WriteTerminalLedger(c) \/ BroadcastTerminal(c)
    <3>1. UNCHANGED buffer
      BY <2>3, Zenon DEF WriteTerminalLedger, BroadcastTerminal
    <3> QED BY <3>1
  <2> QED BY <1>4, <2>1, <2>2, <2>3 DEF CloserStep
<1>5. CASE FaultStep
  BY <1>5 DEF FaultStep, InfrastructureError, DropFails, ReplicaDies, ReleaseFails, ClearFails,
              BufferExpires
<1> QED BY <1>1, <1>2, <1>3, <1>4, <1>5 DEF Next, Step

\* However many requests put, drain, fail and retry at once, the buffer never holds
\* more than its cap.
THEOREM BufferStaysCapped == Spec => []BufferBounded
<1>1. Init => BufferBounded
  BY FS_EmptySet, BoundsAssumption DEF Init, BufferBounded
<1>2. Typed /\ BufferBounded /\ [Next]_vars => BufferBounded'
  <2> SUFFICES ASSUME Typed, BufferBounded, [Next]_vars PROVE BufferBounded'
    OBVIOUS
  <2>1. buffer \in SUBSET Events
    BY DEF Typed, StoresTyped
  <2>2. ASSUME buffer' \subseteq buffer PROVE BufferBounded'
    <3>1. Cardinality(buffer') <= Cardinality(buffer)
          /\ Cardinality(buffer) \in Nat /\ Cardinality(buffer') \in Nat
      BY <2>1, <2>2, FiniteEvents, FS_Subset
    <3> QED BY <3>1, BoundsAssumption DEF BufferBounded
  <2>3. ASSUME NEW e \in Events, buffer' = Capped(buffer \cup {e}) PROVE BufferBounded'
    BY <2>1, <2>3, CappedBounded DEF BufferBounded
  <2> QED BY <2>2, <2>3, BufferMoves
<1> QED BY <1>1, <1>2, AlwaysTyped, PTL DEF Spec

=============================================================================
