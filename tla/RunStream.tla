------------------------------ MODULE RunStream ------------------------------
(***************************************************************************)
(* The runner's HttpSink (packages/afps-runtime/src/sinks/http-sink.ts)     *)
(* against the platform's ingestion.  handle() gives each event the next    *)
(* sequence and one webhook-id and posts it; finalize() posts the result    *)
(* once every handle() has settled (packages/runner-pi/src/pi-runner.ts).   *)
(* Each post is repeated, same id and same body, until it has an answer     *)
(* that is not a transient failure or has used its attempts.  The network   *)
(* may lose a request before it arrives or the answer of one that did; a    *)
(* request whose answer is lost is still served, beside the retry that      *)
(* replaces it.                                                            *)
(***************************************************************************)
EXTENDS RunIngestion

CONSTANTS
  Finalizers,   \* the closers that serve the runner's POST .../finalize and its retries
  MaxAttempts,  \* HttpSink's maxAttempts
  MaxLosses     \* bounds on the requests and on the answers lost in a behaviour

ASSUME StreamAssumption ==
  /\ Finalizers \subseteq Closers
  /\ MaxAttempts \in Nat \ {0}
  /\ MaxLosses \in [requests: Nat, answers: Nat]

\* What the sink posts: the events, and the result.
Result == 0
Messages == Events \cup {Result}

VARIABLES
  delivery,   \* what the sink knows of each message
  attempts,   \* fetches it has made for the message
  waiting,    \* the slots whose answer still has a reader
  losses      \* requests and answers lost so far

sinkVars == <<delivery, attempts, waiting, losses>>
streamVars == <<vars, sinkVars>>

\* unsent; posted, no request at the platform yet; open, being served; backoff,
\* to be posted again; and, once sendSigned has returned, delivered (2xx), refused
\* (410) or gaveUp.
Settled == {"delivered", "refused", "gaveUp"}
Deliveries == {"unsent", "posted", "open", "backoff"} \cup Settled

StreamTypeOK ==
  /\ TypeOK
  /\ delivery \in [Messages -> Deliveries]
  /\ attempts \in [Messages -> 0..MaxAttempts]
  /\ waiting \subseteq Posts \cup Finalizers
  /\ losses \in [requests: 0..MaxLosses.requests, answers: 0..MaxLosses.answers]

StreamInit ==
  /\ Init
  /\ delivery = [m \in Messages |-> "unsent"]
  /\ attempts = [m \in Messages |-> 0]
  /\ waiting = {}
  /\ losses = [requests |-> 0, answers |-> 0]

\* The message a slot serves; a closer's request carries no sequence.
Message(r) == request[r].seq

-----------------------------------------------------------------------------
(* sendSigned.                                                             *)

Post(m) ==
  /\ delivery' = [delivery EXCEPT ![m] = "posted"]
  /\ attempts' = [attempts EXCEPT ![m] = @ + 1]
  /\ UNCHANGED <<vars, waiting, losses>>

\* Mutants: one attempt too many, no retry.
AfterFailureOnceMore(m) == IF attempts[m] <= MaxAttempts THEN "backoff" ELSE "gaveUp"
AfterFailureNoRetry(m) == "gaveUp"

\* What the sink makes of an attempt that met a network error, a 5xx or a 429.
AfterFailure(m) == IF attempts[m] < MaxAttempts THEN "backoff" ELSE "gaveUp"

\* handle() takes the sequences in order; a call does not wait for the one before.
Handle(s) ==
  /\ delivery[s] = "unsent" /\ delivery[Result] = "unsent"
  /\ \A earlier \in 1..(s - 1) : delivery[earlier] # "unsent"
  /\ Post(s)

\* Mutant: the runner does not wait for its POSTs.
FinalizeAtOnce ==
  /\ Finalizers # {}
  /\ delivery[Result] = "unsent"
  /\ Post(Result)

\* The runner drains what it has emitted, then finalizes.  (Without Finalizers the
\* instance leaves the runner's finalize out.)
Finalize ==
  /\ Finalizers # {}
  /\ delivery[Result] = "unsent"
  /\ \A s \in Events : delivery[s] \in {"unsent"} \cup Settled
  /\ Post(Result)

Retry(m) == delivery[m] = "backoff" /\ Post(m)

\* A request reaches the platform: the guard lets it in, or refuses it (410).
Admitted(r, m) ==
  /\ delivery[m] = "posted"
  /\ waiting' = waiting \cup {r}
  /\ delivery' = [delivery EXCEPT ![m] = "open"]
  /\ UNCHANGED <<attempts, losses>>

ArriveEvent(p, s) == VerifyRunSignature(p, s) /\ Admitted(p, s)

ArriveResult(c) ==
  /\ ~run.closed /\ ~run.expired
  /\ StartFinalize(c)
  /\ Admitted(c, Result)

Refuse(m) ==
  /\ delivery[m] = "posted"
  /\ run.closed \/ run.expired
  /\ delivery' = [delivery EXCEPT ![m] = "refused"]
  /\ UNCHANGED <<vars, attempts, waiting, losses>>

-----------------------------------------------------------------------------
(* The platform's side of a request.                                       *)

\* The request in slot r is over; the sink learns `verdict` if it still listens.
Answer(r, verdict) ==
  /\ waiting' = waiting \ {r}
  /\ delivery' = IF r \in waiting
                 THEN [delivery EXCEPT ![Message(r)] = verdict] ELSE delivery
  /\ UNCHANGED <<attempts, losses>>

\* What the step that ends the request answers: 410 when the sink closed under an
\* event, 500 after an error, else 200.
Verdict(r) ==
  CASE At(r, "releaseGone") -> "refused"
    [] At(r, "releaseKey") -> AfterFailure(Message(r))
    [] OTHER -> "delivered"

\* A platform step of the request in slot r, or one whose best effort fails.
Serve(r) ==
  /\ Step(r)
  /\ IF request'[r].pc # "idle" THEN UNCHANGED sinkVars ELSE Answer(r, Verdict(r))

ServeBestEffort(r) ==
  /\ IF r \in Posts THEN ReleaseFails(r) ELSE ClearFails(r)
  /\ Answer(r, Verdict(r))

\* Mutant: an error is answered 200.
ServeFaultSilently(r) ==
  /\ InfrastructureError(r) \/ DropFails(r)
  /\ IF request'[r].pc # "idle" THEN UNCHANGED sinkVars ELSE Answer(r, "delivered")

\* A fault under the request in slot r, which the ones that end it show as an error.
ServeFault(r) ==
  /\ InfrastructureError(r) \/ DropFails(r)
  /\ IF request'[r].pc # "idle" THEN UNCHANGED sinkVars
     ELSE Answer(r, AfterFailure(Message(r)))

\* A replica dies, or the single process restarts: the connections of its requests
\* break, and the retries find what is left of the stores.
ServerDies(dead) ==
  LET cut == {Message(r) : r \in waiting \cap dead} IN
  /\ ReplicaDies(dead)
  /\ waiting' = waiting \ dead
  /\ delivery' = [m \in Messages |-> IF m \in cut THEN AfterFailure(m) ELSE delivery[m]]
  /\ UNCHANGED <<attempts, losses>>

\* finalizeRun beside the stream: a cancel, the watchdog, the exit of the container.
PlatformCloses ==
  /\ \E c \in Closers \ Finalizers :
       \/ StartFinalize(c) \/ Step(c)
       \/ InfrastructureError(c) \/ DropFails(c) \/ ClearFails(c)
  /\ UNCHANGED sinkVars

-----------------------------------------------------------------------------
(* The network: a request that never arrives, an answer that never comes back. *)

Loss(kind) ==
  losses[kind] < MaxLosses[kind] /\ losses' = [losses EXCEPT ![kind] = @ + 1]

RequestLost(m) ==
  /\ delivery[m] = "posted"
  /\ Loss("requests")
  /\ delivery' = [delivery EXCEPT ![m] = AfterFailure(m)]
  /\ UNCHANGED <<vars, attempts, waiting>>

AnswerLost(r) ==
  /\ r \in waiting
  /\ Loss("answers")
  /\ waiting' = waiting \ {r}
  /\ delivery' = [delivery EXCEPT ![Message(r)] = AfterFailure(Message(r))]
  /\ UNCHANGED <<vars, attempts>>

-----------------------------------------------------------------------------
Arrive(m) ==
  \/ \E p \in Posts : m \in Events /\ ArriveEvent(p, m)
  \/ \E c \in Finalizers : m = Result /\ ArriveResult(c)
  \/ Refuse(m)

StreamNext ==
  \/ \E s \in Events : Handle(s)
  \/ Finalize
  \/ \E m \in Messages : Retry(m) \/ Arrive(m) \/ RequestLost(m)
  \/ \E r \in Posts \cup Finalizers : Serve(r) \/ ServeBestEffort(r) \/ ServeFault(r) \/ AnswerLost(r)
  \/ PlatformCloses
  \/ \E dead \in SUBSET Requests : ServerDies(dead)
  \/ BufferExpires /\ UNCHANGED sinkVars

StreamSpec == StreamInit /\ [][StreamNext]_streamVars

\* The runner calls handle() and finalize() and sleeps out its backoffs, a posted
\* request arrives unless the network loses it, and the platform resumes every
\* request.
StreamFairness ==
  /\ \A s \in Events : WF_streamVars(Handle(s))
  /\ WF_streamVars(Finalize)
  /\ \A m \in Messages : WF_streamVars(Retry(m)) /\ WF_streamVars(Arrive(m))
  /\ \A r \in Posts \cup Finalizers : WF_streamVars(Serve(r))

FairStreamSpec == StreamSpec /\ StreamFairness

-----------------------------------------------------------------------------
(* Properties.                                                             *)

\* Events some POST is serving, the ones whose sink has stopped listening included.
InService == {Message(p) : p \in {q \in Posts : ~At(q, "idle")}}

\* What handle() returned from, the platform has: in the log, in the buffer, or in
\* a request still served (a retry is answered `replay` while the first attempt
\* holds the key), unless a flush skipped it, later events crowded it out of a full
\* buffer, or the run is over.  Lost and duplicated requests only, no fault of the
\* infrastructure.
DeliveredIsKept ==
  faults = 0 =>
    \A s \in Events : delivery[s] = "delivered" =>
      s \in Log \cup buffer \cup Skipped \cup InService \/ Crowded(s) \/ run.closed

\* The runner settles its events before it finalizes so that none is dropped: when
\* its finalize is what closes the run, every event it was told is delivered is in
\* the log or was jumped over by the flush of another finalize, the ones that were
\* only buffered behind a gap included.  (An answer that was lost voids this: its
\* retry is acknowledged as a replay while the first attempt, still on its way to
\* the buffer, misses the flush.)
FinishedRunIsComplete ==
  [][\A c \in Finalizers :
       (Serve(c) /\ At(c, "close") /\ ~run.closed /\ run'.closed
          /\ faults = 0 /\ losses.answers = 0) =>
         \A s \in Events : delivery[s] = "delivered" => s \in Log \cup Skipped]_streamVars

\* A runner told that its result is accepted may exit: the run is closed, whatever
\* restarts, errors and losses the result went through.
AcceptedResultClosed == delivery[Result] = "delivered" => run.closed

\* With fewer losses than attempts, every event the runner handles ends up in the
\* log, in spite of reordering, loss and duplication, unless the run ends first.
EveryEventStored == \A s \in Events : <>(s \in Log \/ run.closed)

\* With fewer losses than attempts, the runner's finalize closes its run.
EveryRunCloses == <>run.closed

\* The comment where the replay key is released after an error says that the release
\* keeps the runner's retry of the failed attempt from being absorbed by the replay
\* check.  So no retry has been absorbed by the time the key is released.
KeyReleasedInTime ==
  [][\A p \in Posts :
       (Serve(p) /\ At(p, "releaseKey")) => delivery[Message(p)] # "delivered"]_streamVars

\* The API description of the finalize route: a replay after the sink is closed is
\* answered 200.  So a runner whose own finalize is all that closes its run is not
\* refused.
FinalizeIdempotent == Closers = Finalizers => delivery[Result] # "refused"
=============================================================================
