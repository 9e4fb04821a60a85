---------------------------- MODULE AdmissionRecord ----------------------------
(***************************************************************************)
(* What admitting and deleting promise about one organization, whatever    *)
(* transactions race: every run and every delete is as if it had come      *)
(* alone.  A run is launched at once, with the organization open, under    *)
(* the cap, with its inputs there and a number no run of its package has;  *)
(* nothing takes a run in flight or a file some run consumes; and the      *)
(* objects to purge are exactly those of the files that went.              *)
(***************************************************************************)
EXTENDS Integers, FiniteSets

CONSTANTS
  Launches,  \* runs that are launched
  Failed,    \* runs that are only recorded
  Others,    \* runs there before
  Package,   \* the package of each
  Input,     \* the files a launched run consumes
  Cap

VARIABLES
  runs,    \* each run's status and number
  live,    \* the files there are
  purged,  \* the files whose object is purged, or queued for it
  open     \* the organization: "live", "reserved" for deletion, "gone"

recordVars == <<runs, live, purged, open>>

AllRuns == Launches \cup Failed \cup Others
There(r) == runs[r].status # "none"
InFlight == {r \in AllRuns : runs[r].status = "active"}

RecordInit ==
  /\ \A r \in AllRuns : There(r) => r \in Others /\ r \notin InFlight
  /\ purged = {}
  /\ open = "live"

Insert(r, status) ==
  /\ ~ There(r)
  /\ \A q \in AllRuns : There(q) /\ Package[q] = Package[r] => runs[q].number < runs'[r].number
  /\ runs' = [runs EXCEPT ![r] = [status |-> status, number |-> runs'[r].number]]
  /\ UNCHANGED <<live, purged, open>>

Launch(r) ==
  /\ open = "live"
  /\ Cardinality(InFlight) < Cap
  /\ Input[r] \subseteq live
  /\ Insert(r, "active")

RecordFailure(r) == open # "gone" /\ Insert(r, "ended")

End(r) ==
  /\ runs[r].status = "active"
  /\ runs' = [runs EXCEPT ![r] = [status |-> "ended", number |-> runs[r].number]]
  /\ UNCHANGED <<live, purged, open>>

Publish(f) ==
  /\ \E r \in AllRuns : There(r)
  /\ f \notin live \cup purged
  /\ live' = live \cup {f}
  /\ UNCHANGED <<runs, purged, open>>

\* Runs and files go, none of them in flight or consumed by a run that stays.
Delete ==
  /\ runs' = [r \in AllRuns |-> IF runs'[r].status = "none"
                                  THEN [status |-> "none", number |-> 0] ELSE runs[r]]
  /\ \A r \in InFlight : runs'[r].status # "none"
  /\ live' \subseteq live
  /\ \A r \in Launches : runs'[r].status # "none" => Input[r] \cap (live \ live') = {}
  /\ purged' = purged \cup (live \ live')

Reserve ==
  /\ open = "live" /\ InFlight = {}
  /\ open' = "reserved"
  /\ UNCHANGED <<runs, live, purged>>

\* A reserved organization goes with everything in it.
DeleteAll ==
  /\ open = "reserved"
  /\ Delete
  /\ \A r \in AllRuns : runs'[r].status = "none"
  /\ live' = {}
  /\ open' = "gone"

RecordNext ==
  \/ \E r \in Launches : Launch(r)
  \/ \E r \in Failed : RecordFailure(r)
  \/ \E r \in AllRuns : End(r)
  \/ \E f \in live' : Publish(f)
  \/ Delete /\ UNCHANGED open
  \/ Reserve
  \/ DeleteAll

RecordSpec == RecordInit /\ [][RecordNext]_recordVars
=============================================================================
