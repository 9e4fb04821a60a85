---------------------------- MODULE MCRunAdmission ----------------------------
(* Small instances of RunAdmission: two packages, one old run with its output. *)
EXTENDS RunAdmission, TLC

CONSTANTS a1, a2, e1, o1, d1, k1, s1, x1, w1, b1, i1, agent, other, f1, f2

NoOne == {}
TwoAdmissions == {a1, a2}
OneFailure == {e1}
OneOldRun == {o1}
OneRunDeleter == {d1}
OneOrgDeleter == {k1}
OneSpaceDeleter == {s1}
OneFileDeleter == {x1}
OneSweeper == {w1}
OnePublisher == {b1}
OneItemDeleter == {i1}
BothPackages == {agent, other}
BothFiles == {f1, f2}

\* a1 launches the package whose old run published f1, a2 another that consumes f1;
\* the old run publishes f2 late.
AgentOf == [t \in {a1, e1, o1, d1} |-> agent] @@ [t \in {a2, i1} |-> other]
InputOf == a1 :> {} @@ a2 :> {f1}
TargetOf == x1 :> f1 @@ b1 :> f2
ProducerOf == b1 :> o1
ContainedFiles == f1 :> o1
=============================================================================
