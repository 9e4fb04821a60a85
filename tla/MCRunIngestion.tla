---------------------------- MODULE MCRunIngestion ----------------------------
(* Instances of RunIngestion for TLC. *)
EXTENDS RunIngestion

CONSTANTS p1, p2, c1

\* Two outcomes are enough to tell a changed verdict from a kept one.
MCTerminal == {"success", "failed"}
NoEvents == {}
SecondEvent == {2}
ThirdEvent == {3}

OnePost == {p1}
TwoPosts == {p1, p2}
OneCloser == {c1}
=============================================================================
