----------------------------- MODULE MCRunStream -----------------------------
(* Instances of RunStream for TLC. *)
EXTENDS RunStream

CONSTANTS p1, p2, c1, c2

MCTerminal == {"success", "failed"}
NoEvents == {}
NoClosers == {}
OnePost == {p1}
TwoPosts == {p1, p2}
FirstCloser == {c1}
TwoClosers == {c1, c2}

OneEach == [requests |-> 1, answers |-> 1]
OneAnswer == [requests |-> 0, answers |-> 1]
=============================================================================
