---------------------------- MODULE MCStorageOutbox ----------------------------
(* Instances of StorageOutbox for TLC. *)
EXTENDS StorageOutbox

CONSTANTS w1, w2, p1, p2, f1

OneVersion == {1}
NoFiles == {}
OneFile == {f1}
OneWriter == {w1}
OtherWriter == {w2}
NoWriter == {}
OnePass == {p1}
TwoPasses == {p1, p2}
=============================================================================
