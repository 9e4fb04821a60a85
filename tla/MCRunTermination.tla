--------------------------- MODULE MCRunTermination ---------------------------
(* Instances of RunTermination for TLC. *)
EXTENDS RunTermination

OneCloser == {"c1"}
=============================================================================
