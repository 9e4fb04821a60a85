------------------------------- MODULE MCBilling -------------------------------
(* Small instances of Billing. *)
EXTENDS Billing, TLC

CONSTANTS r1, c1, s1, s2, d1

OneRun == {r1}
OneCall == {c1}
BillableRows == {r1, c1}
PriceOf == c1 :> 1
ContextOf == r1 :> r1 @@ c1 :> r1
TwoSweepers == {s1, s2}
OneDrainer == {d1}
=============================================================================
