---------------------------- MODULE MCChargeIssuing ----------------------------
(* Instances of ChargeIssuing for TLC: two months, the second a short one. *)
EXTENDS ChargeIssuing

Starts == <<1, 3>>
Ends == <<3, 4>>
=============================================================================
