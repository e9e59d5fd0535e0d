------------------------------ MODULE MCBoarding ------------------------------
(* An instance of Boarding for TLC. *)
EXTENDS Boarding

OneCompany == [x \in Students \cup Gates |-> "acme"]
OwnDevice == [r \in Taps |-> IF r = "tap1" THEN "gate1" ELSE "gate2"]
=============================================================================
