---------------------------- MODULE MCDevicePairing ----------------------------
(* Instances of DevicePairing for TLC. *)
EXTENDS DevicePairing, TLC

(* One bus for each company. *)
BusOf == [b \in Buses |-> IF b = "bus1" THEN "acme" ELSE "beta"]
Symmetric == Permutations(Devices) \cup Permutations(Codes) \cup Permutations(Admins)
=============================================================================
