----------------------------- MODULE WebhookLedger -----------------------------
(***************************************************************************)
(* What the webhook pipeline promises, without queue, locks, retries or    *)
(* snapshots: each event is processed at most once, and its effect on its  *)
(* charge is one atomic step computed from the row as it is.               *)
(***************************************************************************)
EXTENDS ChargePlan

CONSTANTS
  Events,       (* deduplication keys                                      *)
  Deliveries,   (* which payload each deduplication key may come with      *)
  InitialTables (* contents the charge table may start from                *)

VARIABLES
  payload,   (* the payload each deduplication key comes with              *)
  rows,      (* the charge rows                                            *)
  done       (* events that have been processed                            *)

vars == <<payload, rows, done>>

Init ==
  /\ payload \in Deliveries
  /\ rows \in InitialTables
  /\ done = {}

(* The release sweep takes no lock, so an event may be planned from the row  *)
(* as it was just before the sweep.                                          *)
Bases(row) ==
  {row} \cup (IF row.status = "ISSUED" THEN {[row EXCEPT !.status = "SCHEDULED"]} ELSE {})

(* The event finds no charge, or is written to one. *)
ProcessEvent(e) ==
  /\ e \notin done
  /\ done' = done \cup {e}
  /\ \/ UNCHANGED rows
     \/ \E c \in Charges : \E basis \in Bases(rows[c]) :
          rows' = [rows EXCEPT ![c] = Written(rows[c], basis, payload[e])]
  /\ UniqueColumns(rows')
  /\ UNCHANGED payload

ReleaseScheduledCharges ==
  /\ \E S \in SUBSET {c \in Charges : rows[c].status = "SCHEDULED"} :
       rows' = [c \in Charges |-> IF c \in S THEN [rows[c] EXCEPT !.status = "ISSUED"] ELSE rows[c]]
  /\ UNCHANGED <<payload, done>>

Next == (\E e \in Events : ProcessEvent(e)) \/ ReleaseScheduledCharges

Spec == Init /\ [][Next]_vars
=============================================================================
