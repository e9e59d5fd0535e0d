------------------------------ MODULE ChargePlan ------------------------------
(***************************************************************************)
(* What one Asaas webhook event does to one BillingCharge row, as pure     *)
(* operators: which row the event is about, whether it is stale, and the   *)
(* columns it writes (billing/billing-webhook.service.ts).  BillingWebhook *)
(* uses them step by step, WebhookLedger in one atomic step.               *)
(*                                                                         *)
(* Dates are positive numbers; NoDate stands for a null date column or a   *)
(* date the payload does not carry.  None stands for every other null.     *)
(***************************************************************************)
EXTENDS Integers, FiniteSets, Null

CONSTANTS
  Charges,      (* ids of the BillingCharge rows                           *)
  Companies,    (* ids of the companies                                    *)
  CompanyOf     (* the companyId column of each charge row                 *)

NoDate == 0

ChargeStatus == {"DRAFT", "SCHEDULED", "ISSUED", "SENT", "PAID", "OVERDUE",
                 "CANCELLED", "FAILED"}

IssuedEvents == {"PAYMENT_CREATED", "PAYMENT_UPDATED", "PAYMENT_RESTORED",
                 "PAYMENT_BANK_SLIP_VIEWED", "PAYMENT_CHECKOUT_VIEWED"}
PaidEvents == {"PAYMENT_CONFIRMED", "PAYMENT_RECEIVED"}
OverdueEvents == {"PAYMENT_OVERDUE", "PAYMENT_DUNNING_REQUESTED",
                  "PAYMENT_DUNNING_RECEIVED"}
CancelledEvents == {"PAYMENT_DELETED", "PAYMENT_BANK_SLIP_CANCELLED",
                    "PAYMENT_REFUNDED", "PAYMENT_PARTIALLY_REFUNDED",
                    "PAYMENT_RECEIVED_IN_CASH_UNDONE"}
FailedEvents == {"PAYMENT_CREDIT_CARD_CAPTURE_REFUSED",
                 "PAYMENT_REPROVED_BY_RISK_ANALYSIS", "PAYMENT_REFUND_DENIED"}

StatusOfEvent(event) ==
  CASE event \in IssuedEvents    -> "ISSUED"
    [] event \in PaidEvents      -> "PAID"
    [] event \in OverdueEvents   -> "OVERDUE"
    [] event \in CancelledEvents -> "CANCELLED"
    [] event \in FailedEvents    -> "FAILED"
    [] OTHER                     -> None

StatusOfGateway(gatewayStatus) ==
  CASE gatewayStatus \in {"PENDING", "AWAITING_RISK_ANALYSIS", "AUTHORIZED"} -> "ISSUED"
    [] gatewayStatus \in {"CONFIRMED", "RECEIVED", "RECEIVED_IN_CASH"}       -> "PAID"
    [] gatewayStatus = "OVERDUE"                                             -> "OVERDUE"
    [] gatewayStatus \in {"DELETED", "REFUNDED", "RECEIVED_IN_CASH_UNDONE"}  -> "CANCELLED"
    [] OTHER                                                                 -> None

(* Mutated form of NextStatus: the gateway's own status is stored unmapped. *)
NextStatusUnmapped(x) ==
  IF StatusOfEvent(x.event) # None THEN StatusOfEvent(x.event) ELSE x.gatewayStatus

NextStatus(x) ==
  IF StatusOfEvent(x.event) # None THEN StatusOfEvent(x.event)
  ELSE StatusOfGateway(x.gatewayStatus)

NextPaidAt(x) == IF NextStatus(x) = "PAID" THEN x.paidOn ELSE NoDate

-----------------------------------------------------------------------------
(* The row the event is about.  gatewayChargeId is unique over all rows and  *)
(* (companyId, externalReference) over the rows of a company, so either set  *)
(* has at most one member.                                                   *)
MatchedById(rows, x) ==
  {c \in Charges : x.gatewayChargeId # None /\ rows[c].gatewayChargeId = x.gatewayChargeId}

MatchedByReference(rows, x) ==
  {c \in Charges : /\ x.externalReference # None
                   /\ CompanyOf[c] = x.company
                   /\ rows[c].externalReference = x.externalReference}

Matched(rows, x) ==
  IF MatchedById(rows, x) # {} THEN MatchedById(rows, x)
  ELSE MatchedByReference(rows, x)

(* The two unique indexes of the table. *)
UniqueColumns(rows) ==
  \A c, d \in Charges : c # d =>
    /\ rows[c].gatewayChargeId = rows[d].gatewayChargeId => rows[c].gatewayChargeId = None
    /\ /\ CompanyOf[c] = CompanyOf[d]
       /\ rows[c].externalReference = rows[d].externalReference
       => rows[c].externalReference = None

-----------------------------------------------------------------------------
(* The event is older than the last status change the row recorded. *)
IsStale(row, x) ==
  row.gatewayStatusUpdatedAt # NoDate /\ x.created # NoDate
    /\ row.gatewayStatusUpdatedAt > x.created

StatusChanged(row, x) ==
  \/ x.gatewayStatus # None /\ row.gatewayStatus # x.gatewayStatus
  \/ NextStatus(x) # None /\ row.status # NextStatus(x)

(* Mutated forms of StampApplied: an undated event writes its null date; only *)
(* a change of the mapped status counts.                                     *)
StampAppliedUndated(row, x) == StatusChanged(row, x)
StampAppliedMapped(row, x) ==
  NextStatus(x) # None /\ row.status # NextStatus(x) /\ x.created # NoDate

StampApplied(row, x) == StatusChanged(row, x) /\ x.created # NoDate

(* A column is written when the payload carries a value that differs from    *)
(* the snapshot's; otherwise the UPDATE leaves the row's column alone.        *)
Overlay(null, carried, snapped, current) ==
  IF carried # null /\ snapped # carried THEN carried ELSE current

(* The row after the UPDATE planned from the snapshot snap. *)
Planned(row, snap, x) ==
  [gatewayChargeId   |-> Overlay(None, x.gatewayChargeId, snap.gatewayChargeId, row.gatewayChargeId),
   externalReference |-> Overlay(None, x.externalReference, snap.externalReference, row.externalReference),
   gatewayStatus     |-> Overlay(None, x.gatewayStatus, snap.gatewayStatus, row.gatewayStatus),
   status            |-> Overlay(None, NextStatus(x), snap.status, row.status),
   paidAt            |-> Overlay(NoDate, NextPaidAt(x), snap.paidAt, row.paidAt),
   gatewayStatusUpdatedAt |->
     IF StampApplied(snap, x) THEN x.created ELSE row.gatewayStatusUpdatedAt]

(* The WHERE of the guarded UPDATE: only a plan that moves the timestamp     *)
(* carries it.                                                               *)
UpdateAdmitted(row, snap, x) ==
  StampApplied(snap, x) /\ x.created # NoDate =>
    row.gatewayStatusUpdatedAt = NoDate \/ row.gatewayStatusUpdatedAt <= x.created

(* What the transaction leaves in the row. *)
Written(row, snap, x) ==
  IF ~IsStale(snap, x) /\ UpdateAdmitted(row, snap, x) THEN Planned(row, snap, x) ELSE row

-----------------------------------------------------------------------------
Payload ==
  [event : STRING, gatewayStatus : STRING \cup {None},
   gatewayChargeId : STRING \cup {None}, externalReference : STRING \cup {None},
   company : Companies \cup {None}, created : Nat, paidOn : Nat]

ChargeRow ==
  [gatewayChargeId : STRING \cup {None}, externalReference : STRING \cup {None},
   gatewayStatus : STRING \cup {None}, status : ChargeStatus,
   paidAt : Nat, gatewayStatusUpdatedAt : Nat]

ASSUME NoneAssumption == None \notin STRING
ASSUME CompanyOfAssumption == CompanyOf \in [Charges -> Companies]
=============================================================================
