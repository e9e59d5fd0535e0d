--------------------------- MODULE MCBillingWebhook ---------------------------
(* Instances of BillingWebhook for TLC: payload and row sets. *)
EXTENDS BillingWebhook, TLC

Blank == [event |-> "PAYMENT_UPDATED", gatewayStatus |-> None, gatewayChargeId |-> None,
          externalReference |-> "ref1", company |-> "acme", created |-> NoDate, paidOn |-> NoDate]
Issued == [gatewayChargeId |-> None, externalReference |-> "ref1", gatewayStatus |-> None,
           status |-> "ISSUED", paidAt |-> NoDate, gatewayStatusUpdatedAt |-> NoDate]
Scheduled == [Issued EXCEPT !.status = "SCHEDULED"]

AllOfAcme == [c \in Charges |-> "acme"]

(* One charge, events about it in every order of their dates. *)
Created == [Blank EXCEPT !.event = "PAYMENT_CREATED", !.gatewayStatus = "PENDING", !.created = 1]
Overdue == [Blank EXCEPT !.event = "PAYMENT_OVERDUE", !.gatewayStatus = "OVERDUE",
                         !.gatewayChargeId = "pay1", !.created = 2]
Received == [Blank EXCEPT !.event = "PAYMENT_RECEIVED", !.gatewayStatus = "RECEIVED",
                          !.gatewayChargeId = "pay1", !.created = 3, !.paidOn = 3]
Undated == [Received EXCEPT !.event = "PAYMENT_ANTICIPATED", !.created = NoDate]
Restored == [Blank EXCEPT !.event = "PAYMENT_RESTORED", !.gatewayStatus = "RECEIVED", !.created = 3]
IssuedRow == {[c \in Charges |-> Issued]}
OneRow == {[c \in Charges |-> Issued], [c \in Charges |-> Scheduled]}
FirstAndUndated == [Events -> {Created, Undated}]
OneCharge == [Events -> {Created, Overdue, Received, Undated, Restored}]
Symmetric == Permutations(Workers) \cup Permutations(Events)

(* Two charges; the event carries the gateway id of one and the reference of *)
(* the other, so it can be written to neither.                               *)
OtherRow == [Issued EXCEPT !.gatewayChargeId = "pay2", !.externalReference = "ref2"]
TwoRows == {[c \in Charges |-> IF c = CHOOSE d \in Charges : TRUE THEN Issued ELSE OtherRow]}
Crossed == [Received EXCEPT !.gatewayChargeId = "pay2"]
Crossing ==
  {[e \in Events |-> IF e = CHOOSE f \in Events : TRUE THEN Crossed ELSE Created]}
CrossedAndUndated ==
  {[e \in Events |-> IF e = CHOOSE f \in Events : TRUE THEN Crossed ELSE Undated]}
=============================================================================
