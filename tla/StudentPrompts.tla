---------------------------- MODULE StudentPrompts -----------------------------
(***************************************************************************)
(* What the prompts promise a student, without cron, queue, workers,       *)
(* statuses, retries or crashes: a prompt is offered in the app from the   *)
(* moment it exists until it is answered or its departure has passed, and  *)
(* an answer is one step that tells the route too.  The departure may be   *)
(* moved while the prompt exists: what counts is the earliest it has been. *)
(***************************************************************************)
EXTENDS Naturals, Null

CONSTANTS
  Prompts        (* ids                                                    *)

VARIABLES
  now,           (* the minute of the day                                  *)
  until,         (* the earliest departure of each so far, 0 before it exists *)
  asked,         (* the prompts that exist                                 *)
  offered,       (* those the app shows                                    *)
  response,      (* the answer to each, or None                            *)
  confirmation   (* what the route knows of its student, or None           *)

vars == <<now, until, asked, offered, response, confirmation>>

Init ==
  /\ now = 0
  /\ until = [p \in Prompts |-> 0]
  /\ asked = {}
  /\ offered = {}
  /\ response = [p \in Prompts |-> None]
  /\ confirmation = [p \in Prompts |-> None]

Pass == now' = now + 1 /\ UNCHANGED <<until, asked, offered, response, confirmation>>

Ask(p) ==
  /\ p \notin asked
  /\ until'[p] \in Nat /\ until' = [until EXCEPT ![p] = until'[p]]
  /\ asked' = asked \cup {p}
  /\ offered' = offered \cup {p}
  /\ UNCHANGED <<now, response, confirmation>>

(* Departures are moved sooner. *)
Advance ==
  /\ until' \in [Prompts -> Nat] /\ \A p \in Prompts : until'[p] <= until[p]
  /\ UNCHANGED <<now, asked, offered, response, confirmation>>

Withdraw(p) ==
  /\ p \in offered
  /\ now > until[p]
  /\ offered' = offered \ {p}
  /\ UNCHANGED <<now, until, asked, response, confirmation>>

(* An answer may be changed, and may still come when the bus has left. *)
Answer(p) ==
  /\ p \in asked
  /\ \E willGo \in BOOLEAN :
       /\ response' = [response EXCEPT ![p] = willGo]
       /\ confirmation' = [confirmation EXCEPT ![p] = willGo]
  /\ offered' = offered \ {p}
  /\ UNCHANGED <<now, until, asked>>

(* Nothing locks a prompt: who read it before writes its status afterwards,   *)
(* and one that was answered or withdrawn is shown again.                     *)
OfferAgain(p) ==
  /\ p \in asked \ offered
  /\ offered' = offered \cup {p}
  /\ UNCHANGED <<now, until, asked, response, confirmation>>

(* The student tells the route without answering. *)
Confirm(p) ==
  /\ \E willGo \in BOOLEAN : confirmation' = [confirmation EXCEPT ![p] = willGo]
  /\ UNCHANGED <<now, until, asked, offered, response>>

Next ==
  \/ Pass \/ Advance
  \/ \E p \in Prompts : Ask(p) \/ Withdraw(p) \/ Answer(p) \/ OfferAgain(p) \/ Confirm(p)

Spec == Init /\ [][Next]_vars
=============================================================================
