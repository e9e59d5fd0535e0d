------------------------------- MODULE ChargeBook ------------------------------
(***************************************************************************)
(* What issuing promises a company that looks at its charges, without the  *)
(* requests, the reads they start from and the tables those are read of:   *)
(* an issue is one step, which sees the charges as they are and adds one   *)
(* for each student it charges, and afterwards a charge only changes its   *)
(* status.                                                                 *)
(***************************************************************************)
EXTENDS Naturals

CONSTANTS
  Months,
  MonthStart,    (* the first day of each month                            *)
  MonthEnd,      (* the first day after it                                 *)
  Reported       (* the statuses a webhook sets                            *)

VARIABLES
  now,           (* the day                                                *)
  charges,       (* the charges                                            *)
  issues         (* how many issues they came with                         *)

vars == <<now, charges, issues>>

Init == now = 1 /\ charges = {} /\ issues = 0

Pass == now' = now + 1 /\ UNCHANGED <<charges, issues>>

IsOf(c, m) == MonthStart[m] <= c.dueDate /\ c.dueDate < MonthEnd[m]

(* In force: neither cancelled nor restored after it was. *)
InForce(c) == c.status # "CANCELLED" /\ ~c.restored

(* A charge of the month m that the book has room for. *)
Fits(c, m) ==
  /\ IsOf(c, m) /\ c.issueDate <= c.dueDate
  /\ \A d \in charges :
       c.student = d.student /\ c.template = d.template /\ InForce(d) => ~IsOf(d, m)

(* One charge for each of some students, all of one month and issue date. *)
Issue ==
  LET new == charges' \ charges IN
  /\ new # {} /\ charges \subseteq charges'
  /\ issues' = issues + 1
  /\ \E m \in Months : \A c \in new : Fits(c, m)
  /\ \A c \in new : c.issue = issues + 1 /\ c.status \in {"SCHEDULED", "ISSUED"} /\ ~c.restored
  /\ \A c, d \in new :
       /\ c.issueDate = d.issueDate /\ c.status = d.status
       /\ c.student = d.student => c = d
  /\ UNCHANGED now

(* The charges whose issue date has come, all at once. *)
Release ==
  LET due == {c \in charges : c.status = "SCHEDULED" /\ c.issueDate <= now} IN
  /\ charges' = (charges \ due) \cup {[c EXCEPT !.status = "ISSUED"] : c \in due}
  /\ UNCHANGED <<now, issues>>

Report(c, s) ==
  /\ charges' = (charges \ {c}) \cup
       {[c EXCEPT !.status = s, !.restored = (@ \/ c.status = "CANCELLED")]}
  /\ UNCHANGED <<now, issues>>

Next ==
  \/ Pass \/ Issue \/ Release
  \/ \E c \in charges, s \in Reported : Report(c, s)

Spec == Init /\ [][Next]_vars
=============================================================================
