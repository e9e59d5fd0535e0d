----------------------------- MODULE ChargeIssuing -----------------------------
(***************************************************************************)
(* A company's charges are issued for a month, released on their issue     *)
(* date and listed (billing/billing.service.ts), while templates and       *)
(* students change and the gateway reports on charges issued before.       *)
(*                                                                         *)
(* issueCharges reads the students with their templates, then, in a        *)
(* READ COMMITTED transaction, the charges of the month, and inserts the   *)
(* missing ones.  A charge is identified by its student and the issue that *)
(* created it, which its externalReference is built from.                  *)
(***************************************************************************)
EXTENDS Naturals, FiniteSets, Null

CONSTANTS
  Students,        (* ids                                                  *)
  Templates,       (* ids                                                  *)
  Months,          (* reference months                                     *)
  MonthStart,      (* the first day of each month                          *)
  MonthEnd,        (* the first day after it                               *)
  DueDays,         (* the template's day of month, from 1                  *)
  IssueDates,      (* days                                                 *)
  Reported,        (* the statuses a webhook sets                          *)
  Requests,        (* issues in progress                                   *)
  MaxIssues,       (* bound: issues committed                              *)
  Horizon          (* bound: the last day                                  *)

ASSUME MonthsAssumption ==
  \A m \in Months : MonthStart[m] \in Nat /\ MonthEnd[m] \in Nat /\ MonthStart[m] < MonthEnd[m]
ASSUME MonthsApart ==
  \A m, n \in Months : m # n => MonthEnd[m] <= MonthStart[n] \/ MonthEnd[n] <= MonthStart[m]
ASSUME DaysAssumption == DueDays \subseteq Nat \ {0} /\ IssueDates \subseteq Nat
ASSUME NullAssumption == None \notin Templates
ASSUME BoundsAssumption == MaxIssues \in Nat /\ Horizon \in Nat

VARIABLES
  now,         (* the day                                                  *)
  template,    (* BillingTemplate: active and dueDay                       *)
  student,     (* Student: active and template                             *)
  customers,   (* BillingCustomer rows of each student                     *)
  charges,     (* BillingCharge rows                                       *)
  issues,      (* issues committed                                         *)
  request      (* what each issue in progress was asked and has read       *)

vars == <<now, template, student, customers, charges, issues, request>>

Status == {"SCHEDULED", "ISSUED", "OVERDUE", "PAID", "CANCELLED", "FAILED"}
ASSUME ReportedAssumption == Reported \subseteq Status \ {"SCHEDULED"}

Row ==
  [student : Students, issue : Nat, template : Templates, issueDate : Nat, dueDate : Nat,
   status : Status, restored : BOOLEAN]
Idle ==
  [pc |-> "idle", month |-> None, issueDate |-> 0, from |-> 0, listed |-> << >>, existing |-> {}]

(* The students the migration found, with or without a template. *)
Init ==
  /\ now = 1
  /\ template \in [Templates -> [active : {TRUE}, dueDay : DueDays]]
  /\ student \in [Students -> [active : {TRUE}, template : Templates \cup {None}]]
  /\ customers = [s \in Students |-> 0]
  /\ charges = {}
  /\ issues = 0
  /\ request = [r \in Requests |-> Idle]

Tick ==
  /\ now < Horizon
  /\ now' = now + 1
  /\ UNCHANGED <<template, student, customers, charges, issues, request>>

-----------------------------------------------------------------------------
(* Mutated form of DueDate: a day beyond the month falls into the next one. *)
DueDateUnclamped(m, dueDay) == MonthStart[m] + dueDay - 1

(* buildDueDate: the last day of a month that has no such day. *)
DueDate(m, dueDay) ==
  IF MonthStart[m] + dueDay <= MonthEnd[m] THEN MonthStart[m] + dueDay - 1
  ELSE MonthEnd[m] - 1

InMonth(day, m) == MonthStart[m] <= day /\ day < MonthEnd[m]

(* The students an issue is for: of one template, or of any. *)
Listed(t) ==
  {s \in Students : /\ student[s].active
                    /\ student[s].template # None
                    /\ template[student[s].template].active
                    /\ t # None => student[s].template = t}

(* What is read of them. *)
StudentRead(s) ==
  [template |-> student[s].template, dueDay |-> template[student[s].template].dueDay,
   customer |-> customers[s] > 0]

StartIssue(r, m, issueDate, t) ==
  /\ request[r].pc = "idle"
  /\ Listed(t) # {}
  /\ request' = [request EXCEPT ![r] =
       [Idle EXCEPT !.pc = "read", !.month = m, !.issueDate = issueDate, !.from = now,
                    !.listed = [s \in Listed(t) |-> StudentRead(s)]]]
  /\ UNCHANGED <<now, template, student, customers, charges, issues>>

(* Mutated form of ActiveKeys: a charge counts for its very due date only. *)
ActiveKeysByDate(r) ==
  LET listed == request[r].listed IN
  {<<c.student, c.template>> : c \in
     {c \in charges : /\ c.student \in DOMAIN listed /\ c.status # "CANCELLED"
                      /\ c.dueDate = DueDate(request[r].month, listed[c.student].dueDay)}}

(* The students who have a charge that is not cancelled in the month. *)
ActiveKeys(r) ==
  LET listed == request[r].listed IN
  {<<c.student, c.template>> : c \in
     {c \in charges : /\ c.student \in DOMAIN listed /\ c.status # "CANCELLED"
                      /\ c.template \in {listed[s].template : s \in DOMAIN listed}
                      /\ InMonth(c.dueDate, request[r].month)}}

ReadExisting(r) ==
  /\ request[r].pc = "read"
  /\ request' = [request EXCEPT ![r].pc = "create", ![r].existing = ActiveKeys(r)]
  /\ UNCHANGED <<now, template, student, customers, charges, issues>>

DueOf(r, s) == DueDate(request[r].month, request[r].listed[s].dueDay)

(* The students of the list who are not skipped. *)
Issued(r) ==
  {s \in DOMAIN request[r].listed :
     /\ request[r].issueDate <= DueOf(r, s)
     /\ <<s, request[r].listed[s].template>> \notin request[r].existing}

NewCharge(r, s) ==
  [student |-> s, issue |-> issues + 1, template |-> request[r].listed[s].template,
   issueDate |-> request[r].issueDate, dueDate |-> DueOf(r, s),
   status |-> IF request[r].issueDate > request[r].from THEN "SCHEDULED" ELSE "ISSUED",
   restored |-> FALSE]

(* ensureBillingCustomer creates the customer the student was read without. *)
CommitIssue(r) ==
  /\ request[r].pc = "create"
  /\ Issued(r) # {}
  /\ issues < MaxIssues
  /\ issues' = issues + 1
  /\ charges' = charges \cup {NewCharge(r, s) : s \in Issued(r)}
  /\ customers' = [s \in Students |->
       IF s \in Issued(r) /\ ~request[r].listed[s].customer THEN customers[s] + 1
       ELSE customers[s]]
  /\ request' = [request EXCEPT ![r] = Idle]
  /\ UNCHANGED <<now, template, student>>

(* Nothing to create, or a statement fails: the transaction is rolled back. *)
AbandonIssue(r) ==
  /\ request[r].pc # "idle"
  /\ request' = [request EXCEPT ![r] = Idle]
  /\ UNCHANGED <<now, template, student, customers, charges, issues>>

-----------------------------------------------------------------------------
(* Mutated form of Release: charges of earlier days only. *)
ReleaseEarlier ==
  LET due == {c \in charges : c.status = "SCHEDULED" /\ c.issueDate < now} IN
  /\ due # {}
  /\ charges' = (charges \ due) \cup {[c EXCEPT !.status = "ISSUED"] : c \in due}
  /\ UNCHANGED <<now, template, student, customers, issues, request>>

(* Mutated form of Release: charges of later days too. *)
ReleaseEarly ==
  LET due == {c \in charges : c.status = "SCHEDULED"} IN
  /\ due # {}
  /\ charges' = (charges \ due) \cup {[c EXCEPT !.status = "ISSUED"] : c \in due}
  /\ UNCHANGED <<now, template, student, customers, issues, request>>

(* releaseScheduledCharges, every hour, when it has something to release. *)
Release ==
  LET due == {c \in charges : c.status = "SCHEDULED" /\ c.issueDate <= now} IN
  /\ due # {}
  /\ charges' = (charges \ due) \cup {[c EXCEPT !.status = "ISSUED"] : c \in due}
  /\ UNCHANGED <<now, template, student, customers, issues, request>>

(* A webhook's status; the gateway may restore a charge it cancelled. *)
ReportStatus(c, s) ==
  /\ c.status # s
  /\ charges' = (charges \ {c}) \cup
       {[c EXCEPT !.status = s, !.restored = (@ \/ c.status = "CANCELLED")]}
  /\ UNCHANGED <<now, template, student, customers, issues, request>>

(* billing-templates update and deactivateMany *)
UpdateTemplate(t, active, dueDay) ==
  /\ template' = [template EXCEPT ![t] = [active |-> active, dueDay |-> dueDay]]
  /\ UNCHANGED <<now, student, customers, charges, issues, request>>

(* students update, which also gives the student a customer. *)
UpdateStudent(s, active, t) ==
  /\ t \in {student[s].template} \cup {u \in Templates : template[u].active}
  /\ student' = [student EXCEPT ![s] = [active |-> active, template |-> t]]
  /\ customers' = [customers EXCEPT ![s] = IF @ = 0 THEN 1 ELSE @]
  /\ UNCHANGED <<now, template, charges, issues, request>>

(* students desactivateMany, which does not. *)
DeactivateStudent(s) ==
  /\ student' = [student EXCEPT ![s].active = FALSE]
  /\ UNCHANGED <<now, template, customers, charges, issues, request>>

Issuing ==
  \E r \in Requests :
    \/ \E m \in Months, d \in IssueDates, t \in Templates \cup {None} : StartIssue(r, m, d, t)
    \/ ReadExisting(r)
    \/ CommitIssue(r)
    \/ AbandonIssue(r)
Administration ==
  \/ \E t \in Templates, active \in BOOLEAN, d \in DueDays : UpdateTemplate(t, active, d)
  \/ \E s \in Students, active \in BOOLEAN, t \in Templates \cup {None} :
       UpdateStudent(s, active, t)
  \/ \E s \in Students : DeactivateStudent(s)

Next ==
  \/ Tick
  \/ Issuing
  \/ Release
  \/ \E c \in charges, s \in Reported : ReportStatus(c, s)
  \/ Administration

Spec == Init /\ [][Next]_vars
(* The release cron runs every hour. *)
FairSpec == Spec /\ WF_vars(Release)

-----------------------------------------------------------------------------
(* findCharges and getOverview: the filters, and the badge of a charge. *)
OpenStatuses == {"SCHEDULED", "ISSUED"}

(* Mutated form of ListedOpen: a charge is no longer open when it is due. *)
ListedOpenUntilDue(c) == c.status \in OpenStatuses /\ c.dueDate > now

ListedOpen(c) == c.status \in OpenStatuses /\ c.dueDate >= now
ListedOverdue(c) == c.status = "OVERDUE" \/ (c.status \in OpenStatuses /\ c.dueDate < now)
ShownOverdue(c) == c.dueDate < now /\ c.status \notin {"PAID", "CANCELLED", "FAILED"}

-----------------------------------------------------------------------------
(* Every variable keeps its type, a charge is due in the month it was issued *)
(* for and not before its issue date, and its student has a customer.        *)
TypeOK ==
  /\ now \in Nat /\ issues \in Nat
  /\ template \in [Templates -> [active : BOOLEAN, dueDay : DueDays]]
  /\ student \in [Students -> [active : BOOLEAN, template : Templates \cup {None}]]
  /\ customers \in [Students -> Nat]
  /\ charges \subseteq Row
  /\ \A c \in charges :
       /\ c.issueDate <= c.dueDate
       /\ \E m \in Months : InMonth(c.dueDate, m)
       /\ customers[c.student] > 0
  /\ \A c, d \in charges : c.student = d.student /\ c.issue = d.issue => c = d

(* A student has one active charge of a template in a month, unless the      *)
(* gateway restored a cancelled one: issueCharges skips the others.          *)
OneActiveCharge ==
  \A c, d \in charges, m \in Months :
    /\ c.student = d.student /\ c.template = d.template
    /\ InMonth(c.dueDate, m) /\ InMonth(d.dueDate, m)
    /\ c.status # "CANCELLED" /\ d.status # "CANCELLED"
    /\ ~c.restored /\ ~d.restored
    => c = d

(* Issuing keeps the book: the reads of students and charges and the inserts *)
(* of an issue, several statements during which charges are released,        *)
(* reported on and their students moved, amount to one step that looks at    *)
(* the charges as they are.                                                  *)
Book == INSTANCE ChargeBook
BookSpec == Book!Spec

(* An unpaid charge is on one of the two lists of unpaid charges, at the     *)
(* instant it is due too, and on the overdue one if it is shown as overdue.  *)
OnOneList ==
  \A c \in charges :
    /\ c.status \in {"SCHEDULED", "ISSUED", "OVERDUE"} => (ListedOpen(c) # ListedOverdue(c))
    /\ ShownOverdue(c) => ListedOverdue(c)

(* A scheduled charge whose issue date has come is released, or the gateway  *)
(* has reported on it: releaseScheduledCharges.                              *)
Waiting(s, n) ==
  \E c \in charges : c.student = s /\ c.issue = n /\ c.status = "SCHEDULED" /\ c.issueDate <= now
Released == \A s \in Students, n \in 1..MaxIssues : Waiting(s, n) ~> ~Waiting(s, n)
=============================================================================
