-------------------------- MODULE ChargeIssuingProofs --------------------------
(***************************************************************************)
(* Proofs about ChargeIssuing for every number of students, templates,     *)
(* months and days: its types for any number of issues at once, and, as    *)
(* long as no two of them are about to charge one student for one template *)
(* and month, that the student has one active charge of them.              *)
(***************************************************************************)
EXTENDS ChargeIssuing, TLAPS

Read == [template : Templates, dueDay : DueDays, customer : BOOLEAN]
Lists == (UNION {[S -> Read] : S \in SUBSET Students}) \cup {<< >>}
Request ==
  [pc : {"idle", "read", "create"}, month : Months \cup {None}, issueDate : Nat, from : Nat,
   listed : Lists, existing : SUBSET (Students \X Templates)]

(* A due day falls into its month. *)
LEMMA DueInMonth ==
  ASSUME NEW m \in Months, NEW day \in DueDays
  PROVE  DueDate(m, day) \in Nat /\ InMonth(DueDate(m, day), m)
BY MonthsAssumption, DaysAssumption DEF DueDate, InMonth

(* A day is of one month. *)
LEMMA OneMonth ==
  ASSUME NEW m \in Months, NEW n \in Months, NEW day \in Nat, InMonth(day, m), InMonth(day, n)
  PROVE  m = n
BY MonthsAssumption, MonthsApart DEF InMonth

TablesOK ==
  /\ now \in Nat /\ issues \in Nat
  /\ template \in [Templates -> [active : BOOLEAN, dueDay : DueDays]]
  /\ student \in [Students -> [active : BOOLEAN, template : Templates \cup {None}]]
  /\ customers \in [Students -> Nat]

ChargesOK ==
  /\ charges \subseteq Row
  /\ \A c \in charges :
       /\ c.issueDate <= c.dueDate
       /\ \E m \in Months : InMonth(c.dueDate, m)
       /\ customers[c.student] > 0
       /\ c.issue <= issues
  /\ \A c, d \in charges : c.student = d.student /\ c.issue = d.issue => c = d

(* What an issue in progress read of its students: with a customer it read, a  *)
(* student still has one.                                                     *)
RequestsOK ==
  /\ request \in [Requests -> Request]
  /\ \A r \in Requests : request[r].pc # "idle" =>
       /\ request[r].month \in Months
       /\ \A s \in DOMAIN request[r].listed :
            /\ s \in Students /\ request[r].listed[s] \in Read
            /\ request[r].listed[s].customer => customers[s] > 0

TypeInv == TablesOK /\ ChargesOK /\ RequestsOK

LEMMA IssuingTypes == TypeInv => TypeOK
BY DEF TypeInv, TablesOK, ChargesOK, RequestsOK, TypeOK

(* Customers are only added. *)
LEMMA RequestsStay ==
  ASSUME TypeInv, request' = request, \A s \in Students : customers'[s] >= customers[s],
         customers' \in [Students -> Nat]
  PROVE  RequestsOK'
BY DEF TypeInv, TablesOK, RequestsOK

LEMMA RequestOver ==
  ASSUME TypeInv, NEW r \in Requests, request' = [request EXCEPT ![r] = Idle],
         \A s \in Students : customers'[s] >= customers[s], customers' \in [Students -> Nat]
  PROVE  RequestsOK'
<1>1. Idle \in Request
  BY DEF Idle, Request, Lists
<1>2. Idle.pc = "idle"
  BY DEF Idle
<1>3. QED
  BY <1>1, <1>2 DEF TypeInv, TablesOK, RequestsOK

(* The rows are rewritten one by one, and each stays the charge it is. *)
Same(c, d) ==
  /\ d.student = c.student /\ d.issue = c.issue /\ d.template = c.template
  /\ d.issueDate = c.issueDate /\ d.dueDate = c.dueDate

LEMMA RowsRewritten ==
  ASSUME TypeInv, NEW STATE f, charges' = {f[c] : c \in charges},
         \A c \in charges : f[c] \in Row /\ Same(c, f[c]),
         UNCHANGED <<customers, issues>>
  PROVE  ChargesOK'
<1>1. charges' \subseteq Row
  OBVIOUS
<1>2. \A c \in charges' :
        /\ c.issueDate <= c.dueDate /\ (\E m \in Months : InMonth(c.dueDate, m))
        /\ customers'[c.student] > 0 /\ c.issue <= issues'
  BY DEF TypeInv, ChargesOK, Same
<1>3. ASSUME NEW c \in charges', NEW d \in charges', c.student = d.student, c.issue = d.issue
      PROVE  c = d
  <2>1. PICK c0 \in charges, d0 \in charges : c = f[c0] /\ d = f[d0]
    OBVIOUS
  <2>2. c0.student = d0.student /\ c0.issue = d0.issue
    BY <1>3, <2>1 DEF Same
  <2>3. QED
    BY <2>1, <2>2 DEF TypeInv, ChargesOK
<1>4. QED
  BY <1>1, <1>2, <1>3 DEF ChargesOK

ReleasedRow == [c \in charges |->
  IF c.status = "SCHEDULED" /\ c.issueDate <= now THEN [c EXCEPT !.status = "ISSUED"] ELSE c]
ReportedRow(c, s) == [d \in charges |->
  IF d = c THEN [c EXCEPT !.status = s, !.restored = (@ \/ c.status = "CANCELLED")] ELSE d]

(* Who is no longer cancelled is marked as restored. *)
Counts(c) == c.status # "CANCELLED" /\ ~c.restored

LEMMA ReleaseRewrites ==
  ASSUME TypeInv, Release
  PROVE  /\ charges' = {ReleasedRow[c] : c \in charges}
         /\ \A c \in charges : /\ ReleasedRow[c] \in Row /\ Same(c, ReleasedRow[c])
                               /\ Counts(ReleasedRow[c]) => Counts(c)
<1>1. ASSUME NEW c \in charges
      PROVE  /\ ReleasedRow[c] \in Row /\ Same(c, ReleasedRow[c])
             /\ Counts(ReleasedRow[c]) => Counts(c)
  BY DEF TypeInv, ChargesOK, ReleasedRow, Row, Status, Same, Counts
<1>2. charges' = {ReleasedRow[c] : c \in charges}
  <2> DEFINE due == {c \in charges : c.status = "SCHEDULED" /\ c.issueDate <= now}
  <2>1. charges' = (charges \ due) \cup {[c EXCEPT !.status = "ISSUED"] : c \in due}
    BY DEF Release
  <2>2. \A c \in charges :
          ReleasedRow[c] = IF c \in due THEN [c EXCEPT !.status = "ISSUED"] ELSE c
    BY DEF ReleasedRow
  <2> HIDE DEF due
  <2>3. due \subseteq charges
    BY DEF due
  <2>4. QED
    BY <2>1, <2>2, <2>3
<1>3. QED
  BY <1>1, <1>2

LEMMA ReportRewrites ==
  ASSUME TypeInv, NEW c \in charges, NEW s \in Reported, ReportStatus(c, s)
  PROVE  /\ charges' = {ReportedRow(c, s)[d] : d \in charges}
         /\ \A d \in charges : /\ ReportedRow(c, s)[d] \in Row /\ Same(d, ReportedRow(c, s)[d])
                               /\ Counts(ReportedRow(c, s)[d]) => Counts(d)
<1> DEFINE row == [c EXCEPT !.status = s, !.restored = (@ \/ c.status = "CANCELLED")]
<1>1. row \in Row /\ Same(c, row) /\ (Counts(row) => Counts(c))
  <2>1. c \in Row /\ s \in Status
    BY ReportedAssumption DEF TypeInv, ChargesOK
  <2>2. row \in Row /\ Same(c, row)
    BY <2>1 DEF Row, Same
  <2>3. row.restored = (c.restored \/ c.status = "CANCELLED")
    BY <2>1 DEF Row
  <2>4. QED
    BY <2>1, <2>2, <2>3 DEF Counts, Row
<1>2. \A d \in charges : ReportedRow(c, s)[d] = IF d = c THEN row ELSE d
  BY DEF ReportedRow
<1>3. charges' = (charges \ {c}) \cup {row}
  BY DEF ReportStatus
<1> HIDE DEF row
<1>4. \A d \in charges : d \in Row /\ Same(d, d)
  BY DEF TypeInv, ChargesOK, Same
<1>5. QED
  BY <1>1, <1>2, <1>3, <1>4

LEMMA StartTypes ==
  ASSUME TypeInv, NEW r \in Requests, NEW m \in Months, NEW d \in IssueDates,
         NEW t \in Templates \cup {None}, StartIssue(r, m, d, t)
  PROVE  TypeInv'
<1> USE DEF TypeInv
<1> DEFINE list == [s \in Listed(t) |-> StudentRead(s)]
           q == [Idle EXCEPT !.pc = "read", !.month = m, !.issueDate = d, !.from = now,
                             !.listed = list]
<1>1. request' = [request EXCEPT ![r] = q]
      /\ UNCHANGED <<now, template, student, customers, charges, issues>>
  BY DEF StartIssue
<1>2. \A s \in Listed(t) :
        /\ s \in Students /\ StudentRead(s) \in Read
        /\ StudentRead(s).customer => customers[s] > 0
  <2> SUFFICES ASSUME NEW s \in Listed(t)
               PROVE  /\ s \in Students /\ StudentRead(s) \in Read
                      /\ StudentRead(s).customer => customers[s] > 0
    OBVIOUS
  <2>1. s \in Students /\ student[s].template \in Templates
    BY DEF Listed, TablesOK
  <2>2. template[student[s].template].dueDay \in DueDays
    BY <2>1 DEF TablesOK
  <2>3. StudentRead(s) \in Read
    BY <2>1, <2>2 DEF StudentRead, Read
  <2>4. StudentRead(s).customer = (customers[s] > 0)
    BY DEF StudentRead
  <2>5. QED
    BY <2>1, <2>3, <2>4
<1>3. list \in Lists
  <2>1. list \in [Listed(t) -> Read] /\ Listed(t) \in SUBSET Students
    BY <1>2
  <2>2. QED
    BY <2>1 DEF Lists
<1>4. DOMAIN list = Listed(t) /\ \A s \in Listed(t) : list[s] = StudentRead(s)
  OBVIOUS
<1> HIDE DEF list
<1>5. d \in Nat /\ now \in Nat
  BY DaysAssumption DEF TablesOK
<1>6. q \in Request /\ q.month = m /\ q.listed = list
  BY <1>3, <1>5 DEF Request, Idle
<1> HIDE DEF q
<1>7. /\ request'[r] = q /\ \A x \in Requests : x # r => request'[x] = request[x]
      /\ request' \in [Requests -> Request]
  BY <1>1, <1>6 DEF RequestsOK
<1>8. RequestsOK'
  BY <1>1, <1>2, <1>4, <1>6, <1>7 DEF RequestsOK
<1>9. QED
  BY <1>1, <1>8 DEF TablesOK, ChargesOK

LEMMA ReadTypes ==
  ASSUME TypeInv, NEW r \in Requests, ReadExisting(r)
  PROVE  TypeInv'
<1> USE DEF TypeInv
<1> DEFINE q == [request[r] EXCEPT !.pc = "create", !.existing = ActiveKeys(r)]
<1>1. ActiveKeys(r) \in SUBSET (Students \X Templates)
  BY DEF ActiveKeys, ChargesOK, Row
<1>2. request[r] \in Request
  BY DEF RequestsOK
<1>3. q \in Request /\ q.month = request[r].month /\ q.listed = request[r].listed
  BY <1>1, <1>2 DEF Request
<1>4. request' = [request EXCEPT ![r] = q]
  BY <1>2 DEF ReadExisting, RequestsOK
<1>5. UNCHANGED <<now, template, student, customers, charges, issues>> /\ request[r].pc # "idle"
  BY DEF ReadExisting
<1> HIDE DEF q
<1>6. /\ request'[r] = q /\ \A x \in Requests : x # r => request'[x] = request[x]
      /\ request' \in [Requests -> Request]
  BY <1>3, <1>4 DEF RequestsOK
<1>7. RequestsOK'
  BY <1>3, <1>5, <1>6 DEF RequestsOK
<1>8. QED
  BY <1>5, <1>7 DEF TablesOK, ChargesOK

LEMMA NewChargeType ==
  ASSUME TypeInv, NEW r \in Requests, request[r].pc # "idle", NEW s \in Issued(r)
  PROVE  /\ s \in Students /\ NewCharge(r, s) \in Row
         /\ InMonth(NewCharge(r, s).dueDate, request[r].month)
         /\ NewCharge(r, s).issueDate <= NewCharge(r, s).dueDate
         /\ request[r].month \in Months
<1> USE DEF TypeInv
<1>1. /\ s \in DOMAIN request[r].listed /\ s \in Students
      /\ request[r].listed[s].template \in Templates /\ request[r].listed[s].dueDay \in DueDays
      /\ request[r].month \in Months
      /\ request[r].issueDate <= DueOf(r, s)
  BY DEF Issued, RequestsOK, Read
<1>2. DueOf(r, s) \in Nat /\ InMonth(DueOf(r, s), request[r].month)
  BY <1>1, DueInMonth DEF DueOf
<1>3. request[r].issueDate \in Nat /\ request[r].from \in Nat /\ issues + 1 \in Nat
  BY DEF RequestsOK, Request, TablesOK
<1>4. NewCharge(r, s) \in Row
  BY <1>1, <1>2, <1>3 DEF NewCharge, Row, Status
<1>5. NewCharge(r, s).dueDate = DueOf(r, s) /\ NewCharge(r, s).issueDate = request[r].issueDate
  BY DEF NewCharge
<1>6. QED
  BY <1>1, <1>2, <1>4, <1>5

LEMMA CommitTypes ==
  ASSUME TypeInv, NEW r \in Requests, CommitIssue(r)
  PROVE  TypeInv'
<1> USE DEF TypeInv
<1>1. /\ request[r].pc = "create" /\ issues' = issues + 1
      /\ charges' = charges \cup {NewCharge(r, s) : s \in Issued(r)}
      /\ customers' = [s \in Students |->
           IF s \in Issued(r) /\ ~request[r].listed[s].customer THEN customers[s] + 1
           ELSE customers[s]]
      /\ request' = [request EXCEPT ![r] = Idle] /\ UNCHANGED <<now, template, student>>
  BY DEF CommitIssue
<1>2. customers' \in [Students -> Nat] /\ \A s \in Students : customers'[s] >= customers[s]
  BY <1>1 DEF TablesOK
<1>3. RequestsOK'
  BY <1>1, <1>2, RequestOver
<1>4. TablesOK'
  BY <1>1, <1>2 DEF TablesOK
<1>5. \A s \in Issued(r) :
        /\ s \in Students /\ NewCharge(r, s) \in Row /\ NewCharge(r, s).student = s
        /\ NewCharge(r, s).issue = issues + 1
        /\ NewCharge(r, s).issueDate <= NewCharge(r, s).dueDate
        /\ \E m \in Months : InMonth(NewCharge(r, s).dueDate, m)
  <2>1. \A s \in Issued(r) : NewCharge(r, s).student = s /\ NewCharge(r, s).issue = issues + 1
    BY DEF NewCharge
  <2>2. QED
    BY <1>1, <2>1, NewChargeType
<1>6. \A s \in Issued(r) : customers'[s] > 0
  <2> SUFFICES ASSUME NEW s \in Issued(r) PROVE customers'[s] > 0
    OBVIOUS
  <2>1. s \in Students /\ (request[r].listed[s].customer => customers[s] > 0)
    BY <1>1 DEF Issued, RequestsOK
  <2>2. customers[s] \in Nat
    BY <2>1 DEF TablesOK
  <2>3. QED
    BY <1>1, <2>1, <2>2
<1>7. \A c \in charges' : c \in charges \/ \E s \in Issued(r) : c = NewCharge(r, s)
  BY <1>1
<1>8. charges' \subseteq Row
  BY <1>5, <1>7 DEF ChargesOK
<1>9. ASSUME NEW c \in charges'
      PROVE  /\ c.issueDate <= c.dueDate /\ (\E m \in Months : InMonth(c.dueDate, m))
             /\ customers'[c.student] > 0 /\ c.issue <= issues'
  <2>1. CASE c \in charges
    <3>1. c \in Row /\ issues \in Nat
      BY <2>1 DEF ChargesOK, TablesOK
    <3>2. c.student \in Students /\ c.issue \in Nat
      BY <3>1 DEF Row
    <3>3. customers'[c.student] > 0
      BY <1>2, <2>1, <3>2 DEF ChargesOK, TablesOK
    <3>4. c.issue <= issues'
      BY <1>1, <2>1, <3>1, <3>2 DEF ChargesOK
    <3>5. QED
      BY <2>1, <3>3, <3>4 DEF ChargesOK
  <2>2. CASE c \notin charges
    <3>1. PICK s \in Issued(r) : c = NewCharge(r, s)
      BY <1>7, <2>2
    <3>2. c.student = s /\ c.issue = issues + 1 /\ issues' = issues + 1 /\ issues \in Nat
      BY <1>1, <1>5, <3>1 DEF TablesOK
    <3>3. c.issueDate <= c.dueDate /\ \E m \in Months : InMonth(c.dueDate, m)
      BY <1>5, <3>1
    <3>4. QED
      BY <1>6, <3>2, <3>3
  <2>3. QED
    BY <2>1, <2>2
<1>10. ASSUME NEW c \in charges', NEW d \in charges', c.student = d.student, c.issue = d.issue
       PROVE  c = d
  <2>1. \A e \in charges : e.issue # issues + 1
    BY DEF ChargesOK, TablesOK, Row
  <2>2. QED
    BY <1>5, <1>7, <1>10, <2>1 DEF ChargesOK
<1>11. QED
  BY <1>3, <1>4, <1>8, <1>9, <1>10 DEF ChargesOK

LEMMA AbandonTypes ==
  ASSUME TypeInv, NEW r \in Requests, AbandonIssue(r)
  PROVE  TypeInv'
<1>1. request' = [request EXCEPT ![r] = Idle]
      /\ UNCHANGED <<now, template, student, customers, charges, issues>>
  BY DEF AbandonIssue
<1>2. customers' \in [Students -> Nat] /\ \A s \in Students : customers'[s] >= customers[s]
  BY <1>1 DEF TypeInv, TablesOK
<1>3. RequestsOK'
  BY <1>1, <1>2, RequestOver
<1>4. QED
  BY <1>1, <1>3 DEF TypeInv, TablesOK, ChargesOK

LEMMA RowTypes ==
  ASSUME TypeInv,
         Release \/ \E c \in charges, s \in Reported : ReportStatus(c, s)
  PROVE  TypeInv'
<1>1. UNCHANGED <<now, template, student, customers, issues, request>>
  BY DEF Release, ReportStatus
<1>2. ChargesOK'
  <2>1. CASE Release
    BY <1>1, <2>1, ReleaseRewrites, RowsRewritten
  <2>2. ASSUME NEW c \in charges, NEW s \in Reported, ReportStatus(c, s)
        PROVE  ChargesOK'
    BY <1>1, <2>2, ReportRewrites, RowsRewritten
  <2>3. QED
    BY <2>1, <2>2
<1>3. QED
  BY <1>1, <1>2 DEF TypeInv, TablesOK, RequestsOK

LEMMA AdministrationTypes ==
  ASSUME TypeInv, Administration \/ Tick
  PROVE  TypeInv'
<1> USE DEF TypeInv
<1>1. UNCHANGED <<charges, issues, request>>
  BY DEF Administration, UpdateTemplate, UpdateStudent, DeactivateStudent, Tick
<1>2. TablesOK' /\ \A s \in Students : customers'[s] >= customers[s]
  <2>1. CASE Tick
    BY <2>1 DEF Tick, TablesOK
  <2>2. ASSUME NEW t \in Templates, NEW active \in BOOLEAN, NEW d \in DueDays,
               UpdateTemplate(t, active, d)
        PROVE  TablesOK' /\ \A s \in Students : customers'[s] >= customers[s]
    BY <2>2 DEF UpdateTemplate, TablesOK
  <2>3. ASSUME NEW s \in Students, NEW active \in BOOLEAN, NEW t \in Templates \cup {None},
               UpdateStudent(s, active, t)
        PROVE  TablesOK' /\ \A x \in Students : customers'[x] >= customers[x]
    BY <2>3 DEF UpdateStudent, TablesOK
  <2>4. ASSUME NEW s \in Students, DeactivateStudent(s)
        PROVE  TablesOK' /\ \A x \in Students : customers'[x] >= customers[x]
    <3> DEFINE row == [student[s] EXCEPT !.active = FALSE]
    <3>1. /\ student' = [student EXCEPT ![s] = row]
          /\ UNCHANGED <<now, template, customers, issues>>
      BY <2>4 DEF DeactivateStudent
    <3>2. row \in [active : BOOLEAN, template : Templates \cup {None}]
      BY DEF TablesOK
    <3> HIDE DEF row
    <3>3. QED
      BY <3>1, <3>2 DEF TablesOK
  <2>5. QED
    BY <2>1, <2>2, <2>3, <2>4 DEF Administration
<1>3. RequestsOK'
  BY <1>1, <1>2, RequestsStay DEF TablesOK
<1>4. ChargesOK'
  <2>1. \A c \in charges : c.student \in Students
    BY DEF ChargesOK, Row
  <2>2. QED
    BY <1>1, <1>2, <2>1 DEF ChargesOK, TablesOK
<1>5. QED
  BY <1>2, <1>3, <1>4

LEMMA TypesInit == Init => TypeInv
<1> SUFFICES ASSUME Init PROVE TypeInv
  OBVIOUS
<1>1. TablesOK /\ ChargesOK
  BY DEF Init, TablesOK, ChargesOK
<1>2. Idle \in Request /\ Idle.pc = "idle"
  BY DEF Idle, Request, Lists
<1>3. RequestsOK
  BY <1>2 DEF Init, RequestsOK
<1>4. QED
  BY <1>1, <1>3 DEF TypeInv

LEMMA TypesNext == TypeInv /\ [Next]_vars => TypeInv'
<1> SUFFICES ASSUME TypeInv, [Next]_vars PROVE TypeInv'
  OBVIOUS
<1>1. CASE UNCHANGED vars
  BY <1>1 DEF vars, TypeInv, TablesOK, ChargesOK, RequestsOK
<1>2. QED
  BY <1>1, StartTypes, ReadTypes, CommitTypes, AbandonTypes, RowTypes, AdministrationTypes
     DEF Next, Issuing

(* Every variable keeps its type; a charge is due in a month, not before its   *)
(* issue date, its student has a customer, and its externalReference, built    *)
(* from its student and issue, is its own: for any number of issues at once.   *)
THEOREM IssuingTypeCorrect == Spec => []TypeOK
BY TypesInit, TypesNext, IssuingTypes, PTL DEF Spec

(* The filters of the two lists divide the unpaid charges between them, at any *)
(* instant and whatever the gateway reported.                                  *)
THEOREM UnpaidOnOneList == Spec => []OnOneList
<1>1. TypeInv => OnOneList
  <2> SUFFICES ASSUME TypeInv, NEW c \in charges
               PROVE  /\ c.status \in {"SCHEDULED", "ISSUED", "OVERDUE"} =>
                           (ListedOpen(c) # ListedOverdue(c))
                      /\ ShownOverdue(c) => ListedOverdue(c)
    BY DEF OnOneList
  <2>1. c.status \in Status /\ c.dueDate \in Nat /\ now \in Nat
    BY DEF TypeInv, TablesOK, ChargesOK, Row
  <2>2. c.dueDate >= now <=> ~(c.dueDate < now)
    BY <2>1
  <2>3. QED
    BY <2>1, <2>2 DEF ListedOpen, ListedOverdue, ShownOverdue, OpenStatuses, Status
<1>2. QED
  BY <1>1, TypesInit, TypesNext, PTL DEF Spec
-----------------------------------------------------------------------------
(* Two issues that are about to insert list no student for one template and     *)
(* month: they are of different months, templates or students.                  *)
IssuesApart ==
  \A q, r \in Requests :
    /\ q # r /\ request[q].pc = "create" /\ request[r].pc = "create"
    /\ request[q].month = request[r].month
    => \A s \in DOMAIN request[q].listed \cap DOMAIN request[r].listed :
         request[q].listed[s].template # request[r].listed[s].template

(* One active charge.  OneActiveCharge alone is not inductive: an issue that is *)
(* about to insert read the charges some time ago.  As long as the others are   *)
(* apart, it still knows every charge of its month that counts.                 *)
Known(r) ==
  \A c \in charges :
    /\ c.student \in DOMAIN request[r].listed
    /\ c.template = request[r].listed[c.student].template
    /\ InMonth(c.dueDate, request[r].month) /\ Counts(c)
    => <<c.student, c.template>> \in request[r].existing

ReadsAreCurrent == \A r \in Requests : request[r].pc = "create" => Known(r)

ActiveInv == TypeInv /\ OneActiveCharge /\ ReadsAreCurrent

LEMMA RewritingKeepsActive ==
  ASSUME ActiveInv, TypeInv', request' = request, NEW STATE f, charges' = {f[c] : c \in charges},
         \A c \in charges : Same(c, f[c]) /\ (Counts(f[c]) => Counts(c))
  PROVE  ActiveInv'
<1> USE DEF ActiveInv
<1>1. ASSUME NEW c \in charges', NEW d \in charges', NEW m \in Months,
             c.student = d.student, c.template = d.template,
             InMonth(c.dueDate, m), InMonth(d.dueDate, m), Counts(c), Counts(d)
      PROVE  c = d
  <2>1. PICK c0 \in charges, d0 \in charges : c = f[c0] /\ d = f[d0]
    OBVIOUS
  <2>2. /\ c0.student = d0.student /\ c0.template = d0.template
        /\ InMonth(c0.dueDate, m) /\ InMonth(d0.dueDate, m) /\ Counts(c0) /\ Counts(d0)
    BY <1>1, <2>1 DEF Same
  <2>3. c0 = d0
    BY <2>2 DEF OneActiveCharge, Counts
  <2>4. QED
    BY <2>1, <2>3
<1>2. OneActiveCharge'
  BY <1>1 DEF OneActiveCharge, Counts
<1>3. ASSUME NEW r \in Requests, request[r].pc = "create", NEW c \in charges',
             c.student \in DOMAIN request[r].listed,
             c.template = request[r].listed[c.student].template,
             InMonth(c.dueDate, request[r].month), Counts(c)
      PROVE  <<c.student, c.template>> \in request[r].existing
  <2>1. PICK c0 \in charges : c = f[c0]
    OBVIOUS
  <2>2. c0.student = c.student /\ c0.template = c.template /\ c0.dueDate = c.dueDate /\ Counts(c0)
    BY <1>3, <2>1 DEF Same
  <2>3. QED
    BY <1>3, <2>2 DEF ReadsAreCurrent, Known
<1>4. ReadsAreCurrent'
  BY <1>3 DEF ReadsAreCurrent, Known
<1>5. QED
  BY <1>2, <1>4

LEMMA ReadKeepsActive ==
  ASSUME ActiveInv, NEW r \in Requests, ReadExisting(r)
  PROVE  ActiveInv'
<1> USE DEF ActiveInv
<1>1. TypeInv'
  BY ReadTypes
<1>2. charges' = charges /\ request[r] \in Request /\ request[r].pc = "read"
  BY DEF ReadExisting, TypeInv, RequestsOK
<1>3. /\ \A x \in Requests : x # r => request'[x] = request[x]
      /\ request'[r].listed = request[r].listed /\ request'[r].month = request[r].month
      /\ request'[r].existing = ActiveKeys(r)
  BY <1>2 DEF ReadExisting, TypeInv, RequestsOK, Request
<1>4. Known(r)'
  <2> SUFFICES ASSUME NEW c \in charges, c.student \in DOMAIN request[r].listed,
                      c.template = request[r].listed[c.student].template,
                      InMonth(c.dueDate, request[r].month), Counts(c)
               PROVE  <<c.student, c.template>> \in ActiveKeys(r)
    BY <1>2, <1>3 DEF Known
  <2>1. QED
    BY DEF ActiveKeys, Counts
<1>5. ReadsAreCurrent'
  BY <1>2, <1>3, <1>4 DEF ReadsAreCurrent, Known
<1>6. QED
  BY <1>1, <1>2, <1>5 DEF OneActiveCharge

LEMMA CommitKeepsActive ==
  ASSUME ActiveInv, IssuesApart, NEW r \in Requests, CommitIssue(r)
  PROVE  ActiveInv'
<1> USE DEF ActiveInv
<1>1. TypeInv'
  BY CommitTypes
<1>2. /\ request[r].pc = "create"
      /\ charges' = charges \cup {NewCharge(r, s) : s \in Issued(r)}
      /\ request' = [request EXCEPT ![r] = Idle]
  BY DEF CommitIssue
<1>3. ReadsAreCurrent'
  <2>1. ASSUME NEW x \in Requests, request'[x].pc = "create"
        PROVE  x # r /\ request'[x] = request[x] /\ request[x].pc = "create"
    BY <1>2, <2>1 DEF TypeInv, RequestsOK, Idle
  <2>2. ASSUME NEW x \in Requests, x # r, request[x].pc = "create", NEW s \in Issued(r),
               s \in DOMAIN request[x].listed,
               NewCharge(r, s).template = request[x].listed[s].template,
               InMonth(NewCharge(r, s).dueDate, request[x].month)
        PROVE  FALSE
    <3>1. /\ InMonth(NewCharge(r, s).dueDate, request[r].month) /\ request[r].month \in Months
          /\ NewCharge(r, s) \in Row
      BY <1>2, NewChargeType
    <3>2. request[x].month \in Months
      BY <2>2 DEF TypeInv, RequestsOK
    <3>3. request[x].month = request[r].month
      BY <2>2, <3>1, <3>2, OneMonth DEF Row
    <3>4. /\ s \in DOMAIN request[r].listed
          /\ NewCharge(r, s).template = request[r].listed[s].template
      BY DEF Issued, NewCharge
    <3>5. QED
      BY <1>2, <2>2, <3>3, <3>4 DEF IssuesApart
  <2>3. \A s \in Issued(r) : NewCharge(r, s).student = s
    BY DEF NewCharge
  <2>4. ASSUME NEW x \in Requests, x # r, request[x].pc = "create", NEW c \in charges',
               c.student \in DOMAIN request[x].listed,
               c.template = request[x].listed[c.student].template,
               InMonth(c.dueDate, request[x].month), Counts(c)
        PROVE  <<c.student, c.template>> \in request[x].existing
    <3>1. c \in charges
      BY <1>2, <2>2, <2>3, <2>4
    <3>2. QED
      BY <2>4, <3>1 DEF ReadsAreCurrent, Known
  <2>5. QED
    BY <2>1, <2>4 DEF ReadsAreCurrent, Known
<1>4. ASSUME NEW s \in Issued(r), NEW c \in charges, NEW m \in Months,
             c.student = s, c.template = NewCharge(r, s).template,
             InMonth(c.dueDate, m), InMonth(NewCharge(r, s).dueDate, m), Counts(c)
      PROVE  FALSE
  <2>1. /\ InMonth(NewCharge(r, s).dueDate, request[r].month) /\ request[r].month \in Months
        /\ NewCharge(r, s) \in Row
    BY <1>2, NewChargeType
  <2>2. m = request[r].month
    BY <1>4, <2>1, OneMonth DEF Row
  <2>3. /\ s \in DOMAIN request[r].listed
        /\ <<s, request[r].listed[s].template>> \notin request[r].existing
    BY DEF Issued
  <2>4. NewCharge(r, s).template = request[r].listed[s].template
    BY DEF NewCharge
  <2>5. QED
    BY <1>2, <1>4, <2>2, <2>3, <2>4 DEF ReadsAreCurrent, Known
<1>5. \A s \in Issued(r) : NewCharge(r, s).student = s
  BY DEF NewCharge
<1>6. ASSUME NEW c \in charges', NEW d \in charges', NEW m \in Months,
             c.student = d.student, c.template = d.template,
             InMonth(c.dueDate, m), InMonth(d.dueDate, m), Counts(c), Counts(d)
      PROVE  c = d
  <2>1. CASE c \in charges /\ d \in charges
    BY <1>6, <2>1 DEF OneActiveCharge, Counts
  <2>2. CASE c \notin charges
    <3>1. PICK s \in Issued(r) : c = NewCharge(r, s)
      BY <1>2, <2>2
    <3>2. d \notin charges
      BY <1>4, <1>5, <1>6, <3>1
    <3>3. PICK t \in Issued(r) : d = NewCharge(r, t)
      BY <1>2, <3>2
    <3>4. QED
      BY <1>5, <1>6, <3>1, <3>3
  <2>3. CASE c \in charges /\ d \notin charges
    <3>1. PICK s \in Issued(r) : d = NewCharge(r, s)
      BY <1>2, <2>3
    <3>2. QED
      BY <1>4, <1>5, <1>6, <2>3, <3>1
  <2>4. QED
    BY <2>1, <2>2, <2>3
<1>7. OneActiveCharge'
  BY <1>6 DEF OneActiveCharge, Counts
<1>8. QED
  BY <1>1, <1>3, <1>7

LEMMA ActiveNext == ActiveInv /\ IssuesApart /\ [Next]_vars => ActiveInv'
<1> SUFFICES ASSUME ActiveInv, IssuesApart, [Next]_vars PROVE ActiveInv'
  OBVIOUS
<1>1. TypeInv /\ TypeInv'
  BY TypesNext DEF ActiveInv
<1>2. CASE Tick \/ Administration \/ UNCHANGED vars
  <2>1. charges' = charges /\ request' = request
    BY <1>2 DEF Tick, Administration, UpdateTemplate, UpdateStudent, DeactivateStudent, vars
  <2>2. QED
    BY <1>1, <2>1 DEF ActiveInv, OneActiveCharge, ReadsAreCurrent, Known
<1>3. ASSUME NEW r \in Requests,
             \/ AbandonIssue(r)
             \/ \E m \in Months, d \in IssueDates, t \in Templates \cup {None} :
                  StartIssue(r, m, d, t)
      PROVE  ActiveInv'
  <2>1. charges' = charges /\ \E q : request' = [request EXCEPT ![r] = q] /\ q.pc # "create"
    <3>1. CASE AbandonIssue(r)
      <4>1. charges' = charges /\ request' = [request EXCEPT ![r] = Idle]
        BY <3>1 DEF AbandonIssue
      <4>2. Idle.pc = "idle"
        BY DEF Idle
      <4>3. QED
        BY <4>1, <4>2
    <3>2. ASSUME NEW m \in Months, NEW d \in IssueDates, NEW t \in Templates \cup {None},
                 StartIssue(r, m, d, t)
          PROVE  charges' = charges /\ \E q : request' = [request EXCEPT ![r] = q] /\ q.pc # "create"
      <4> DEFINE q == [Idle EXCEPT !.pc = "read", !.month = m, !.issueDate = d, !.from = now,
                                   !.listed = [s \in Listed(t) |-> StudentRead(s)]]
      <4>1. charges' = charges /\ request' = [request EXCEPT ![r] = q]
        BY <3>2 DEF StartIssue
      <4>2. q.pc = "read"
        BY DEF Idle
      <4>3. QED
        BY <4>1, <4>2
    <3>3. QED
      BY <1>3, <3>1, <3>2
  <2>2. ReadsAreCurrent'
    BY <1>1, <2>1 DEF ActiveInv, ReadsAreCurrent, Known, TypeInv, RequestsOK
  <2>3. QED
    BY <1>1, <2>1, <2>2 DEF ActiveInv, OneActiveCharge
<1>4. ASSUME NEW r \in Requests, ReadExisting(r)
      PROVE  ActiveInv'
  BY <1>4, ReadKeepsActive
<1>5. ASSUME NEW r \in Requests, CommitIssue(r)
      PROVE  ActiveInv'
  BY <1>5, CommitKeepsActive
<1>6. CASE Release
  <2>1. request' = request
    BY <1>6 DEF Release
  <2>2. QED
    BY <1>1, <1>6, <2>1, ReleaseRewrites, RewritingKeepsActive
<1>7. ASSUME NEW c \in charges, NEW s \in Reported, ReportStatus(c, s)
      PROVE  ActiveInv'
  <2>1. request' = request
    BY <1>7 DEF ReportStatus
  <2>2. QED
    BY <1>1, <1>7, <2>1, ReportRewrites, RewritingKeepsActive
<1>8. QED
  BY <1>2, <1>3, <1>4, <1>5, <1>6, <1>7 DEF Next, Issuing

LEMMA ActiveInit == Init => ActiveInv
<1>1. Idle.pc = "idle"
  BY DEF Idle
<1>2. QED
  BY <1>1, TypesInit DEF Init, ActiveInv, OneActiveCharge, ReadsAreCurrent

(* As long as no two issues are about to charge one student for one template   *)
(* and month, the student has one active charge of them, whatever the gateway  *)
(* reports, whatever else is issued and whoever edits templates and students   *)
(* meanwhile; a restored charge is the exception.                              *)
THEOREM OneActive == Spec /\ []IssuesApart => []OneActiveCharge
<1>1. ActiveInv /\ IssuesApart /\ [Next]_vars => ActiveInv'
  BY ActiveNext
<1>2. ActiveInv => OneActiveCharge
  BY DEF ActiveInv
<1>3. QED
  BY ActiveInit, <1>1, <1>2, PTL DEF Spec

-----------------------------------------------------------------------------
(* The book.  What a commit adds is what it has room for: the issue knows every *)
(* charge of its month that counts, so it is as if it read them just now.      *)
LEMMA CommitIsIssue ==
  ASSUME ActiveInv, NEW r \in Requests, CommitIssue(r)
  PROVE  Book!Issue
<1> USE DEF ActiveInv
<1> DEFINE m == request[r].month
           new == {NewCharge(r, s) : s \in Issued(r)}
<1>1. /\ request[r].pc = "create" /\ charges' = charges \cup new
      /\ issues' = issues + 1 /\ now' = now /\ Issued(r) # {}
  BY DEF CommitIssue
<1>2. \A s \in Issued(r) :
        /\ NewCharge(r, s).student = s /\ NewCharge(r, s).issue = issues + 1
        /\ NewCharge(r, s).template = request[r].listed[s].template
        /\ NewCharge(r, s).issueDate = request[r].issueDate
        /\ NewCharge(r, s).status =
             IF request[r].issueDate > request[r].from THEN "SCHEDULED" ELSE "ISSUED"
        /\ NewCharge(r, s).restored = FALSE
  BY DEF NewCharge
<1>3. \A s \in Issued(r) :
        /\ NewCharge(r, s).issueDate <= NewCharge(r, s).dueDate
        /\ InMonth(NewCharge(r, s).dueDate, m) /\ m \in Months
  BY <1>1, NewChargeType
<1>4. charges' \ charges = new
  <2>1. \A c \in charges : c.issue # issues + 1
    BY DEF TypeInv, ChargesOK, TablesOK, Row
  <2>2. QED
    BY <1>1, <1>2, <2>1
<1>5. ASSUME NEW s \in Issued(r)
      PROVE  Book!Fits(NewCharge(r, s), m)
  <2>1. s \in DOMAIN request[r].listed
        /\ <<s, request[r].listed[s].template>> \notin request[r].existing
    BY DEF Issued
  <2>2. ASSUME NEW d \in charges, s = d.student, request[r].listed[s].template = d.template,
               Counts(d), InMonth(d.dueDate, m)
        PROVE  FALSE
    BY <1>1, <2>1, <2>2 DEF ReadsAreCurrent, Known
  <2>3. \A d \in charges : Book!InForce(d) <=> Counts(d)
    BY DEF Book!InForce, Counts
  <2>4. \A d : Book!IsOf(d, m) <=> InMonth(d.dueDate, m)
    BY DEF Book!IsOf, InMonth
  <2>5. QED
    BY <1>2, <1>3, <2>2, <2>3, <2>4 DEF Book!Fits
<1>6. (\E s \in Issued(r) : TRUE) /\ m \in Months
  BY <1>1, <1>3
<1> HIDE DEF m
<1>7. \A c \in new : \E s \in Issued(r) : c = NewCharge(r, s)
  OBVIOUS
<1>8. new # {}
  BY <1>6
<1> HIDE DEF new
<1>9. QED
  BY <1>1, <1>2, <1>4, <1>5, <1>6, <1>7, <1>8 DEF Book!Issue

(* Issuing keeps the book, as long as no two issues are about to charge one    *)
(* student for one template and month: although a commit rests on reads of     *)
(* earlier statements, and students and templates have changed since, it adds  *)
(* what an issue in one step would.                                            *)
THEOREM IssuesAreAtomic == Spec /\ []IssuesApart => BookSpec
<1>1. Init => Book!Init
  BY DEF Init, Book!Init
<1>2. ActiveInv /\ [Next]_vars => [Book!Next]_(Book!vars)
  <2> SUFFICES ASSUME ActiveInv, [Next]_vars
               PROVE  [Book!Next]_(Book!vars)
    OBVIOUS
  <2>1. CASE Tick
    BY <2>1 DEF Tick, Book!Next, Book!Pass
  <2>2. CASE Administration \/ UNCHANGED vars
    BY <2>2 DEF Administration, UpdateTemplate, UpdateStudent, DeactivateStudent, vars, Book!vars
  <2>3. ASSUME NEW r \in Requests,
               \/ ReadExisting(r) \/ AbandonIssue(r)
               \/ \E m \in Months, d \in IssueDates, t \in Templates \cup {None} :
                    StartIssue(r, m, d, t)
        PROVE  UNCHANGED Book!vars
    BY <2>3 DEF ReadExisting, AbandonIssue, StartIssue, Book!vars
  <2>4. ASSUME NEW r \in Requests, CommitIssue(r)
        PROVE  Book!Next
    BY <2>4, CommitIsIssue DEF Book!Next
  <2>5. CASE Release
    BY <2>5 DEF Release, Book!Next, Book!Release
  <2>6. ASSUME NEW c \in charges, NEW s \in Reported, ReportStatus(c, s)
        PROVE  Book!Next
    BY <2>6 DEF ReportStatus, Book!Next, Book!Report
  <2>7. QED
    BY <2>1, <2>2, <2>3, <2>4, <2>5, <2>6 DEF Next, Issuing
<1>3. ActiveInv /\ IssuesApart /\ [Next]_vars => ActiveInv'
  BY ActiveNext
<1>4. QED
  BY ActiveInit, <1>1, <1>2, <1>3, PTL DEF Spec, BookSpec, Book!Spec
=============================================================================
