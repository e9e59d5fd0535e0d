----------------------------- MODULE CompanyProofs -----------------------------
(***************************************************************************)
(* Proofs about what a company manages.                                    *)
(*                                                                         *)
(* Of Roster, for every number of students, groups and routes: its types,  *)
(* that a deactivated student stays so, and that nobody is moved to what   *)
(* was deactivated as long as no two requests are about one student.  Of   *)
(* RouteScheduling: its types, that a schedule is found exactly at its     *)
(* notices, whatever the length of the day, and that no two active         *)
(* schedules share a slot as long as no two requests are about to write    *)
(* one.  Of LiveLocation: its types, and that the trail is one drive.  Of  *)
(* PlanChange, BillingSettings and BillingPage, what a company and the     *)
(* platform agree on: for every set of plans, every number of calls and    *)
(* every contents of the settings.                                         *)
(***************************************************************************)
EXTENDS
  Roster, RouteScheduling, LiveLocation, PlanChange, BillingSettings, BillingPage, TLAPS

EditRequest ==
  [step : {"create", "check", "write"}, student : Students, asked : BOOLEAN, row : Row]

(* A student that is enrolled, and a request that is busy, are records. *)
LEMMA EnrolledRow ==
  ASSUME RosterTypeOK, NEW s \in Enrolled
  PROVE  student[s] \in Row
BY DEF RosterTypeOK, Enrolled

LEMMA BusyRequest ==
  ASSUME RosterTypeOK, NEW r \in Busy
  PROVE  edit[r] \in EditRequest /\ edit[r].row \in Row
BY DEF RosterTypeOK, Busy, EditRequest

(* What CheckUpdate does. *)
LEMMA CheckUpdateStep ==
  ASSUME RosterTypeOK, NEW r \in Edits, CheckUpdate(r)
  PROVE  \E group \in NextGroups(edit[r].row),
            routes \in NextRoutes(edit[r].student, edit[r].row), flagged \in BOOLEAN,
            active \in BOOLEAN :
           /\ flagged \/ active = edit[r].row.active
           /\ [active |-> active, group |-> group, routes |-> routes] \in Row
           /\ edit' = [edit EXCEPT ![r] =
                [step |-> "write", student |-> edit[r].student, asked |-> flagged,
                 row |-> [active |-> active, group |-> group, routes |-> routes]]]
<1>1. r \in Busy /\ edit[r] \in EditRequest /\ edit[r].row \in Row
  BY BusyRequest DEF CheckUpdate, Busy
<1>2. PICK group \in NextGroups(edit[r].row),
           routes \in NextRoutes(edit[r].student, edit[r].row), flagged \in BOOLEAN,
           active \in BOOLEAN :
        /\ flagged \/ active = edit[r].row.active
        /\ edit' = [edit EXCEPT ![r] =
             [step |-> "write", student |-> edit[r].student, asked |-> flagged,
              row |-> [active |-> active, group |-> group, routes |-> routes]]]
  BY Zenon DEF CheckUpdate, NextActivity
<1>3. [active |-> active, group |-> group, routes |-> routes] \in Row
  BY <1>1 DEF NextGroups, NextRoutes, RouteChoices, Row
<1>4. QED
  BY <1>2, <1>3, Zenon

-----------------------------------------------------------------------------
(* Every reachable state is of the declared types. *)
THEOREM RosterTypeCorrect == RosterSpec => []RosterTypeOK
<1> USE DEF RosterTypeOK
<1>1. RosterInit => RosterTypeOK
  BY DEF RosterInit
<1>2. RosterTypeOK /\ [RosterNext]_rosterVars => RosterTypeOK'
  <2> SUFFICES ASSUME RosterTypeOK, [RosterNext]_rosterVars PROVE RosterTypeOK'
    OBVIOUS
  <2>1. ASSUME NEW r \in Edits, NEW s \in Students, NEW group \in Groups,
               NEW routes \in RouteChoices, StartCreate(r, s, group, routes)
        PROVE  RosterTypeOK'
    BY <2>1 DEF StartCreate, RouteChoices, Row
  <2>2. ASSUME NEW r \in Edits, CommitCreate(r) PROVE RosterTypeOK'
    BY <2>2, BusyRequest DEF CommitCreate, Busy, EditRequest
  <2>3. ASSUME NEW r \in Edits, NEW s \in Students, StartStudentUpdate(r, s) PROVE RosterTypeOK'
    BY <2>3, EnrolledRow DEF StartStudentUpdate
  <2>4. ASSUME NEW r \in Edits, CheckUpdate(r) PROVE RosterTypeOK'
    <3>1. edit[r] \in EditRequest
      BY <2>4, BusyRequest DEF CheckUpdate, Busy
    <3>2. PICK row \in Row, flagged \in BOOLEAN :
            edit' = [edit EXCEPT ![r] =
              [step |-> "write", student |-> edit[r].student, asked |-> flagged, row |-> row]]
      BY <2>4, CheckUpdateStep
    <3>3. QED
      BY <2>4, <3>1, <3>2 DEF CheckUpdate, EditRequest
  <2>5. ASSUME NEW r \in Edits, CommitUpdate(r) PROVE RosterTypeOK'
    BY <2>5, BusyRequest DEF CommitUpdate, Busy, EditRequest
  <2>6. ASSUME NEW r \in Edits, FailUpdate(r) PROVE RosterTypeOK'
    BY <2>6 DEF FailUpdate
  <2>7. ASSUME NEW S \in SUBSET Students, DeactivateStudents(S) PROVE RosterTypeOK'
    <3>1. \A s \in S : [student[s] EXCEPT !.active = FALSE] \in Row
      BY <2>7, EnrolledRow DEF DeactivateStudents, Row
    <3>2. QED
      BY <2>7, <3>1 DEF DeactivateStudents
  <2>8. ASSUME NEW S \in SUBSET Students, DeleteStudents(S) PROVE RosterTypeOK'
    BY <2>8 DEF DeleteStudents
  <2>9. ASSUME NEW item \in Groups \cup Routes, Deactivate(item) PROVE RosterTypeOK'
    BY <2>9 DEF Deactivate
  <2>10. ASSUME NEW group \in Groups, Reopen(group) PROVE RosterTypeOK'
    BY <2>10 DEF Reopen
  <2>11. ASSUME UNCHANGED rosterVars PROVE RosterTypeOK'
    BY <2>11 DEF rosterVars
  <2>12. QED
    BY <2>1, <2>2, <2>3, <2>4, <2>5, <2>6, <2>7, <2>8, <2>9, <2>10, <2>11 DEF RosterNext
<1>3. QED
  BY <1>1, <1>2, PTL DEF RosterSpec

-----------------------------------------------------------------------------
(* No student is without a route, so that the foreign key refuses every        *)
(* deletion.                                                                  *)
Routed ==
  /\ \A s \in Enrolled : student[s].routes # {}
  /\ \A r \in Busy : edit[r].row.routes # {}

LEMMA RoutedInvariant == RosterSpec => []Routed
<1>1. RosterInit => Routed
  BY DEF RosterInit, Routed, Enrolled, Busy
<1>2. RosterTypeOK /\ Routed /\ [RosterNext]_rosterVars => Routed'
  <2> SUFFICES ASSUME RosterTypeOK, Routed, [RosterNext]_rosterVars PROVE Routed'
    OBVIOUS
  <2>1. ASSUME NEW r \in Edits, NEW s \in Students, NEW group \in Groups,
               NEW routes \in RouteChoices, StartCreate(r, s, group, routes)
        PROVE  Routed'
    BY <2>1 DEF StartCreate, RouteChoices, Routed, Enrolled, Busy, RosterTypeOK
  <2>2. ASSUME NEW r \in Edits, CommitCreate(r) \/ CommitUpdate(r) PROVE Routed'
    <3>1. r \in Busy
      BY <2>2 DEF CommitCreate, CommitUpdate, Busy
    <3>2. \A s \in Students : student'[s] \in {student[s], edit[r].row}
      BY <2>2 DEF CommitCreate, CommitUpdate, RosterTypeOK
    <3>3. edit' = [edit EXCEPT ![r] = None]
      BY <2>2 DEF CommitCreate, CommitUpdate
    <3>4. QED
      BY <3>1, <3>2, <3>3 DEF Routed, Enrolled, Busy, RosterTypeOK
  <2>3. ASSUME NEW r \in Edits, NEW s \in Students, StartStudentUpdate(r, s) PROVE Routed'
    BY <2>3 DEF StartStudentUpdate, Routed, Enrolled, Busy, RosterTypeOK
  <2>4. ASSUME NEW r \in Edits, CheckUpdate(r) PROVE Routed'
    <3>1. r \in Busy
      BY <2>4 DEF CheckUpdate, Busy
    <3>2. PICK group \in NextGroups(edit[r].row),
               routes \in NextRoutes(edit[r].student, edit[r].row), flagged \in BOOLEAN,
               active \in BOOLEAN :
            /\ flagged \/ active = edit[r].row.active
            /\ [active |-> active, group |-> group, routes |-> routes] \in Row
            /\ edit' = [edit EXCEPT ![r] =
                 [step |-> "write", student |-> edit[r].student, asked |-> flagged,
                  row |-> [active |-> active, group |-> group, routes |-> routes]]]
      BY <2>4, CheckUpdateStep, Zenon
    <3>3. routes # {}
      BY <3>1 DEF NextRoutes, RouteChoices, Routed
    <3>4. student' = student
      BY <2>4 DEF CheckUpdate
    <3>5. QED
      BY <3>2, <3>3, <3>4 DEF Routed, Enrolled, Busy, RosterTypeOK
  <2>5. ASSUME NEW r \in Edits, FailUpdate(r) PROVE Routed'
    BY <2>5 DEF FailUpdate, Routed, Enrolled, Busy, RosterTypeOK
  <2>6. ASSUME NEW S \in SUBSET Students, DeactivateStudents(S) PROVE Routed'
    <3>1. \A s \in Enrolled' : s \in Enrolled /\ student'[s].routes = student[s].routes
      BY <2>6, EnrolledRow DEF DeactivateStudents, Enrolled, Row
    <3>2. edit' = edit
      BY <2>6 DEF DeactivateStudents
    <3>3. QED
      BY <3>1, <3>2 DEF Routed, Busy
  <2>7. ASSUME NEW S \in SUBSET Students, DeleteStudents(S) PROVE Routed'
    BY <2>7 DEF DeleteStudents, Routed, Enrolled, Busy
  <2>8. ASSUME UNCHANGED <<student, edit>> PROVE Routed'
    BY <2>8 DEF Routed, Enrolled, Busy
  <2>9. QED
    BY <2>1, <2>2, <2>3, <2>4, <2>5, <2>6, <2>7, <2>8 DEF RosterNext, rosterVars, Deactivate, Reopen
<1>3. QED
  BY <1>1, <1>2, RosterTypeCorrect, PTL DEF RosterSpec

(* A deletion changes nothing. *)
LEMMA DeletionRefused ==
  ASSUME Routed, NEW S, DeleteStudents(S)
  PROVE  UNCHANGED rosterVars
BY DEF DeleteStudents, Routed, rosterVars

-----------------------------------------------------------------------------
(* A request about a dormant student that leaves the flag out read it as it is. *)
Dormancy ==
  /\ DeactivatedStays
  /\ \A r \in Busy :
       /\ edit[r].step = "check" => ~edit[r].asked
       /\ edit[r].student \in dormant /\ ~edit[r].asked => ~edit[r].row.active

(* A student deactivated while nobody was saving them stays inactive until a    *)
(* request says otherwise, however many requests there are.                    *)
THEOREM DeactivationLasts == RosterSpec => []DeactivatedStays
<1> USE RosterRowAssumption
<1>1. RosterInit => Dormancy
  BY DEF RosterInit, Dormancy, DeactivatedStays, Busy
<1>2. RosterTypeOK /\ Routed /\ Dormancy /\ [RosterNext]_rosterVars => Dormancy'
  <2> SUFFICES ASSUME RosterTypeOK, Routed, Dormancy, [RosterNext]_rosterVars PROVE Dormancy'
    OBVIOUS
  <2>1. ASSUME NEW r \in Edits, NEW s \in Students, NEW group \in Groups,
               NEW routes \in RouteChoices, StartCreate(r, s, group, routes)
        PROVE  Dormancy'
    BY <2>1 DEF StartCreate, Dormancy, DeactivatedStays, Busy, RosterTypeOK
  (* A dormant student is enrolled, so that no creation writes it.              *)
  <2>2. ASSUME NEW r \in Edits, CommitCreate(r) PROVE Dormancy'
    <3>1. \A s \in dormant : student'[s] = student[s]
      BY <2>2 DEF CommitCreate, Dormancy, DeactivatedStays, Enrolled, RosterTypeOK
    <3>2. dormant' = dormant /\ edit' = [edit EXCEPT ![r] = None]
      BY <2>2 DEF CommitCreate
    <3>3. QED
      BY <3>1, <3>2 DEF Dormancy, DeactivatedStays, Busy, RosterTypeOK
  <2>3. ASSUME NEW r \in Edits, NEW s \in Students, StartStudentUpdate(r, s) PROVE Dormancy'
    BY <2>3 DEF StartStudentUpdate, Dormancy, DeactivatedStays, Busy, RosterTypeOK
  <2>4. ASSUME NEW r \in Edits, CheckUpdate(r) PROVE Dormancy'
    <3>1. r \in Busy /\ ~edit[r].asked
      BY <2>4 DEF CheckUpdate, Busy, Dormancy
    <3>2. PICK group \in NextGroups(edit[r].row),
               routes \in NextRoutes(edit[r].student, edit[r].row), flagged \in BOOLEAN,
               active \in BOOLEAN :
            /\ flagged \/ active = edit[r].row.active
            /\ [active |-> active, group |-> group, routes |-> routes] \in Row
            /\ edit' = [edit EXCEPT ![r] =
                 [step |-> "write", student |-> edit[r].student, asked |-> flagged,
                  row |-> [active |-> active, group |-> group, routes |-> routes]]]
      BY <2>4, CheckUpdateStep, Zenon
    <3>3. student' = student /\ dormant' = dormant
      BY <2>4 DEF CheckUpdate
    <3>4. QED
      BY <3>1, <3>2, <3>3 DEF Dormancy, DeactivatedStays, Busy, RosterTypeOK
  <2>5. ASSUME NEW r \in Edits, CommitUpdate(r) PROVE Dormancy'
    <3>1. r \in Busy /\ edit[r].row # None
      BY <2>5, BusyRequest DEF CommitUpdate, Busy
    <3>2. \A s \in dormant' : student'[s] # None /\ ~student'[s].active
      BY <2>5, <3>1 DEF CommitUpdate, Dormancy, DeactivatedStays, RosterTypeOK
    <3>3. dormant' \subseteq dormant /\ edit' = [edit EXCEPT ![r] = None]
      BY <2>5 DEF CommitUpdate
    <3>4. QED
      BY <3>2, <3>3 DEF Dormancy, DeactivatedStays, Busy, RosterTypeOK
  <2>6. ASSUME NEW r \in Edits, FailUpdate(r) PROVE Dormancy'
    BY <2>6 DEF FailUpdate, Dormancy, DeactivatedStays, Busy, RosterTypeOK
  <2>7. ASSUME NEW S \in SUBSET Students, DeactivateStudents(S) PROVE Dormancy'
    <3>1. \A s \in S : student'[s] \in Row /\ ~student'[s].active
      BY <2>7, EnrolledRow DEF DeactivateStudents, Row
    <3>2. \A s \in Students \ S : student'[s] = student[s]
      BY <2>7 DEF DeactivateStudents
    <3>3. DeactivatedStays'
      BY <2>7, <3>1, <3>2 DEF DeactivateStudents, Dormancy, DeactivatedStays, RosterTypeOK
    <3>4. /\ edit' = edit
          /\ \A r \in Busy : edit[r].student \in dormant' => edit[r].student \in dormant
      BY <2>7 DEF DeactivateStudents
    <3>5. QED
      BY <3>3, <3>4 DEF Dormancy, Busy
  <2>8. ASSUME NEW S \in SUBSET Students, DeleteStudents(S) PROVE Dormancy'
    BY <2>8, DeletionRefused DEF rosterVars, Dormancy, DeactivatedStays, Busy
  <2>9. ASSUME UNCHANGED <<student, edit, dormant>> PROVE Dormancy'
    BY <2>9 DEF Dormancy, DeactivatedStays, Busy
  <2>10. QED
    BY <2>1, <2>2, <2>3, <2>4, <2>5, <2>6, <2>7, <2>8, <2>9 DEF RosterNext, rosterVars, Deactivate, Reopen
<1>3. Dormancy => DeactivatedStays
  BY DEF Dormancy
<1>4. QED
  BY <1>1, <1>2, <1>3, RosterTypeCorrect, RoutedInvariant, PTL DEF RosterSpec

-----------------------------------------------------------------------------
(* Two requests are never in progress about one student.                       *)
OneEditAStudent == \A q, r \in Busy : edit[q].student = edit[r].student => q = r

(* What a request in progress may write, as long as it is alone on its student: *)
(* an update that was read has the student where they are, and nothing goes to  *)
(* what is sealed but where the student is already.                            *)
Placed(e) ==
  LET read == student[e.student] IN
  /\ e.step = "create" => PlacesOf(e.row) \cap sealed = {}
  /\ e.step = "check" =>
       read # None /\ e.row.group = read.group /\ e.row.routes = read.routes
  /\ e.step = "write" => PlacesOf(e.row) \cap sealed \subseteq PlacesOf(read)
Placement == sealed \cap open = {} /\ \A r \in Busy : Placed(edit[r])

(* A request goes on, or ends, and the others are where they were. *)
LEMMA OneGoesOn ==
  ASSUME RosterTypeOK, Placement, NEW r \in Edits, NEW e, e # None => Placed(e),
         edit' = [edit EXCEPT ![r] = e], UNCHANGED <<open, student, sealed>>
  PROVE  Placement'
<1>1. \A q \in Busy' : edit'[q] # None /\ (edit'[q] = e \/ (q \in Busy /\ edit'[q] = edit[q]))
  BY DEF Busy, RosterTypeOK
<1>2. \A q \in Busy' : Placed(edit'[q])
  BY <1>1 DEF Placement
<1>3. \A q \in Busy' : Placed(edit[q])'
  BY <1>2 DEF Placed, PlacesOf
<1>4. QED
  BY <1>3 DEF Placement

(* As long as no two requests are in progress about one student, nobody is      *)
(* moved to a group or a route that was deactivated before, however many        *)
(* requests about others overlap.  (Two overlapping updates of one student can  *)
(* do it: the later one writes back a place the earlier one left.)             *)
THEOREM NobodyMovesToTheSealed == RosterSpec /\ []OneEditAStudent => NoNewcomers
<1> USE RosterRowAssumption
<1>1. RosterInit => Placement
  BY DEF RosterInit, Placement, Busy
<1>2. ASSUME RosterTypeOK, Routed, OneEditAStudent, Placement, [RosterNext]_rosterVars
      PROVE  Placement' /\ \A s \in Students :
                              PlacesOf(student'[s]) \cap sealed \subseteq PlacesOf(student[s])
  <2> DEFINE Goal == Placement' /\ \A s \in Students :
                              PlacesOf(student'[s]) \cap sealed \subseteq PlacesOf(student[s])
  <2>1. ASSUME NEW r \in Edits, NEW s \in Students, NEW group \in Groups,
               NEW routes \in RouteChoices, StartCreate(r, s, group, routes)
        PROVE  Goal
    <3> DEFINE Wanted(active) ==
                 [step |-> "create", student |-> s, asked |-> TRUE,
                  row |-> [active |-> active, group |-> group, routes |-> routes]]
    <3>1. PICK active \in BOOLEAN : edit' = [edit EXCEPT ![r] = Wanted(active)]
      BY <2>1 DEF StartCreate
    <3>2. PlacesOf([active |-> active, group |-> group, routes |-> routes]) \cap sealed = {}
      BY <2>1, <1>2 DEF StartCreate, PlacesOf, Placement
    <3>3. Placed(Wanted(active))
      BY <3>2 DEF Placed
    <3>4. UNCHANGED <<open, student, sealed>>
      BY <2>1 DEF StartCreate
    <3> HIDE DEF Wanted
    <3>5. QED
      BY <1>2, <3>1, <3>3, <3>4, OneGoesOn
  <2>2. ASSUME NEW r \in Edits, CommitCreate(r) \/ CommitUpdate(r) PROVE Goal
    <3>1. r \in Busy /\ UNCHANGED <<open, sealed>> /\ edit' = [edit EXCEPT ![r] = None]
      BY <2>2 DEF CommitCreate, CommitUpdate, Busy
    <3>2. \A s \in Students :
            student'[s] = student[s] \/ (s = edit[r].student /\ student'[s] = edit[r].row)
      BY <2>2, <1>2 DEF CommitCreate, CommitUpdate, RosterTypeOK
    <3>3. PlacesOf(edit[r].row) \cap sealed \subseteq PlacesOf(student[edit[r].student])
      BY <2>2, <1>2, <3>1 DEF CommitCreate, CommitUpdate, Placement, Placed
    <3>4. \A q \in Busy' : /\ q \in Busy /\ edit'[q] = edit[q]
                           /\ student'[edit[q].student] = student[edit[q].student]
      <4>1. \A q \in Busy' : q # r /\ q \in Busy /\ edit'[q] = edit[q]
        BY <1>2, <3>1 DEF Busy, RosterTypeOK
      <4>2. \A q \in Busy' : edit[q].student \in Students /\ edit[q].student # edit[r].student
        BY <1>2, <3>1, <4>1, BusyRequest DEF EditRequest, OneEditAStudent
      <4>3. QED
        BY <3>2, <4>1, <4>2
    <3>5. \A q \in Busy' : Placed(edit[q])'
      BY <1>2, <3>1, <3>4 DEF Placement, Placed, PlacesOf
    <3>6. QED
      BY <1>2, <3>1, <3>2, <3>3, <3>5 DEF Placement
  <2>3. ASSUME NEW r \in Edits, NEW s \in Students, StartStudentUpdate(r, s) PROVE Goal
    <3> DEFINE e == [step |-> "check", student |-> s, asked |-> FALSE, row |-> student[s]]
    <3>1. edit' = [edit EXCEPT ![r] = e] /\ UNCHANGED <<open, student, sealed>>
      BY <2>3 DEF StartStudentUpdate
    <3>2. Placed(e)
      BY <2>3 DEF StartStudentUpdate, Enrolled, Placed
    <3> HIDE DEF e
    <3>3. QED
      BY <1>2, <3>1, <3>2, OneGoesOn
  <2>4. ASSUME NEW r \in Edits, CheckUpdate(r) PROVE Goal
    <3> DEFINE read == student[edit[r].student]
    <3>1. /\ r \in Busy /\ read # None
          /\ edit[r].row.group = read.group /\ edit[r].row.routes = read.routes
      BY <2>4, <1>2 DEF CheckUpdate, Busy, Placement, Placed
    <3>2. PICK group \in NextGroups(edit[r].row),
               routes \in NextRoutes(edit[r].student, edit[r].row), flagged \in BOOLEAN,
               active \in BOOLEAN :
            /\ flagged \/ active = edit[r].row.active
            /\ [active |-> active, group |-> group, routes |-> routes] \in Row
            /\ edit' = [edit EXCEPT ![r] =
                 [step |-> "write", student |-> edit[r].student, asked |-> flagged,
                  row |-> [active |-> active, group |-> group, routes |-> routes]]]
      BY <2>4, <1>2, CheckUpdateStep, Zenon
    <3>3. PlacesOf([active |-> active, group |-> group, routes |-> routes]) \cap sealed
          \subseteq {read.group} \cup read.routes
      BY <1>2, <3>1 DEF NextGroups, NextRoutes, Placement, PlacesOf
    <3>4. PlacesOf(read) = {read.group} \cup read.routes
      BY <3>1 DEF PlacesOf
    <3> DEFINE e == [step |-> "write", student |-> edit[r].student, asked |-> flagged,
                     row |-> [active |-> active, group |-> group, routes |-> routes]]
    <3>5. Placed(e)
      BY <3>3, <3>4 DEF Placed
    <3>6. edit' = [edit EXCEPT ![r] = e]
      BY <3>2
    <3>7. UNCHANGED <<open, student, sealed>>
      BY <2>4 DEF CheckUpdate
    <3> HIDE DEF e
    <3>8. QED
      BY <1>2, <3>5, <3>6, <3>7, OneGoesOn
  <2>5. ASSUME NEW r \in Edits, FailUpdate(r) PROVE Goal
    BY <2>5, <1>2, OneGoesOn DEF FailUpdate
  <2>6. ASSUME NEW S \in SUBSET Students, DeactivateStudents(S) PROVE Goal
    <3>1. \A s \in Students :
            \/ student'[s] = student[s]
            \/ /\ student[s] # None /\ student'[s] # None
               /\ student'[s].group = student[s].group
               /\ student'[s].routes = student[s].routes
      BY <2>6, <1>2, EnrolledRow DEF DeactivateStudents, Row, Enrolled
    <3>2. \A s \in Students : PlacesOf(student'[s]) = PlacesOf(student[s])
      BY <3>1 DEF PlacesOf
    <3>3. UNCHANGED <<open, edit, sealed>>
      BY <2>6 DEF DeactivateStudents
    <3>4. \A r \in Busy : edit[r].student \in Students
      BY <1>2, BusyRequest DEF EditRequest
    <3>5. QED
      BY <1>2, <3>1, <3>2, <3>3, <3>4 DEF Placement, Placed, Busy
  <2>7. ASSUME NEW S \in SUBSET Students, DeleteStudents(S) PROVE Goal
    BY <2>7, <1>2, DeletionRefused DEF rosterVars, Placement, Placed, PlacesOf, Busy
  (* Only while nobody is busy is anything sealed.                              *)
  <2>8. ASSUME NEW item \in Groups \cup Routes, Deactivate(item) PROVE Goal
    <3>1. sealed' = sealed \/ (Busy = {} /\ sealed' = sealed \cup {item})
      BY <2>8 DEF Deactivate
    <3>2. open' = open \ {item} /\ student' = student /\ edit' = edit
      BY <2>8 DEF Deactivate
    <3>3. QED
      BY <1>2, <3>1, <3>2 DEF Placement, Placed, PlacesOf, Busy
  <2>9. ASSUME NEW group \in Groups, Reopen(group) PROVE Goal
    BY <2>9, <1>2 DEF Reopen, Placement, Placed, PlacesOf, Busy
  <2>10. ASSUME UNCHANGED rosterVars PROVE Goal
    BY <2>10, <1>2 DEF rosterVars, Placement, Placed, PlacesOf, Busy
  <2>11. QED
    BY <1>2, <2>1, <2>2, <2>3, <2>4, <2>5, <2>6, <2>7, <2>8, <2>9, <2>10 DEF RosterNext
<1>3. QED
  BY <1>1, <1>2, RosterTypeCorrect, RoutedInvariant, PTL DEF RosterSpec, NoNewcomers

-----------------------------------------------------------------------------
(* Division: the quotient and the remainder determine a number, and no other *)
(* pair does.                                                                *)
LEMMA DivisionMod ==
  ASSUME NEW D \in Nat \ {0}, NEW t \in Nat
  PROVE  t \div D \in Nat /\ t % D \in 0..(D - 1) /\ t = D * (t \div D) + (t % D)
<1>1. t \div D \in Int /\ t % D \in 0..(D - 1)
  OBVIOUS
<1>2. t = D * (t \div D) + (t % D)
  OBVIOUS
<1>3. t \div D \in Nat
  <2>1. ASSUME t \div D <= -1 PROVE FALSE
    <3>1. D * (t \div D) <= -D
      BY <1>1, <2>1
    <3>2. QED
      BY <1>1, <1>2, <3>1
  <2>2. QED
    BY <1>1, <2>1
<1>4. QED
  BY <1>1, <1>2, <1>3

LEMMA OneDivision ==
  ASSUME NEW D \in Nat \ {0}, NEW p \in Int, NEW q \in Int,
         NEW m \in 0..(D - 1), NEW n \in 0..(D - 1), D * p + m = D * q + n
  PROVE  p = q /\ m = n
<1>1. ASSUME NEW i \in Int, NEW j \in Int, i < j PROVE D * i + D <= D * j
  <2>1. D * (j - i) >= D
    BY <1>1
  <2>2. D * (j - i) = D * j - D * i
    OBVIOUS
  <2>3. QED
    BY <2>1, <2>2
<1>2. p = q
  BY <1>1
<1>3. QED
  BY <1>2

LEMMA SmallRemainder ==
  ASSUME NEW D \in Nat \ {0}, NEW m \in 0..(D - 1)
  PROVE  m % D = m /\ (m + D) % D = m
<1>1. m % D = m
  OBVIOUS
<1>2. (m + D) % D = m
  OBVIOUS
<1>3. QED
  BY <1>1, <1>2

(* The day before, among the weekdays. *)
LEMMA DayBefore ==
  ASSUME NEW q \in Nat, NEW days \in SUBSET Weekdays
  PROVE  q % 7 \in {(day + 6) % 7 : day \in days} <=> (q + 1) % 7 \in days
<1>1. \A day \in Weekdays : (day + 6) % 7 = q % 7 <=> day = (q + 1) % 7
  BY DEF Weekdays
<1>2. (q + 1) % 7 \in Weekdays
  BY DEF Weekdays
<1>3. q % 7 \in {(day + 6) % 7 : day \in days} <=> \E day \in days : (day + 6) % 7 = q % 7
  OBVIOUS
<1>4. QED
  BY <1>1, <1>2, <1>3

-----------------------------------------------------------------------------
(* The notice of a row is the one computed from its departure. *)
Derived(entry) ==
  /\ entry.notificationTimeMinutes =
       (entry.departureMinutes - entry.notifyBeforeMinutes + DayMinutes) % DayMinutes
  /\ entry.notificationDayOfWeeks =
       {NoticeDay(day, entry.departureMinutes, entry.notifyBeforeMinutes) :
          day \in entry.dayOfWeeks}

(* The inductive invariant of the schedules: the types, and every row, stored *)
(* or about to be, has the notice of its departure.                           *)
SchedulesInv ==
  /\ SchedulesTypeOK
  /\ \A s \in Created : Derived(schedule[s])
  /\ \A r \in Requests : write[r] # None => Derived(write[r].row)

LEMMA RowsDerived ==
  ASSUME NEW activity \in SUBSET BOOLEAN, NEW entry \in Rows(activity)
  PROVE  entry \in ScheduleRow /\ Derived(entry) /\ entry.active \in activity
<1>1. PICK s \in Slots, departure \in Departures, days \in DaySets, notice \in Notices,
           active \in activity : entry = ScheduleData(s, departure, days, notice, active)
  BY DEF Rows
<1>2. departure \in Int /\ notice \in Int /\ DayMinutes \in Nat \ {0} /\ days \subseteq 0..6
  BY TimesAssumption DEF Weekdays
<1>3. (departure - notice + DayMinutes) % DayMinutes \in 0..(DayMinutes - 1)
  BY <1>2
<1>4. \A day \in days : NoticeDay(day, departure, notice) \in Weekdays
  BY <1>2 DEF NoticeDay, Weekdays
<1>5. {NoticeDay(day, departure, notice) : day \in days} \in SUBSET Weekdays
  BY <1>4
<1>6. entry \in ScheduleRow
  BY <1>1, <1>3, <1>5 DEF ScheduleData, ScheduleRow
<1>7. Derived(entry)
  BY <1>1 DEF ScheduleData, Derived
<1>8. entry.active \in activity
  BY <1>1 DEF ScheduleData
<1>9. QED
  BY <1>6, <1>7, <1>8

(* A request that is busy, and a schedule that is stored, are records. *)
LEMMA PendingWrite ==
  ASSUME SchedulesInv, NEW r \in Requests, write[r] # None
  PROVE  /\ write[r] \in [schedule : Schedules, row : ScheduleRow]
         /\ write[r].schedule \in Schedules /\ write[r].row \in ScheduleRow
         /\ Derived(write[r].row)
BY DEF SchedulesInv, SchedulesTypeOK

LEMMA StoredRow ==
  ASSUME SchedulesInv, NEW s \in Created
  PROVE  s \in Schedules /\ schedule[s] \in ScheduleRow /\ Derived(schedule[s])
BY DEF SchedulesInv, SchedulesTypeOK, Created

LEMMA AWrite ==
  ASSUME NEW s \in Schedules, NEW entry \in ScheduleRow
  PROVE  /\ [schedule |-> s, row |-> entry] \in [schedule : Schedules, row : ScheduleRow]
         /\ [schedule |-> s, row |-> entry] # None
         /\ [schedule |-> s, row |-> entry].schedule = s
         /\ [schedule |-> s, row |-> entry].row = entry
BY ScheduleRowAssumption

(* What a check leaves: the row it accepted, to be written. *)
LEMMA CheckKept ==
  ASSUME SchedulesInv, NEW r \in Requests, NEW s \in Schedules,
         NEW entry \in ScheduleRow, Derived(entry),
         write' = [write EXCEPT ![r] = [schedule |-> s, row |-> entry]],
         UNCHANGED <<routeActive, schedule>>
  PROVE  SchedulesInv'
<1> DEFINE e == [schedule |-> s, row |-> entry]
<1>1. e \in [schedule : Schedules, row : ScheduleRow] /\ e.row = entry
  BY AWrite
<1>2. \A q \in Requests : write'[q] = IF q = r THEN e ELSE write[q]
  BY DEF SchedulesInv, SchedulesTypeOK
<1>3. write' \in [Requests -> [schedule : Schedules, row : ScheduleRow] \cup {None}]
  BY <1>1 DEF SchedulesInv, SchedulesTypeOK
<1> HIDE DEF e
<1>4. SchedulesTypeOK'
  BY <1>3 DEF SchedulesInv, SchedulesTypeOK
<1>5. \A q \in Requests : write'[q] # None => Derived(write'[q].row)
  BY <1>1, <1>2 DEF SchedulesInv
<1>6. \A t \in Created' : Derived(schedule'[t])
  BY DEF SchedulesInv, Created
<1>7. (\A q \in Requests : write[q] # None => Derived(write[q].row))'
  BY <1>5 DEF Derived
<1>8. QED
  BY <1>4, <1>6, <1>7 DEF SchedulesInv, Derived

(* A row without its activity. *)
LEMMA Deactivated ==
  ASSUME NEW entry \in ScheduleRow, Derived(entry)
  PROVE  /\ [entry EXCEPT !.active = FALSE] \in ScheduleRow
         /\ Derived([entry EXCEPT !.active = FALSE])
         /\ [entry EXCEPT !.active = FALSE].active = FALSE
BY DEF ScheduleRow, Derived

(* What a write leaves. *)
LEMMA WriteKept ==
  ASSUME SchedulesInv, NEW r \in Requests, WriteSchedule(r)
  PROVE  SchedulesInv'
<1>1. /\ write[r] # None /\ routeActive' = routeActive
      /\ write[r].schedule \in Schedules /\ write[r].row \in ScheduleRow
      /\ Derived(write[r].row)
  BY PendingWrite DEF WriteSchedule
<1>2. \A s \in Schedules :
        schedule'[s] = IF s = write[r].schedule THEN write[r].row ELSE schedule[s]
  BY DEF WriteSchedule, SchedulesInv, SchedulesTypeOK
<1>3. schedule' \in [Schedules -> ScheduleRow \cup {None}]
  BY <1>1 DEF WriteSchedule, SchedulesInv, SchedulesTypeOK
<1>4. \A q \in Requests : write'[q] = IF q = r THEN None ELSE write[q]
  BY DEF WriteSchedule, SchedulesInv, SchedulesTypeOK
<1>5. write' \in [Requests -> [schedule : Schedules, row : ScheduleRow] \cup {None}]
  BY DEF WriteSchedule, SchedulesInv, SchedulesTypeOK
<1>6. SchedulesTypeOK'
  BY <1>1, <1>3, <1>5 DEF SchedulesInv, SchedulesTypeOK
<1>7. \A s \in Schedules : schedule'[s] # None => Derived(schedule'[s])
  BY <1>1, <1>2 DEF SchedulesInv, Created
<1>8. \A q \in Requests : write'[q] # None => Derived(write'[q].row)
  BY <1>4 DEF SchedulesInv
<1>9. (\A s \in Created : Derived(schedule[s]))'
  BY <1>7 DEF Created, Derived
<1>10. (\A q \in Requests : write[q] # None => Derived(write[q].row))'
  BY <1>8 DEF Derived
<1>11. QED
  BY <1>6, <1>9, <1>10 DEF SchedulesInv

(* What a deactivation leaves. *)
LEMMA DeactivationKept ==
  ASSUME SchedulesInv, NEW S \in SUBSET Created, DeactivateSchedules(S)
  PROVE  SchedulesInv'
<1>1. S \subseteq Schedules
  BY DEF Created
<1>2. \A s \in S : /\ [schedule[s] EXCEPT !.active = FALSE] \in ScheduleRow
                   /\ Derived([schedule[s] EXCEPT !.active = FALSE])
  BY StoredRow, Deactivated
<1>3. \A s \in Schedules :
        schedule'[s] = IF s \in S THEN [schedule[s] EXCEPT !.active = FALSE] ELSE schedule[s]
  BY DEF DeactivateSchedules
<1>4. schedule' \in [Schedules -> ScheduleRow \cup {None}]
  BY <1>1, <1>2 DEF DeactivateSchedules, SchedulesInv, SchedulesTypeOK
<1>5. SchedulesTypeOK'
  BY <1>4 DEF DeactivateSchedules, SchedulesInv, SchedulesTypeOK
<1>6. \A s \in Schedules : schedule'[s] # None => Derived(schedule'[s])
  BY <1>2, <1>3 DEF SchedulesInv, Created
<1>7. (\A s \in Created : Derived(schedule[s]))'
  BY <1>6 DEF Created, Derived
<1>8. (\A q \in Requests : write[q] # None => Derived(write[q].row))'
  BY DEF DeactivateSchedules, SchedulesInv, Derived
<1>9. QED
  BY <1>5, <1>7, <1>8 DEF SchedulesInv

LEMMA SchedulesKept == SchedulesInv /\ [SchedulesNext]_scheduleVars => SchedulesInv'
<1> SUFFICES ASSUME SchedulesInv, [SchedulesNext]_scheduleVars
             PROVE  SchedulesInv'
  OBVIOUS
<1>1. ASSUME NEW r \in Requests, NEW s \in Schedules, StartCreateSchedule(r, s)
      PROVE  SchedulesInv'
  <2>1. PICK entry \in Rows({TRUE}) :
          write' = [write EXCEPT ![r] = [schedule |-> s, row |-> entry]]
    BY <1>1 DEF StartCreateSchedule
  <2>2. entry \in ScheduleRow /\ Derived(entry)
    BY RowsDerived, {TRUE} \in SUBSET BOOLEAN
  <2>3. QED
    BY <1>1, <2>1, <2>2, CheckKept DEF StartCreateSchedule
<1>2. ASSUME NEW r \in Requests, NEW s \in Schedules, StartUpdateSchedule(r, s)
      PROVE  SchedulesInv'
  <2>1. PICK entry \in Rows(BOOLEAN) :
          write' = [write EXCEPT ![r] = [schedule |-> s, row |-> entry]]
    BY <1>2 DEF StartUpdateSchedule
  <2>2. entry \in ScheduleRow /\ Derived(entry)
    BY RowsDerived, BOOLEAN \in SUBSET BOOLEAN
  <2>3. QED
    BY <1>2, <2>1, <2>2, CheckKept DEF StartUpdateSchedule
<1>3. ASSUME NEW r \in Requests, WriteSchedule(r)
      PROVE  SchedulesInv'
  BY <1>3, WriteKept
<1>4. ASSUME NEW S \in SUBSET Created, DeactivateSchedules(S)
      PROVE  SchedulesInv'
  BY <1>4, DeactivationKept
<1>5. CASE DeactivateRoute
  <2>1. SchedulesTypeOK'
    BY <1>5 DEF DeactivateRoute, SchedulesInv, SchedulesTypeOK
  <2>2. schedule' = schedule /\ write' = write
    BY <1>5 DEF DeactivateRoute
  <2>3. QED
    BY <2>1, <2>2 DEF SchedulesInv, Created, Derived
<1>6. CASE UNCHANGED scheduleVars
  BY <1>6 DEF scheduleVars, SchedulesInv, SchedulesTypeOK, Created, Derived
<1>7. QED
  BY <1>1, <1>2, <1>3, <1>4, <1>5, <1>6 DEF SchedulesNext

LEMMA SchedulesInvariant == SchedulesSpec => []SchedulesInv
<1>1. SchedulesInit => SchedulesInv
  BY DEF SchedulesInit, SchedulesInv, SchedulesTypeOK, Created
<1>2. QED
  BY <1>1, SchedulesKept, PTL DEF SchedulesSpec

(* The rows of the schedules and those about to be written are of their type: *)
(* a notice is a minute of a day, on weekdays.                                *)
THEOREM SchedulesTypeCorrect == SchedulesSpec => []SchedulesTypeOK
<1>1. SchedulesInv => SchedulesTypeOK
  BY DEF SchedulesInv
<1>2. QED
  BY <1>1, SchedulesInvariant, PTL

-----------------------------------------------------------------------------
(* The instant t of the notice of a row: the quotient and the remainder of t, *)
(* by the side of midnight on which the notice falls.                         *)
LEMMA NoticeInstant ==
  ASSUME NEW departure \in 0..(DayMinutes - 1), NEW notice \in 0..(DayMinutes - 1),
         NEW d \in Int, NEW t \in Nat
  PROVE  d * DayMinutes + departure - notice = t
         <=> /\ (departure - notice + DayMinutes) % DayMinutes = t % DayMinutes
             /\ d = IF notice > departure THEN t \div DayMinutes + 1 ELSE t \div DayMinutes
<1> DEFINE q == t \div DayMinutes
           m == t % DayMinutes
<1>1. DayMinutes \in Nat \ {0}
  BY TimesAssumption
<1>2. q \in Nat /\ m \in 0..(DayMinutes - 1) /\ t = DayMinutes * q + m
  BY <1>1, DivisionMod
<1> HIDE DEF q, m
<1>3. CASE notice <= departure
  <2>1. departure - notice \in 0..(DayMinutes - 1)
    BY <1>1, <1>3
  <2>2. (departure - notice + DayMinutes) % DayMinutes = departure - notice
    BY <1>1, <2>1, SmallRemainder
  <2>3. DayMinutes * d + (departure - notice) = DayMinutes * q + m
        <=> d = q /\ departure - notice = m
    BY <1>1, <1>2, <2>1, OneDivision
  <2>4. d * DayMinutes + departure - notice = DayMinutes * d + (departure - notice)
    BY <1>1
  <2>5. d * DayMinutes + departure - notice = t <=> departure - notice = m /\ d = q
    BY <1>2, <2>3, <2>4
  <2>6. ~(notice > departure)
    BY <1>3, <1>1
  <2>7. QED
    BY <2>2, <2>5, <2>6 DEF q, m
<1>4. CASE notice > departure
  <2>1. departure - notice + DayMinutes \in 0..(DayMinutes - 1)
    BY <1>1, <1>4
  <2>2. (departure - notice + DayMinutes) % DayMinutes = departure - notice + DayMinutes
    BY <1>1, <2>1, SmallRemainder
  <2>3. DayMinutes * (d - 1) + (departure - notice + DayMinutes) = DayMinutes * q + m
        <=> d - 1 = q /\ departure - notice + DayMinutes = m
    BY <1>1, <1>2, <2>1, OneDivision
  <2>4. d * DayMinutes + departure - notice
          = DayMinutes * (d - 1) + (departure - notice + DayMinutes)
    BY <1>1
  <2>5. d * DayMinutes + departure - notice = t
        <=> departure - notice + DayMinutes = m /\ d = q + 1
    BY <1>2, <2>3, <2>4
  <2>6. QED
    BY <1>4, <2>2, <2>5 DEF q, m
<1>5. QED
  BY <1>1, <1>3, <1>4

(* A departure is on one of the days of a row exactly when its notice is on   *)
(* one of the days of the notice.                                             *)
LEMMA NoticeWeekday ==
  ASSUME NEW departure \in 0..(DayMinutes - 1), NEW notice \in 0..(DayMinutes - 1),
         NEW days \in SUBSET Weekdays, NEW q \in Nat
  PROVE  q % 7 \in {NoticeDay(day, departure, notice) : day \in days}
         <=> (IF notice > departure THEN q + 1 ELSE q) % 7 \in days
<1>1. CASE notice > departure
  <2>1. {NoticeDay(day, departure, notice) : day \in days} = {(day + 6) % 7 : day \in days}
    BY <1>1 DEF NoticeDay
  <2>2. QED
    BY <1>1, <2>1, DayBefore
<1>2. CASE ~(notice > departure)
  BY <1>2 DEF NoticeDay
<1>3. QED
  BY <1>1, <1>2

LEMMA NoticeOf ==
  ASSUME SchedulesInv, NEW s \in Created, NEW t \in DayMinutes..(8 * DayMinutes - 1)
  PROVE  LET entry == schedule[s]
             Announced(d) ==
               /\ d % 7 \in entry.dayOfWeeks
               /\ d * DayMinutes + entry.departureMinutes - entry.notifyBeforeMinutes = t IN
         /\ Due(entry, t) <=> (routeActive /\ entry.active /\ \E d \in 0..9 : Announced(d))
         /\ Due(entry, t) => Announced(Occurrence(entry, t))
<1> DEFINE entry == schedule[s]
           departure == entry.departureMinutes
           notice == entry.notifyBeforeMinutes
           q == t \div DayMinutes
           of == IF notice > departure THEN q + 1 ELSE q
           Announced(d) == /\ d % 7 \in entry.dayOfWeeks
                           /\ d * DayMinutes + departure - notice = t
<1>1. entry \in ScheduleRow /\ Derived(entry)
  BY StoredRow
<1>2. /\ departure \in 0..(DayMinutes - 1) /\ notice \in 0..(DayMinutes - 1)
      /\ entry.dayOfWeeks \in SUBSET Weekdays
  BY <1>1, TimesAssumption DEF ScheduleRow
<1>3. DayMinutes \in Nat \ {0} /\ t \in Nat
  BY TimesAssumption
<1>4. q \in 1..7
  <2>1. q \in Nat /\ t % DayMinutes \in 0..(DayMinutes - 1)
        /\ t = DayMinutes * q + (t % DayMinutes)
    BY <1>3, DivisionMod
  <2> DEFINE m == t % DayMinutes
  <2> HIDE DEF q, m
  <2>2. m \in 0..(DayMinutes - 1) /\ t = DayMinutes * q + m
    BY <2>1 DEF m
  <2>3. q # 0
    BY <2>2, <1>3
  <2>4. ASSUME q >= 8 PROVE FALSE
    <3>1. DayMinutes * q >= DayMinutes * 8
      BY <1>3, <2>1, <2>4
    <3>2. QED
      BY <3>1, <2>1, <2>2, <1>3
  <2>5. QED
    BY <2>1, <2>3, <2>4
<1>5. of \in 1..8
  BY <1>4, <1>2
<1>6. Due(entry, t) <=> /\ routeActive /\ entry.active
                        /\ (departure - notice + DayMinutes) % DayMinutes = t % DayMinutes
                        /\ of % 7 \in entry.dayOfWeeks
  <2>1. q \in Nat
    BY <1>4
  <2>2. q % 7 \in {NoticeDay(day, departure, notice) : day \in entry.dayOfWeeks}
        <=> of % 7 \in entry.dayOfWeeks
    BY <1>2, <2>1, NoticeWeekday
  <2>3. QED
    BY <1>1, <2>2 DEF Due, Derived
<1>7. \A d \in Int :
        Announced(d)
        <=> /\ d % 7 \in entry.dayOfWeeks
            /\ (departure - notice + DayMinutes) % DayMinutes = t % DayMinutes
            /\ d = of
  BY <1>2, <1>3, NoticeInstant
<1>8. Occurrence(entry, t) = of
  BY DEF Occurrence
<1> HIDE DEF of, entry, departure, notice, q, Announced
<1>9. (\E d \in 0..9 : Announced(d))
      <=> /\ of % 7 \in entry.dayOfWeeks
          /\ (departure - notice + DayMinutes) % DayMinutes = t % DayMinutes
  BY <1>5, <1>7
<1>10. Due(entry, t) => Announced(of)
  BY <1>5, <1>6, <1>7
<1>11. /\ Due(entry, t) <=> (routeActive /\ entry.active /\ \E d \in 0..9 : Announced(d))
       /\ Due(entry, t) => Announced(Occurrence(entry, t))
  BY <1>6, <1>8, <1>9, <1>10
<1>12. QED
  BY <1>11 DEF entry, departure, notice, Announced

(* The cron finds an active schedule of an active route at the instants that  *)
(* are its notice before a departure of one of its days, at no other, and     *)
(* announces that departure, whatever the length of the day and the notice.   *)
THEOREM NoticesAreExact == SchedulesSpec => []NoticeExact
<1>1. SchedulesInv => NoticeExact
  BY NoticeOf DEF NoticeExact
<1>2. QED
  BY <1>1, SchedulesInvariant, PTL

-----------------------------------------------------------------------------
(* Two requests are never about to write active schedules of one slot.         *)
OneRequestASlot ==
  \A q, r \in Requests :
    /\ write[q] # None /\ write[r] # None
    /\ write[q].row.active /\ write[r].row.active
    /\ SameSlot(write[q].row, write[r].row)
    => write[q].schedule = write[r].schedule

(* As long as they are not, the slot found available is available still when   *)
(* the row is written: what comes in between are deactivations, and writes of  *)
(* other slots or of the very schedule.                                       *)
SlotsInv ==
  /\ SchedulesInv
  /\ NoSharedSlot
  /\ \A r \in Requests :
       write[r] # None /\ write[r].row.active => SlotAvailable(write[r].schedule, write[r].row)

LEMMA SameSlotSymmetric ==
  ASSUME NEW a, NEW b
  PROVE  SameSlot(a, b) <=> SameSlot(b, a)
BY DEF SameSlot

LEMMA CheckedSlot ==
  ASSUME SlotsInv, NEW r \in Requests, NEW s \in Schedules, NEW entry \in ScheduleRow, entry.active => SlotAvailable(s, entry),
         write' = [write EXCEPT ![r] = [schedule |-> s, row |-> entry]],
         UNCHANGED <<routeActive, schedule>>
  PROVE  /\ NoSharedSlot'
         /\ (\A q \in Requests :
               write[q] # None /\ write[q].row.active
                 => SlotAvailable(write[q].schedule, write[q].row))'
<1>1. NoSharedSlot'
  BY DEF SlotsInv, NoSharedSlot, Created
<1>2. /\ write'[r].schedule = s /\ write'[r].row = entry
      /\ \A q \in Requests : q # r => write'[q] = write[q]
  BY AWrite DEF SlotsInv, SchedulesInv, SchedulesTypeOK
<1>3. ASSUME NEW q \in Requests, write'[q] # None, write'[q].row.active
      PROVE  SlotAvailable(write[q].schedule, write[q].row)'
  <2>1. CASE q = r
    BY <1>2, <1>3, <2>1 DEF SlotAvailable, Created
  <2>2. CASE q # r
    <3>1. SlotAvailable(write[q].schedule, write[q].row)
      BY <1>2, <1>3, <2>2 DEF SlotsInv
    <3>2. QED
      BY <1>2, <2>2, <3>1 DEF SlotAvailable, Created
  <2>3. QED
    BY <2>1, <2>2
<1>4. QED
  BY <1>1, <1>3

(* As long as no two requests are about to write active schedules of one slot, *)
(* no two active schedules have the same bus, type and title at the same       *)
(* departure on a common day, although the check and the write are two         *)
(* statements and other writes and deactivations come between them.            *)
THEOREM SlotsAreApart == SchedulesSpec /\ []OneRequestASlot => []NoSharedSlot
<1>1. SchedulesInit => SlotsInv
  <2>1. SchedulesInit => SchedulesInv
    BY DEF SchedulesInit, SchedulesInv, SchedulesTypeOK, Created
  <2>2. QED
    BY <2>1 DEF SchedulesInit, SlotsInv, NoSharedSlot, Created
<1>2. SlotsInv /\ OneRequestASlot /\ [SchedulesNext]_scheduleVars => SlotsInv'
  <2> SUFFICES ASSUME SlotsInv, OneRequestASlot, [SchedulesNext]_scheduleVars
               PROVE  SlotsInv'
    OBVIOUS
  <2> DEFINE Free == \A r \in Requests :
                       write[r] # None /\ write[r].row.active
                         => SlotAvailable(write[r].schedule, write[r].row)
  <2>1. SchedulesInv /\ SchedulesInv'
    BY SchedulesKept DEF SlotsInv
  <2>2. ASSUME NEW r \in Requests, NEW s \in Schedules, StartCreateSchedule(r, s)
        PROVE  NoSharedSlot' /\ Free'
    <3>1. PICK entry \in Rows({TRUE}) :
            SlotAvailable(s, entry)
            /\ write' = [write EXCEPT ![r] = [schedule |-> s, row |-> entry]]
      BY <2>2 DEF StartCreateSchedule
    <3>2. entry \in ScheduleRow
      BY RowsDerived, {TRUE} \in SUBSET BOOLEAN
    <3>3. QED
      BY <2>2, <3>1, <3>2, CheckedSlot DEF StartCreateSchedule
  <2>3. ASSUME NEW r \in Requests, NEW s \in Schedules, StartUpdateSchedule(r, s)
        PROVE  NoSharedSlot' /\ Free'
    <3>1. PICK entry \in Rows(BOOLEAN) :
            (entry.active => SlotAvailable(s, entry))
            /\ write' = [write EXCEPT ![r] = [schedule |-> s, row |-> entry]]
      BY <2>3 DEF StartUpdateSchedule
    <3>2. entry \in ScheduleRow
      BY RowsDerived, BOOLEAN \in SUBSET BOOLEAN
    <3>3. QED
      BY <2>3, <3>1, <3>2, CheckedSlot DEF StartUpdateSchedule
  <2>4. ASSUME NEW r \in Requests, WriteSchedule(r)
        PROVE  NoSharedSlot' /\ Free'
    <3> DEFINE at == write[r].schedule
               entry == write[r].row
    <3>1. write[r] # None /\ at \in Schedules /\ entry \in ScheduleRow
      BY <2>1, <2>4, PendingWrite DEF WriteSchedule
    <3>2. \A s \in Schedules : schedule'[s] = IF s = at THEN entry ELSE schedule[s]
      BY <2>1, <2>4 DEF WriteSchedule, SchedulesInv, SchedulesTypeOK
    <3>3. \A q \in Requests : write'[q] = IF q = r THEN None ELSE write[q]
      BY <2>1, <2>4 DEF WriteSchedule, SchedulesInv, SchedulesTypeOK
    <3>4. entry.active =>
            \A other \in Created \ {at} :
              schedule[other].active => ~SameSlot(entry, schedule[other])
      BY <3>1 DEF SlotsInv, SlotAvailable
    <3>5. ASSUME NEW q \in Requests, q # r, write[q] # None, write[q].row.active
           PROVE  /\ SlotAvailable(write[q].schedule, write[q].row)
                  /\ at # write[q].schedule /\ entry.active => ~SameSlot(write[q].row, entry)
      BY <3>1, <3>5 DEF SlotsInv, OneRequestASlot
    <3> HIDE DEF at, entry
    <3>6. ASSUME NEW s \in Schedules, NEW t \in Schedules, s # t,
                 schedule'[s] # None, schedule'[t] # None,
                 schedule'[s].active, schedule'[t].active
          PROVE  ~SameSlot(schedule'[s], schedule'[t])
      <4>1. CASE s = at
        BY <3>2, <3>4, <3>6, <4>1 DEF Created
      <4>2. CASE t = at
        <5>1. ~SameSlot(schedule'[t], schedule'[s])
          BY <3>2, <3>4, <3>6, <4>2 DEF Created
        <5>2. QED
          BY <5>1, SameSlotSymmetric
      <4>3. CASE s # at /\ t # at
        BY <3>2, <3>6, <4>3 DEF SlotsInv, NoSharedSlot, Created
      <4>4. QED
        BY <4>1, <4>2, <4>3
    <3>7. NoSharedSlot'
      BY <3>6 DEF NoSharedSlot, Created, SameSlot
    <3>8. ASSUME NEW q \in Requests, write'[q] # None, write'[q].row.active
          PROVE  SlotAvailable(write[q].schedule, write[q].row)'
      <4> DEFINE own == write[q].schedule
                 row == write[q].row
      <4>1. q # r /\ write'[q] = write[q]
        BY <3>3, <3>8
      <4>2. /\ SlotAvailable(own, row)
            /\ at # own /\ entry.active => ~SameSlot(row, entry)
        BY <3>5, <3>8, <4>1
      <4>3. ASSUME NEW other \in Schedules, other # own, schedule'[other] # None,
                   schedule'[other].active
            PROVE  ~SameSlot(row, schedule'[other])
        BY <3>2, <4>2, <4>3 DEF SlotAvailable, Created
      <4>4. QED
        BY <4>1, <4>3 DEF SlotAvailable, Created, SameSlot
    <3>9. QED
      BY <3>7, <3>8
  <2>5. ASSUME NEW S \in SUBSET Created, DeactivateSchedules(S)
        PROVE  NoSharedSlot' /\ Free'
    <3>1. \A s \in S : /\ s \in Schedules /\ schedule[s] \in ScheduleRow
                       /\ [schedule[s] EXCEPT !.active = FALSE].active = FALSE
      BY <2>1, StoredRow, Deactivated
    <3>2. \A s \in Schedules :
            schedule'[s] =
              IF s \in S THEN [schedule[s] EXCEPT !.active = FALSE] ELSE schedule[s]
      BY <2>5 DEF DeactivateSchedules
    <3>3. \A s \in Schedules : schedule'[s] # None /\ schedule'[s].active
                               => s \in Created /\ schedule'[s] = schedule[s]
      BY <3>1, <3>2 DEF Created
    <3>4. NoSharedSlot'
      BY <3>3 DEF SlotsInv, NoSharedSlot, Created, SameSlot
    <3>5. write' = write
      BY <2>5 DEF DeactivateSchedules
    <3>6. ASSUME NEW s, NEW entry, SlotAvailable(s, entry)
          PROVE  SlotAvailable(s, entry)'
      BY <3>3, <3>6 DEF SlotAvailable, Created, SameSlot
    <3>7. QED
      BY <3>4, <3>5, <3>6 DEF SlotsInv
  <2>6. ASSUME UNCHANGED <<schedule, write>>
        PROVE  NoSharedSlot' /\ Free'
    BY <2>6 DEF SlotsInv, NoSharedSlot, SlotAvailable, Created
  <2>7. QED
    BY <2>1, <2>2, <2>3, <2>4, <2>5, <2>6
    DEF SchedulesNext, DeactivateRoute, scheduleVars, SlotsInv
<1>3. SlotsInv => NoSharedSlot
  BY DEF SlotsInv
<1>4. QED
  BY <1>1, <1>2, <1>3, PTL DEF SchedulesSpec

-----------------------------------------------------------------------------
(* A set of instants up to now has a last one. *)
InstantsOrdered == \A S \in SUBSET (0..clock) : S # {} => \E i \in S : \A j \in S : j <= i

(* An answer has a point when it says where the bus is. *)
AnswersOK ==
  \A c \in PageCalls :
    \/ poll[c] \in {NoCall, Asked}
    \/ /\ poll[c].state \in States
       /\ (poll[c].point = None) = (poll[c].state \notin {"live", "stale"})

LocationInv == LocationTypeOK /\ InstantsOrdered /\ AnswersOK /\ TrailIsOneDrive

(* The reader that the server asks is one of the bus: one that has reported    *)
(* nothing yet, or else one whose report is the latest; the newest of those.   *)
LEMMA LinkedReaderIsLinked ==
  ASSUME LocationTypeOK, InstantsOrdered, LinkedReaders # {}
  PROVE  LinkedReader \in LinkedReaders
<1> USE ReadersAssumption, LocationNullAssumption
<1> DEFINE S == LinkedReaders
           LastReport(d) == reader[d].lastUpdate
<1>1. /\ S \in SUBSET Readers /\ clock \in Nat
      /\ \A d \in S : LastReport(d) \in 0..clock \cup {None}
  BY LimitsAssumption DEF LinkedReaders, LocationTypeOK
<1>2. \E d \in S : \A e \in S : Before(d, e)
  <2>1. CASE \E d \in S : LastReport(d) = None
    <3> DEFINE T == {d \in S : LastReport(d) = None}
    <3>1. PICK d \in T : \A e \in T : d >= e
      BY <1>1, <2>1
    <3>2. \A e \in S : Before(d, e)
      BY <3>1 DEF Before
    <3>3. QED
      BY <3>1, <3>2
  <2>2. CASE \A d \in S : LastReport(d) # None
    <3> DEFINE V == {LastReport(d) : d \in S}
    <3>1. V \in SUBSET (0..clock) /\ V # {}
      <4>1. \A d \in S : LastReport(d) \in 0..clock
        BY <1>1, <2>2
      <4> HIDE DEF LastReport
      <4>2. QED
        BY <4>1
    <3>2. PICK u \in V : \A v \in V : v <= u
      BY <3>1 DEF InstantsOrdered
    <3> DEFINE T == {d \in S : LastReport(d) = u}
    <3>3. T # {} /\ T \in SUBSET Readers
      BY <1>1
    <3>4. PICK d \in T : \A e \in T : d >= e
      BY <3>3
    <3>5. \A e \in S : LastReport(e) \in Nat /\ LastReport(e) <= u /\ u \in Nat /\ u # None
      BY <1>1, <3>1, <3>2
    <3>6. ASSUME NEW e \in S PROVE Before(d, e)
      <4>1. CASE LastReport(e) = u
        BY <3>4, <4>1 DEF Before
      <4>2. CASE LastReport(e) # u
        BY <2>2, <3>4, <3>5, <4>2 DEF Before
      <4>3. QED
        BY <4>1, <4>2
    <3>7. QED
      BY <3>4, <3>6
  <2>3. QED
    BY <2>1, <2>2
<1>3. QED
  BY <1>2 DEF LinkedReader

(* What the server answers. *)
LEMMA LocationAnswer ==
  ASSUME LocationTypeOK, InstantsOrdered
  PROVE  /\ Location \in [state : States, point : 0..clock \cup {None}]
         /\ (Location.point = None) = (Location.state \notin {"live", "stale"})
<1> USE LocationNullAssumption, LimitsAssumption DEF States
<1>1. CASE LinkedReaders = {} \/ ~reader[LinkedReader].active
  BY <1>1 DEF Location
<1>2. CASE LinkedReaders # {} /\ reader[LinkedReader].active
  <2> DEFINE updated == reader[LinkedReader].lastUpdate
  <2>1. updated \in 0..clock \cup {None}
    BY <1>2, LinkedReaderIsLinked DEF LinkedReaders, LocationTypeOK
  <2>2. CASE updated = None
    BY <1>2, <2>2 DEF Location
  <2>3. CASE updated \in 0..clock
    <3>1. PICK s \in {"live", "stale"} : Location = [state |-> s, point |-> updated]
      BY <1>2, <2>3 DEF Location, LocationTypeOK
    <3>2. QED
      BY <2>3, <3>1
  <2>4. QED
    BY <2>1, <2>2, <2>3
<1>3. QED
  BY <1>1, <1>2

(* Later instants only add values. *)
LEMMA InstantsGrow ==
  ASSUME NEW n \in Nat, NEW s \in Seq(0..n)
  PROVE  s \in Seq(0..(n + 1))
OBVIOUS

-----------------------------------------------------------------------------
LEMMA TailOf ==
  ASSUME NEW T, NEW s \in Seq(T), Len(s) > 0
  PROVE  /\ Tail(s) \in Seq(T) /\ Len(Tail(s)) = Len(s) - 1
         /\ \A i \in 1..(Len(s) - 1) : Tail(s)[i] = s[i + 1]
OBVIOUS

(* Points that ascend without a gap. *)
Ascends(s) ==
  \A i \in 1..(Len(s) - 1) : s[i] < s[i + 1] /\ s[i + 1] <= s[i] + Gap

(* A point that continues the drive keeps it one: the oldest point is dropped  *)
(* when there is no room for another.                                         *)
LEMMA DriveExtended ==
  ASSUME NEW n \in Nat, NEW s \in Seq(0..n), NEW p \in 0..n, Len(s) <= MaxTrail, Ascends(s),
         s # << >> => Newest(s) < p /\ p <= Newest(s) + Gap
  PROVE  /\ Extended(s, p) \in Seq(0..n) /\ Extended(s, p) # << >>
         /\ Len(Extended(s, p)) <= MaxTrail /\ Ascends(Extended(s, p))
<1> USE LimitsAssumption
<1> DEFINE longer == Append(s, p)
<1>1. /\ longer \in Seq(0..n) /\ Len(longer) = Len(s) + 1 /\ Len(s) \in Nat
      /\ \A i \in 1..Len(s) : longer[i] = s[i] /\ s[i] \in 0..n
      /\ longer[Len(s) + 1] = p
  OBVIOUS
<1>2. Ascends(longer)
  <2> SUFFICES ASSUME NEW i \in 1..Len(s)
               PROVE  longer[i] < longer[i + 1] /\ longer[i + 1] <= longer[i] + Gap
    BY <1>1 DEF Ascends
  <2>1. CASE i = Len(s)
    BY <1>1, <2>1 DEF Newest
  <2>2. CASE i < Len(s)
    BY <1>1, <2>2 DEF Ascends
  <2>3. QED
    BY <1>1, <2>1, <2>2
<1>3. CASE Len(longer) > MaxTrail
  <2> DEFINE t == Tail(longer)
  <2>1. /\ t \in Seq(0..n) /\ Len(t) = Len(s)
        /\ \A i \in 1..Len(s) : t[i] = longer[i + 1]
    BY <1>1, TailOf
  <2>2. Ascends(t)
    <3> SUFFICES ASSUME NEW i \in 1..(Len(s) - 1)
                 PROVE  t[i] < t[i + 1] /\ t[i + 1] <= t[i] + Gap
      BY <2>1 DEF Ascends
    <3>1. t[i] = longer[i + 1] /\ t[i + 1] = longer[(i + 1) + 1] /\ i + 1 \in 1..(Len(longer) - 1)
      BY <1>1, <2>1
    <3>2. QED
      BY <1>2, <3>1 DEF Ascends
  <2>3. t # << >> /\ Len(t) <= MaxTrail
    BY <1>1, <1>3, <2>1
  <2>4. Extended(s, p) = t
    BY <1>3 DEF Extended
  <2>5. QED
    BY <2>1, <2>2, <2>3, <2>4
<1>4. CASE Len(longer) <= MaxTrail
  <2>1. Extended(s, p) = longer /\ longer # << >>
    BY <1>1, <1>4 DEF Extended
  <2>2. QED
    BY <1>1, <1>2, <1>4, <2>1
<1>5. QED
  BY <1>1, <1>3, <1>4

(* What an answer makes of the trail. *)
LEMMA TrailAfter ==
  ASSUME NEW n \in Nat, NEW reply \in [state : States, point : 0..n \cup {None}],
         (reply.point = None) = (reply.state \notin {"live", "stale"}),
         trail \in Seq(0..n), TrailIsOneDrive
  PROVE  /\ NextTrail(reply) \in Seq(0..n)
         /\ Len(NextTrail(reply)) <= MaxTrail /\ Ascends(NextTrail(reply))
         /\ Len(NextTrail(reply)) > 1 => reply.state = "live"
         /\ (NextTrail(reply) = << >>) = (reply.state \notin {"live", "stale"})
<1> USE LimitsAssumption, LocationNullAssumption
<1> DEFINE p == reply.point
<1>1. Len(trail) <= MaxTrail /\ Ascends(trail)
  BY DEF TrailIsOneDrive, Ascends
<1>2. CASE p = None
  <2>1. NextTrail(reply) = << >>
    BY <1>2 DEF NextTrail
  <2>2. QED
    BY <1>2, <2>1 DEF Ascends
<1>3. CASE p # None /\ reply.state # "live"
  <2>1. NextTrail(reply) = <<p>> /\ p \in 0..n
    BY <1>3 DEF NextTrail
  <2>2. QED
    BY <1>3, <2>1 DEF Ascends
<1>4. CASE p # None /\ reply.state = "live"
  <2> DEFINE s == IF StartsAnew(p) THEN << >> ELSE trail
  <2>1. p \in 0..n /\ NextTrail(reply) = Extended(s, p)
    BY <1>4 DEF NextTrail
  <2>2. s \in Seq(0..n) /\ Len(s) <= MaxTrail /\ Ascends(s)
    <3>1. << >> \in Seq(0..n) /\ Len(<< >>) <= MaxTrail /\ Ascends(<< >>)
      BY DEF Ascends
    <3>2. QED
      BY <1>1, <3>1
  <2>3. s # << >> => Newest(s) < p /\ p <= Newest(s) + Gap
    <3> SUFFICES ASSUME s # << >>, ~StartsAnew(p), trail # << >>
                 PROVE  Newest(trail) < p /\ p <= Newest(trail) + Gap
      OBVIOUS
    <3>1. Newest(trail) \in Nat
      BY DEF Newest
    <3>2. QED
      BY <2>1, <3>1 DEF StartsAnew
  <2>4. /\ Extended(s, p) \in Seq(0..n) /\ Extended(s, p) # << >>
        /\ Len(Extended(s, p)) <= MaxTrail /\ Ascends(Extended(s, p))
    BY <2>1, <2>2, <2>3, DriveExtended
  <2>5. QED
    BY <1>4, <2>1, <2>4
<1>5. QED
  BY <1>2, <1>3, <1>4

LEMMA LocationKept == LocationInv /\ [LocationNext]_locationVars => LocationInv'
<1> SUFFICES ASSUME LocationTypeOK, InstantsOrdered, AnswersOK, TrailIsOneDrive,
                    [LocationNext]_locationVars
             PROVE  LocationInv'
  BY DEF LocationInv
<1> USE LimitsAssumption, LocationNullAssumption
<1> clock \in Nat
  BY DEF LocationTypeOK
<1>1. CASE Elapse
  <2>1. clock' = clock + 1 /\ clock < Instants /\ UNCHANGED <<reader, report, poll, trail, busState>>
    BY <1>1 DEF Elapse, screened
  <2>2. 0..clock \subseteq 0..(clock + 1) /\ trail \in Seq(0..(clock + 1))
    BY InstantsGrow DEF LocationTypeOK
  <2>3. /\ reader \in [Readers ->
             [linked : BOOLEAN, active : BOOLEAN, lastUpdate : 0..(clock + 1) \cup {None}]]
        /\ report \in [Readers -> 0..(clock + 1) \cup {None}]
        /\ poll \in [PageCalls ->
             [state : States \cup {"none", "asked"}, point : 0..(clock + 1) \cup {None}]]
    BY <2>2 DEF LocationTypeOK
  <2>4. LocationTypeOK'
    BY <2>1, <2>2, <2>3 DEF LocationTypeOK
  <2>5. InstantsOrdered'
    <3> SUFFICES ASSUME NEW S \in SUBSET (0..(clock + 1)), S # {}
                 PROVE  \E i \in S : \A j \in S : j <= i
      BY <2>1 DEF InstantsOrdered
    <3>1. CASE clock + 1 \in S
      BY <3>1
    <3>2. CASE clock + 1 \notin S
      <4>1. S \in SUBSET (0..clock)
        BY <3>2
      <4>2. QED
        BY <4>1 DEF InstantsOrdered
    <3>3. QED
      BY <3>1, <3>2
  <2>6. QED
    BY <2>1, <2>4, <2>5 DEF LocationInv, AnswersOK, TrailIsOneDrive
<1>2. ASSUME NEW d \in Readers, ReaderStep(d) PROVE LocationInv'
  <2>1. UNCHANGED <<clock, poll, trail, busState>>
    BY <1>2 DEF ReaderStep, StartTelemetry, StoreTelemetry, LinkReader, DeleteReader, screened
  <2> DEFINE Device == [linked : BOOLEAN, active : BOOLEAN, lastUpdate : 0..clock \cup {None}]
  <2>2. reader \in [Readers -> Device] /\ report \in [Readers -> 0..clock \cup {None}]
    BY DEF LocationTypeOK
  <2>3. reader' \in [Readers -> Device] /\ report' \in [Readers -> 0..clock \cup {None}]
    <3>1. CASE StartTelemetry(d)
      BY <2>2, <3>1 DEF StartTelemetry
    <3>2. CASE StoreTelemetry(d)
      <4>1. [reader[d] EXCEPT !.lastUpdate = report[d]] \in Device
        BY <2>2
      <4>2. QED
        BY <2>2, <3>2, <4>1 DEF StoreTelemetry
    <3>3. CASE LinkReader(d)
      <4>1. [reader[d] EXCEPT !.linked = ~@] \in Device
        BY <2>2
      <4>2. QED
        BY <2>2, <3>3, <4>1 DEF LinkReader
    <3>4. CASE DeleteReader(d)
      <4>1. [reader[d] EXCEPT !.active = FALSE] \in Device
        BY <2>2
      <4>2. QED
        BY <2>2, <3>4, <4>1 DEF DeleteReader
    <3>5. QED
      BY <1>2, <3>1, <3>2, <3>3, <3>4 DEF ReaderStep
  <2>4. QED
    BY <2>1, <2>3 DEF LocationInv, LocationTypeOK, InstantsOrdered, AnswersOK, TrailIsOneDrive
<1>3. ASSUME NEW c \in PageCalls,
             NEW reply \in {NoCall, Asked} \cup [state : States, point : 0..clock \cup {None}],
             reply \notin {NoCall, Asked} =>
               (reply.point = None) = (reply.state \notin {"live", "stale"}),
             poll' = [poll EXCEPT ![c] = reply], UNCHANGED <<clock, reader, report, trail, busState>>
      PROVE  LocationInv'
  <2>1. reply \in [state : States \cup {"none", "asked"}, point : 0..clock \cup {None}]
    BY <1>3 DEF NoCall, Asked
  <2>2. \A q \in PageCalls : poll'[q] = IF q = c THEN reply ELSE poll[q]
    BY <1>3 DEF LocationTypeOK
  <2>3. AnswersOK'
    BY <1>3, <2>2 DEF AnswersOK
  <2>4. LocationTypeOK'
    BY <1>3, <2>1 DEF LocationTypeOK
  <2>5. QED
    BY <1>3, <2>3, <2>4 DEF LocationInv, InstantsOrdered, TrailIsOneDrive
<1>4. ASSUME NEW c \in PageCalls, Fetch(c) \/ DropCall(c) PROVE LocationInv'
  BY <1>3, <1>4 DEF Fetch, DropCall
<1>5. ASSUME NEW c \in PageCalls, AnswerCall(c) PROVE LocationInv'
  BY <1>3, <1>5, LocationAnswer DEF AnswerCall
<1>6. ASSUME NEW c \in PageCalls, ApplyAnswer(c) PROVE LocationInv'
  <2> DEFINE reply == poll[c]
  <2>1. /\ reply \in [state : States, point : 0..clock \cup {None}]
        /\ (reply.point = None) = (reply.state \notin {"live", "stale"})
    BY <1>6 DEF ApplyAnswer, AnswersOK, LocationTypeOK
  <2>2. /\ trail' = NextTrail(reply) /\ busState' = reply.state
        /\ poll' = [poll EXCEPT ![c] = NoCall] /\ UNCHANGED <<clock, reader, report>>
    BY <1>6 DEF ApplyAnswer
  <2>3. trail \in Seq(0..clock)
    BY DEF LocationTypeOK
  <2>4. trail' \in Seq(0..clock) /\ TrailIsOneDrive'
    BY <2>1, <2>2, <2>3, TrailAfter DEF TrailIsOneDrive, Ascends
  <2>5. poll' \in [PageCalls ->
          [state : States \cup {"none", "asked"}, point : 0..clock \cup {None}]]
    BY <2>2 DEF LocationTypeOK, NoCall
  <2>6. AnswersOK'
    BY <2>2 DEF AnswersOK, LocationTypeOK
  <2>7. LocationTypeOK'
    BY <2>1, <2>2, <2>4, <2>5 DEF LocationTypeOK
  <2>8. QED
    BY <2>2, <2>4, <2>6, <2>7 DEF LocationInv, InstantsOrdered
<1>7. CASE UNCHANGED locationVars
  BY <1>7 DEF locationVars, LocationInv, LocationTypeOK, InstantsOrdered, AnswersOK, TrailIsOneDrive
<1>8. QED
  BY <1>1, <1>2, <1>4, <1>5, <1>6, <1>7 DEF LocationNext, Polling

LEMMA LocationInvariant == LocationSpec => []LocationInv
<1>1. LocationInit => LocationInv
  <2> SUFFICES ASSUME LocationInit PROVE LocationInv
    OBVIOUS
  <2> USE LimitsAssumption, LocationNullAssumption
  <2>1. LocationTypeOK
    BY DEF LocationInit, LocationTypeOK, NoCall
  <2>2. InstantsOrdered
    <3> SUFFICES ASSUME NEW S \in SUBSET (0..clock), S # {}
                 PROVE  \E i \in S : \A j \in S : j <= i
      BY DEF InstantsOrdered
    <3>1. clock = 0
      BY DEF LocationInit
    <3>2. \A i \in S : i = 0
      BY <3>1
    <3>3. PICK i \in S : TRUE
      OBVIOUS
    <3>4. \A j \in S : j <= i
      BY <3>2
    <3>5. QED
      BY <3>3, <3>4
  <2>3. AnswersOK
    BY DEF LocationInit, AnswersOK
  <2>4. trail = << >> /\ busState = None
    BY DEF LocationInit
  <2>5. TrailIsOneDrive
    BY <2>4 DEF TrailIsOneDrive, States
  <2>6. QED
    BY <2>1, <2>2, <2>3, <2>5 DEF LocationInv
<1>2. QED
  BY <1>1, LocationKept, PTL DEF LocationSpec

(* The clock, the readers, the calls and the page keep their types, and no     *)
(* report is of the future.                                                   *)
THEOREM LocationTypeCorrect == LocationSpec => []LocationTypeOK
<1>1. LocationInv => LocationTypeOK
  BY DEF LocationInv
<1>2. QED
  BY <1>1, LocationInvariant, PTL

(* The trail of a bus is one drive, in whatever order the answers to any       *)
(* number of calls come, for every number of readers and every length of the   *)
(* trail.                                                                     *)
THEOREM OneDrive == LocationSpec => []TrailIsOneDrive
<1>1. LocationInv => TrailIsOneDrive
  BY DEF LocationInv
<1>2. QED
  BY <1>1, LocationInvariant, PTL

-----------------------------------------------------------------------------
(* PlanChange: its types, and that a plan that was asked for stays pending.  *)

(* Every reachable state is of the declared types. *)
THEOREM PlanTypeCorrect == PlanSpec => []PlanTypeOK
<1>1. PlanInit => PlanTypeOK
  BY DEF PlanInit, PlanTypeOK
<1>2. PlanTypeOK /\ [PlanNext]_planVars => PlanTypeOK'
  <2> SUFFICES ASSUME PlanTypeOK, [PlanNext]_planVars PROVE PlanTypeOK'
    OBVIOUS
  <2> USE DEF PlanTypeOK
  <2>1. ASSUME NEW r \in PlanCalls, NEW wanted \in Plans, StartRequest(r, wanted) PROVE PlanTypeOK'
    BY <2>1 DEF StartRequest
  <2>2. ASSUME NEW r \in PlanCalls, WriteRequest(r) PROVE PlanTypeOK'
    BY <2>2 DEF WriteRequest
  <2>3. ASSUME NEW a \in Owners, StartApply(a) PROVE PlanTypeOK'
    BY <2>3 DEF StartApply
  <2>4. ASSUME NEW a \in Owners, WriteApply(a) PROVE PlanTypeOK'
    BY <2>4 DEF WriteApply
  <2>5. ASSUME UNCHANGED planVars PROVE PlanTypeOK'
    BY <2>5 DEF planVars
  <2>6. QED
    BY <2>1, <2>2, <2>3, <2>4, <2>5 DEF PlanNext
<1>3. QED
  BY <1>1, <1>2, PTL DEF PlanSpec

(* What is owed is what the row asks for, and no owner is applying anything   *)
(* else: that is what makes PendingKept survive the update of an owner.       *)
Owed ==
  owed # None => requestedPlan = owed /\ \A a \in Owners : apply[a] \in {None, owed}

(* A plan that was asked for while no owner was applying another stays        *)
(* pending, however many administrators and owners there are.                 *)
THEOREM StaysPending == PlanSpec => []PendingKept
<1>1. PlanInit => Owed
  BY DEF PlanInit, Owed
<1>2. PlanTypeOK /\ Owed /\ [PlanNext]_planVars => Owed'
  <2> SUFFICES ASSUME PlanTypeOK, Owed, [PlanNext]_planVars PROVE Owed'
    OBVIOUS
  <2> USE DEF Owed
  <2>1. ASSUME NEW r \in PlanCalls, NEW wanted \in Plans, StartRequest(r, wanted) PROVE Owed'
    BY <2>1 DEF StartRequest
  <2>2. ASSUME NEW r \in PlanCalls, WriteRequest(r) PROVE Owed'
    <3>1. requestedPlan' = planCall[r] /\ apply' = apply
      BY <2>2 DEF WriteRequest
    <3>2. CASE \A a \in Owners : apply[a] = None
      BY <2>2, <3>1, <3>2 DEF WriteRequest
    <3>3. CASE ~ \A a \in Owners : apply[a] = None
      BY <2>2, <3>3 DEF WriteRequest
    <3>4. QED
      BY <3>2, <3>3
  (* The owner has read what is owed, if anything is. *)
  <2>3. ASSUME NEW a \in Owners, StartApply(a) PROVE Owed'
    BY <2>3 DEF StartApply, PlanTypeOK
  (* Whoever writes had read what was owed: nothing is owed any more. *)
  <2>4. ASSUME NEW a \in Owners, WriteApply(a) PROVE Owed'
    <3>1. CASE owed = None
      BY <2>4, <3>1 DEF WriteApply
    <3>2. CASE owed # None
      <4>1. owed = apply[a]
        BY <2>4, <3>2 DEF WriteApply
      <4>2. QED
        BY <2>4, <4>1 DEF WriteApply
    <3>3. QED
      BY <3>1, <3>2
  <2>5. ASSUME UNCHANGED planVars PROVE Owed'
    BY <2>5 DEF planVars
  <2>6. QED
    BY <2>1, <2>2, <2>3, <2>4, <2>5 DEF PlanNext
<1>3. Owed => PendingKept
  BY DEF Owed, PendingKept
<1>4. QED
  BY <1>1, <1>2, <1>3, PlanTypeCorrect, PTL DEF PlanSpec

-----------------------------------------------------------------------------
(* BillingSettings: its types, and that an onboarding is under review for a  *)
(* company of the platform's gateway.                                        *)

(* Every reachable state is of the declared types. *)
THEOREM SettingsTypeCorrect == SettingsSpec => []SettingsTypeOK
<1> USE StatusesAssumption DEF SettingsTypeOK, Call
<1>1. SettingsInit => SettingsTypeOK
  <2>1. NewSettings \in Settings
    BY DEF Settings, NewSettings, Statuses
  <2>2. QED
    BY <2>1 DEF SettingsInit
<1>2. SettingsTypeOK /\ [SettingsNext]_settingsVars => SettingsTypeOK'
  <2> SUFFICES ASSUME SettingsTypeOK, [SettingsNext]_settingsVars PROVE SettingsTypeOK'
    OBVIOUS
  <2>1. ASSUME NEW c \in SettingsCalls, NEW platform \in BOOLEAN \cup {None},
               NEW complete \in BOOLEAN \cup {None}, StartUpdate(c, platform, complete)
        PROVE  SettingsTypeOK'
    <3>1. NextStatus(settings.status, platform) \in Statuses
      BY DEF NextStatus, Statuses, Settings
    <3>2. QED
      BY <2>1, <3>1 DEF StartUpdate
  <2>2. ASSUME NEW c \in SettingsCalls, WriteUpdate(c) PROVE SettingsTypeOK'
    <3>1. settingsCall[c] \in Call
      BY <2>2 DEF WriteUpdate
    <3>2. settings' \in Settings
      BY <2>2, <3>1 DEF WriteUpdate, Or, Settings
    <3>3. \A d \in SettingsCalls : settingsCall'[d] \in Call \cup {None}
      BY <2>2 DEF WriteUpdate
    <3>4. QED
      BY <2>2, <3>2, <3>3 DEF WriteUpdate
  <2>3. ASSUME NEW c \in SettingsCalls, StartSubmit(c) PROVE SettingsTypeOK'
    BY <2>3 DEF StartSubmit
  <2>4. ASSUME NEW c \in SettingsCalls, WriteSubmit(c) PROVE SettingsTypeOK'
    BY <2>4 DEF WriteSubmit, Settings, Statuses
  <2>5. ASSUME UNCHANGED settingsVars PROVE SettingsTypeOK'
    BY <2>5 DEF settingsVars
  <2>6. QED
    BY <2>1, <2>2, <2>3, <2>4, <2>5 DEF SettingsNext
<1>3. QED
  BY <1>1, <1>2, PTL DEF SettingsSpec

-----------------------------------------------------------------------------
(* What an update in progress is about to write: a review only with the        *)
(* gateway of the platform, and a status only with a gateway.                  *)
UpdatesConsistent ==
  \A c \in SettingsCalls : settingsCall[c] # None /\ settingsCall[c].kind = "update" =>
    /\ settingsCall[c].status = "UNDER_REVIEW" => settingsCall[c].platform = TRUE
    /\ settingsCall[c].platform = FALSE => settingsCall[c].status \notin {None, "UNDER_REVIEW"}

(* A submission that is not late was read with the gateway that is on now.     *)
SubmissionsKnow ==
  \A c \in SettingsCalls :
    settingsCall[c] # None /\ settingsCall[c].kind = "submit" /\ ~settingsCall[c].late
      => settings.platform

Reviewed == UpdatesConsistent /\ SubmissionsKnow /\ ReviewedByPlatform

(* An onboarding is under review for a company that uses the gateway of the    *)
(* platform, unless the gateway was switched off under the submission.         *)
THEOREM ReviewIsOfThePlatform == SettingsSpec => []ReviewedByPlatform
<1> USE StatusesAssumption
<1>1. SettingsInit => Reviewed
  BY DEF SettingsInit, Reviewed, UpdatesConsistent, SubmissionsKnow, ReviewedByPlatform, NewSettings
<1>2. SettingsTypeOK /\ Reviewed /\ [SettingsNext]_settingsVars => Reviewed'
  <2> SUFFICES ASSUME SettingsTypeOK, Reviewed, [SettingsNext]_settingsVars PROVE Reviewed'
    OBVIOUS
  <2> USE DEF Reviewed, SettingsTypeOK
  (* A switch to the company's own gateway goes with a status out of review.   *)
  <2>1. ASSUME NEW c \in SettingsCalls, NEW platform \in BOOLEAN \cup {None},
               NEW complete \in BOOLEAN \cup {None}, StartUpdate(c, platform, complete)
        PROVE  Reviewed'
    <3>1. /\ NextStatus(settings.status, platform) = "UNDER_REVIEW" => platform = TRUE
          /\ platform = FALSE => NextStatus(settings.status, platform) \notin {None, "UNDER_REVIEW"}
      BY DEF NextStatus, Statuses
    <3>2. UpdatesConsistent'
      <4>1. /\ settingsCall'[c].platform = platform
            /\ settingsCall'[c].status = IF platform = None THEN None
                               ELSE NextStatus(settings.status, platform)
        BY <2>1 DEF StartUpdate
      <4>2. \A d \in SettingsCalls \ {c} : settingsCall'[d] = settingsCall[d]
        BY <2>1 DEF StartUpdate
      <4>3. /\ settingsCall'[c].status = "UNDER_REVIEW" => settingsCall'[c].platform = TRUE
            /\ settingsCall'[c].platform = FALSE => settingsCall'[c].status \notin {None, "UNDER_REVIEW"}
        BY <3>1, <4>1 DEF Statuses
      <4>4. QED
        BY <4>2, <4>3 DEF UpdatesConsistent
    <3>3. SubmissionsKnow' /\ ReviewedByPlatform'
      BY <2>1 DEF StartUpdate, SubmissionsKnow, ReviewedByPlatform
    <3>4. QED
      BY <3>2, <3>3
  <2>2. ASSUME NEW c \in SettingsCalls, WriteUpdate(c) PROVE Reviewed'
    <3>1. UpdatesConsistent'
      BY <2>2 DEF WriteUpdate, UpdatesConsistent
    (* A submission that is over an update to the own gateway is late from now. *)
    <3>2. SubmissionsKnow'
      BY <2>2 DEF WriteUpdate, SubmissionsKnow, Call
    <3>3. ReviewedByPlatform'
      <4>1. /\ late' = late
            /\ settings'.platform = Or(settingsCall[c].platform, settings.platform)
            /\ settings'.status = Or(settingsCall[c].status, settings.status)
        BY <2>2 DEF WriteUpdate
      <4>2. /\ settingsCall[c].status = "UNDER_REVIEW" => settingsCall[c].platform = TRUE
            /\ settingsCall[c].platform = FALSE => settingsCall[c].status \notin {None, "UNDER_REVIEW"}
        BY <2>2 DEF WriteUpdate, UpdatesConsistent
      <4>3. settingsCall[c].platform \in BOOLEAN \cup {None}
        BY <2>2 DEF WriteUpdate, Call
      <4>4. QED
        BY <4>1, <4>2, <4>3 DEF Or, ReviewedByPlatform, Statuses
    <3>4. QED
      BY <3>1, <3>2, <3>3
  <2>3. ASSUME NEW c \in SettingsCalls, StartSubmit(c) PROVE Reviewed'
    BY <2>3 DEF StartSubmit, UpdatesConsistent, SubmissionsKnow, ReviewedByPlatform
  <2>4. ASSUME NEW c \in SettingsCalls, WriteSubmit(c) PROVE Reviewed'
    <3>1. settings'.platform = settings.platform /\ late' = settingsCall[c].late
      BY <2>4 DEF WriteSubmit, Settings
    <3>2. UpdatesConsistent' /\ SubmissionsKnow'
      BY <2>4, <3>1 DEF WriteSubmit, UpdatesConsistent, SubmissionsKnow
    <3>3. ReviewedByPlatform'
      BY <2>4, <3>1 DEF WriteSubmit, SubmissionsKnow, ReviewedByPlatform
    <3>4. QED
      BY <3>2, <3>3
  <2>5. ASSUME UNCHANGED settingsVars PROVE Reviewed'
    BY <2>5 DEF settingsVars, UpdatesConsistent, SubmissionsKnow, ReviewedByPlatform
  <2>6. QED
    BY <2>1, <2>2, <2>3, <2>4, <2>5 DEF SettingsNext
<1>3. QED
  BY <1>1, <1>2, SettingsTypeCorrect, PTL DEF SettingsSpec, Reviewed

-----------------------------------------------------------------------------
(* BillingPage: its types, and what the page shows at rest.                  *)

(* Every reachable state is of the declared types. *)
THEOREM PageTypeCorrect == PageSpec => []PageTypeOK
<1> USE ContentsAssumption, LoadsAssumption DEF PageTypeOK
<1>1. PageInit => PageTypeOK
  BY DEF PageInit
<1>2. PageTypeOK /\ [PageNext]_pageVars => PageTypeOK'
  <2> SUFFICES ASSUME PageTypeOK, [PageNext]_pageVars PROVE PageTypeOK'
    OBVIOUS
  <2>1. ASSUME SavedElsewhere PROVE PageTypeOK'
    BY <2>1 DEF SavedElsewhere
  <2>2. ASSUME NEW l \in Loads, Answer(l) PROVE PageTypeOK'
    BY <2>2 DEF Answer
  <2>3. ASSUME NEW l \in Loads, Arrive(l) PROVE PageTypeOK'
    <3>1. answer[l] \in Contents
      BY <2>3 DEF Arrive
    <3>2. editing' \in BOOLEAN
      BY <2>3, Zenon DEF Arrive
    <3>3. QED
      BY <2>3, <3>1, <3>2 DEF Arrive, Over
  <2>4. ASSUME NEW l \in Loads, LoadFails(l) PROVE PageTypeOK'
    BY <2>4 DEF LoadFails, Over
  <2>5. ASSUME NEW l \in Loads, Refresh(l) PROVE PageTypeOK'
    BY <2>5 DEF Refresh, Ask
  <2>6. ASSUME NEW l \in Loads, Fail(l) PROVE PageTypeOK'
    BY <2>6 DEF Fail
  <2>7. ASSUME StartEditing \/ StartGatewaySetup \/ Edit \/ CancelEdit PROVE PageTypeOK'
    BY <2>7 DEF StartEditing, StartGatewaySetup, Edit, CancelEdit, Shown
  <2>8. ASSUME Save \/ SaveAnswered PROVE PageTypeOK'
    BY <2>8 DEF Save, SaveAnswered, Ask
  <2>9. ASSUME SubmitOnboarding \/ Submitted PROVE PageTypeOK'
    BY <2>9 DEF SubmitOnboarding, Submitted, Ask
  <2>10. ASSUME UNCHANGED pageVars PROVE PageTypeOK'
    BY <2>10 DEF pageVars
  <2>11. QED
    BY <2>1, <2>2, <2>3, <2>4, <2>5, <2>6, <2>7, <2>8, <2>9, <2>10 DEF PageNext
<1>3. QED
  BY <1>1, <1>2, PTL DEF PageSpec

-----------------------------------------------------------------------------
(* Out of the edit mode the form is that of the overview, or another overview  *)
(* is on its way, or the page shows that the last one failed.  A save leaves    *)
(* the edit mode with a form no overview has confirmed: its reload is what      *)
(* keeps this true.                                                           *)
FormConfirmed == ~editing /\ form # overview => asked # {} \/ failed

(* Once nothing is on its way, the page out of its edit mode shows the         *)
(* settings of the overview it got last.                                       *)
THEOREM RestingPageShowsOverview == PageSpec => []ShowsWhatIsSaved
<1>1. PageInit => FormConfirmed
  BY DEF PageInit, FormConfirmed
<1>2. FormConfirmed /\ [PageNext]_pageVars => FormConfirmed'
  <2> SUFFICES ASSUME FormConfirmed, [PageNext]_pageVars PROVE FormConfirmed'
    OBVIOUS
  <2> USE DEF FormConfirmed
  <2>1. ASSUME SavedElsewhere PROVE FormConfirmed'
    BY <2>1 DEF SavedElsewhere
  <2>2. ASSUME NEW l \in Loads, Answer(l) PROVE FormConfirmed'
    BY <2>2 DEF Answer
  <2>3. ASSUME NEW l \in Loads, Arrive(l) PROVE FormConfirmed'
    BY <2>3 DEF Arrive
  <2>4. ASSUME NEW l \in Loads, LoadFails(l) PROVE FormConfirmed'
    BY <2>4 DEF LoadFails
  <2>5. ASSUME NEW l \in Loads, Refresh(l) PROVE FormConfirmed'
    BY <2>5 DEF Refresh, Ask
  <2>6. ASSUME NEW l \in Loads, Fail(l) PROVE FormConfirmed'
    BY <2>6 DEF Fail
  <2>7. ASSUME StartEditing \/ StartGatewaySetup \/ Edit \/ CancelEdit PROVE FormConfirmed'
    BY <2>7 DEF StartEditing, StartGatewaySetup, Edit, CancelEdit
  <2>8. ASSUME Save \/ SaveAnswered PROVE FormConfirmed'
    BY <2>8 DEF Save, SaveAnswered, Ask
  <2>9. ASSUME SubmitOnboarding \/ Submitted PROVE FormConfirmed'
    BY <2>9 DEF SubmitOnboarding, Submitted, Ask
  <2>10. ASSUME UNCHANGED pageVars PROVE FormConfirmed'
    BY <2>10 DEF pageVars
  <2>11. QED
    BY <2>1, <2>2, <2>3, <2>4, <2>5, <2>6, <2>7, <2>8, <2>9, <2>10 DEF PageNext
<1>3. FormConfirmed => ShowsWhatIsSaved
  BY DEF FormConfirmed, ShowsWhatIsSaved, Shown, Resting
<1>4. QED
  BY <1>1, <1>2, <1>3, PTL DEF PageSpec
=============================================================================
