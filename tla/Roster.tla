-------------------------------- MODULE Roster ---------------------------------
(***************************************************************************)
(* The students of a company with their group, their billing template and  *)
(* their routes (students/students.service.ts, groups/, routes/,           *)
(* billing/billing-templates.service.ts).                                  *)
(*                                                                         *)
(* create and update look the group, the template and the routes up before *)
(* the transaction that writes the student, and update writes back what    *)
(* the request leaves out as it read it first.  A student stands for a     *)
(* registration; groups and billing templates are under the same rules and *)
(* are both Groups here.  Names, addresses, the billing customer and the   *)
(* card of a student are left out.                                         *)
(***************************************************************************)
EXTENDS Null

CONSTANTS
  Students,
  Groups,           (* groups and billing templates                        *)
  Routes,
  Edits             (* creates and updates of students in progress         *)

VARIABLES
  open,             (* the groups and routes that are active               *)
  student,          (* the Student rows, None before their creation        *)
  edit,             (* the local variables of each request                 *)
  dormant,          (* history: the students deactivated while no update   *)
                    (* of them was in progress                             *)
  sealed            (* history: the groups and routes deactivated while no *)
                    (* request was in progress                             *)

rosterVars == <<open, student, edit, dormant, sealed>>

RosterInit ==
  /\ open = Groups \cup Routes
  /\ student = [s \in Students |-> None]
  /\ edit = [r \in Edits |-> None]
  /\ dormant = {}
  /\ sealed = {}

Enrolled == {s \in Students : student[s] # None}
Busy == {r \in Edits : edit[r] # None}
RouteChoices == (SUBSET Routes) \ {{}}

-----------------------------------------------------------------------------
(* create: the active group and routes, looked up before the transaction. *)
StartCreate(r, s, group, routes) ==
  /\ edit[r] = None
  /\ {group} \cup routes \subseteq open
  /\ \E active \in BOOLEAN :
       edit' = [edit EXCEPT ![r] =
         [step |-> "create", student |-> s, asked |-> TRUE,
          row |-> [active |-> active, group |-> group, routes |-> routes]]]
  /\ UNCHANGED <<open, student, dormant, sealed>>

(* The transaction, which refuses a registration that is taken. *)
CommitCreate(r) ==
  /\ edit[r] # None /\ edit[r].step = "create"
  /\ student' = IF edit[r].student \in Enrolled THEN student
                ELSE [student EXCEPT ![edit[r].student] = edit[r].row]
  /\ edit' = [edit EXCEPT ![r] = None]
  /\ UNCHANGED <<open, dormant, sealed>>

(* update: the read of the student. *)
StartStudentUpdate(r, s) ==
  /\ edit[r] = None
  /\ s \in Enrolled
  /\ edit' = [edit EXCEPT ![r] =
       [step |-> "check", student |-> s, asked |-> FALSE, row |-> student[s]]]
  /\ UNCHANGED <<open, student, dormant, sealed>>

(* Mutated form of NextGroups: an inactive group may be chosen too. *)
NextGroupsAny(read) == Groups

(* resolveNextGroupId, resolveNextBillingTemplateId: the group that was read,   *)
(* or an active one.                                                          *)
NextGroups(read) == (Groups \cap open) \cup {read.group}

(* getAssignableRouteIdsOrFail: the routes that were read, when the request     *)
(* leaves them out, or else routes that are active or the student's now.      *)
NextRoutes(s, read) ==
  {read.routes} \cup {routes \in RouteChoices : routes \subseteq open \cup student[s].routes}

(* Mutated form of NextActivity: a student that is saved is active. *)
NextActivityDefault(read, asked, active) == asked \/ active

(* dto.active ?? student.active *)
NextActivity(read, asked, active) == asked \/ active = read.active

(* update: the checks, and the row that is to be written. *)
CheckUpdate(r) ==
  /\ edit[r] # None /\ edit[r].step = "check"
  /\ \E group \in NextGroups(edit[r].row),
        routes \in NextRoutes(edit[r].student, edit[r].row),
        asked, active \in BOOLEAN :
       /\ NextActivity(edit[r].row, asked, active)
       /\ edit' = [edit EXCEPT ![r] =
            [step |-> "write", student |-> edit[r].student, asked |-> asked,
             row |-> [active |-> active, group |-> group, routes |-> routes]]]
  /\ UNCHANGED <<open, student, dormant, sealed>>

(* update: the transaction writes every column and the routes anew. *)
CommitUpdate(r) ==
  /\ edit[r] # None /\ edit[r].step = "write"
  /\ student' = [student EXCEPT ![edit[r].student] = edit[r].row]
  /\ dormant' = IF edit[r].asked THEN dormant \ {edit[r].student} ELSE dormant
  /\ edit' = [edit EXCEPT ![r] = None]
  /\ UNCHANGED <<open, sealed>>

(* A check fails, a statement fails, a unique index refuses. *)
FailUpdate(r) ==
  /\ edit[r] # None
  /\ edit' = [edit EXCEPT ![r] = None]
  /\ UNCHANGED <<open, student, dormant, sealed>>

(* desactivateMany *)
DeactivateStudents(S) ==
  /\ S # {} /\ S \subseteq Enrolled
  /\ student' = [s \in Students |->
       IF s \in S THEN [student[s] EXCEPT !.active = FALSE] ELSE student[s]]
  /\ dormant' = dormant \cup (S \ {edit[r].student : r \in Busy})
  /\ UNCHANGED <<open, edit, sealed>>

(* deleteMany: one statement, which the foreign key of the routes refuses as a  *)
(* whole.                                                                     *)
DeleteStudents(S) ==
  /\ S # {} /\ S \subseteq Enrolled
  /\ student' = IF \E s \in S : student[s].routes # {} THEN student
                ELSE [s \in Students |-> IF s \in S THEN None ELSE student[s]]
  /\ UNCHANGED <<open, edit, dormant, sealed>>

-----------------------------------------------------------------------------
(* deactivateMany of groups, of billing templates and of routes. *)
Deactivate(item) ==
  /\ item \in open
  /\ open' = open \ {item}
  /\ sealed' = IF Busy = {} THEN sealed \cup {item} ELSE sealed
  /\ UNCHANGED <<student, edit, dormant>>

(* update of a group or of a billing template; a route stays inactive. *)
Reopen(group) ==
  /\ group \in Groups \ open
  /\ open' = open \cup {group}
  /\ sealed' = sealed \ {group}
  /\ UNCHANGED <<student, edit, dormant>>

RosterNext ==
  \/ \E r \in Edits :
       \/ \E s \in Students, group \in Groups, routes \in RouteChoices :
            StartCreate(r, s, group, routes)
       \/ CommitCreate(r)
       \/ \E s \in Students : StartStudentUpdate(r, s)
       \/ CheckUpdate(r)
       \/ CommitUpdate(r)
       \/ FailUpdate(r)
  \/ \E S \in SUBSET Students : DeactivateStudents(S) \/ DeleteStudents(S)
  \/ \E item \in Groups \cup Routes : Deactivate(item)
  \/ \E group \in Groups : Reopen(group)

RosterSpec == RosterInit /\ [][RosterNext]_rosterVars

-----------------------------------------------------------------------------
Row == [active : BOOLEAN, group : Groups, routes : SUBSET Routes]
ASSUME RosterRowAssumption == None \notin Row

(* Every variable keeps its type. *)
RosterTypeOK ==
  /\ open \in SUBSET (Groups \cup Routes)
  /\ student \in [Students -> Row \cup {None}]
  /\ edit \in [Edits ->
       [step : {"create", "check", "write"}, student : Students, asked : BOOLEAN, row : Row]
       \cup {None}]
  /\ dormant \in SUBSET Students
  /\ sealed \in SUBSET (Groups \cup Routes)

(* A student whom the company deactivated while nobody was saving them stays  *)
(* inactive until a request says otherwise: the updates that leave the flag   *)
(* out write back the one they read.                                          *)
DeactivatedStays == \A s \in dormant : student[s] # None /\ ~student[s].active

(* Nobody is moved to a group or a route that was deactivated while no        *)
(* request was in progress, though a student who is there already stays.      *)
PlacesOf(row) == IF row = None THEN {} ELSE {row.group} \cup row.routes
NoNewcomers ==
  [][\A s \in Students : PlacesOf(student'[s]) \cap sealed \subseteq PlacesOf(student[s])]_rosterVars
=============================================================================
