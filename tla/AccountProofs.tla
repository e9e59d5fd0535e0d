------------------------------ MODULE AccountProofs ------------------------------
(***************************************************************************)
(* Proofs about PushSubscriptions, UserAccounts, CompanyOnboarding and     *)
(* Session, for every number of users, accounts, phones and requests in    *)
(* progress: their types, whom a device belongs to and that a deactivated  *)
(* subscription is not revived, that a student has one account and a       *)
(* deactivated account opens no door, that a verified phone makes one      *)
(* company, and that what a page asks for is not refused.                  *)
(***************************************************************************)
EXTENDS PushSubscriptions, UserAccounts, CompanyOnboarding, Session, TLAPS

(* A row that exists is a record. *)
LEMMA ExistingRow ==
  ASSUME PushTypeOK, NEW i \in Existing
  PROVE  row[i] \in SubscriptionRow
BY DEF PushTypeOK, Existing

(* A registration merges rows of the table only. *)
LEMMA MergedRows ==
  ASSUME NEW q \in Registration
  PROVE  Merged(q) \subseteq Rows /\ Subscribed(q) \in SubscriptionRow
BY DEF Merged, Subscribed, Registration, SubscriptionRow

-----------------------------------------------------------------------------
(* Every reachable state is of the declared types. *)
THEOREM PushTypeCorrect == PushSpec => []PushTypeOK
<1> USE DEF PushTypeOK
<1>1. PushInit => PushTypeOK
  BY DEF PushInit
<1>2. PushTypeOK /\ [PushNext]_pushVars => PushTypeOK'
  <2> SUFFICES ASSUME PushTypeOK, [PushNext]_pushVars PROVE PushTypeOK'
    OBVIOUS
  <2>1. ASSUME NEW r \in Registrations, NEW user \in Users, NEW token \in Tokens,
               NEW installation \in Installations \cup {None},
               StartRegistration(r, user, token, installation)
        PROVE  PushTypeOK'
    <3>1. PICK i \in TheOne({j \in Existing : installation # None
                                              /\ row[j].installation = installation}) :
            registration' = [registration EXCEPT ![r] =
              [user |-> user, token |-> token, installation |-> installation,
               step |-> "token", byInstallation |-> i, byToken |-> None]]
      BY <2>1 DEF StartRegistration
    <3>2. i \in Rows \cup {None}
      BY DEF TheOne, Existing
    <3>3. registration' \in [Registrations -> Registration \cup {None}]
      BY <3>1, <3>2 DEF Registration
    <3>4. QED
      BY <2>1, <3>3 DEF StartRegistration, Dispatch
  <2>2. ASSUME NEW r \in Registrations, FindToken(r) PROVE PushTypeOK'
    <3>1. PICK i \in TheOne({j \in Existing : row[j].token = registration[r].token}) :
            registration' = [registration EXCEPT ![r].step = "write", ![r].byToken = i]
      BY <2>2 DEF FindToken
    <3>2. i \in Rows \cup {None}
      BY DEF TheOne, Existing
    <3>3. registration[r] \in Registration
      BY <2>2 DEF FindToken
    <3>4. registration' \in [Registrations -> Registration \cup {None}]
      BY <3>1, <3>2, <3>3 DEF Registration
    <3>5. QED
      BY <2>2, <3>4 DEF FindToken, Dispatch
  <2>3. ASSUME NEW r \in Registrations, NEW i \in Rows, WriteRegistration(r, i) PROVE PushTypeOK'
    <3> DEFINE q == registration[r]
    <3>1. q \in Registration
      BY <2>3 DEF WriteRegistration
    <3>2. row' \in [Rows -> SubscriptionRow \cup {None, Deleted}]
      BY <2>3, <3>1, MergedRows DEF WriteRegistration
    <3>3. registrant' \in [Tokens -> Users \cup {None}]
      BY <2>3, <3>1 DEF WriteRegistration, Registration
    <3>4. registration' \in [Registrations -> Registration \cup {None}]
      BY <2>3 DEF WriteRegistration
    <3>5. closed' \in SUBSET Rows
      BY <2>3 DEF WriteRegistration
    <3>6. QED
      BY <2>3, <3>2, <3>3, <3>4, <3>5 DEF WriteRegistration, Dispatch
  <2>4. ASSUME NEW r \in Registrations, RefuseRegistration(r) PROVE PushTypeOK'
    BY <2>4 DEF RefuseRegistration, Dispatch
  <2>5. ASSUME NEW user \in Users, NEW token \in Tokens,
               NEW installation \in Installations \cup {None},
               DeactivateSubscription(user, token, installation)
        PROVE  PushTypeOK'
    <3>1. PICK found, held :
            /\ found \in SUBSET Existing
            /\ row' = [i \in Rows |-> IF i \in found THEN [row[i] EXCEPT !.active = FALSE]
                                      ELSE row[i]]
            /\ closed' = closed \cup (found \ held)
      BY <2>5 DEF DeactivateSubscription
    <3>2. \A i \in found : [row[i] EXCEPT !.active = FALSE] \in SubscriptionRow
      BY <3>1, ExistingRow DEF SubscriptionRow
    <3>3. row' \in [Rows -> SubscriptionRow \cup {None, Deleted}] /\ closed' \in SUBSET Rows
      BY <3>1, <3>2 DEF Existing
    <3>4. QED
      BY <2>5, <3>3 DEF DeactivateSubscription, Dispatch
  <2>6. ASSUME NEW d \in Dispatches, NEW user \in Users, StartDispatch(d, user) PROVE PushTypeOK'
    <3>1. PICK expo \in SUBSET Rows :
            dispatch' = [dispatch EXCEPT ![d] = [sent |-> expo, ticket |-> None]]
      BY <2>6 DEF StartDispatch, Reachable, Existing
    <3>2. dispatch'[d] = [sent |-> expo, ticket |-> None] /\ DOMAIN dispatch' = Dispatches
      BY <3>1
    <3>3. Dispatch(d)'
      BY <3>2 DEF Dispatch
    <3>4. \A e \in Dispatches \ {d} : dispatch'[e] = dispatch[e]
      BY <3>1
    <3>5. \A e \in Dispatches : dispatch'[e] # None => Dispatch(e)'
      BY <3>3, <3>4 DEF Dispatch
    <3>6. QED
      BY <2>6, <3>2, <3>5 DEF StartDispatch
  <2>7. ASSUME NEW d \in Dispatches, ReceiveTickets(d) PROVE PushTypeOK'
    <3>1. PICK ticket \in [dispatch[d].sent -> Tickets] :
            dispatch' = [dispatch EXCEPT ![d].ticket = ticket]
      BY <2>7 DEF ReceiveTickets
    <3>2. QED
      BY <2>7, <3>1 DEF ReceiveTickets, Dispatch
  <2>8. ASSUME NEW d \in Dispatches, FailDispatch(d) PROVE PushTypeOK'
    BY <2>8 DEF FailDispatch, Dispatch
  <2>9. ASSUME NEW d \in Dispatches, NEW i \in Rows, ApplyTicket(d, i) PROVE PushTypeOK'
    <3>1. row' \in [Rows -> SubscriptionRow \cup {None, Deleted}]
      <4>1. CASE row' = row
        BY <4>1
      <4>2. CASE i \in Existing /\ \E b \in BOOLEAN : row' = [row EXCEPT ![i].active = b]
        BY <4>2, ExistingRow DEF SubscriptionRow
      <4>3. QED
        BY <2>9, <4>1, <4>2 DEF ApplyTicket
    <3>2. /\ DOMAIN dispatch' = Dispatches
          /\ \A e \in Dispatches \ {d} : dispatch'[e] = dispatch[e]
          /\ \/ dispatch'[d] = None
             \/ dispatch'[d] = [dispatch[d] EXCEPT !.sent = @ \ {i}]
      BY <2>9 DEF ApplyTicket
    <3>3. dispatch[d] # None /\ Dispatch(d)
      BY <2>9 DEF ApplyTicket
    <3>4. \A e \in Dispatches : dispatch'[e] # None => Dispatch(e)'
      BY <3>2, <3>3 DEF Dispatch
    <3>5. QED
      BY <2>9, <3>1, <3>2, <3>4 DEF ApplyTicket
  <2>10. ASSUME UNCHANGED pushVars PROVE PushTypeOK'
    BY <2>10 DEF pushVars, Dispatch
  <2>11. QED
    BY <2>1, <2>2, <2>3, <2>4, <2>5, <2>6, <2>7, <2>8, <2>9, <2>10 DEF PushNext
<1>3. QED
  BY <1>1, <1>2, PTL DEF PushSpec

-----------------------------------------------------------------------------
(* A device receives the notices of the user who registered its token last:     *)
(* the unique index of the tokens leaves the row that is written as the only    *)
(* one of its token.                                                           *)
THEOREM DeviceIsOfItsRegistrant == PushSpec => []TokenOfRegistrant
<1>1. PushInit => TokenOfRegistrant
  BY DEF PushInit, TokenOfRegistrant, Existing
<1>2. PushTypeOK /\ TokenOfRegistrant /\ [PushNext]_pushVars => TokenOfRegistrant'
  <2> SUFFICES ASSUME PushTypeOK, TokenOfRegistrant, [PushNext]_pushVars PROVE TokenOfRegistrant'
    OBVIOUS
  <2>1. ASSUME NEW r \in Registrations, NEW i \in Rows, WriteRegistration(r, i)
        PROVE  TokenOfRegistrant'
    <3> DEFINE q == registration[r]
    <3>1. q \in Registration /\ q.token \in Tokens
      BY <2>1 DEF WriteRegistration, PushTypeOK, Registration
    <3>2. /\ Unique(q, Merged(q), i)
          /\ row' = [j \in Rows |->
               IF j = i THEN Subscribed(q) ELSE IF j \in Merged(q) THEN Deleted ELSE row[j]]
          /\ registrant' = [registrant EXCEPT ![q.token] = q.user]
      BY <2>1 DEF WriteRegistration
    <3>3. registrant'[q.token] = q.user
      BY <3>1, <3>2 DEF PushTypeOK
    <3>4. ASSUME NEW j \in Existing' PROVE row'[j].user = registrant'[row'[j].token]
      <4>1. CASE j = i
        BY <3>2, <3>3, <4>1 DEF Subscribed, Existing
      <4>2. CASE j # i
        <5>1. j \in Existing \ (Merged(q) \cup {i}) /\ row'[j] = row[j]
          BY <3>2, <3>4, <4>2 DEF Existing
        <5>2. row[j].token # q.token /\ row[j].token \in Tokens
          BY <3>2, <5>1, ExistingRow DEF Unique, SubscriptionRow
        <5>3. row[j].user = registrant[row[j].token]
          BY <5>1 DEF TokenOfRegistrant
        <5>4. QED
          BY <3>2, <5>1, <5>2, <5>3 DEF PushTypeOK
      <4>3. QED
        BY <4>1, <4>2
    <3>5. QED
      BY <3>4 DEF TokenOfRegistrant
  (* Nothing else changes whose a row is, nor its token.                        *)
  <2>2. ASSUME NEW user \in Users, NEW token \in Tokens,
               NEW installation \in Installations \cup {None},
               DeactivateSubscription(user, token, installation)
        PROVE  TokenOfRegistrant'
    <3>1. PICK found \in SUBSET Existing :
            row' = [i \in Rows |-> IF i \in found THEN [row[i] EXCEPT !.active = FALSE] ELSE row[i]]
      BY <2>2 DEF DeactivateSubscription
    <3>2. ASSUME NEW j \in Existing'
          PROVE  j \in Existing /\ row'[j].user = row[j].user /\ row'[j].token = row[j].token
      <4>1. j \in Existing
        BY <3>1, <3>2 DEF Existing
      <4>2. QED
        BY <3>1, <4>1, ExistingRow DEF Existing, SubscriptionRow
    <3>3. registrant' = registrant
      BY <2>2 DEF DeactivateSubscription
    <3>4. QED
      BY <3>2, <3>3 DEF TokenOfRegistrant
  <2>3. ASSUME NEW d \in Dispatches, NEW i \in Rows, ApplyTicket(d, i) PROVE TokenOfRegistrant'
    <3>1. \/ row' = row
          \/ i \in Existing /\ \E b \in BOOLEAN : row' = [row EXCEPT ![i].active = b]
      BY <2>3 DEF ApplyTicket
    <3>2. ASSUME NEW j \in Existing'
          PROVE  j \in Existing /\ row'[j].user = row[j].user /\ row'[j].token = row[j].token
      <4>1. j \in Existing
        BY <3>1, <3>2 DEF Existing, PushTypeOK
      <4>2. QED
        BY <3>1, <4>1, ExistingRow DEF SubscriptionRow, PushTypeOK, Existing
    <3>3. registrant' = registrant
      BY <2>3 DEF ApplyTicket
    <3>4. QED
      BY <3>2, <3>3 DEF TokenOfRegistrant
  <2>4. ASSUME UNCHANGED <<row, registrant>> PROVE TokenOfRegistrant'
    BY <2>4 DEF TokenOfRegistrant, Existing
  <2>5. QED
    BY <2>1, <2>2, <2>3, <2>4
       DEF PushNext, pushVars, StartRegistration, FindToken, RefuseRegistration, StartDispatch,
           ReceiveTickets, FailDispatch
<1>3. QED
  BY <1>1, <1>2, PushTypeCorrect, PTL DEF PushSpec

-----------------------------------------------------------------------------
(* What makes ClosedStaysClosed inductive: no dispatch holds a closed row, and   *)
(* a dispatch reads active rows only.                                           *)
ClosedUnheld ==
  /\ ClosedStaysClosed
  /\ \A d \in Dispatches : dispatch[d] # None => dispatch[d].sent \cap closed = {}

(* A subscription deactivated while no push to it was on its way stays inactive *)
(* until it is registered again, whatever the push service answers to others.   *)
THEOREM ClosedIsNotRevived == PushSpec => []ClosedStaysClosed
<1>1. PushInit => ClosedUnheld
  BY DEF PushInit, ClosedUnheld, ClosedStaysClosed
<1>2. PushTypeOK /\ ClosedUnheld /\ [PushNext]_pushVars => ClosedUnheld'
  <2> SUFFICES ASSUME PushTypeOK, ClosedUnheld, [PushNext]_pushVars PROVE ClosedUnheld'
    OBVIOUS
  <2>1. ASSUME NEW r \in Registrations, NEW i \in Rows, WriteRegistration(r, i) PROVE ClosedUnheld'
    <3>1. /\ closed' = closed \ ({i} \cup Merged(registration[r]))
          /\ dispatch' = dispatch
          /\ \A j \in Rows \ ({i} \cup Merged(registration[r])) : row'[j] = row[j]
      BY <2>1 DEF WriteRegistration
    <3>2. QED
      BY <3>1 DEF ClosedUnheld, ClosedStaysClosed, Active, Existing
  <2>2. ASSUME NEW user \in Users, NEW token \in Tokens,
               NEW installation \in Installations \cup {None},
               DeactivateSubscription(user, token, installation)
        PROVE  ClosedUnheld'
    <3> DEFINE held == UNION {dispatch[d].sent : d \in {e \in Dispatches : dispatch[e] # None}}
    <3>1. PICK found \in SUBSET Existing :
            /\ row' = [i \in Rows |-> IF i \in found THEN [row[i] EXCEPT !.active = FALSE]
                                      ELSE row[i]]
            /\ closed' = closed \cup (found \ held)
      BY <2>2 DEF DeactivateSubscription
    <3>2. \A j \in found : ~Active(j)'
      BY <3>1, ExistingRow DEF Active, Existing, SubscriptionRow
    <3>3. \A j \in closed \ found : ~Active(j)'
      BY <3>1 DEF ClosedUnheld, ClosedStaysClosed, Active, Existing, PushTypeOK
    <3>4. dispatch' = dispatch
      BY <2>2 DEF DeactivateSubscription
    <3>5. \A d \in Dispatches : dispatch[d] # None => dispatch[d].sent \subseteq held
      OBVIOUS
    <3>6. QED
      BY <3>1, <3>2, <3>3, <3>4, <3>5 DEF ClosedUnheld, ClosedStaysClosed
  <2>3. ASSUME NEW d \in Dispatches, NEW user \in Users, StartDispatch(d, user)
        PROVE  ClosedUnheld'
    <3>1. PICK expo \in SUBSET Reachable(user) :
            dispatch' = [dispatch EXCEPT ![d] = [sent |-> expo, ticket |-> None]]
      BY <2>3 DEF StartDispatch
    <3>2. expo \cap closed = {}
      BY DEF ClosedUnheld, ClosedStaysClosed, Reachable, Active
    <3>3. row' = row /\ closed' = closed
      BY <2>3 DEF StartDispatch
    <3>4. ClosedStaysClosed'
      BY <3>3 DEF ClosedUnheld, ClosedStaysClosed, Active, Existing
    <3>5. QED
      BY <3>1, <3>2, <3>3, <3>4 DEF ClosedUnheld, PushTypeOK
  <2>4. ASSUME NEW d \in Dispatches, ReceiveTickets(d) \/ FailDispatch(d) PROVE ClosedUnheld'
    <3>1. row' = row /\ closed' = closed
      BY <2>4 DEF ReceiveTickets, FailDispatch
    <3>2. ClosedStaysClosed'
      BY <3>1 DEF ClosedUnheld, ClosedStaysClosed, Active, Existing
    <3>3. \A e \in Dispatches : dispatch'[e] # None =>
            dispatch[e] # None /\ dispatch'[e].sent = dispatch[e].sent
      BY <2>4 DEF ReceiveTickets, FailDispatch, PushTypeOK, Dispatch
    <3>4. QED
      BY <3>1, <3>2, <3>3 DEF ClosedUnheld
  <2>5. ASSUME NEW d \in Dispatches, NEW i \in Rows, ApplyTicket(d, i) PROVE ClosedUnheld'
    (* The row is one the dispatch holds, so not a closed one.                  *)
    <3>1. i \notin closed /\ closed' = closed
      BY <2>5 DEF ApplyTicket, ClosedUnheld
    <3>2. \A j \in closed : row'[j] = row[j]
      BY <2>5, <3>1 DEF ApplyTicket, PushTypeOK
    <3>3. ClosedStaysClosed'
      BY <3>1, <3>2 DEF ClosedUnheld, ClosedStaysClosed, Active, Existing
    <3>4. /\ \A e \in Dispatches \ {d} : dispatch'[e] = dispatch[e]
          /\ dispatch[d] # None
          /\ \/ dispatch'[d] = None
             \/ dispatch'[d] = [dispatch[d] EXCEPT !.sent = @ \ {i}]
      BY <2>5 DEF ApplyTicket, PushTypeOK
    <3>5. \A e \in Dispatches : dispatch'[e] # None =>
            dispatch[e] # None /\ dispatch'[e].sent \subseteq dispatch[e].sent
      BY <3>4 DEF PushTypeOK, Dispatch
    <3>6. QED
      BY <3>1, <3>3, <3>5 DEF ClosedUnheld
  <2>6. ASSUME UNCHANGED <<row, dispatch, closed>> PROVE ClosedUnheld'
    BY <2>6 DEF ClosedUnheld, ClosedStaysClosed, Active, Existing
  <2>7. QED
    BY <2>1, <2>2, <2>3, <2>4, <2>5, <2>6
       DEF PushNext, pushVars, StartRegistration, FindToken, RefuseRegistration
<1>3. ClosedUnheld => ClosedStaysClosed
  BY DEF ClosedUnheld
<1>4. QED
  BY <1>1, <1>2, <1>3, PushTypeCorrect, PTL DEF PushSpec

-----------------------------------------------------------------------------
(* The requests of UserAccounts in progress. *)
Editing == {r \in Edits : change[r] # None}
Edit ==
  [step : {"create", "check", "write"}, user : AccountIds, asked : BOOLEAN, row : AccountRow]

(* An account that exists, and an edit in progress, are records. *)
LEMMA CreatedRow ==
  ASSUME AccountsTypeOK, NEW u \in Created
  PROVE  account[u] \in AccountRow
BY DEF AccountsTypeOK, Created

LEMMA EditInProgress ==
  ASSUME AccountsTypeOK, NEW r \in Editing
  PROVE  r \in Edits /\ change[r] \in Edit /\ change[r].row \in AccountRow
BY DEF AccountsTypeOK, Editing, Edit

(* An account that is updated exists; one that is created does not, and no     *)
(* other request is about it.                                                 *)
EditsTheirs ==
  \A r \in Editing :
    IF change[r].step = "create"
    THEN change[r].user \notin Created /\ \A q \in Editing : change[q].user = change[r].user => q = r
    ELSE change[r].user \in Created

(* What is about to be written has a student when it is the account of one. *)
RowsHaveStudents ==
  \A r \in Editing :
    change[r].step \in {"create", "write"} /\ change[r].row.role = "USER"
      => change[r].row.student # None

(* A dormant account is inactive, and so is what is about to be written over   *)
(* it unless the request asks for an activity.                                *)
DormantOff ==
  \A u \in dormant :
    /\ u \in Created /\ ~account[u].active
    /\ \A r \in Editing :
         change[r].user = u /\ (change[r].step = "check" \/ ~change[r].asked)
           => ~change[r].row.active

AccountsInv == AccountsTypeOK /\ EditsTheirs /\ RowsHaveStudents /\ StudentAccounts /\ DormantOff

(* What CheckUpdate does. *)
LEMMA CheckUpdateStep ==
  ASSUME AccountsTypeOK, NEW r \in Edits, CheckUpdate(r)
  PROVE  /\ r \in Editing /\ change[r].step = "check"
         /\ UNCHANGED <<account, session, unlinked, dormant>>
         /\ \E data \in AccountRow, asked \in BOOLEAN :
              /\ data.role = "USER" => data.student # None
              /\ asked \/ data.active = change[r].row.active
              /\ change' = [change EXCEPT ![r] =
                   [step |-> "write", user |-> change[r].user, asked |-> asked, row |-> data]]
<1>1. r \in Editing /\ change[r].step = "check" /\ UNCHANGED <<account, session, unlinked, dormant>>
  BY DEF CheckUpdate, Editing
<1>2. change[r].row.student \in Enrolled \cup {None}
  BY <1>1, EditInProgress DEF AccountRow
<1>3. PICK role \in CompanyRoles, s \in Enrolled \cup {change[r].row.student},
           asked \in BOOLEAN, active \in BOOLEAN :
        /\ Identity(change[r].user, role, s)
        /\ NextActivity(change[r].row, asked, active)
        /\ change' = [change EXCEPT ![r] =
             [step |-> "write", user |-> change[r].user, asked |-> asked,
              row |-> [role |-> role, student |-> s, active |-> active]]]
  BY Zenon DEF CheckUpdate
<1> DEFINE data == [role |-> role, student |-> s, active |-> active]
<1>4. data \in AccountRow
  BY <1>2 DEF AccountRow
<1>5. (data.role = "USER" => data.student # None) /\ (asked \/ data.active = change[r].row.active)
  BY <1>3 DEF Identity, NextActivity
<1>6. QED
  BY <1>1, <1>3, <1>4, <1>5, Zenon

(* What CommitUpdate does: nothing when it is refused. *)
LEMMA CommitUpdateStep ==
  ASSUME AccountsTypeOK, EditsTheirs, NEW r \in Edits, CommitUpdate(r)
  PROVE  /\ r \in Editing /\ change[r].step = "write" /\ change[r].user \in Created
         /\ change' = [change EXCEPT ![r] = None] /\ session' = session
         /\ \/ UNCHANGED <<account, unlinked, dormant>>
            \/ LET q == change[r]
                   others == AccountsOf(q.row.student) \ {q.user} IN
               /\ \E s \in Enrolled \cup {None} :
                    /\ s = IF q.row.student = None THEN account[q.user].student ELSE q.row.student
                    /\ account' = [u \in AccountIds |->
                         IF u = q.user THEN [role |-> q.row.role, student |-> s, active |-> q.row.active]
                         ELSE IF u \in others THEN [account[u] EXCEPT !.student = None]
                         ELSE account[u]]
               /\ unlinked' = unlinked \cup others
               /\ dormant' = IF q.asked THEN dormant \ {q.user} ELSE dormant
<1> DEFINE q == change[r]
           others == AccountsOf(q.row.student) \ {q.user}
           s == IF q.row.student = None THEN account[q.user].student ELSE q.row.student
<1>1. r \in Editing /\ q.step = "write" /\ change' = [change EXCEPT ![r] = None] /\ session' = session
  BY DEF CommitUpdate, Editing
<1>2. q.user \in Created
  BY <1>1 DEF EditsTheirs
<1>3. q \in Edit /\ q.row \in AccountRow /\ account[q.user] \in AccountRow
  BY <1>1, <1>2, EditInProgress, CreatedRow
<1>4. s \in Enrolled \cup {None}
        /\ [q.row EXCEPT !.student = s] = [role |-> q.row.role, student |-> s, active |-> q.row.active]
  BY <1>3 DEF AccountRow
<1>5. PICK taken \in SUBSET others :
        IF taken # others
        THEN UNCHANGED <<account, unlinked, dormant>>
        ELSE /\ account' = [u \in AccountIds |->
                  IF u = q.user THEN [q.row EXCEPT !.student = s]
                  ELSE IF u \in taken THEN [account[u] EXCEPT !.student = None]
                  ELSE account[u]]
             /\ unlinked' = unlinked \cup taken
             /\ dormant' = IF q.asked THEN dormant \ {q.user} ELSE dormant
  BY DEF CommitUpdate
<1>6. CASE taken # others
  BY <1>1, <1>2, <1>5, <1>6
<1>7. CASE taken = others
  BY <1>1, <1>2, <1>4, <1>5, <1>7
<1>8. QED
  BY <1>6, <1>7

-----------------------------------------------------------------------------
(* Types, and who is edited, are kept by every step. *)
LEMMA AccountsBase ==
  AccountsTypeOK /\ EditsTheirs /\ [AccountsNext]_accountVars => AccountsTypeOK' /\ EditsTheirs'
<1> SUFFICES ASSUME AccountsTypeOK, EditsTheirs, [AccountsNext]_accountVars
             PROVE  AccountsTypeOK' /\ EditsTheirs'
  OBVIOUS
<1> USE AccountRowAssumption
<1>1. ASSUME NEW r \in Edits, NEW u \in AccountIds, NEW role \in CompanyRoles,
             NEW s \in Enrolled \cup {None}, StartCreate(r, u, role, s)
      PROVE  AccountsTypeOK' /\ EditsTheirs'
  <2> DEFINE data == [role |-> role, student |-> s, active |-> TRUE]
             e == [step |-> "create", user |-> u, asked |-> TRUE, row |-> data]
  <2>1. data \in AccountRow /\ e \in Edit
    BY DEF AccountRow, Edit
  <2>2. change' = [change EXCEPT ![r] = e] /\ UNCHANGED <<account, session, unlinked, dormant>>
    BY <1>1 DEF StartCreate
  <2>3. AccountsTypeOK'
    BY <2>1, <2>2 DEF AccountsTypeOK, Edit
  <2>4. u \notin Created /\ \A q \in Editing : change[q].user # u
    BY <1>1 DEF StartCreate, Created, Editing
  <2>5. /\ Editing' \subseteq Editing \cup {r} /\ Created' = Created
        /\ \A q \in Editing' : change'[q] = IF q = r THEN e ELSE change[q]
    BY <2>2 DEF AccountsTypeOK, Editing, Created
  <2>6. \A q \in Editing : q \in Edits
    BY DEF Editing
  <2>7. EditsTheirs'
    BY <2>1, <2>4, <2>5, <2>6 DEF EditsTheirs, Edit
  <2>8. QED
    BY <2>3, <2>7
<1>2. ASSUME NEW r \in Edits, CommitCreate(r) PROVE AccountsTypeOK' /\ EditsTheirs'
  <2>1. r \in Editing /\ change[r].step = "create" /\ change[r].row \in AccountRow
    BY <1>2, EditInProgress DEF CommitCreate, Editing
  <2>2. /\ change' = [change EXCEPT ![r] = None] /\ UNCHANGED <<session, unlinked, dormant>>
        /\ \/ account' = account
           \/ account' = [account EXCEPT ![change[r].user] = change[r].row]
    BY <1>2 DEF CommitCreate
  <2>3. AccountsTypeOK'
    BY <2>1, <2>2 DEF AccountsTypeOK
  <2>4. Editing' \subseteq Editing \ {r} /\ \A q \in Editing' : change'[q] = change[q]
    BY <2>2 DEF AccountsTypeOK, Editing
  <2>5. Created \subseteq Created' /\ Created' \subseteq Created \cup {change[r].user}
    BY <2>1, <2>2 DEF AccountsTypeOK, Created
  <2>6. QED
    BY <2>1, <2>3, <2>4, <2>5 DEF EditsTheirs
<1>3. ASSUME NEW r \in Edits, NEW u \in AccountIds, StartUpdate(r, u)
      PROVE  AccountsTypeOK' /\ EditsTheirs'
  <2> DEFINE e == [step |-> "check", user |-> u, asked |-> FALSE, row |-> account[u]]
  <2>1. e \in Edit
    BY <1>3, CreatedRow DEF StartUpdate, Edit
  <2>2. change' = [change EXCEPT ![r] = e] /\ UNCHANGED <<account, session, unlinked, dormant>>
    BY <1>3 DEF StartUpdate
  <2>3. AccountsTypeOK'
    BY <2>1, <2>2 DEF AccountsTypeOK, Edit
  <2>4. /\ Editing' \subseteq Editing \cup {r} /\ Created' = Created
        /\ \A q \in Editing' : change'[q] = IF q = r THEN e ELSE change[q]
    BY <2>2 DEF AccountsTypeOK, Editing, Created
  <2>5. EditsTheirs'
    BY <1>3, <2>1, <2>4 DEF EditsTheirs, StartUpdate
  <2>6. QED
    BY <2>3, <2>5
<1>4. ASSUME NEW r \in Edits, CheckUpdate(r) PROVE AccountsTypeOK' /\ EditsTheirs'
  <2>1. PICK data \in AccountRow, asked \in BOOLEAN :
          change' = [change EXCEPT ![r] =
            [step |-> "write", user |-> change[r].user, asked |-> asked, row |-> data]]
    BY <1>4, CheckUpdateStep
  <2> DEFINE e == [step |-> "write", user |-> change[r].user, asked |-> asked, row |-> data]
  <2>2. r \in Editing /\ change[r].step = "check" /\ UNCHANGED <<account, session, unlinked, dormant>>
    BY <1>4, CheckUpdateStep
  <2>3. e \in Edit
    BY <2>2, EditInProgress DEF Edit
  <2>4. AccountsTypeOK'
    BY <2>1, <2>2, <2>3 DEF AccountsTypeOK, Edit
  <2>5. /\ Editing' \subseteq Editing /\ Created' = Created
        /\ \A q \in Editing' : change'[q] = IF q = r THEN e ELSE change[q]
    BY <2>1, <2>2 DEF AccountsTypeOK, Editing, Created
  <2>6. EditsTheirs'
    BY <2>2, <2>5 DEF EditsTheirs
  <2>7. QED
    BY <2>4, <2>6
<1>5. ASSUME NEW r \in Edits, CommitUpdate(r) PROVE AccountsTypeOK' /\ EditsTheirs'
  <2> DEFINE q == change[r]
  <2>1. q \in Edit /\ q.row \in AccountRow /\ q.user \in Created
    BY <1>5, CommitUpdateStep, EditInProgress
  <2>2. account' \in [AccountIds -> AccountRow \cup {None}] /\ Created' = Created
    <3>1. CASE account' = account
      BY <3>1 DEF AccountsTypeOK, Created
    <3>2. CASE account' # account
      <4>1. PICK s \in Enrolled \cup {None} :
              account' = [u \in AccountIds |->
                IF u = q.user THEN [role |-> q.row.role, student |-> s, active |-> q.row.active]
                ELSE IF u \in AccountsOf(q.row.student) \ {q.user}
                THEN [account[u] EXCEPT !.student = None]
                ELSE account[u]]
        BY <1>5, <3>2, CommitUpdateStep
      <4>2. [role |-> q.row.role, student |-> s, active |-> q.row.active] \in AccountRow
        BY <2>1 DEF AccountRow
      <4>3. \A u \in AccountsOf(q.row.student) :
              u \in Created /\ [account[u] EXCEPT !.student = None] \in AccountRow
        BY CreatedRow DEF AccountsOf, AccountRow
      <4>4. \A u \in AccountIds :
              \/ account'[u] = account[u]
              \/ u \in Created /\ account'[u] \in AccountRow
        BY <2>1, <4>1, <4>2, <4>3
      <4>5. account' \in [AccountIds -> AccountRow \cup {None}]
        BY <4>1, <4>4 DEF AccountsTypeOK
      <4>6. QED
        BY <4>4, <4>5 DEF Created
    <3>3. QED
      BY <3>1, <3>2
  <2>3. unlinked' \in SUBSET AccountIds /\ dormant' \in SUBSET AccountIds
    BY <1>5, CommitUpdateStep DEF AccountsOf, Created, AccountsTypeOK
  <2>4. change' = [change EXCEPT ![r] = None] /\ session' = session
    BY <1>5, CommitUpdateStep
  <2>5. AccountsTypeOK'
    BY <2>2, <2>3, <2>4 DEF AccountsTypeOK
  <2>6. Editing' \subseteq Editing \ {r} /\ \A e \in Editing' : change'[e] = change[e]
    BY <2>4 DEF AccountsTypeOK, Editing
  <2>7. QED
    BY <2>2, <2>5, <2>6 DEF EditsTheirs
<1>6. ASSUME NEW r \in Edits, FailRequest(r) PROVE AccountsTypeOK' /\ EditsTheirs'
  <2>1. Editing' \subseteq Editing \ {r} /\ \A e \in Editing' : change'[e] = change[e]
    BY <1>6 DEF FailRequest, AccountsTypeOK, Editing
  <2>2. QED
    BY <1>6, <2>1 DEF FailRequest, AccountsTypeOK, EditsTheirs, Created
<1>7. ASSUME NEW U \in SUBSET AccountIds, DeactivateMany(U) PROVE AccountsTypeOK' /\ EditsTheirs'
  <2>1. \A u \in U : [account[u] EXCEPT !.active = FALSE] \in AccountRow
    BY <1>7, CreatedRow DEF DeactivateMany, AccountRow
  <2>2. /\ account' \in [AccountIds -> AccountRow \cup {None}]
        /\ \A u \in AccountIds : account'[u] # None <=> account[u] # None
    BY <1>7, <2>1 DEF DeactivateMany, AccountsTypeOK, Created
  <2>3. AccountsTypeOK'
    BY <1>7, <2>2 DEF DeactivateMany, AccountsTypeOK
  <2>4. Created' = Created /\ Editing' = Editing /\ change' = change
    BY <1>7, <2>2 DEF DeactivateMany, Created, Editing
  <2>5. QED
    BY <2>3, <2>4 DEF EditsTheirs
<1>8. ASSUME NEW k \in Sessions, (\E u \in AccountIds : Login(k, u)) \/ Logout(k)
      PROVE  AccountsTypeOK' /\ EditsTheirs'
  BY <1>8 DEF Login, Logout, AccountsTypeOK, EditsTheirs, Editing, Created
<1>9. CASE UNCHANGED accountVars
  BY <1>9 DEF accountVars, AccountsTypeOK, EditsTheirs, Editing, Created
<1>10. QED
  BY <1>1, <1>2, <1>3, <1>4, <1>5, <1>6, <1>7, <1>8, <1>9 DEF AccountsNext

(* What is written over has a student when it needs one, and one account keeps *)
(* each student.                                                              *)
LEMMA StudentsKept ==
  AccountsTypeOK /\ EditsTheirs /\ RowsHaveStudents /\ StudentAccounts /\ [AccountsNext]_accountVars
    => RowsHaveStudents' /\ StudentAccounts'
<1> SUFFICES ASSUME AccountsTypeOK, EditsTheirs, RowsHaveStudents, StudentAccounts,
                    [AccountsNext]_accountVars
             PROVE  RowsHaveStudents' /\ StudentAccounts'
  OBVIOUS
<1> USE AccountRowAssumption
<1>1. ASSUME NEW r \in Edits, NEW u \in AccountIds, NEW role \in CompanyRoles,
             NEW s \in Enrolled \cup {None}, StartCreate(r, u, role, s)
      PROVE  RowsHaveStudents' /\ StudentAccounts'
  <2>1. /\ role = "USER" => s # None
        /\ change' = [change EXCEPT ![r] =
             [step |-> "create", user |-> u, asked |-> TRUE,
              row |-> [role |-> role, student |-> s, active |-> TRUE]]]
        /\ UNCHANGED <<account, unlinked>>
    BY <1>1 DEF StartCreate, Identity
  <2>2. RowsHaveStudents'
    BY <2>1 DEF RowsHaveStudents, Editing, AccountsTypeOK
  <2>3. QED
    BY <2>1, <2>2 DEF StudentAccounts, Created
<1>2. ASSUME NEW r \in Edits, CommitCreate(r) PROVE RowsHaveStudents' /\ StudentAccounts'
  <2> DEFINE q == change[r]
  <2>1. /\ r \in Editing /\ q.step = "create"
        /\ change' = [change EXCEPT ![r] = None] /\ unlinked' = unlinked
        /\ account' = IF AccountsOf(q.row.student) # {} THEN account
                      ELSE [account EXCEPT ![q.user] = q.row]
    BY <1>2 DEF CommitCreate, Editing
  <2>2. RowsHaveStudents'
    BY <2>1 DEF RowsHaveStudents, Editing, AccountsTypeOK
  <2>3. CASE account' = account
    BY <2>1, <2>2, <2>3 DEF StudentAccounts, Created
  <2>4. CASE AccountsOf(q.row.student) = {} /\ account' = [account EXCEPT ![q.user] = q.row]
    <3>1. q.row.role = "USER" => q.row.student # None
      BY <2>1 DEF RowsHaveStudents
    <3>2. \A u \in Created : q.row.student # None => account[u].student # q.row.student
      BY <2>4 DEF AccountsOf
    <3>3. \A u \in Created' : u = q.user \/ u \in Created
      BY <2>4 DEF Created, AccountsTypeOK
    <3>4. q.user \in AccountIds
      BY <2>1, EditInProgress DEF Edit
    <3>5. \A u \in Created' : account'[u] = IF u = q.user THEN q.row ELSE account[u]
      BY <2>4, <3>4 DEF Created, AccountsTypeOK
    <3>6. QED
      BY <2>1, <2>2, <3>1, <3>2, <3>3, <3>5 DEF StudentAccounts
  <2>5. QED
    BY <2>1, <2>3, <2>4
<1>3. ASSUME NEW r \in Edits, NEW u \in AccountIds, StartUpdate(r, u)
      PROVE  RowsHaveStudents' /\ StudentAccounts'
  BY <1>3 DEF StartUpdate, RowsHaveStudents, StudentAccounts, Editing, Created, AccountsTypeOK
<1>4. ASSUME NEW r \in Edits, CheckUpdate(r) PROVE RowsHaveStudents' /\ StudentAccounts'
  <2>1. PICK data \in AccountRow, asked \in BOOLEAN :
          /\ data.role = "USER" => data.student # None
          /\ change' = [change EXCEPT ![r] =
               [step |-> "write", user |-> change[r].user, asked |-> asked, row |-> data]]
    BY <1>4, CheckUpdateStep
  <2>2. RowsHaveStudents'
    BY <2>1 DEF RowsHaveStudents, Editing, AccountsTypeOK
  <2>3. UNCHANGED <<account, unlinked>>
    BY <1>4 DEF CheckUpdate
  <2>4. QED
    BY <2>2, <2>3 DEF StudentAccounts, Created
<1>5. ASSUME NEW r \in Edits, CommitUpdate(r) PROVE RowsHaveStudents' /\ StudentAccounts'
  <2> DEFINE q == change[r]
             others == AccountsOf(q.row.student) \ {q.user}
  <2>1. r \in Editing /\ q.step = "write" /\ q.user \in Created /\ change' = [change EXCEPT ![r] = None]
    BY <1>5, CommitUpdateStep
  <2>2. RowsHaveStudents'
    BY <2>1 DEF RowsHaveStudents, Editing, AccountsTypeOK
  <2>3. CASE UNCHANGED <<account, unlinked>>
    BY <2>2, <2>3 DEF StudentAccounts, Created
  <2>4. CASE ~UNCHANGED <<account, unlinked>>
    <3>1. PICK s \in Enrolled \cup {None} :
            /\ s = IF q.row.student = None THEN account[q.user].student ELSE q.row.student
            /\ account' = [u \in AccountIds |->
                 IF u = q.user THEN [role |-> q.row.role, student |-> s, active |-> q.row.active]
                 ELSE IF u \in others THEN [account[u] EXCEPT !.student = None]
                 ELSE account[u]]
            /\ unlinked' = unlinked \cup others
      BY <1>5, <2>4, CommitUpdateStep
    <3>2. q.row.role = "USER" => q.row.student # None
      BY <2>1 DEF RowsHaveStudents
    <3>3. \A u \in Created' : u \in Created /\ u \in AccountIds
      BY <2>1, <3>1 DEF Created, AccountsOf
    <3>4. \A u \in Created : account[u] \in AccountRow
      BY CreatedRow
    <3>5. /\ account'[q.user].student = s /\ account'[q.user].role = q.row.role
          /\ \A u \in Created' \ {q.user} :
               IF u \in others THEN account'[u].student = None /\ account'[u].role = account[u].role
               ELSE account'[u] = account[u]
      BY <2>1, <3>1, <3>3, <3>4 DEF AccountRow, Created
    <3>6. \A u \in Created' \ {q.user} : account'[u].student = s => s = None
      <4>1. CASE q.row.student = None
        BY <2>1, <3>1, <3>3, <3>5, <4>1 DEF StudentAccounts
      <4>2. CASE q.row.student # None
        BY <3>1, <3>3, <3>5, <4>2 DEF AccountsOf
      <4>3. QED
        BY <4>1, <4>2
    <3>7. \A u, v \in Created' :
            account'[u].student = account'[v].student /\ account'[u].student # None => u = v
      BY <3>3, <3>5, <3>6 DEF StudentAccounts
    <3>8. \A u \in Created' \ unlinked' : account'[u].role = "USER" => account'[u].student # None
      BY <3>1, <3>2, <3>3, <3>5 DEF StudentAccounts
    <3>9. QED
      BY <2>2, <3>7, <3>8 DEF StudentAccounts
  <2>5. QED
    BY <2>3, <2>4
<1>6. ASSUME NEW r \in Edits, FailRequest(r) PROVE RowsHaveStudents' /\ StudentAccounts'
  BY <1>6 DEF FailRequest, RowsHaveStudents, StudentAccounts, Editing, Created, AccountsTypeOK
<1>7. ASSUME NEW U \in SUBSET AccountIds, DeactivateMany(U)
      PROVE  RowsHaveStudents' /\ StudentAccounts'
  <2>1. /\ UNCHANGED <<change, unlinked>>
        /\ account' = [u \in AccountIds |->
             IF u \in U THEN [account[u] EXCEPT !.active = FALSE] ELSE account[u]]
        /\ U \subseteq Created
    BY <1>7 DEF DeactivateMany
  <2>2. \A u \in Created : account[u] \in AccountRow
    BY CreatedRow
  <2>3. \A u \in Created' :
          /\ u \in Created
          /\ account'[u].role = account[u].role /\ account'[u].student = account[u].student
    BY <2>1, <2>2 DEF Created, AccountRow
  <2>4. QED
    BY <2>1, <2>3 DEF StudentAccounts, RowsHaveStudents, Editing
<1>8. ASSUME NEW k \in Sessions, (\E u \in AccountIds : Login(k, u)) \/ Logout(k)
      PROVE  RowsHaveStudents' /\ StudentAccounts'
  BY <1>8 DEF Login, Logout, RowsHaveStudents, StudentAccounts, Editing, Created
<1>9. CASE UNCHANGED accountVars
  BY <1>9 DEF accountVars, RowsHaveStudents, StudentAccounts, Editing, Created
<1>10. QED
  BY <1>1, <1>2, <1>3, <1>4, <1>5, <1>6, <1>7, <1>8, <1>9 DEF AccountsNext

(* A dormant account stays inactive until a request asks for an activity: what *)
(* a request read of it before it was deactivated keeps it out of dormant.     *)
LEMMA DormantKept ==
  AccountsTypeOK /\ EditsTheirs /\ DormantOff /\ [AccountsNext]_accountVars => DormantOff'
<1> SUFFICES ASSUME AccountsTypeOK, EditsTheirs, DormantOff, [AccountsNext]_accountVars
             PROVE  DormantOff'
  OBVIOUS
<1> USE AccountRowAssumption
<1>1. ASSUME NEW r \in Edits, NEW u \in AccountIds, NEW role \in CompanyRoles,
             NEW s \in Enrolled \cup {None}, StartCreate(r, u, role, s)
      PROVE  DormantOff'
  BY <1>1 DEF StartCreate, DormantOff, Editing, Created, AccountsTypeOK
<1>2. ASSUME NEW r \in Edits, CommitCreate(r) PROVE DormantOff'
  <2>1. r \in Editing /\ change[r].user \notin Created /\ change[r].user \in AccountIds
    BY <1>2, EditInProgress DEF CommitCreate, Editing, EditsTheirs, Edit
  <2>2. \A u \in Created : account'[u] = account[u]
    BY <1>2, <2>1 DEF CommitCreate, Created, AccountsTypeOK
  <2>3. /\ Editing' \subseteq Editing /\ dormant' = dormant
        /\ \A q \in Editing' : change'[q] = change[q]
    BY <1>2 DEF CommitCreate, Editing, AccountsTypeOK
  <2>4. QED
    BY <2>2, <2>3 DEF DormantOff, Created
<1>3. ASSUME NEW r \in Edits, NEW u \in AccountIds, StartUpdate(r, u) PROVE DormantOff'
  BY <1>3 DEF StartUpdate, DormantOff, Editing, Created, AccountsTypeOK
<1>4. ASSUME NEW r \in Edits, CheckUpdate(r) PROVE DormantOff'
  <2>1. PICK data \in AccountRow, asked \in BOOLEAN :
          /\ asked \/ data.active = change[r].row.active
          /\ change' = [change EXCEPT ![r] =
               [step |-> "write", user |-> change[r].user, asked |-> asked, row |-> data]]
    BY <1>4, CheckUpdateStep
  <2>2. r \in Editing /\ change[r].step = "check" /\ UNCHANGED <<account, dormant>>
    BY <1>4, CheckUpdateStep
  <2>3. QED
    BY <2>1, <2>2 DEF DormantOff, Editing, Created, AccountsTypeOK
<1>5. ASSUME NEW r \in Edits, CommitUpdate(r) PROVE DormantOff'
  <2> DEFINE q == change[r]
  <2>1. r \in Editing /\ q.step = "write" /\ q.user \in Created /\ change' = [change EXCEPT ![r] = None]
    BY <1>5, CommitUpdateStep
  <2>2. Editing' \subseteq Editing /\ \A e \in Editing' : change'[e] = change[e]
    BY <2>1 DEF Editing, AccountsTypeOK
  <2>3. CASE UNCHANGED <<account, dormant>>
    BY <2>2, <2>3 DEF DormantOff, Created
  <2>4. CASE ~UNCHANGED <<account, dormant>>
    <3>1. PICK s \in Enrolled \cup {None} :
            /\ account' = [u \in AccountIds |->
                 IF u = q.user THEN [role |-> q.row.role, student |-> s, active |-> q.row.active]
                 ELSE IF u \in AccountsOf(q.row.student) \ {q.user}
                 THEN [account[u] EXCEPT !.student = None]
                 ELSE account[u]]
            /\ dormant' = IF q.asked THEN dormant \ {q.user} ELSE dormant
      BY <1>5, <2>4, CommitUpdateStep
    <3>2. ASSUME NEW u \in dormant' PROVE u \in Created' /\ ~account'[u].active
      <4>1. u \in dormant /\ u \in Created /\ account[u] \in AccountRow /\ ~account[u].active
        BY <3>1, CreatedRow DEF DormantOff
      <4>2. u = q.user => ~q.asked /\ ~q.row.active
        BY <2>1, <3>1, <3>2 DEF DormantOff
      <4>3. account'[u] \in AccountRow /\ ~account'[u].active
        <5>1. q.row \in AccountRow
          BY <2>1, EditInProgress
        <5>2. QED
          BY <3>1, <4>1, <4>2, <5>1 DEF AccountRow, Created
      <4>4. QED
        BY <4>1, <4>3 DEF Created
    <3>3. QED
      BY <2>2, <3>1, <3>2 DEF DormantOff
  <2>5. QED
    BY <2>3, <2>4
<1>6. ASSUME NEW r \in Edits, FailRequest(r) PROVE DormantOff'
  BY <1>6 DEF FailRequest, DormantOff, Editing, Created, AccountsTypeOK
<1>7. ASSUME NEW U \in SUBSET AccountIds, DeactivateMany(U) PROVE DormantOff'
  <2>1. /\ change' = change /\ U \subseteq Created
        /\ account' = [u \in AccountIds |->
             IF u \in U THEN [account[u] EXCEPT !.active = FALSE] ELSE account[u]]
        /\ dormant' = dormant \cup (U \ {change[r].user : r \in Editing})
    BY <1>7 DEF DeactivateMany, Editing
  <2>2. \A u \in Created : account[u] \in AccountRow
    BY CreatedRow
  <2>3. \A u \in dormant' : u \in Created
    BY <2>1 DEF DormantOff
  <2>4. \A u \in Created : account'[u] \in AccountRow /\ (account'[u].active => u \notin U /\ account[u].active)
    BY <2>1, <2>2 DEF AccountRow, Created
  <2>5. \A u \in dormant' : u \in Created' /\ ~account'[u].active
    BY <2>1, <2>3, <2>4 DEF DormantOff, Created
  <2>6. QED
    BY <2>1, <2>5 DEF DormantOff, Editing
<1>8. ASSUME NEW k \in Sessions, (\E u \in AccountIds : Login(k, u)) \/ Logout(k)
      PROVE  DormantOff'
  BY <1>8 DEF Login, Logout, DormantOff, Editing, Created
<1>9. CASE UNCHANGED accountVars
  BY <1>9 DEF accountVars, DormantOff, Editing, Created
<1>10. QED
  BY <1>1, <1>2, <1>3, <1>4, <1>5, <1>6, <1>7, <1>8, <1>9 DEF AccountsNext

LEMMA AccountsInvariant == AccountsSpec => []AccountsInv
<1>1. AccountsInit => AccountsInv
  BY DEF AccountsInit, AccountsInv, AccountsTypeOK, EditsTheirs, RowsHaveStudents,
         StudentAccounts, DormantOff, Editing, Created
<1>2. AccountsInv /\ [AccountsNext]_accountVars => AccountsInv'
  BY AccountsBase, StudentsKept, DormantKept DEF AccountsInv
<1>3. QED
  BY <1>1, <1>2, PTL DEF AccountsSpec

(* The accounts, the requests and the sessions keep their types. *)
THEOREM AccountsTypeCorrect == AccountsSpec => []AccountsTypeOK
<1>1. AccountsInv => AccountsTypeOK
  BY DEF AccountsInv
<1>2. QED
  BY <1>1, AccountsInvariant, PTL

(* No student has two accounts, and the account of a student has its student   *)
(* unless another took it in a race, for any number of overlapping creations   *)
(* and updates.                                                               *)
THEOREM OneAccountPerStudent == AccountsSpec => []StudentAccounts
<1>1. AccountsInv => StudentAccounts
  BY DEF AccountsInv
<1>2. QED
  BY <1>1, AccountsInvariant, PTL

(* An account that was deactivated while no update of it was in progress opens *)
(* no door until a request activates it again, however many requests and       *)
(* sessions there are.  One deactivated between the read and the write of an    *)
(* update is left out: that update revives it.                                 *)
THEOREM DeactivatedStaysOut == AccountsSpec => []DeactivatedIsOut
<1>1. AccountsInv => DeactivatedIsOut
  BY DEF AccountsInv, DormantOff, DeactivatedIsOut, Admitted
<1>2. QED
  BY <1>1, AccountsInvariant, PTL

-----------------------------------------------------------------------------
(* An onboarding in progress, a company and an entry of smsChallenges are of   *)
(* the declared types.                                                        *)
LEMMA OnboardingRows ==
  ASSUME OnboardingTypeOK
  PROVE  /\ \A x \in Signed : company[x] \in CompanyRow
         /\ \A o \in Onboardings : onboarding[o] # None => onboarding[o] \in Onboarding
         /\ \A p \in Phones : current[p] # None => current[p] \in Challenges
BY DEF OnboardingTypeOK, Signed

(* The object of a phone, of an onboarding and of a company exists; the first  *)
(* two are of the phone they are kept for.                                    *)
ChallengesExist ==
  /\ \A p \in Phones : current[p] # None =>
       challenge[current[p]] # None /\ challenge[current[p]].phone = p
  /\ \A o \in Onboardings : onboarding[o] # None =>
       /\ challenge[onboarding[o].challenge] # None
       /\ challenge[onboarding[o].challenge].phone = onboarding[o].phone
  /\ \A x \in Signed : challenge[company[x].challenge] # None
  /\ edit # None => edit.company \in Signed

OnboardingInv == OnboardingTypeOK /\ ChallengesExist /\ VerificationSpent

(* A step that creates no challenge keeps the phones of those there are. *)
LEMMA ChallengeSteps ==
  ASSUME OnboardingTypeOK, ChallengesExist, [OnboardingNext]_onboardingVars
  PROVE  /\ challenge' \in [Challenges -> Challenge \cup {None}]
         /\ \A c \in Challenges : challenge[c] # None =>
              challenge'[c] # None /\ challenge'[c].phone = challenge[c].phone
<1> USE OnboardingNullAssumption
<1>1. ASSUME NEW p \in Phones, NEW c \in Challenges, SendSmsCode(p, c)
      PROVE  /\ challenge' \in [Challenges -> Challenge \cup {None}]
             /\ \A d \in Challenges : challenge[d] # None => challenge'[d] = challenge[d]
  BY <1>1 DEF SendSmsCode, OnboardingTypeOK, Challenge
<1>2. ASSUME NEW c \in Challenges, challenge[c] # None, NEW d \in Challenge,
             d.phone = challenge[c].phone, challenge' = [challenge EXCEPT ![c] = d]
      PROVE  /\ challenge' \in [Challenges -> Challenge \cup {None}]
             /\ \A e \in Challenges : challenge[e] # None =>
                  challenge'[e] # None /\ challenge'[e].phone = challenge[e].phone
  BY <1>2 DEF OnboardingTypeOK
<1>3. ASSUME NEW c \in Challenges, Expire(c)
      PROVE  \E d \in Challenge :
               /\ challenge[c] # None /\ d.phone = challenge[c].phone
               /\ challenge' = [challenge EXCEPT ![c] = d]
  <2>1. challenge[c] \in Challenge /\ challenge[c] # None
    BY <1>3 DEF Expire, OnboardingTypeOK
  <2> DEFINE d == [challenge[c] EXCEPT !.expired = TRUE]
  <2>2. d \in Challenge /\ d.phone = challenge[c].phone
    BY <2>1 DEF Challenge
  <2>3. challenge' = [challenge EXCEPT ![c] = d]
    BY <1>3 DEF Expire
  <2>4. QED
    BY <2>1, <2>2, <2>3
<1>4. ASSUME NEW p \in Phones, VerifySmsCode(p)
      PROVE  \E c \in Challenges, d \in Challenge :
               /\ challenge[c] # None /\ d.phone = challenge[c].phone
               /\ challenge' = [challenge EXCEPT ![c] = d]
  <2> DEFINE c == current[p]
             d == [challenge[c] EXCEPT !.verified = TRUE]
  <2>1. c \in Challenges /\ challenge[c] # None
    BY <1>4, OnboardingRows DEF VerifySmsCode, ChallengesExist
  <2>2. challenge[c] \in Challenge
    BY <2>1 DEF OnboardingTypeOK
  <2>3. d \in Challenge /\ d.phone = challenge[c].phone
    BY <2>2 DEF Challenge
  <2>4. challenge' = [challenge EXCEPT ![c] = d]
    BY <1>4 DEF VerifySmsCode
  <2>5. QED
    BY <2>1, <2>3, <2>4
<1>5. CASE challenge' = challenge
  BY <1>5 DEF OnboardingTypeOK
<1>6. QED
  BY <1>1, <1>2, <1>3, <1>4, <1>5
     DEF OnboardingNext, VerifyTooLate, StartOnboarding, CheckCompany, CheckEmail, CreateCompany,
         RefuseCompany, FinishOnboarding, StartEdit, WriteEdit, Restart, onboardingVars

(* Types and the existence of challenges are kept by every step. *)
LEMMA OnboardingBase ==
  OnboardingTypeOK /\ ChallengesExist /\ [OnboardingNext]_onboardingVars
    => OnboardingTypeOK' /\ ChallengesExist'
<1> SUFFICES ASSUME OnboardingTypeOK, ChallengesExist, [OnboardingNext]_onboardingVars
             PROVE  OnboardingTypeOK' /\ ChallengesExist'
  OBVIOUS
<1> USE OnboardingNullAssumption
<1> DEFINE Onboard(o) ==
      /\ challenge[o.challenge] # None
      /\ challenge[o.challenge].phone = o.phone
<1>1. /\ challenge' \in [Challenges -> Challenge \cup {None}]
      /\ \A c \in Challenges : challenge[c] # None =>
           challenge'[c] # None /\ challenge'[c].phone = challenge[c].phone
  BY ChallengeSteps
<1>2. ASSUME current' \in [Phones -> Challenges \cup {None}],
             \A p \in Phones : current'[p] = current[p] \/ current'[p] = None
      PROVE  \A p \in Phones : current'[p] # None =>
               challenge'[current'[p]] # None /\ challenge'[current'[p]].phone = p
  BY <1>1, <1>2 DEF ChallengesExist
<1>3. ASSUME onboarding' \in [Onboardings -> Onboarding \cup {None}],
             \A o \in Onboardings : onboarding'[o] # None =>
               /\ onboarding[o] # None
               /\ onboarding'[o].challenge = onboarding[o].challenge
               /\ onboarding'[o].phone = onboarding[o].phone
      PROVE  \A o \in Onboardings : onboarding'[o] # None =>
               /\ challenge'[onboarding'[o].challenge] # None
               /\ challenge'[onboarding'[o].challenge].phone = onboarding'[o].phone
  <2> TAKE o \in Onboardings
  <2> HAVE onboarding'[o] # None
  <2>1. onboarding[o] \in Onboarding
    BY <1>3, OnboardingRows
  <2>2. onboarding[o].challenge \in Challenges
    BY <2>1 DEF Onboarding
  <2>3. QED
    BY <1>1, <1>3, <2>2 DEF ChallengesExist
<1>4. ASSUME company' = company
      PROVE  /\ company' \in [Tenants -> CompanyRow \cup {None}] /\ Signed' = Signed
             /\ \A x \in Signed' : challenge'[company'[x].challenge] # None
  <2>1. \A x \in Signed : company[x].challenge \in Challenges
    BY OnboardingRows DEF CompanyRow
  <2>2. QED
    BY <1>1, <1>4, <2>1 DEF ChallengesExist, Signed, OnboardingTypeOK
<1>5. ASSUME NEW p \in Phones, NEW c \in Challenges, SendSmsCode(p, c)
      PROVE  OnboardingTypeOK' /\ ChallengesExist'
  <2>1. challenge'[c].phone = p /\ challenge'[c] # None
    <3>1. challenge'[c] = [phone |-> p, expired |-> FALSE, verified |-> FALSE]
      BY <1>5 DEF SendSmsCode, OnboardingTypeOK
    <3>2. challenge'[c] \in Challenge
      BY <3>1 DEF Challenge
    <3>3. challenge'[c] # None
      BY <3>2
    <3>4. QED
      BY <3>1, <3>3
  <2>2. current' = [current EXCEPT ![p] = c] /\ UNCHANGED <<onboarding, company, edit>>
    BY <1>5 DEF SendSmsCode
  <2>3. \A q \in Phones : current'[q] # None =>
          challenge'[current'[q]] # None /\ challenge'[current'[q]].phone = q
    <3> TAKE q \in Phones
    <3>1. CASE q = p
      BY <2>1, <2>2, <3>1 DEF OnboardingTypeOK
    <3>2. CASE q # p
      BY <1>1, <2>2, <3>2, OnboardingRows DEF OnboardingTypeOK, ChallengesExist
    <3>3. QED
      BY <3>1, <3>2
  <2>4. OnboardingTypeOK'
    BY <1>1, <2>2 DEF OnboardingTypeOK
  <2>5. QED
    BY <1>3, <1>4, <2>2, <2>3, <2>4 DEF OnboardingTypeOK, ChallengesExist
<1>6. ASSUME \/ \E c \in Challenges : Expire(c)
             \/ \E p \in Phones : VerifySmsCode(p) \/ VerifyTooLate(p)
      PROVE  OnboardingTypeOK' /\ ChallengesExist'
  <2>1. /\ UNCHANGED <<onboarding, company, edit>>
        /\ \/ current' = current
           \/ \E p \in Phones : current' = [current EXCEPT ![p] = None]
    BY <1>6 DEF Expire, VerifySmsCode, VerifyTooLate
  <2>2. /\ current' \in [Phones -> Challenges \cup {None}]
        /\ \A p \in Phones : current'[p] = current[p] \/ current'[p] = None
    BY <2>1 DEF OnboardingTypeOK
  <2>3. QED
    BY <1>1, <1>2, <1>3, <1>4, <2>1, <2>2 DEF OnboardingTypeOK, ChallengesExist
<1>7. ASSUME NEW o \in Onboardings, NEW p \in Phones, NEW cnpj \in Cnpjs, NEW domain \in Domains,
             StartOnboarding(o, p, cnpj, domain)
      PROVE  OnboardingTypeOK' /\ ChallengesExist'
  <2> DEFINE r == [step |-> "company", phone |-> p, challenge |-> current[p], cnpj |-> cnpj,
                   domain |-> domain]
  <2>1. onboarding' = [onboarding EXCEPT ![o] = r] /\ UNCHANGED <<challenge, current, company, edit>>
    BY <1>7 DEF StartOnboarding
  <2>2. current[p] \in Challenges /\ challenge[current[p]] # None /\ challenge[current[p]].phone = p
    BY <1>7, OnboardingRows DEF StartOnboarding, ChallengesExist
  <2>3. r \in Onboarding
    BY <2>2 DEF Onboarding
  <2>4. OnboardingTypeOK'
    BY <2>1, <2>3 DEF OnboardingTypeOK
  <2>5. \A q \in Onboardings : onboarding'[q] = IF q = o THEN r ELSE onboarding[q]
    BY <2>1 DEF OnboardingTypeOK
  <2>6. QED
    BY <1>4, <2>1, <2>2, <2>4, <2>5 DEF ChallengesExist
<1>8. ASSUME NEW o \in Onboardings, NEW step \in {"email", "create", "created"},
             onboarding[o] # None,
             \/ onboarding' = [onboarding EXCEPT ![o] = None]
             \/ onboarding' = [onboarding EXCEPT ![o].step = step]
      PROVE  /\ onboarding' \in [Onboardings -> Onboarding \cup {None}]
             /\ \A q \in Onboardings : onboarding'[q] # None =>
                  /\ onboarding[q] # None
                  /\ onboarding'[q].challenge = onboarding[q].challenge
                  /\ onboarding'[q].phone = onboarding[q].phone
  <2> DEFINE r == [onboarding[o] EXCEPT !.step = step]
  <2>1. onboarding[o] \in Onboarding
    BY <1>8, OnboardingRows
  <2>2. r \in Onboarding /\ r.challenge = onboarding[o].challenge /\ r.phone = onboarding[o].phone
    BY <2>1 DEF Onboarding
  <2>3. \/ onboarding' = [onboarding EXCEPT ![o] = None]
        \/ onboarding' = [onboarding EXCEPT ![o] = r]
    BY <1>8
  <2>4. QED
    BY <1>8, <2>2, <2>3 DEF OnboardingTypeOK
<1>9. ASSUME NEW o \in Onboardings, CheckCompany(o) \/ CheckEmail(o) \/ RefuseCompany(o)
      PROVE  OnboardingTypeOK' /\ ChallengesExist'
  <2>1. /\ UNCHANGED <<challenge, current, company, edit>> /\ onboarding[o] # None
        /\ \E step \in {"email", "create"} :
             \/ onboarding' = [onboarding EXCEPT ![o] = None]
             \/ onboarding' = [onboarding EXCEPT ![o].step = step]
    BY <1>9 DEF CheckCompany, CheckEmail, RefuseCompany, Leave
  <2>2. QED
    BY <1>2, <1>3, <1>4, <1>8, <2>1 DEF OnboardingTypeOK, ChallengesExist
<1>10. ASSUME NEW o \in Onboardings, NEW x \in Tenants, CreateCompany(o, x)
       PROVE  OnboardingTypeOK' /\ ChallengesExist'
  <2> DEFINE r == [cnpj |-> onboarding[o].cnpj, domain |-> onboarding[o].domain,
                   challenge |-> onboarding[o].challenge]
  <2>1. /\ UNCHANGED <<challenge, current, edit>> /\ onboarding[o] # None
        /\ onboarding' = [onboarding EXCEPT ![o].step = "created"]
        /\ company' = [company EXCEPT ![x] = r]
    BY <1>10 DEF CreateCompany
  <2>2. onboarding[o] \in Onboarding
    BY <2>1, OnboardingRows
  <2>3. r \in CompanyRow /\ challenge[r.challenge] # None
    BY <2>1, <2>2 DEF Onboarding, CompanyRow, ChallengesExist
  <2>4. OnboardingTypeOK'
    BY <1>8, <2>1, <2>3 DEF OnboardingTypeOK
  <2>5. Signed' = Signed \cup {x} /\ \A y \in Signed' : company'[y] = IF y = x THEN r ELSE company[y]
    BY <2>1, <2>3 DEF Signed, OnboardingTypeOK
  <2>6. QED
    BY <1>2, <1>3, <1>8, <2>1, <2>3, <2>4, <2>5 DEF OnboardingTypeOK, ChallengesExist
<1>11. ASSUME NEW o \in Onboardings, FinishOnboarding(o)
       PROVE  OnboardingTypeOK' /\ ChallengesExist'
  <2>1. /\ UNCHANGED <<challenge, company, edit>> /\ onboarding[o] # None
        /\ current' = [current EXCEPT ![onboarding[o].phone] = None]
        /\ onboarding' = [onboarding EXCEPT ![o] = None]
    BY <1>11 DEF FinishOnboarding, Leave
  <2>2. /\ current' \in [Phones -> Challenges \cup {None}]
        /\ \A p \in Phones : current'[p] = current[p] \/ current'[p] = None
    BY <2>1 DEF OnboardingTypeOK
  <2>3. QED
    BY <1>2, <1>3, <1>4, <1>8, <2>1, <2>2 DEF OnboardingTypeOK, ChallengesExist
<1>12. ASSUME NEW x \in Tenants, NEW cnpj \in Cnpjs, StartEdit(x, cnpj)
       PROVE  OnboardingTypeOK' /\ ChallengesExist'
  BY <1>12 DEF StartEdit, OnboardingTypeOK, ChallengesExist, Signed
<1>13. ASSUME WriteEdit PROVE OnboardingTypeOK' /\ ChallengesExist'
  <2> DEFINE x == edit.company
             r == [company[x] EXCEPT !.cnpj = edit.cnpj]
  <2>1. /\ edit # None /\ edit' = None /\ UNCHANGED <<challenge, current, onboarding>>
        /\ \/ company' = company
           \/ company' = [company EXCEPT ![x] = r]
    BY <1>13 DEF WriteEdit
  <2>2. x \in Signed /\ x \in Tenants /\ edit.cnpj \in Cnpjs /\ company[x] \in CompanyRow
    BY <2>1, OnboardingRows DEF ChallengesExist, OnboardingTypeOK, Signed
  <2>3. r \in CompanyRow /\ r.challenge = company[x].challenge
    BY <2>2 DEF CompanyRow
  <2>4. OnboardingTypeOK'
    BY <2>1, <2>2, <2>3 DEF OnboardingTypeOK
  <2>5. Signed' = Signed /\ \A y \in Signed : company'[y].challenge = company[y].challenge
    BY <2>1, <2>2, <2>3 DEF Signed, OnboardingTypeOK
  <2>6. QED
    BY <2>1, <2>4, <2>5 DEF ChallengesExist
<1>14. CASE Restart
  <2>1. /\ current' = [p \in Phones |-> None] /\ onboarding' = [o \in Onboardings |-> None]
        /\ edit' = None /\ UNCHANGED <<challenge, company>>
    BY <1>14 DEF Restart
  <2>2. QED
    BY <1>1, <1>4, <2>1 DEF OnboardingTypeOK, ChallengesExist
<1>15. CASE UNCHANGED onboardingVars
  BY <1>15 DEF onboardingVars, OnboardingTypeOK, ChallengesExist, Signed
<1>16. QED
  BY <1>5, <1>6, <1>7, <1>9, <1>10, <1>11, <1>12, <1>13, <1>14, <1>15 DEF OnboardingNext

(* The challenge of a company leaves smsChallenges with the onboarding that    *)
(* created it: an entry of a phone is only replaced by a new challenge, and    *)
(* an onboarding that is over has deleted the entry of the phone it was for.   *)
LEMMA SpentKept ==
  OnboardingInv /\ [OnboardingNext]_onboardingVars => VerificationSpent'
<1> SUFFICES ASSUME OnboardingTypeOK, ChallengesExist, VerificationSpent,
                    [OnboardingNext]_onboardingVars
             PROVE  VerificationSpent'
  BY DEF OnboardingInv
<1> USE OnboardingNullAssumption
<1> DEFINE Finishing1(c) ==
      \E o \in Onboardings :
        onboarding'[o] # None /\ onboarding'[o].step = "created" /\ onboarding'[o].challenge = c
<1>1. \A x \in Signed :
        /\ company[x].challenge \in Challenges
        /\ challenge[company[x].challenge] # None
        /\ challenge[company[x].challenge].phone \in Phones
        /\ challenge'[company[x].challenge].phone = challenge[company[x].challenge].phone
  <2> TAKE x \in Signed
  <2>1. company[x].challenge \in Challenges /\ challenge[company[x].challenge] # None
    BY OnboardingRows DEF CompanyRow, ChallengesExist
  <2>2. challenge[company[x].challenge] \in Challenge
    BY <2>1 DEF OnboardingTypeOK
  <2>3. QED
    BY <2>1, <2>2, ChallengeSteps DEF Challenge
<1>2. ASSUME \A x \in Signed' : x \in Signed /\ company'[x].challenge = company[x].challenge,
             \A p \in Phones : current'[p] = current[p] \/ current'[p] = None
                               \/ current'[p] \in {c \in Challenges : challenge[c] = None},
             \A c \in Challenges : Finishing(c) => Finishing1(c)
      PROVE  VerificationSpent'
  <2> SUFFICES ASSUME NEW x \in Signed',
                      current'[challenge'[company'[x].challenge].phone] = company'[x].challenge
               PROVE  Finishing1(company'[x].challenge)
    BY DEF VerificationSpent, Finishing
  <2> DEFINE c == company[x].challenge
             p == challenge[c].phone
  <2>1. x \in Signed /\ company'[x].challenge = c
    BY <1>2
  <2>2. c \in Challenges /\ challenge[c] # None /\ p \in Phones /\ challenge'[c].phone = p
    BY <1>1, <2>1
  <2>3. current'[p] = c
    BY <2>1, <2>2
  <2>4. current[p] = c
    BY <1>2, <2>2, <2>3
  <2>5. Finishing(c)
    BY <2>1, <2>4 DEF VerificationSpent
  <2>6. QED
    BY <1>2, <2>1, <2>2, <2>5
<1>3. ASSUME NEW p \in Phones, NEW c \in Challenges, SendSmsCode(p, c) PROVE VerificationSpent'
  <2>1. /\ challenge[c] = None /\ current' = [current EXCEPT ![p] = c]
        /\ UNCHANGED <<onboarding, company>>
    BY <1>3 DEF SendSmsCode
  <2>2. \A q \in Phones : current'[q] = current[q] \/ current'[q] = c
    BY <2>1 DEF OnboardingTypeOK
  <2>3. QED
    BY <1>2, <2>1, <2>2 DEF Signed, Finishing
<1>4. ASSUME \/ \E c \in Challenges : Expire(c)
             \/ \E p \in Phones : VerifySmsCode(p) \/ VerifyTooLate(p)
      PROVE  VerificationSpent'
  <2>1. /\ UNCHANGED <<onboarding, company>>
        /\ \A p \in Phones : current'[p] = current[p] \/ current'[p] = None
    BY <1>4 DEF Expire, VerifySmsCode, VerifyTooLate, OnboardingTypeOK
  <2>2. QED
    BY <1>2, <2>1 DEF Signed, Finishing
<1>5. ASSUME NEW o \in Onboardings, onboarding[o] = None \/ onboarding[o].step # "created",
             \A q \in Onboardings \ {o} : onboarding'[q] = onboarding[q],
             UNCHANGED <<current, company>>
      PROVE  VerificationSpent'
  BY <1>2, <1>5 DEF Signed, Finishing
<1>6. ASSUME NEW o \in Onboardings, NEW p \in Phones, NEW cnpj \in Cnpjs, NEW domain \in Domains,
             StartOnboarding(o, p, cnpj, domain)
      PROVE  VerificationSpent'
  BY <1>5, <1>6 DEF StartOnboarding, OnboardingTypeOK
<1>7. ASSUME NEW o \in Onboardings, CheckCompany(o) \/ CheckEmail(o) \/ RefuseCompany(o)
      PROVE  VerificationSpent'
  <2>1. onboarding[o].step # "created" /\ UNCHANGED <<current, company>>
    BY <1>7 DEF CheckCompany, CheckEmail, RefuseCompany
  <2>2. \A q \in Onboardings \ {o} : onboarding'[q] = onboarding[q]
    BY <1>7 DEF CheckCompany, CheckEmail, RefuseCompany, Leave, OnboardingTypeOK
  <2>3. QED
    BY <1>5, <2>1, <2>2
<1>8. ASSUME NEW o \in Onboardings, NEW x \in Tenants, CreateCompany(o, x)
      PROVE  VerificationSpent'
  <2> DEFINE c == onboarding[o].challenge
             r == [cnpj |-> onboarding[o].cnpj, domain |-> onboarding[o].domain, challenge |-> c]
  <2>1. /\ UNCHANGED <<challenge, current>> /\ onboarding[o] # None /\ onboarding[o].step = "create"
        /\ onboarding' = [onboarding EXCEPT ![o].step = "created"]
        /\ company' = [company EXCEPT ![x] = r]
    BY <1>8 DEF CreateCompany
  <2>2. onboarding'[o] \in Onboarding /\ onboarding'[o].step = "created" /\ onboarding'[o].challenge = c
    <3>1. onboarding[o] \in Onboarding
      BY <2>1, OnboardingRows
    <3>2. onboarding'[o] = [onboarding[o] EXCEPT !.step = "created"]
      BY <2>1 DEF OnboardingTypeOK
    <3>3. QED
      BY <3>1, <3>2 DEF Onboarding
  <2>3. onboarding'[o] # None
    BY <2>2
  <2>4. Finishing1(c)
    BY <2>2, <2>3
  <2>5. \A q \in Onboardings \ {o} : onboarding'[q] = onboarding[q]
    BY <2>1 DEF OnboardingTypeOK
  <2>6. \A d \in Challenges : Finishing(d) => Finishing1(d)
    BY <2>1, <2>5 DEF Finishing
  <2>7. \A y \in Signed' : IF y = x THEN company'[y] = r ELSE y \in Signed /\ company'[y] = company[y]
    BY <2>1 DEF Signed, OnboardingTypeOK
  <2>8. QED
    <3> SUFFICES ASSUME NEW y \in Signed',
                        current'[challenge'[company'[y].challenge].phone] = company'[y].challenge
                 PROVE  Finishing1(company'[y].challenge)
      BY DEF VerificationSpent, Finishing
    <3>1. CASE y = x
      BY <2>4, <2>7, <3>1
    <3>2. CASE y # x
      <4>1. y \in Signed /\ company'[y].challenge = company[y].challenge
        BY <2>7, <3>2
      <4>2. Finishing(company[y].challenge) /\ company[y].challenge \in Challenges
        BY <1>1, <2>1, <4>1 DEF VerificationSpent
      <4>3. QED
        BY <2>6, <4>1, <4>2
    <3>3. QED
      BY <3>1, <3>2
<1>9. ASSUME NEW o \in Onboardings, FinishOnboarding(o) PROVE VerificationSpent'
  <2> DEFINE c == onboarding[o].challenge
  <2>1. /\ UNCHANGED <<challenge, company>> /\ onboarding[o] # None
        /\ current' = [current EXCEPT ![onboarding[o].phone] = None]
        /\ onboarding' = [onboarding EXCEPT ![o] = None]
    BY <1>9 DEF FinishOnboarding, Leave
  <2>2. challenge[c].phone = onboarding[o].phone /\ onboarding[o].phone \in Phones
    BY <2>1, OnboardingRows DEF ChallengesExist, Onboarding
  <2>3. \A d \in Challenges \ {c} : Finishing(d) => Finishing1(d)
    BY <2>1 DEF Finishing, OnboardingTypeOK
  <2>4. QED
    <3> SUFFICES ASSUME NEW y \in Signed,
                        current'[challenge[company[y].challenge].phone] = company[y].challenge
                 PROVE  Finishing1(company[y].challenge)
      BY <2>1 DEF VerificationSpent, Finishing, Signed
    <3> DEFINE d == company[y].challenge
    <3>1. d \in Challenges /\ challenge[d].phone \in Phones /\ d # None
      BY <1>1
    <3>2. challenge[d].phone # onboarding[o].phone /\ current[challenge[d].phone] = d
      BY <2>1, <3>1 DEF OnboardingTypeOK
    <3>3. d # c /\ Finishing(d)
      BY <2>2, <3>2 DEF VerificationSpent
    <3>4. QED
      BY <2>3, <3>1, <3>3
<1>10. ASSUME NEW x \in Tenants, NEW cnpj \in Cnpjs, StartEdit(x, cnpj) PROVE VerificationSpent'
  BY <1>2, <1>10 DEF StartEdit, Signed, Finishing
<1>11. ASSUME WriteEdit PROVE VerificationSpent'
  <2> DEFINE x == edit.company
             r == [company[x] EXCEPT !.cnpj = edit.cnpj]
  <2>1. /\ edit # None /\ UNCHANGED <<current, onboarding>>
        /\ \/ company' = company
           \/ company' = [company EXCEPT ![x] = r]
    BY <1>11 DEF WriteEdit
  <2>2. x \in Signed /\ x \in Tenants /\ company[x] \in CompanyRow
    BY <2>1, OnboardingRows DEF ChallengesExist, OnboardingTypeOK, Signed
  <2>3. r.challenge = company[x].challenge
    BY <2>2 DEF CompanyRow
  <2>4. \A y \in Signed' : y \in Signed /\ company'[y].challenge = company[y].challenge
    BY <2>1, <2>2, <2>3 DEF Signed, OnboardingTypeOK
  <2>5. QED
    BY <1>2, <2>1, <2>4 DEF Finishing
<1>12. ASSUME Restart PROVE VerificationSpent'
  <2>1. current' = [p \in Phones |-> None] /\ UNCHANGED <<challenge, company>>
    BY <1>12 DEF Restart
  <2>2. \A x \in Signed : current'[challenge[company[x].challenge].phone] # company[x].challenge
    BY <1>1, <2>1
  <2>3. QED
    BY <2>1, <2>2 DEF VerificationSpent, Signed
<1>13. CASE UNCHANGED onboardingVars
  BY <1>2, <1>13 DEF onboardingVars, Signed, Finishing
<1>14. QED
  BY <1>3, <1>4, <1>6, <1>7, <1>8, <1>9, <1>10, <1>11, <1>12, <1>13 DEF OnboardingNext

LEMMA OnboardingInvariant == OnboardingSpec => []OnboardingInv
<1>1. OnboardingInit => OnboardingInv
  BY DEF OnboardingInit, OnboardingInv, OnboardingTypeOK, ChallengesExist, VerificationSpent, Signed
<1>2. OnboardingInv /\ [OnboardingNext]_onboardingVars => OnboardingInv'
  BY OnboardingBase, SpentKept DEF OnboardingInv
<1>3. QED
  BY <1>1, <1>2, PTL DEF OnboardingSpec

(* The challenges, the onboardings and the companies keep their types. *)
THEOREM OnboardingTypeCorrect == OnboardingSpec => []OnboardingTypeOK
<1>1. OnboardingInv => OnboardingTypeOK
  BY DEF OnboardingInv
<1>2. QED
  BY <1>1, OnboardingInvariant, PTL

(* Once the onboarding that created a company is over, its challenge is not    *)
(* the one of its phone any more, whatever is sent, verified or lost meanwhile, *)
(* for any number of phones and onboardings: none that starts later can use    *)
(* the verification.  Those that overlap it may have read the same challenge,  *)
(* and then each makes a company.                                              *)
THEOREM VerifiedOnce == OnboardingSpec => []VerificationSpent
<1>1. OnboardingInv => VerificationSpent
  BY DEF OnboardingInv
<1>2. QED
  BY <1>1, OnboardingInvariant, PTL


-----------------------------------------------------------------------------
(* The roles of the endpoints the pages ask. *)
LEMMA EndpointRoles ==
  /\ \A name \in {"templates", "routes", "schedules", "students", "groups", "devices"} :
       RolesOf(ReadOf(name)) = Staff /\ RolesOf(ManageOf(name)) = Admin
  /\ RolesOf(<<"students", "candidates">>) = Admin
  /\ RolesOf(ReadOf("users")) = Admin /\ RolesOf(ManageOf("users")) = Admin
  /\ RolesOf(ReadOf("buses")) = Company /\ RolesOf(ManageOf("buses")) = Admin
  /\ RolesOf(<<"location", "live">>) = Company
  /\ RolesOf(<<"transport", "overview">>) = Staff
  /\ RolesOf(ReadOf("billing")) = Company /\ RolesOf(ManageOf("billing")) = Admin
  /\ RolesOf(<<"companies", "all">>) = {"PLATFORM_ADMIN"}
  /\ RolesOf(<<"companies", "me">>) = Admin
  /\ RolesOf(<<"dashboard", "overview">>) = Staff
  /\ RolesOf(<<"dashboard", "reports">>) = Admin
  /\ RolesOf(<<"rfid", "link">>) = UserRole
BY DEF RolesOf, ReadOf, ManageOf, Endpoints, ReadAndManage, BillingTemplatesController,
       RoutesController, RouteSchedulesController, StudentsController, GroupsController,
       DevicesController, UsersController, BusesController, LocationController,
       TransportController, BillingController, CompaniesController, DashboardController,
       RfidController

(* Every page of the menu asks for what the role it is offered to may have. *)
Permits(r, asked) == \A e \in asked : r \in RolesOf(e) /\ RolesOf(e) \in SUBSET UserRole

LEMMA PagesPermitted ==
  ASSUME NEW r \in UserRole
  PROVE  /\ r = "PLATFORM_ADMIN" => Permits(r, CompaniesPage(r))
         /\ r # "PLATFORM_ADMIN" => Permits(r, DashboardView(r)) /\ Permits(r, BillingPage(r))
         /\ r \in Staff =>
              /\ Permits(r, BillingGroupsPage(r)) /\ Permits(r, LocationPage(r))
              /\ Permits(r, BoardingPage(r)) /\ Permits(r, StudentsPage(r))
              /\ Permits(r, GroupsPage(r)) /\ Permits(r, BusesPage(r))
              /\ Permits(r, RoutesPage(r)) /\ Permits(r, SchedulesPage(r))
              /\ Permits(r, DevicesPage(r))
         /\ r = "ADMIN" =>
              /\ Permits(r, CompanyPage(r)) /\ Permits(r, UsersPage(r))
              /\ Permits(r, ReportsPage(r))
<1> USE EndpointRoles DEF Permits, Managed, Admin, Staff, Company, UserRole
<1>1. r = "PLATFORM_ADMIN" => Permits(r, CompaniesPage(r))
  BY DEF CompaniesPage
<1>2. r # "PLATFORM_ADMIN" => Permits(r, DashboardView(r))
  BY DEF DashboardView
<1>3. r # "PLATFORM_ADMIN" => Permits(r, BillingPage(r))
  BY DEF BillingPage
<1>4. r \in Staff => Permits(r, BillingGroupsPage(r)) /\ Permits(r, LocationPage(r))
  BY DEF BillingGroupsPage, LocationPage
<1>5. r \in Staff => Permits(r, BoardingPage(r)) /\ Permits(r, StudentsPage(r))
  BY DEF BoardingPage, StudentsPage
<1>6. r \in Staff => Permits(r, GroupsPage(r)) /\ Permits(r, BusesPage(r))
  BY DEF GroupsPage, BusesPage
<1>7. r \in Staff => Permits(r, RoutesPage(r)) /\ Permits(r, SchedulesPage(r))
  BY DEF RoutesPage, SchedulesPage
<1>8. r \in Staff => Permits(r, DevicesPage(r))
  BY DEF DevicesPage
<1>9. r = "ADMIN" => Permits(r, CompanyPage(r)) /\ Permits(r, UsersPage(r))
  BY DEF CompanyPage, UsersPage
<1>10. r = "ADMIN" => Permits(r, ReportsPage(r))
  BY DEF ReportsPage
<1> USE ONLY <1>1, <1>2, <1>3, <1>4, <1>5, <1>6, <1>7, <1>8, <1>9, <1>10
<1>11. QED
  OBVIOUS

LEMMA SidebarPermitted ==
  ASSUME NEW r \in UserRole, NEW e \in Sidebar(r)
  PROVE  r \in RolesOf(e) /\ RolesOf(e) \in SUBSET UserRole
BY PagesPermitted DEF Permits, Sidebar, AppPage

-----------------------------------------------------------------------------
(* A request of the tab: a page asks for what the menu of the user it shows     *)
(* offers, a login is of an account, and who is signed in is told by a profile. *)
Proper(x) ==
  /\ x.what = "page" /\ x.answer = None
       => x.shown \in Profiles /\ \E e \in Sidebar(x.shown.role) : x.roles = RolesOf(e)
  /\ x.what = "login" /\ x.answer \in {None, "ok"} => x.as \in Owners
  /\ x.what \in {"me", "meOfLogin"} /\ x.answer = "ok" => x.as \in Profiles

SessionInv ==
  SessionTypeOK /\ \A c \in TabCalls : tabCall[c] # None => Proper(tabCall[c])

LEMMA CallTyped ==
  ASSUME SessionInv, NEW c \in TabCalls, tabCall[c] # None
  PROVE  tabCall[c] \in TabRequests /\ Proper(tabCall[c])
BY DEF SessionInv, SessionTypeOK

LEMMA SendTyped ==
  ASSUME SessionInv, NEW c \in TabCalls, NEW x \in TabRequests \cup {None},
         x # None => Proper(x), Send(c, x)
  PROVE  /\ tabCall' \in [TabCalls -> TabRequests \cup {None}]
         /\ \A d \in TabCalls : tabCall'[d] # None => Proper(tabCall'[d])
<1>1. \A d \in TabCalls : tabCall'[d] = IF d = c THEN x ELSE tabCall[d]
  BY DEF Send, SessionInv, SessionTypeOK
<1>2. QED
  BY <1>1 DEF Send, SessionInv, SessionTypeOK

LEMMA NewRequest ==
  ASSUME SessionInv, NEW what \in {"me", "meOfLogin", "page", "login", "logout"},
         NEW token \in Cookies \cup {None}
  PROVE  /\ Request(what, token) \in TabRequests
         /\ Request(what, token).what = what /\ Request(what, token).shown = tab.user
         /\ Request(what, token).answer = None
BY DEF Request, TabRequests, SessionInv, SessionTypeOK

(* A request that is sent in the name of nobody. *)
LEMMA PlainRequest ==
  ASSUME SessionInv, NEW what \in {"me", "meOfLogin", "logout"},
         NEW token \in Cookies \cup {None}
  PROVE  /\ [Request(what, token) EXCEPT !.shown = None] \in TabRequests
         /\ Proper([Request(what, token) EXCEPT !.shown = None])
<1> DEFINE x == Request(what, token)
<1>1. x \in TabRequests /\ x.what = what /\ x.answer = None
  BY NewRequest
<1> HIDE DEF x
<1>2. /\ [x EXCEPT !.shown = None] \in TabRequests
      /\ [x EXCEPT !.shown = None].what = what /\ [x EXCEPT !.shown = None].answer = None
  BY <1>1 DEF TabRequests
<1>3. None # "ok"
  BY AnswersAssumption DEF Answers
<1>4. Proper([x EXCEPT !.shown = None])
  BY <1>2, <1>3 DEF Proper
<1>5. QED
  BY <1>2, <1>4 DEF x

LEMMA MountKept ==
  ASSUME SessionInv, NEW c \in TabCalls, Mount(c)
  PROVE  SessionInv'
<1> DEFINE x == [Request("me", cookie) EXCEPT !.shown = None]
<1>1. x \in TabRequests /\ Proper(x)
  BY PlainRequest DEF SessionInv, SessionTypeOK
<1>2. Send(c, x)
  BY DEF Mount, Send
<1> HIDE DEF x
<1>3. /\ tabCall' \in [TabCalls -> TabRequests \cup {None}]
      /\ \A d \in TabCalls : tabCall'[d] # None => Proper(tabCall'[d])
  BY <1>1, <1>2, SendTyped
<1>4. owner' = owner /\ cookie' = cookie
  BY DEF Mount
<1>5. tab' \in [page : {"login", "dashboard"}, user : Profiles \cup {None}, loading : BOOLEAN,
                expired : BOOLEAN, target : {"login", "dashboard", None}]
  BY DEF Mount, Blank, SessionInv, SessionTypeOK
<1>6. QED
  BY <1>3, <1>4, <1>5 DEF SessionInv, SessionTypeOK

LEMMA AskPageKept ==
  ASSUME SessionInv, NEW c \in TabCalls, AskPage(c)
  PROVE  SessionInv'
<1>1. tab.user \in Profiles /\ tab.user.role \in UserRole
  BY DEF AskPage, SessionInv, SessionTypeOK, Profiles
<1>2. PICK e \in Sidebar(tab.user.role) :
        Send(c, [Request("page", cookie) EXCEPT !.roles = RolesOf(e)])
  BY DEF AskPage
<1>3. RolesOf(e) \in SUBSET UserRole
  BY <1>1, SidebarPermitted
<1> DEFINE x == Request("page", cookie)
           y == [x EXCEPT !.roles = RolesOf(e)]
<1>4. x \in TabRequests /\ x.what = "page" /\ x.shown = tab.user /\ x.answer = None
  BY NewRequest DEF SessionInv, SessionTypeOK
<1> HIDE DEF x
<1>5. /\ y \in TabRequests /\ y.what = "page" /\ y.shown = tab.user /\ y.roles = RolesOf(e)
  BY <1>3, <1>4 DEF TabRequests
<1>6. Proper(y)
  BY <1>1, <1>2, <1>5 DEF Proper
<1>7. Send(c, y)
  BY <1>2 DEF x
<1> HIDE DEF y
<1>8. /\ tabCall' \in [TabCalls -> TabRequests \cup {None}]
      /\ \A d \in TabCalls : tabCall'[d] # None => Proper(tabCall'[d])
  BY <1>5, <1>6, <1>7, SendTyped
<1>9. QED
  BY <1>8 DEF AskPage, SessionInv, SessionTypeOK

LEMMA LoginKept ==
  ASSUME SessionInv, NEW c \in TabCalls, NEW a \in Owners, HandleLogin(c, a)
  PROVE  SessionInv'
<1> DEFINE x == Request("login", None)
           y == [x EXCEPT !.shown = None, !.as = a]
<1>1. x \in TabRequests /\ x.what = "login" /\ x.answer = None
  BY NewRequest
<1> HIDE DEF x
<1>2. y \in TabRequests /\ y.what = "login" /\ y.as = a
  BY <1>1 DEF TabRequests
<1>3. Proper(y)
  BY <1>2 DEF Proper
<1>4. Send(c, y)
  BY DEF HandleLogin, x
<1> HIDE DEF y
<1>5. /\ tabCall' \in [TabCalls -> TabRequests \cup {None}]
      /\ \A d \in TabCalls : tabCall'[d] # None => Proper(tabCall'[d])
  BY <1>2, <1>3, <1>4, SendTyped
<1>6. QED
  BY <1>5 DEF HandleLogin, SessionInv, SessionTypeOK

LEMMA LogoutKept ==
  ASSUME SessionInv, NEW c \in TabCalls, HandleLogout(c)
  PROVE  SessionInv'
<1> DEFINE x == [Request("logout", None) EXCEPT !.shown = None]
<1>1. x \in TabRequests /\ Proper(x)
  BY PlainRequest
<1>2. Send(c, x)
  BY DEF HandleLogout
<1> HIDE DEF x
<1>3. /\ tabCall' \in [TabCalls -> TabRequests \cup {None}]
      /\ \A d \in TabCalls : tabCall'[d] # None => Proper(tabCall'[d])
  BY <1>1, <1>2, SendTyped
<1>4. QED
  BY <1>3 DEF HandleLogout, SessionInv, SessionTypeOK

(* What the server answers: a refusal for the role is of a page alone, and it   *)
(* tells who is signed in to a token of an account.                            *)
LEMMA AnswerOf ==
  ASSUME SessionInv, NEW c \in TabCalls, tabCall[c] # None, NEW answer \in AnswersTo(c)
  PROVE  /\ answer \in {"ok", "unauthorized", "forbidden"}
         /\ answer = "forbidden" =>
              /\ tabCall[c].what = "page" /\ tabCall[c].token # None
              /\ owner[tabCall[c].token.of].role \notin tabCall[c].roles
         /\ answer = "ok" /\ tabCall[c].what \in {"me", "meOfLogin"}
              => tabCall[c].token # None
<1> DEFINE r == tabCall[c]
<1>1. CASE r.what = "logout"
  BY <1>1 DEF AnswersTo
<1>2. CASE r.what = "login"
  BY <1>2 DEF AnswersTo
<1>3. CASE r.what # "logout" /\ r.what # "login"
  <2>1. answer \in IF ~Validates(r.token) THEN {"unauthorized"}
                   ELSE IF r.what = "page" /\ ~Admits(r.roles, r.token) THEN {"forbidden"}
                   ELSE {"ok"}
    BY <1>3 DEF AnswersTo
  <2>2. QED
    BY <1>3, <2>1 DEF Validates, Admits
<1>4. QED
  BY <1>1, <1>2, <1>3

LEMMA ProfileTyped ==
  ASSUME SessionInv, NEW a \in Owners
  PROVE  Profile(a) \in Profiles
BY DEF Profile, Profiles, SessionInv, SessionTypeOK

LEMMA ServeKept ==
  ASSUME SessionInv, NEW c \in TabCalls, Serve(c)
  PROVE  SessionInv'
<1> DEFINE r == tabCall[c]
           told == r.what \in {"me", "meOfLogin"}
<1>1. r \in TabRequests /\ Proper(r) /\ r.answer = None /\ tabCall[c] # None
  BY CallTyped DEF Serve
<1>2. PICK answer \in AnswersTo(c) :
        Send(c, [r EXCEPT !.answer = answer, !.token = None, !.shown = None, !.roles = {},
                          !.as = IF told /\ answer = "ok" THEN Profile(r.token.of) ELSE r.as])
  BY DEF Serve
<1> DEFINE as == IF told /\ answer = "ok" THEN Profile(r.token.of) ELSE r.as
           x == [r EXCEPT !.answer = answer, !.token = None, !.shown = None, !.roles = {},
                          !.as = as]
<1>3. answer \in {"ok", "unauthorized", "forbidden"} /\ answer # None
  BY <1>1, AnswerOf, AnswersAssumption DEF Answers
<1>4. told /\ answer = "ok" => Profile(r.token.of) \in Profiles
  <2>1. told /\ answer = "ok" => r.token # None
    BY <1>1, AnswerOf
  <2>2. told /\ answer = "ok" => r.token.of \in Owners
    BY <1>1, <2>1 DEF TabRequests, Cookies
  <2>3. QED
    BY <2>2, ProfileTyped
<1>5. as \in Owners \cup Profiles \cup {None}
  BY <1>1, <1>4 DEF TabRequests
<1>6. told /\ answer = "ok" => as \in Profiles
  BY <1>4
<1>7. ~told => as = r.as
  OBVIOUS
<1>8. Send(c, x)
  BY <1>2
<1> HIDE DEF as
<1>9. /\ x \in TabRequests /\ x.what = r.what /\ x.answer = answer /\ x.as = as
  BY <1>1, <1>3, <1>5 DEF TabRequests, Answers
<1> HIDE DEF x
<1>10. Proper(x)
  BY <1>1, <1>3, <1>6, <1>7, <1>9 DEF Proper
<1>11. /\ tabCall' \in [TabCalls -> TabRequests \cup {None}]
       /\ \A d \in TabCalls : tabCall'[d] # None => Proper(tabCall'[d])
  BY <1>8, <1>9, <1>10, SendTyped
<1>12. QED
  BY <1>11 DEF Serve, SessionInv, SessionTypeOK

LEMMA LoseKept ==
  ASSUME SessionInv, NEW c \in TabCalls, Lose(c)
  PROVE  SessionInv'
<1> DEFINE r == tabCall[c]
           x == [r EXCEPT !.answer = "lost", !.token = None, !.shown = None, !.roles = {}]
<1>1. r \in TabRequests
  BY CallTyped DEF Lose
<1>2. Send(c, x)
  BY DEF Lose
<1>3. x \in TabRequests /\ x.answer = "lost" /\ "lost" # None
  BY <1>1, AnswersAssumption DEF TabRequests, Answers
<1> HIDE DEF x
<1>4. Proper(x)
  BY <1>3 DEF Proper
<1>5. /\ tabCall' \in [TabCalls -> TabRequests \cup {None}]
      /\ \A d \in TabCalls : tabCall'[d] # None => Proper(tabCall'[d])
  BY <1>2, <1>3, <1>4, SendTyped
<1>6. QED
  BY <1>5 DEF Lose, SessionInv, SessionTypeOK

(* An answer that arrived: the request is over, and the tab keeps its type. *)
LEMMA ArrivalKept ==
  ASSUME SessionInv, NEW c \in TabCalls,
         ArrivePage(c) \/ ArriveMe(c) \/ ArriveLogout(c)
  PROVE  SessionInv'
<1> DEFINE r == tabCall[c]
           Tabs == [page : {"login", "dashboard"}, user : Profiles \cup {None},
                    loading : BOOLEAN, expired : BOOLEAN,
                    target : {"login", "dashboard", None}]
<1>1. r \in TabRequests /\ Proper(r)
  BY CallTyped DEF ArrivePage, ArriveMe, ArriveLogout
<1>2. tab \in Tabs /\ \A answer : Expired(answer) \in BOOLEAN
  BY DEF SessionInv, SessionTypeOK, Expired
<1>3. Send(c, None) /\ owner' = owner
  BY DEF ArrivePage, ArriveMe, ArriveLogout
<1>4. /\ tabCall' \in [TabCalls -> TabRequests \cup {None}]
      /\ \A d \in TabCalls : tabCall'[d] # None => Proper(tabCall'[d])
  BY <1>3, SendTyped
<1>5. cookie' \in Cookies \cup {None}
  BY DEF ArrivePage, ArriveMe, ArriveLogout, SessionInv, SessionTypeOK
<1>6. tab' \in Tabs
  <2>1. CASE ArrivePage(c)
    BY <1>2, <2>1 DEF ArrivePage
  <2>2. CASE ArriveMe(c)
    <3> DEFINE user == IF r.answer = "ok" THEN r.as ELSE None
               expired == IF r.answer = "ok" THEN FALSE ELSE Expired(r.answer)
               target == IF r.what = "meOfLogin" THEN "dashboard" ELSE tab.target
    <3>1. user \in Profiles \cup {None}
      BY <1>1, <2>2 DEF ArriveMe, Proper
    <3>2. expired \in BOOLEAN /\ target \in {"login", "dashboard", None}
      BY <1>2
    <3>3. tab' = [tab EXCEPT !.user = user, !.loading = FALSE, !.expired = expired,
                             !.target = target]
      BY <2>2 DEF ArriveMe
    <3> HIDE DEF user, expired, target
    <3>4. QED
      BY <1>2, <3>1, <3>2, <3>3
  <2>3. CASE ArriveLogout(c)
    BY <1>2, <2>3 DEF ArriveLogout
  <2>4. QED
    BY <2>1, <2>2, <2>3
<1>7. QED
  BY <1>3, <1>4, <1>5, <1>6 DEF SessionInv, SessionTypeOK

LEMMA LoginArrivalKept ==
  ASSUME SessionInv, NEW c \in TabCalls, ArriveLogin(c)
  PROVE  SessionInv'
<1> DEFINE r == tabCall[c]
<1>1. r \in TabRequests /\ Proper(r) /\ r.what = "login" /\ owner' = owner
  BY CallTyped DEF ArriveLogin
<1>2. CASE r.answer = "ok"
  <2> DEFINE new == [of |-> r.as, fresh |-> TRUE]
             x == [Request("meOfLogin", new) EXCEPT !.shown = None]
  <2>1. new \in Cookies
    BY <1>1, <1>2 DEF Proper, Cookies
  <2>2. /\ cookie' = new /\ tab' = tab
        /\ Send(c, [Request("meOfLogin", cookie') EXCEPT !.shown = None])
    BY <1>2 DEF ArriveLogin
  <2> HIDE DEF new
  <2>3. Send(c, x)
    BY <2>2 DEF Send
  <2>4. x \in TabRequests /\ Proper(x)
    BY <2>1, PlainRequest
  <2> HIDE DEF x
  <2>5. /\ tabCall' \in [TabCalls -> TabRequests \cup {None}]
        /\ \A d \in TabCalls : tabCall'[d] # None => Proper(tabCall'[d])
    BY <2>3, <2>4, SendTyped
  <2>6. QED
    BY <1>1, <2>1, <2>2, <2>5 DEF SessionInv, SessionTypeOK
<1>3. CASE r.answer # "ok"
  <2>1. Send(c, None) /\ cookie' = cookie /\ tab' = [tab EXCEPT !.expired = Expired(r.answer)]
    BY <1>3 DEF ArriveLogin
  <2>2. Expired(r.answer) \in BOOLEAN
    BY DEF Expired, SessionInv, SessionTypeOK
  <2>3. /\ tabCall' \in [TabCalls -> TabRequests \cup {None}]
        /\ \A d \in TabCalls : tabCall'[d] # None => Proper(tabCall'[d])
    BY <2>1, SendTyped
  <2>4. QED
    BY <1>1, <2>1, <2>2, <2>3 DEF SessionInv, SessionTypeOK
<1>4. QED
  BY <1>2, <1>3

(* The steps of the layout, of the token and of an administrator. *)
LEMMA OthersKept ==
  ASSUME SessionInv,
         Redirect \/ Navigate \/ RunOut \/ \E a \in Owners : ChangeAccount(a)
  PROVE  SessionInv'
<1> DEFINE Tabs == [page : {"login", "dashboard"}, user : Profiles \cup {None},
                    loading : BOOLEAN, expired : BOOLEAN,
                    target : {"login", "dashboard", None}]
           Accounts == [role : UserRole, active : BOOLEAN]
<1>1. /\ owner \in [Owners -> Accounts] /\ cookie \in Cookies \cup {None} /\ tab \in Tabs
      /\ tabCall \in [TabCalls -> TabRequests \cup {None}]
      /\ \A c \in TabCalls : tabCall[c] # None => Proper(tabCall[c])
  BY DEF SessionInv, SessionTypeOK
<1>2. tabCall' = tabCall
  BY DEF Redirect, Navigate, RunOut, ChangeAccount
<1>3. tab' \in Tabs
  BY <1>1 DEF Redirect, Navigate, RunOut, ChangeAccount
<1>4. cookie' \in Cookies \cup {None}
  BY <1>1 DEF Redirect, Navigate, RunOut, ChangeAccount, Cookies
<1>5. owner' \in [Owners -> Accounts]
  <2>1. CASE Redirect \/ Navigate \/ RunOut
    BY <1>1, <2>1 DEF Redirect, Navigate, RunOut
  <2>2. CASE \E a \in Owners : ChangeAccount(a)
    <3>1. PICK a \in Owners : ChangeAccount(a)
      BY <2>2
    <3>2. PICK old \in Accounts : old = owner[a]
      BY <1>1
    <3>3. CASE owner' = [owner EXCEPT ![a].active = ~@]
      <4>1. [old EXCEPT !.active = ~old.active] \in Accounts
        OBVIOUS
      <4>2. owner' = [owner EXCEPT ![a] = [old EXCEPT !.active = ~old.active]]
        BY <3>2, <3>3
      <4>3. QED
        BY <1>1, <4>1, <4>2
    <3>4. CASE \E r \in (Roles \cap Company) \ {owner[a].role} :
                 owner[a].role # "PLATFORM_ADMIN" /\ owner' = [owner EXCEPT ![a].role = r]
      <4>1. PICK r \in Roles : owner' = [owner EXCEPT ![a].role = r]
        BY <3>4
      <4>2. r \in UserRole
        BY RolesAssumption
      <4>3. [old EXCEPT !.role = r] \in Accounts
        BY <4>2
      <4>4. owner' = [owner EXCEPT ![a] = [old EXCEPT !.role = r]]
        BY <3>2, <4>1
      <4>5. QED
        BY <1>1, <4>3, <4>4
    <3>5. QED
      BY <3>1, <3>3, <3>4 DEF ChangeAccount
  <2>3. QED
    BY <2>1, <2>2
<1>6. QED
  BY <1>1, <1>2, <1>3, <1>4, <1>5 DEF SessionInv, SessionTypeOK

LEMMA SessionInvariant == SessionSpec => []SessionInv
<1>1. SessionInit => SessionInv
  <2> SUFFICES ASSUME SessionInit
               PROVE  SessionInv
    OBVIOUS
  <2>1. owner \in [Owners -> [role : UserRole, active : BOOLEAN]]
    BY RolesAssumption DEF SessionInit
  <2>2. tab \in [page : {"login", "dashboard"}, user : Profiles \cup {None},
                 loading : BOOLEAN, expired : BOOLEAN, target : {"login", "dashboard", None}]
    BY DEF SessionInit, Blank
  <2>3. QED
    BY <2>1, <2>2 DEF SessionInit, SessionInv, SessionTypeOK
<1>2. SessionInv /\ [SessionNext]_sessionVars => SessionInv'
  <2> SUFFICES ASSUME SessionInv, [SessionNext]_sessionVars
               PROVE  SessionInv'
    OBVIOUS
  <2>1. CASE UNCHANGED sessionVars
    BY <2>1 DEF sessionVars, SessionInv, SessionTypeOK, Proper
  <2>2. CASE \E c \in TabCalls : Mount(c) \/ AskPage(c) \/ HandleLogout(c)
    BY <2>2, MountKept, AskPageKept, LogoutKept
  <2>3. CASE \E c \in TabCalls : Serve(c) \/ Lose(c)
    BY <2>3, ServeKept, LoseKept
  <2>4. CASE \E c \in TabCalls : ArrivePage(c) \/ ArriveMe(c) \/ ArriveLogout(c)
    BY <2>4, ArrivalKept
  <2>5. CASE \E c \in TabCalls : ArriveLogin(c)
    BY <2>5, LoginArrivalKept
  <2>6. CASE \E c \in TabCalls : \E a \in Owners : HandleLogin(c, a)
    BY <2>6, LoginKept
  <2>7. CASE Redirect \/ Navigate \/ RunOut \/ \E a \in Owners : ChangeAccount(a)
    BY <2>7, OthersKept
  <2>8. QED
    BY <2>1, <2>2, <2>3, <2>4, <2>5, <2>6, <2>7 DEF SessionNext
<1>3. QED
  BY <1>1, <1>2, PTL DEF SessionSpec

(* The accounts, the cookie, the tab and its requests keep their types. *)
THEOREM SessionTypeCorrect == SessionSpec => []SessionTypeOK
<1>1. SessionInv => SessionTypeOK
  BY DEF SessionInv
<1>2. QED
  BY <1>1, SessionInvariant, PTL

(* A request that a step begins or ends is not one the step refuses. *)
LEMMA NotRefused ==
  ASSUME SessionInv, NEW c \in TabCalls, NEW d \in TabCalls, NEW x, Send(d, x),
         tabCall[c] # None, tabCall[c].answer = None, tabCall'[c] # None,
         d = c => x = None \/ x.answer # "forbidden"
  PROVE  tabCall'[c].answer # "forbidden"
<1>1. None # "forbidden"
  BY AnswersAssumption DEF Answers
<1>2. tabCall'[c] = IF c = d THEN x ELSE tabCall[c]
  BY DEF Send, SessionInv, SessionTypeOK
<1>3. QED
  BY <1>1, <1>2

(* What a page of the sidebar asks for is never refused to the user it was     *)
(* offered to, as long as the role the tab shows is the one of the account the *)
(* cookie is of: for every number of users, of requests on their way, and for  *)
(* every role.                                                                 *)
THEOREM OfferedPagesAllowed == SessionSpec => OfferedIsAllowed
<1> DEFINE Allowed ==
      \A c \in TabCalls :
        (tabCall[c] # None /\ tabCall[c].answer = None /\ tabCall'[c] # None
         /\ tabCall'[c].answer = "forbidden")
          => tabCall[c].shown # Profile(tabCall[c].token.of)
<1>1. SessionInv /\ [SessionNext]_sessionVars => [Allowed]_sessionVars
  <2> SUFFICES ASSUME SessionInv, SessionNext, NEW c \in TabCalls,
                      tabCall[c] # None, tabCall[c].answer = None, tabCall'[c] # None,
                      tabCall'[c].answer = "forbidden"
               PROVE  tabCall[c].shown # Profile(tabCall[c].token.of)
    OBVIOUS
  <2>1. "lost" # "forbidden" /\ None # "forbidden"
    BY AnswersAssumption DEF Answers
  <2>2. PICK d \in TabCalls : Serve(d)
    <3>1. ASSUME NEW d \in TabCalls, Mount(d)
          PROVE  FALSE
      BY <3>1 DEF Mount
    <3>2. ASSUME NEW d \in TabCalls, AskPage(d) \/ HandleLogout(d)
                                     \/ \E a \in Owners : HandleLogin(d, a)
          PROVE  FALSE
      <4>1. d # c /\ \E x : Send(d, x)
        BY <3>2 DEF AskPage, HandleLogout, HandleLogin
      <4>2. QED
        BY <4>1, NotRefused
    <3>3. ASSUME NEW d \in TabCalls, Lose(d)
          PROVE  FALSE
      <4> DEFINE x == [tabCall[d] EXCEPT !.answer = "lost", !.token = None,
                                         !.shown = None, !.roles = {}]
      <4>1. Send(d, x) /\ x.answer = "lost"
        <5>1. tabCall[d] \in TabRequests
          BY <3>3, CallTyped DEF Lose
        <5>2. QED
          BY <3>3, <5>1 DEF Lose, TabRequests
      <4> HIDE DEF x
      <4>2. QED
        BY <2>1, <4>1, NotRefused
    <3>4. ASSUME NEW d \in TabCalls,
                 ArrivePage(d) \/ ArriveMe(d) \/ ArriveLogin(d) \/ ArriveLogout(d)
          PROVE  FALSE
      <4>1. d # c /\ \E x : Send(d, x)
        BY <3>4 DEF ArrivePage, ArriveMe, ArriveLogin, ArriveLogout
      <4>2. QED
        BY <4>1, NotRefused
    <3>5. ASSUME Redirect \/ Navigate \/ RunOut \/ \E a \in Owners : ChangeAccount(a)
          PROVE  FALSE
      <4>1. tabCall' = tabCall
        BY <3>5 DEF Redirect, Navigate, RunOut, ChangeAccount
      <4>2. QED
        BY <2>1, <4>1
    <3>6. QED
      BY <3>1, <3>2, <3>3, <3>4, <3>5 DEF SessionNext
  <2>3. d = c
    <3>1. CASE d # c
      <4>1. \E x : Send(d, x)
        BY <2>2 DEF Serve
      <4>2. QED
        BY <3>1, <4>1, NotRefused
    <3>2. QED
      BY <3>1
  <2> DEFINE r == tabCall[c]
  <2>4. r \in TabRequests /\ Proper(r)
    BY CallTyped
  <2>5. PICK answer \in AnswersTo(c) :
          Send(c, [r EXCEPT
                     !.answer = answer, !.token = None, !.shown = None, !.roles = {},
                     !.as = IF r.what \in {"me", "meOfLogin"} /\ answer = "ok"
                            THEN Profile(r.token.of)
                            ELSE r.as])
    BY <2>2, <2>3 DEF Serve
  <2>6. answer = "forbidden"
    BY <2>4, <2>5 DEF Send, TabRequests, SessionInv, SessionTypeOK
  <2>7. r.what = "page" /\ owner[r.token.of].role \notin r.roles
    BY <2>6, AnswerOf
  <2>8. PICK e \in Sidebar(r.shown.role) : r.roles = RolesOf(e)
    BY <2>4, <2>7 DEF Proper
  <2>9. r.shown.role \in UserRole
    BY <2>4, <2>7 DEF Proper, Profiles
  <2>10. r.shown.role \in r.roles
    BY <2>8, <2>9, SidebarPermitted
  <2>11. QED
    BY <2>7, <2>10 DEF Profile
<1>2. QED
  BY <1>1, SessionInvariant, PTL DEF SessionSpec, OfferedIsAllowed
=============================================================================
