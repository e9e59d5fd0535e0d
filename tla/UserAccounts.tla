----------------------------- MODULE UserAccounts ------------------------------
(***************************************************************************)
(* The accounts of a company and their sessions (users/users.service.ts,   *)
(* auth/auth.service.ts, auth/jwt.strategy.ts, auth/*guard.ts).            *)
(*                                                                         *)
(* The account of a student copies the student's name and address and is   *)
(* the only one of that student.  create and update look the student up    *)
(* before they write.  A session is a signed token with the id of its      *)
(* account; every request reads the account anew.                          *)
(*                                                                         *)
(* The roles DRIVER and COORDINATOR are under the rules of ADMIN here.     *)
(* Names, addresses and passwords are left out.                            *)
(***************************************************************************)
EXTENDS Null

CONSTANTS
  AccountIds,
  Enrolled,         (* the students with an address                        *)
  Edits,            (* creates and updates of accounts in progress         *)
  Sessions          (* tokens                                              *)

VARIABLES
  account,          (* the User rows, None before their creation           *)
  change,           (* the local variables of each edit                    *)
  session,          (* the account a token was signed for                  *)
  unlinked,         (* history: the accounts whose student another took    *)
  dormant           (* history: the accounts deactivated while no update   *)
                    (* of them was in progress                             *)

accountVars == <<account, change, session, unlinked, dormant>>

CompanyRoles == {"ADMIN", "USER"}
AccountRow == [role : CompanyRoles, student : Enrolled \cup {None}, active : BOOLEAN]
ASSUME AccountRowAssumption == None \notin AccountRow

AccountsInit ==
  /\ account = [u \in AccountIds |-> None]
  /\ change = [r \in Edits |-> None]
  /\ session = [k \in Sessions |-> None]
  /\ unlinked = {}
  /\ dormant = {}

Created == {u \in AccountIds : account[u] # None}
AccountsOf(s) == {u \in Created : s # None /\ account[u].student = s}

-----------------------------------------------------------------------------
(* Mutated form of Identity: only the creation needs a student. *)
IdentityAny(u, role, s) == AccountsOf(s) \subseteq {u}

(* resolveUserIdentity: the student has no other account, and the account of   *)
(* a student names one.                                                       *)
Identity(u, role, s) ==
  /\ AccountsOf(s) \subseteq {u}
  /\ role = "USER" => s # None

(* create: the checks. *)
StartCreate(r, u, role, s) ==
  /\ change[r] = None
  /\ account[u] = None
  /\ \A q \in Edits : change[q] # None => change[q].user # u
  /\ Identity(u, role, s)
  /\ change' = [change EXCEPT ![r] =
       [step |-> "create", user |-> u, asked |-> TRUE,
        row |-> [role |-> role, student |-> s, active |-> TRUE]]]
  /\ UNCHANGED <<account, session, unlinked, dormant>>

(* The insert; the unique index of studentId may refuse it. *)
CommitCreate(r) ==
  /\ change[r] # None /\ change[r].step = "create"
  /\ account' = IF AccountsOf(change[r].row.student) # {} THEN account
                ELSE [account EXCEPT ![change[r].user] = change[r].row]
  /\ change' = [change EXCEPT ![r] = None]
  /\ UNCHANGED <<session, unlinked, dormant>>

(* update: the read of the account. *)
StartUpdate(r, u) ==
  /\ change[r] = None
  /\ u \in Created
  /\ change' = [change EXCEPT ![r] =
       [step |-> "check", user |-> u, asked |-> FALSE, row |-> account[u]]]
  /\ UNCHANGED <<account, session, unlinked, dormant>>

(* dto.active ?? user.active *)
NextActivity(read, asked, active) == asked \/ active = read.active

(* update: the checks.  A request that names no student keeps the one that was *)
(* read, so that none is ever given up.                                       *)
CheckUpdate(r) ==
  /\ change[r] # None /\ change[r].step = "check"
  /\ \E role \in CompanyRoles, s \in Enrolled \cup {change[r].row.student},
        asked, active \in BOOLEAN :
       /\ Identity(change[r].user, role, s)
       /\ NextActivity(change[r].row, asked, active)
       /\ change' = [change EXCEPT ![r] =
            [step |-> "write", user |-> change[r].user, asked |-> asked,
             row |-> [role |-> role, student |-> s, active |-> active]]]
  /\ UNCHANGED <<account, session, unlinked, dormant>>

(* The update by id.  Without a student it leaves the column alone; with one   *)
(* that another account took since the check, the client of the database      *)
(* refuses, or takes it from that account.                                    *)
CommitUpdate(r) ==
  /\ change[r] # None /\ change[r].step = "write"
  /\ LET q == change[r]
         others == AccountsOf(q.row.student) \ {q.user}
         s == IF q.row.student = None THEN account[q.user].student ELSE q.row.student IN
       \E taken \in SUBSET others :
         IF taken # others
         THEN UNCHANGED <<account, unlinked, dormant>>
         ELSE /\ account' = [u \in AccountIds |->
                   IF u = q.user THEN [q.row EXCEPT !.student = s]
                   ELSE IF u \in taken THEN [account[u] EXCEPT !.student = None]
                   ELSE account[u]]
              /\ unlinked' = unlinked \cup taken
              /\ dormant' = IF q.asked THEN dormant \ {q.user} ELSE dormant
  /\ change' = [change EXCEPT ![r] = None]
  /\ UNCHANGED session

(* A check or a statement fails. *)
FailRequest(r) ==
  /\ change[r] # None
  /\ change' = [change EXCEPT ![r] = None]
  /\ UNCHANGED <<account, session, unlinked, dormant>>

(* deactivateMany *)
DeactivateMany(U) ==
  /\ U # {} /\ U \subseteq Created
  /\ account' = [u \in AccountIds |->
       IF u \in U THEN [account[u] EXCEPT !.active = FALSE] ELSE account[u]]
  /\ dormant' = dormant \cup (U \ {change[r].user : r \in {q \in Edits : change[q] # None}})
  /\ UNCHANGED <<change, session, unlinked>>

-----------------------------------------------------------------------------
(* login with the right password, of an active account. *)
Login(k, u) ==
  /\ session[k] = None
  /\ u \in Created /\ account[u].active
  /\ session' = [session EXCEPT ![k] = u]
  /\ UNCHANGED <<account, change, unlinked, dormant>>

(* logout, or the end of the token: the cookie is gone. *)
Logout(k) ==
  /\ session[k] # None
  /\ session' = [session EXCEPT ![k] = None]
  /\ UNCHANGED <<account, change, unlinked, dormant>>

(* Mutated form of Admitted: the token alone admits, with the role of an       *)
(* administrator.                                                             *)
AdmittedByToken(k, required) == session[k] # None

(* JwtStrategy.validate and RolesGuard: the request of a session is let in     *)
(* when the account is active now and has the role the handler requires.      *)
Admitted(k, required) ==
  /\ session[k] \in Created
  /\ account[session[k]].active /\ account[session[k]].role \in required

AccountsNext ==
  \/ \E r \in Edits :
       \/ \E u \in AccountIds, role \in CompanyRoles, s \in Enrolled \cup {None} :
            StartCreate(r, u, role, s)
       \/ CommitCreate(r)
       \/ \E u \in AccountIds : StartUpdate(r, u)
       \/ CheckUpdate(r)
       \/ CommitUpdate(r)
       \/ FailRequest(r)
  \/ \E U \in SUBSET AccountIds : DeactivateMany(U)
  \/ \E k \in Sessions : (\E u \in AccountIds : Login(k, u)) \/ Logout(k)

AccountsSpec == AccountsInit /\ [][AccountsNext]_accountVars

-----------------------------------------------------------------------------
(* Every variable keeps its type. *)
AccountsTypeOK ==
  /\ account \in [AccountIds -> AccountRow \cup {None}]
  /\ change \in [Edits ->
       [step : {"create", "check", "write"}, user : AccountIds, asked : BOOLEAN, row : AccountRow]
       \cup {None}]
  /\ session \in [Sessions -> AccountIds \cup {None}]
  /\ unlinked \in SUBSET AccountIds
  /\ dormant \in SUBSET AccountIds

(* The account of a student has its student, and no student has two accounts, *)
(* whatever updates of role and of student overlap; unless another account    *)
(* took the student in a race.                                                *)
StudentAccounts ==
  /\ \A u \in Created \ unlinked : account[u].role = "USER" => account[u].student # None
  /\ \A u, v \in Created :
       account[u].student = account[v].student /\ account[u].student # None => u = v

(* An account that was deactivated while no update of it was in progress opens *)
(* no door until a request activates it again: the sessions it had before are *)
(* refused on their next request, though their tokens are still good.  One    *)
(* deactivated between the read and the write of an update is left out: the   *)
(* update writes back the activity it read and revives it.                    *)
DeactivatedIsOut ==
  \A k \in Sessions : session[k] \in dormant => ~Admitted(k, CompanyRoles)
=============================================================================
