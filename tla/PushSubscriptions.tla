--------------------------- MODULE PushSubscriptions ---------------------------
(***************************************************************************)
(* The devices a user receives notices on                                  *)
(* (push-notifications/push-notifications.service.ts).                     *)
(*                                                                         *)
(* registerSubscription looks for a row of the installation and for one of *)
(* the token, then merges them in the transaction that read them; under    *)
(* READ COMMITTED the rows may change between its statements.  A dispatch  *)
(* reads the active rows of a user, asks the push service and writes what  *)
(* it answers back, row by row, from the rows it read.                     *)
(*                                                                         *)
(* A token stands for a provider and a token, an installation for a        *)
(* provider and an installationKey.  Dates, names and error texts are left *)
(* out.                                                                    *)
(***************************************************************************)
EXTENDS Null

CONSTANTS
  Users,
  Tokens,
  ExpoTokens,       (* the tokens of the provider pushes are sent to       *)
  Installations,
  Rows,             (* ids of PushSubscription rows                        *)
  Deleted,          (* the value of a row after its delete                 *)
  Registrations,    (* registrations in progress                           *)
  Dispatches        (* pushes in progress                                  *)

VARIABLES
  row,              (* the table: a record, None before its insert and     *)
                    (* Deleted after its delete                            *)
  registration,     (* the request and the local variables of each         *)
  dispatch,         (* the local variables of each dispatch                *)
  registrant,       (* history: who registered each token last             *)
  closed            (* history: the rows deactivated while no dispatch     *)
                    (* held them, and not registered since                 *)

pushVars == <<row, registration, dispatch, registrant, closed>>

Tickets == {"ok", "failed", "unregistered"}

Existing == {i \in Rows : row[i] \notin {None, Deleted}}
Active(i) == i \in Existing /\ row[i].active

PushInit ==
  /\ row = [i \in Rows |-> None]
  /\ registration = [r \in Registrations |-> None]
  /\ dispatch = [d \in Dispatches |-> None]
  /\ registrant = [t \in Tokens |-> None]
  /\ closed = {}

-----------------------------------------------------------------------------
(* findUnique: the one row of S, or none. *)
TheOne(S) == IF S = {} THEN {None} ELSE S

(* registerSubscription: the lookup by installation. *)
StartRegistration(r, user, token, installation) ==
  /\ registration[r] = None
  /\ \E i \in TheOne({j \in Existing : installation # None
                                       /\ row[j].installation = installation}) :
       registration' = [registration EXCEPT ![r] =
         [user |-> user, token |-> token, installation |-> installation,
          step |-> "token", byInstallation |-> i, byToken |-> None]]
  /\ UNCHANGED <<row, dispatch, registrant, closed>>

(* The lookup by token. *)
FindToken(r) ==
  /\ registration[r] # None /\ registration[r].step = "token"
  /\ \E i \in TheOne({j \in Existing : row[j].token = registration[r].token}) :
       registration' = [registration EXCEPT ![r].step = "write", ![r].byToken = i]
  /\ UNCHANGED <<row, dispatch, registrant, closed>>

(* The row of the token is deleted when another is the installation's. *)
Merged(q) ==
  IF q.byInstallation # None /\ q.byToken \notin {None, q.byInstallation} THEN {q.byToken} ELSE {}
Target(q) == IF q.byInstallation # None THEN q.byInstallation ELSE q.byToken

(* Mutated form of Subscribed: the device stays with the user it was of. *)
SubscribedKeepsUser(q) ==
  [user |-> IF Target(q) = None THEN q.user ELSE row[Target(q)].user,
   token |-> q.token, installation |-> q.installation, active |-> TRUE]

Subscribed(q) ==
  [user |-> q.user, token |-> q.token, installation |-> q.installation, active |-> TRUE]

(* The two unique indexes, once the rows of D are gone and i is written. *)
Unique(q, D, i) ==
  \A j \in Existing \ (D \cup {i}) :
    /\ row[j].token # q.token
    /\ q.installation # None => row[j].installation # q.installation

(* The delete, the update or the insert, and the commit. *)
WriteRegistration(r, i) ==
  /\ registration[r] # None /\ registration[r].step = "write"
  /\ LET q == registration[r] IN
       /\ IF Target(q) = None THEN row[i] = None ELSE i = Target(q) /\ i \in Existing
       /\ Merged(q) \subseteq Existing
       /\ Unique(q, Merged(q), i)
       /\ row' = [j \in Rows |->
            IF j = i THEN Subscribed(q) ELSE IF j \in Merged(q) THEN Deleted ELSE row[j]]
       /\ registrant' = [registrant EXCEPT ![q.token] = q.user]
       /\ closed' = closed \ ({i} \cup Merged(q))
  /\ registration' = [registration EXCEPT ![r] = None]
  /\ UNCHANGED dispatch

(* A row to update or to delete is gone, or a unique index refuses: the       *)
(* transaction is rolled back and the request fails.                          *)
RefuseRegistration(r) ==
  /\ registration[r] # None /\ registration[r].step = "write"
  /\ LET q == registration[r] IN
       \/ ~(({Target(q)} \cup Merged(q)) \ {None} \subseteq Existing)
       \/ ~Unique(q, Merged(q), Target(q))
  /\ registration' = [registration EXCEPT ![r] = None]
  /\ UNCHANGED <<row, dispatch, registrant, closed>>

(* deactivateSubscription: one update of the user's active rows with the       *)
(* token or the installation.                                                 *)
DeactivateSubscription(user, token, installation) ==
  LET found == {i \in Existing : /\ Active(i) /\ row[i].user = user
                                 /\ \/ row[i].token = token
                                    \/ installation # None /\ row[i].installation = installation}
      held == UNION {dispatch[d].sent : d \in {e \in Dispatches : dispatch[e] # None}} IN
  /\ found # {}
  /\ row' = [i \in Rows |-> IF i \in found THEN [row[i] EXCEPT !.active = FALSE] ELSE row[i]]
  /\ closed' = closed \cup (found \ held)
  /\ UNCHANGED <<registration, dispatch, registrant>>

-----------------------------------------------------------------------------
(* The active rows of a user. *)
Reachable(user) == {i \in Existing : row[i].user = user /\ row[i].active}

(* dispatchPromptNotification: the read, and the rows of the provider; with    *)
(* none it answers IN_APP at once.                                            *)
StartDispatch(d, user) ==
  /\ dispatch[d] = None
  /\ LET expo == {i \in Reachable(user) : row[i].token \in ExpoTokens} IN
       /\ expo # {}
       /\ dispatch' = [dispatch EXCEPT ![d] = [sent |-> expo, ticket |-> None]]
  /\ UNCHANGED <<row, registration, registrant, closed>>

(* sendExpoNotifications: the tickets of the push service. *)
ReceiveTickets(d) ==
  /\ dispatch[d] # None /\ dispatch[d].ticket = None
  /\ \E ticket \in [dispatch[d].sent -> Tickets] :
       dispatch' = [dispatch EXCEPT ![d].ticket = ticket]
  /\ UNCHANGED <<row, registration, registrant, closed>>

(* The call fails as a whole: only the error is noted, and the answer is        *)
(* IN_APP.                                                                    *)
FailDispatch(d) ==
  /\ dispatch[d] # None /\ dispatch[d].ticket = None
  /\ dispatch' = [dispatch EXCEPT ![d] = None]
  /\ UNCHANGED <<row, registration, registrant, closed>>

(* Mutated form of ApplyTicket: the update is of all rows of the user. *)
ApplyTicketToAll(d, i) ==
  /\ dispatch[d] # None /\ dispatch[d].ticket # None /\ i \in dispatch[d].sent
  /\ row' = IF i \in Existing /\ dispatch[d].ticket[i] # "ok"
            THEN [j \in Rows |-> IF j \in Existing /\ row[j].user = row[i].user
                    THEN [row[j] EXCEPT !.active = dispatch[d].ticket[i] # "unregistered"]
                    ELSE row[j]]
            ELSE row
  /\ dispatch' = [dispatch EXCEPT ![d] =
       IF dispatch[d].sent = {i} THEN None ELSE [dispatch[d] EXCEPT !.sent = @ \ {i}]]
  /\ UNCHANGED <<registration, registrant, closed>>

(* One update by id: a ticket that is ok leaves the activity alone, another     *)
(* writes the activity that was read, which is TRUE of every row StartDispatch *)
(* takes, or FALSE when the device is unknown to the service.  An update of a  *)
(* deleted row only fails: the others go on.                                   *)
ApplyTicket(d, i) ==
  /\ dispatch[d] # None /\ dispatch[d].ticket # None /\ i \in dispatch[d].sent
  /\ row' = IF i \in Existing /\ dispatch[d].ticket[i] # "ok"
            THEN [row EXCEPT ![i].active = dispatch[d].ticket[i] # "unregistered"]
            ELSE row
  /\ dispatch' = [dispatch EXCEPT ![d] =
       IF dispatch[d].sent = {i} THEN None ELSE [dispatch[d] EXCEPT !.sent = @ \ {i}]]
  /\ UNCHANGED <<registration, registrant, closed>>

PushNext ==
  \/ \E r \in Registrations :
       \/ \E user \in Users, token \in Tokens, installation \in Installations \cup {None} :
            StartRegistration(r, user, token, installation)
       \/ FindToken(r)
       \/ \E i \in Rows : WriteRegistration(r, i)
       \/ RefuseRegistration(r)
  \/ \E user \in Users, token \in Tokens, installation \in Installations \cup {None} :
       DeactivateSubscription(user, token, installation)
  \/ \E d \in Dispatches :
       \/ \E user \in Users : StartDispatch(d, user)
       \/ ReceiveTickets(d)
       \/ FailDispatch(d)
       \/ \E i \in Rows : ApplyTicket(d, i)

PushSpec == PushInit /\ [][PushNext]_pushVars

-----------------------------------------------------------------------------
(* Every variable keeps its type. *)
SubscriptionRow ==
  [user : Users, token : Tokens, installation : Installations \cup {None}, active : BOOLEAN]
Registration ==
  [user : Users, token : Tokens, installation : Installations \cup {None},
   step : {"token", "write"}, byInstallation : Rows \cup {None}, byToken : Rows \cup {None}]
Dispatch(d) ==
  /\ dispatch[d] = [sent |-> dispatch[d].sent, ticket |-> dispatch[d].ticket]
  /\ dispatch[d].sent \in SUBSET Rows
  /\ dispatch[d].ticket # None =>
       /\ DOMAIN dispatch[d].ticket \in SUBSET Rows
       /\ dispatch[d].sent \subseteq DOMAIN dispatch[d].ticket
PushTypeOK ==
  /\ row \in [Rows -> SubscriptionRow \cup {None, Deleted}]
  /\ registration \in [Registrations -> Registration \cup {None}]
  /\ DOMAIN dispatch = Dispatches
  /\ \A d \in Dispatches : dispatch[d] # None => Dispatch(d)
  /\ registrant \in [Tokens -> Users \cup {None}]
  /\ closed \in SUBSET Rows

(* A device receives the notices of the user who registered its token last,   *)
(* whatever registrations of the token or of the installation overlap.        *)
TokenOfRegistrant == \A i \in Existing : row[i].user = registrant[row[i].token]

(* A subscription that its user deactivated while no push to it was on its    *)
(* way stays inactive until it is registered again.                           *)
ClosedStaysClosed == \A i \in closed : ~Active(i)
=============================================================================
