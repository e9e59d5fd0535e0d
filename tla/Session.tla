-------------------------------- MODULE Session --------------------------------
(***************************************************************************)
(* Signing in and out, and what a signed-in user may ask for: one browser  *)
(* tab of the front end, the session cookie and the guards of the API.     *)
(*                                                                         *)
(* Every endpoint of the API is known by the roles its controller admits,  *)
(* and every page by the endpoints it asks.  The sidebar offers pages by   *)
(* the role of the user the tab has loaded; the guards decide by the role  *)
(* the account has when the request is served.                             *)
(***************************************************************************)
EXTENDS Null

CONSTANTS
  Owners,           (* the users of the system                             *)
  Roles,            (* the roles they may have                             *)
  TabCalls          (* requests of the tab that may be on their way        *)

VARIABLES
  owner,            (* the role of each of them and whether it is active   *)
  cookie,           (* the session cookie: of whom, and whether it is      *)
                    (* still fresh                                         *)
  tab,              (* what the tab shows and knows                        *)
  tabCall           (* the requests on their way                           *)

sessionVars == <<owner, cookie, tab, tabCall>>

-----------------------------------------------------------------------------
(* The roles and the endpoints.                                              *)
UserRole == {"PLATFORM_ADMIN", "ADMIN", "DRIVER", "USER", "COORDINATOR"}
Admin == {"ADMIN"}
Staff == {"ADMIN", "DRIVER", "COORDINATOR"}
Company == Staff \cup {"USER"}

ASSUME RolesAssumption == Roles \subseteq UserRole

(* A controller most of the staff may read and only an administrator write.  *)
ReadAndManage == [read |-> Staff, manage |-> Admin]

BillingTemplatesController == ReadAndManage
RoutesController == ReadAndManage
RouteSchedulesController == ReadAndManage
StudentsController == [read |-> Staff, manage |-> Admin, candidates |-> Admin]
GroupsController == ReadAndManage
DevicesController == ReadAndManage
UsersController == [read |-> Admin, manage |-> Admin]
BusesController == [read |-> Company, manage |-> Admin]
LocationController == [live |-> Company]
TransportController == [overview |-> Staff, board |-> {"DRIVER", "ADMIN"}]
BillingController == [read |-> Company, manage |-> Admin]
CompaniesController == [all |-> {"PLATFORM_ADMIN"}, me |-> Admin]
DashboardController == [overview |-> Staff, reports |-> Admin]
RfidController == [link |-> UserRole]

Endpoints ==
  [templates |-> BillingTemplatesController, routes |-> RoutesController,
   schedules |-> RouteSchedulesController, students |-> StudentsController,
   groups |-> GroupsController, devices |-> DevicesController, users |-> UsersController,
   buses |-> BusesController, location |-> LocationController,
   transport |-> TransportController, billing |-> BillingController,
   companies |-> CompaniesController, dashboard |-> DashboardController,
   rfid |-> RfidController]

(* The roles the endpoint e, a controller and what is asked of it, admits.   *)
RolesOf(e) == Endpoints[e[1]][e[2]]

-----------------------------------------------------------------------------
(* The endpoints a page asks, shown to a user of the role r.                  *)
Managed(r, read, manage) == read \cup (IF r = "ADMIN" THEN manage ELSE {})
ReadOf(controller) == <<controller, "read">>
ManageOf(controller) == <<controller, "manage">>

DashboardView(r) ==
  IF r \in {"PLATFORM_ADMIN", "USER"} THEN {} ELSE {<<"dashboard", "overview">>}
CompaniesPage(r) == IF r = "PLATFORM_ADMIN" THEN {<<"companies", "all">>} ELSE {}
AppPage(r) == {}
BillingGroupsPage(r) == Managed(r, {ReadOf("templates")}, {ManageOf("templates")})
(* Mutated form of BillingPage: it asks for the templates whoever looks.       *)
BillingPageAsks(r) ==
  Managed(r, {ReadOf("billing"), ReadOf("templates")}, {ManageOf("billing")})

BillingPage(r) ==
  Managed(r, {ReadOf("billing")}, {ManageOf("billing")})
  \cup (IF r \in Staff THEN {ReadOf("templates")} ELSE {})
LocationPage(r) == {ReadOf("buses"), <<"location", "live">>}
BoardingPage(r) == IF r \in Staff THEN {<<"transport", "overview">>} ELSE {}
StudentsPage(r) ==
  Managed(r, {ReadOf("students"), ReadOf("groups"), ReadOf("routes"), ReadOf("templates")},
             {ManageOf("students"), <<"rfid", "link">>})
GroupsPage(r) == Managed(r, {ReadOf("groups")}, {ManageOf("groups")})
BusesPage(r) == Managed(r, {ReadOf("buses")}, {ManageOf("buses")})
RoutesPage(r) == Managed(r, {ReadOf("routes")}, {ManageOf("routes")})
SchedulesPage(r) ==
  Managed(r, {ReadOf("routes"), ReadOf("schedules")}, {ManageOf("schedules"), ReadOf("buses")})
DevicesPage(r) == Managed(r, {}, {ReadOf("devices"), ManageOf("devices"), ReadOf("buses")})
CompanyPage(r) == Managed(r, {}, {<<"companies", "me">>})
UsersPage(r) ==
  Managed(r, {}, {ReadOf("users"), ManageOf("users"), <<"students", "candidates">>})
ReportsPage(r) == Managed(r, {}, {<<"dashboard", "reports">>})

(* What the pages the sidebar offers to the role r ask for. *)
Sidebar(r) ==
  AppPage(r)
  \cup (IF r = "PLATFORM_ADMIN" THEN CompaniesPage(r) ELSE DashboardView(r) \cup BillingPage(r))
  \cup (IF r \in Staff
        THEN BillingGroupsPage(r) \cup LocationPage(r) \cup BoardingPage(r) \cup StudentsPage(r)
             \cup GroupsPage(r) \cup BusesPage(r) \cup RoutesPage(r) \cup SchedulesPage(r)
             \cup DevicesPage(r)
        ELSE {})
  \cup (IF r = "ADMIN" THEN CompanyPage(r) \cup UsersPage(r) \cup ReportsPage(r) ELSE {})

-----------------------------------------------------------------------------
(* The server.                                                               *)

(* JwtStrategy.validate behind JwtAuthGuard: a token that has not run out, of *)
(* an account that is still active.                                          *)
Validates(token) == token # None /\ token.fresh /\ owner[token.of].active

(* RolesGuard: the role is the one of the account, not the one in the token. *)
Admits(roles, token) == owner[token.of].role \in roles

Profile(a) == [of |-> a, role |-> owner[a].role]

-----------------------------------------------------------------------------
(* The tab.                                                                  *)
Blank == [page |-> "dashboard", user |-> None, loading |-> TRUE, expired |-> FALSE, target |-> None]

Request(what, token) ==
  [what |-> what, token |-> token, shown |-> tab.user, roles |-> {}, as |-> None, answer |-> None]

Send(c, request) == tabCall' = [tabCall EXCEPT ![c] = request]

SessionInit ==
  /\ owner \in [Owners -> [role : Roles, active : {TRUE}]]
  /\ cookie = None
  /\ tab = Blank
  /\ tabCall = [c \in TabCalls |-> None]

(* The page is loaded, or loaded anew: the provider mounts and asks who is    *)
(* signed in.                                                                *)
Mount(c) ==
  /\ \A d \in TabCalls : tabCall[d] = None
  /\ tab' = [Blank EXCEPT !.page = tab.page]
  /\ tabCall' = [tabCall EXCEPT ![c] = [Request("me", cookie) EXCEPT !.shown = None]]
  /\ UNCHANGED <<owner, cookie>>

(* The layout shows the sidebar and a page once the user is known; the page   *)
(* asks for one of its endpoints.                                            *)
AskPage(c) ==
  /\ tabCall[c] = None
  /\ tab.page = "dashboard" /\ ~tab.loading /\ tab.user # None
  /\ \E e \in Sidebar(tab.user.role) :
       Send(c, [Request("page", cookie) EXCEPT !.roles = RolesOf(e)])
  /\ UNCHANGED <<owner, cookie, tab>>

(* handleLogin: the form is there whether or not the first answer has come.  *)
(* A second click waits for the first.                                       *)
HandleLogin(c, a) ==
  /\ tabCall[c] = None
  /\ tab.page = "login"
  /\ \A d \in TabCalls : tabCall[d] # None => tabCall[d].what \notin {"login", "meOfLogin"}
  /\ Send(c, [Request("login", None) EXCEPT !.shown = None, !.as = a])
  /\ UNCHANGED <<owner, cookie, tab>>

(* logout, from the sidebar or from the dialog of an ended session. *)
HandleLogout(c) ==
  /\ tabCall[c] = None
  /\ tab.expired \/ (tab.page = "dashboard" /\ ~tab.loading /\ tab.user # None)
  /\ \A d \in TabCalls : tabCall[d] # None => tabCall[d].what # "logout"
  /\ Send(c, [Request("logout", None) EXCEPT !.shown = None])
  /\ UNCHANGED <<owner, cookie, tab>>

-----------------------------------------------------------------------------
(* A request is served: its token is the cookie the tab sent with it.  What   *)
(* an answer no longer needs is forgotten.                                   *)
AnswersTo(c) ==
  LET r == tabCall[c] IN
  CASE r.what = "logout" -> {"ok"}
    [] r.what = "login" ->
         (* a wrong password, too, is refused *)
         IF owner[r.as].active THEN {"ok", "unauthorized"} ELSE {"unauthorized"}
    [] OTHER ->
         IF ~Validates(r.token) THEN {"unauthorized"}
         ELSE IF r.what = "page" /\ ~Admits(r.roles, r.token) THEN {"forbidden"}
         ELSE {"ok"}

Serve(c) ==
  /\ tabCall[c] # None /\ tabCall[c].answer = None
  /\ \E answer \in AnswersTo(c) :
       Send(c, [tabCall[c] EXCEPT
                  !.answer = answer, !.token = None, !.shown = None, !.roles = {},
                  !.as = IF tabCall[c].what \in {"me", "meOfLogin"} /\ answer = "ok"
                         THEN Profile(tabCall[c].token.of)
                         ELSE tabCall[c].as])
  /\ UNCHANGED <<owner, cookie, tab>>

(* The request, or its answer, is lost. *)
Lose(c) ==
  /\ tabCall[c] # None /\ tabCall[c].answer \in {None, "ok"}
  /\ Send(c, [tabCall[c] EXCEPT !.answer = "lost", !.token = None, !.shown = None, !.roles = {}])
  /\ UNCHANGED <<owner, cookie, tab>>

-----------------------------------------------------------------------------
(* openSessionExpiredModal: not outside the dashboard, and once; the flag that *)
(* it was handled is set and reset together with the dialog.                  *)
Expired(answer) ==
  tab.expired \/ (answer = "unauthorized" /\ tab.page = "dashboard")

(* Every request that is refused opens the dialog, but a logout. *)
ArrivePage(c) ==
  /\ tabCall[c] # None /\ tabCall[c].what = "page" /\ tabCall[c].answer # None
  /\ tab' = [tab EXCEPT !.expired = Expired(tabCall[c].answer)]
  /\ Send(c, None)
  /\ UNCHANGED <<owner, cookie>>

(* refreshUser; after a login the dashboard is asked for, whatever it found. *)
ArriveMe(c) ==
  LET r == tabCall[c] IN
  /\ r # None /\ r.what \in {"me", "meOfLogin"} /\ r.answer # None
  /\ tab' = [tab EXCEPT !.user = IF r.answer = "ok" THEN r.as ELSE None,
                        !.loading = FALSE,
                        !.expired = IF r.answer = "ok" THEN FALSE ELSE Expired(r.answer),
                        !.target = IF r.what = "meOfLogin" THEN "dashboard" ELSE @]
  /\ Send(c, None)
  /\ UNCHANGED <<owner, cookie>>

(* A login that was answered has set the cookie, and asks who is signed in. *)
ArriveLogin(c) ==
  LET r == tabCall[c] IN
  /\ r # None /\ r.what = "login" /\ r.answer # None
  /\ IF r.answer = "ok"
     THEN /\ cookie' = [of |-> r.as, fresh |-> TRUE]
          /\ Send(c, [Request("meOfLogin", cookie') EXCEPT !.shown = None])
          /\ UNCHANGED tab
     ELSE /\ tab' = [tab EXCEPT !.expired = Expired(r.answer)]
          /\ Send(c, None)
          /\ UNCHANGED cookie
  /\ UNCHANGED owner

(* A failed logout is taken for a good one; the cookie then stays. *)
ArriveLogout(c) ==
  /\ tabCall[c] # None /\ tabCall[c].what = "logout" /\ tabCall[c].answer # None
  /\ cookie' = IF tabCall[c].answer = "ok" THEN None ELSE cookie
  /\ tab' = [tab EXCEPT !.expired = FALSE, !.user = None, !.target = "login"]
  /\ Send(c, None)
  /\ UNCHANGED owner

(* The effects of the layout and of the login page. *)
Redirect ==
  /\ tab.target = None /\ ~tab.loading
  /\ \/ tab.page = "dashboard" /\ tab.user = None /\ ~tab.expired
        /\ tab' = [tab EXCEPT !.target = "login"]
     \/ tab.page = "login" /\ tab.user # None
        /\ tab' = [tab EXCEPT !.target = "dashboard"]
  /\ UNCHANGED <<owner, cookie, tabCall>>

Navigate ==
  /\ tab.target # None
  /\ tab' = [tab EXCEPT !.page = tab.target, !.target = None]
  /\ UNCHANGED <<owner, cookie, tabCall>>

-----------------------------------------------------------------------------
(* The token runs out, and the account is changed by an administrator. *)
RunOut ==
  /\ cookie # None /\ cookie.fresh
  /\ cookie' = [cookie EXCEPT !.fresh = FALSE]
  /\ UNCHANGED <<owner, tab, tabCall>>

ChangeAccount(a) ==
  /\ owner' = [owner EXCEPT ![a].active = ~@]
     \/ \E r \in (Roles \cap Company) \ {owner[a].role} :
          owner[a].role # "PLATFORM_ADMIN" /\ owner' = [owner EXCEPT ![a].role = r]
  /\ UNCHANGED <<cookie, tab, tabCall>>

SessionNext ==
  \/ \E c \in TabCalls :
       \/ Mount(c) \/ AskPage(c) \/ HandleLogout(c) \/ Serve(c) \/ Lose(c)
       \/ ArrivePage(c) \/ ArriveMe(c) \/ ArriveLogin(c) \/ ArriveLogout(c)
       \/ \E a \in Owners : HandleLogin(c, a)
  \/ Redirect \/ Navigate \/ RunOut
  \/ \E a \in Owners : ChangeAccount(a)

SessionSpec == SessionInit /\ [][SessionNext]_sessionVars

-----------------------------------------------------------------------------
Profiles == [of : Owners, role : UserRole]
Cookies == [of : Owners, fresh : BOOLEAN]
Answers == {"ok", "unauthorized", "forbidden", "lost"}
ASSUME AnswersAssumption == None \notin Answers
TabRequests ==
  [what : {"me", "meOfLogin", "page", "login", "logout"}, token : Cookies \cup {None},
   shown : Profiles \cup {None}, roles : SUBSET UserRole,
   as : Owners \cup Profiles \cup {None}, answer : Answers \cup {None}]

(* Every variable keeps its type. *)
SessionTypeOK ==
  /\ owner \in [Owners -> [role : UserRole, active : BOOLEAN]]
  /\ cookie \in Cookies \cup {None}
  /\ tab \in [page : {"login", "dashboard"}, user : Profiles \cup {None}, loading : BOOLEAN,
              expired : BOOLEAN, target : {"login", "dashboard", None}]
  /\ tabCall \in [TabCalls -> TabRequests \cup {None}]

(* OfferedIsAllowed: what a page of the sidebar asks for is never refused to   *)
(* the user it was offered to, unless an administrator changed the role since, *)
(* or the tab shows one account and holds the cookie of another.  The roles of *)
(* the menu, of the pages and of fourteen controllers are written down apart.  *)
OfferedIsAllowed ==
  [][\A c \in TabCalls :
       (tabCall[c] # None /\ tabCall[c].answer = None /\ tabCall'[c] # None
        /\ tabCall'[c].answer = "forbidden")
         => tabCall[c].shown # Profile(tabCall[c].token.of)]_sessionVars
=============================================================================
