------------------------------- MODULE ListScreen -------------------------------
(***************************************************************************)
(* A management page of the front end (students, users, groups, billing    *)
(* groups, routes, schedules, buses, devices): a table of the rows of one  *)
(* query, asked for whenever the query changes and again after each        *)
(* operation, over a network that may delay, reorder and lose answers.     *)
(*                                                                         *)
(* The eight pages share their shape; a record says where one differs.     *)
(* Only the operations of this page change the rows at the server.         *)
(***************************************************************************)
EXTENDS Integers, Sequences, FiniteSets, Null

CONSTANTS
  Items,            (* numbers: the rows, in the order of the list         *)
  Initially,        (* the sets of rows that may be active at the start    *)
  PageSize,
  MaxOps,           (* bound of the operations                             *)
  MaxAsked          (* bound of the requests of rows on their way          *)

ASSUME ItemsAssumption ==
  /\ IsFiniteSet(Items) /\ Items \subseteq Int /\ Items # {}
  /\ Initially \subseteq SUBSET Items
ASSUME PageSizeAssumption == PageSize \in Nat \ {0}
ASSUME BoundsAssumption == MaxOps \in Nat /\ MaxAsked \in Nat \ {0}

VARIABLES
  screen,           (* the page, one of Screens                            *)
  active,           (* at the server: the rows that are active             *)
  query,            (* filter and page                                     *)
  rows,             (* data and lastPage of the last answer                *)
  loading,          (* the page shows a skeleton                           *)
  requests,         (* the requests of rows on their way, in their order   *)
  op,               (* the deactivation or the save on its way             *)
  ops,              (* the operations there were                           *)
  lost,             (* history: a call failed                              *)
  crossed           (* history: answers changed places where no guard      *)
                    (* stands, or an operation asked for the rows of a     *)
                    (* query that was over                                 *)

listVars == <<screen, active, query, rows, loading, requests, op, ops, lost, crossed>>

-----------------------------------------------------------------------------
(* What the hooks differ in: whether the effect ignores the answer to a query   *)
(* that is over, whether the table goes while rows are on their way, and         *)
(* whether a failed load ends the skeleton of the first one.                    *)
GuardedHook == [guarded |-> TRUE, blanks |-> FALSE, endsOnFailure |-> TRUE]
PlainHook == [GuardedHook EXCEPT !.guarded = FALSE]

useStudents == GuardedHook
useGroups == GuardedHook
useBillingGroups == GuardedHook
useUsers == [GuardedHook EXCEPT !.endsOnFailure = FALSE]
useRoutes == PlainHook
useSchedules == PlainHook
useDevices == PlainHook
useBuses == [PlainHook EXCEPT !.blanks = TRUE]

(* What the pages differ in: whether they return to their first page after a    *)
(* deactivation, and their filters.  Buses are deleted, and have no filter.     *)
ReturningPage == [returns |-> TRUE, filters |-> {"active", "all"}]

StudentsPage == ReturningPage
GroupsPage == ReturningPage
BillingGroupsPage == ReturningPage
RoutesPage == ReturningPage
RoutePage == ReturningPage
DevicesPage == ReturningPage
UsersPage == [ReturningPage EXCEPT !.returns = FALSE]
BusesPage == [ReturningPage EXCEPT !.filters = {"active"}]

(* What the tables differ in: whether they link to the ends of the list, and    *)
(* whether rows that are not active can be ticked.                              *)
FullTable == [ends |-> TRUE, anyRow |-> FALSE]

StudentsTable == FullTable
GroupsTable == FullTable
BillingGroupsTable == FullTable
RoutesTable == FullTable
SchedulesTable == FullTable
DevicesTable == FullTable
UsersTable == [FullTable EXCEPT !.ends = FALSE]
BusesTable == [ends |-> FALSE, anyRow |-> TRUE]

(* What the lists of the server differ in: the last page when there is no row.  *)
StudentsList == [none |-> 0]
DevicesList == [none |-> 0]
BusesList == [none |-> 0]
GroupsList == [none |-> 1]
BillingGroupsList == [none |-> 1]
RoutesList == [none |-> 1]
SchedulesList == [none |-> 1]
UsersList == [none |-> 1]

Screen(hook, page, table, list) ==
  [guarded |-> hook.guarded, blanks |-> hook.blanks, endsOnFailure |-> hook.endsOnFailure,
   returns |-> page.returns, filters |-> page.filters,
   ends |-> table.ends, anyRow |-> table.anyRow, none |-> list.none]

Screens ==
  {Screen(useStudents, StudentsPage, StudentsTable, StudentsList),
   Screen(useGroups, GroupsPage, GroupsTable, GroupsList),
   Screen(useBillingGroups, BillingGroupsPage, BillingGroupsTable, BillingGroupsList),
   Screen(useRoutes, RoutesPage, RoutesTable, RoutesList),
   Screen(useSchedules, RoutePage, SchedulesTable, SchedulesList),
   Screen(useDevices, DevicesPage, DevicesTable, DevicesList),
   Screen(useUsers, UsersPage, UsersTable, UsersList),
   Screen(useBuses, BusesPage, BusesTable, BusesList)}

-----------------------------------------------------------------------------
(* What is asked for, what is answered, and what is done to the rows. *)
Queries == [filter : {"active", "all"}, page : 1 .. Cardinality(Items) + 1]
Replies == [data : SUBSET (Items \X BOOLEAN), lastPage : 0 .. Cardinality(Items)]
Fetches ==
  [query : Queries, kind : {"effect", "refetch"}, reply : Replies \cup {None},
   current : BOOLEAN, passed : BOOLEAN]
Operations ==
  [kind : {"deactivate", "save"}, next : SUBSET Items, query : Queries, done : BOOLEAN]
ASSUME OperationsAssumption == None \notin Operations

(* The answer of the server to a query, the rows with their state. *)
Listed(filter, now) == IF filter = "all" THEN Items ELSE now
LastPage(filter, now) ==
  IF Listed(filter, now) = {} THEN screen.none
  ELSE (Cardinality(Listed(filter, now)) + PageSize - 1) \div PageSize
Rank(i, S) == Cardinality({j \in S : j < i})
AnswerTo(q, now) ==
  LET S == Listed(q.filter, now)
  IN [data |-> {<<i, i \in now>> : i \in {j \in S : Rank(j, S) \div PageSize = q.page - 1}},
      lastPage |-> LastPage(q.filter, now)]

FirstQuery == [filter |-> "active", page |-> 1]
Request(q, kind) ==
  [query |-> q, kind |-> kind, reply |-> None, current |-> TRUE, passed |-> FALSE]
Outdated ==
  [k \in DOMAIN requests |->
     [requests[k] EXCEPT !.current = @ /\ requests[k].kind # "effect"]]

ListInit ==
  /\ screen \in Screens
  /\ active \in Initially
  /\ query = FirstQuery
  /\ rows = [data |-> {}, lastPage |-> 1]
  /\ loading = TRUE
  /\ requests = <<Request(FirstQuery, "effect")>>
  /\ op = None /\ ops = 0
  /\ lost = FALSE /\ crossed = FALSE

(* The effect: it runs whenever the query is another one, and its cleanup       *)
(* marks the requests of the one before.                                       *)
Show(q) ==
  /\ query' = q
  /\ requests' = Append(Outdated, Request(q, "effect"))

(* The filter, the search or the page is changed. *)
ChangeFilter(f) ==
  /\ ~loading /\ Len(requests) < MaxAsked
  /\ f \in screen.filters \ {query.filter}
  /\ Show([filter |-> f, page |-> 1])
  /\ loading' = screen.blanks
  /\ UNCHANGED <<screen, active, rows, op, ops, lost, crossed>>

(* The pages a table links to: those around the one shown, the ends, and the    *)
(* next one unless the one shown is the last.                                  *)
Links(page, last) ==
  {p \in 1 .. last : p \in page - 2 .. page + 2 \/ (screen.ends /\ p \in {1, last})}
    \cup {p \in {page - 1} : page # 1} \cup {p \in {page + 1} : page # last}

ChangePage(p) ==
  /\ ~loading /\ Len(requests) < MaxAsked
  /\ p \in Links(query.page, rows.lastPage) \ {query.page}
  /\ Show([query EXCEPT !.page = p])
  /\ loading' = screen.blanks
  /\ UNCHANGED <<screen, active, rows, op, ops, lost, crossed>>

-----------------------------------------------------------------------------
(* The server reads the rows for a request. *)
Read(k) ==
  /\ requests[k].reply = None
  /\ requests' = [requests EXCEPT ![k].reply = AnswerTo(requests[k].query, active)]
  /\ UNCHANGED <<screen, active, query, rows, loading, op, ops, lost, crossed>>

(* A request is over; those before it that still run have been passed, unless   *)
(* the guard of the effects stands between the two.                            *)
Unguarded(r, s) == ~screen.guarded \/ "refetch" \in {r.kind, s.kind}
RequestOver(k) ==
  requests' = [j \in 1 .. Len(requests) - 1 |->
                 IF j < k
                 THEN [requests[j] EXCEPT !.passed = @ \/ Unguarded(requests[j], requests[k])]
                 ELSE requests[j + 1]]

(* Whether the page takes an answer: an effect with a guard does so only while  *)
(* its query is the current one; refetch always does.                          *)
Taken(r) == screen.guarded => r.current

ArriveRows(k) ==
  /\ requests[k].reply # None
  /\ IF Taken(requests[k])
     THEN /\ rows' = requests[k].reply /\ loading' = FALSE
          /\ crossed' = (crossed \/ requests[k].passed)
     ELSE UNCHANGED <<rows, loading, crossed>>
  /\ RequestOver(k)
  /\ UNCHANGED <<screen, active, query, op, ops, lost>>

Lose(k) ==
  /\ RequestOver(k)
  /\ lost' = TRUE
  /\ loading' = IF Taken(requests[k]) /\ screen.endsOnFailure THEN FALSE ELSE loading
  /\ UNCHANGED <<screen, active, query, rows, op, ops, crossed>>

-----------------------------------------------------------------------------
(* An operation keeps the refetch, and with it the query, of the page as it was *)
(* when its button was pressed.  validSelected: only rows shown can be ticked.  *)
Tickable == {i \in Items : <<i, TRUE>> \in rows.data \/ (screen.anyRow /\ <<i, FALSE>> \in rows.data)}

StartDeactivate(ids) ==
  /\ ~loading /\ op = None /\ ops < MaxOps
  /\ ids # {} /\ ids \subseteq Tickable
  /\ op' = [kind |-> "deactivate", next |-> active \ ids, query |-> query, done |-> FALSE]
  /\ ops' = ops + 1
  /\ UNCHANGED <<screen, active, query, rows, loading, requests, lost, crossed>>

(* A form is saved: a row is created or activated again. *)
StartSave(i) ==
  /\ ~loading /\ op = None /\ ops < MaxOps
  /\ op' = [kind |-> "save", next |-> active \cup {i}, query |-> query, done |-> FALSE]
  /\ ops' = ops + 1
  /\ UNCHANGED <<screen, active, query, rows, loading, requests, lost, crossed>>

Commit ==
  /\ op # None /\ ~op.done
  /\ active' = op.next
  /\ op' = [op EXCEPT !.done = TRUE]
  /\ UNCHANGED <<screen, query, rows, loading, requests, ops, lost, crossed>>

(* Mutated form of Finish: the rows are not asked for again. *)
FinishSilently ==
  /\ op # None /\ op.done
  /\ op' = None
  /\ UNCHANGED <<screen, active, query, rows, loading, requests, ops, lost, crossed>>

(* handleConfirmDelete and onSuccess, with the answer of the server: the page   *)
(* may return to its first one, and asks for the rows it had in view.          *)
Returns == op.kind = "deactivate" /\ screen.returns /\ op.query.page > 1
Finish ==
  /\ op # None /\ op.done
  /\ LET refetch == Request(op.query, "refetch")
         first == [query EXCEPT !.page = 1]
     IN IF Returns /\ query # first
        THEN /\ query' = first
             /\ requests' = Outdated \o <<refetch, Request(first, "effect")>>
        ELSE /\ requests' = Append(requests, refetch)
             /\ UNCHANGED query
  /\ Len(requests') <= MaxAsked
  /\ loading' = (loading \/ screen.blanks)
  /\ crossed' = (crossed \/ op.query # query)
  /\ op' = None
  /\ UNCHANGED <<screen, active, rows, ops, lost>>

(* The call is refused or its answer is lost: a message. *)
OperationFails ==
  /\ op # None
  /\ op' = None
  /\ lost' = TRUE
  /\ UNCHANGED <<screen, active, query, rows, loading, requests, ops, crossed>>

ListNext ==
  \/ \E f \in {"active", "all"} : ChangeFilter(f)
  \/ \E p \in 1 .. Cardinality(Items) + 1 : ChangePage(p)
  \/ \E k \in DOMAIN requests : Read(k) \/ ArriveRows(k) \/ Lose(k)
  \/ \E ids \in SUBSET Items : StartDeactivate(ids)
  \/ \E i \in Items : StartSave(i)
  \/ Commit \/ Finish \/ OperationFails

ListSpec == ListInit /\ [][ListNext]_listVars

-----------------------------------------------------------------------------
(* Every variable keeps its type. *)
ListTypeOK ==
  /\ screen \in Screens
  /\ active \in SUBSET Items
  /\ query \in Queries /\ query.filter \in screen.filters
  /\ rows \in Replies
  /\ loading \in BOOLEAN
  /\ requests \in Seq(Fetches) /\ Len(requests) <= MaxAsked
  /\ op \in Operations \cup {None}
  /\ ops \in 0 .. MaxOps /\ lost \in BOOLEAN /\ crossed \in BOOLEAN

AtRest == requests = <<>> /\ op = None
UpToDate == rows = AnswerTo(query, active)

(* A page at rest shows the rows of the filter and the page it names, as they   *)
(* are at the server, unless a call failed or answers crossed where the page    *)
(* has no guard against it.                                                    *)
ShowsItsQuery == AtRest /\ ~lost /\ ~crossed => UpToDate
=============================================================================
