----------------------------- MODULE ScreenProofs -----------------------------
(***************************************************************************)
(* Proofs about the management pages, for every number of rows, requests,  *)
(* operations and openings.  Of FormDialog: its types, that an open dialog *)
(* is about one opening, and that what was saved is listed.  Of            *)
(* ListScreen: its types, and that a page at rest shows the rows of the    *)
(* query it names.                                                         *)
(***************************************************************************)
EXTENDS FormDialog, ListScreen, FiniteSetTheorems, SequenceTheorems, TLAPS

(* The dialogs that ignore late options drop the old ones when their request    *)
(* fails.                                                                      *)
LEMMA GuardedDialogs ==
  ASSUME NEW d \in AllDialogs, d.options = "guarded"
  PROVE  ~d.keeps
<1>1. PlainDialog.keeps = FALSE /\ DOMAIN PlainDialog = {"options", "waits", "keeps", "links", "awaits"}
  BY DEF PlainDialog
<1>2. StudentModal.keeps = FALSE /\ UserFormModal.keeps = FALSE /\ DeviceModal.keeps = FALSE
  BY <1>1 DEF StudentModal, UserFormModal, DeviceModal
<1>3. ScheduleFormModal.options = "plain"
  BY <1>1 DEF ScheduleFormModal
<1>4. d # ScheduleFormModal
  BY <1>3
<1>5. d \in {PlainDialog, StudentModal, UserFormModal, DeviceModal}
  BY <1>4 DEF AllDialogs, RouteModal, BusFormModal, GroupFormModal, BillingGroupFormModal
<1>6. d.keeps = FALSE
  BY <1>1, <1>2, <1>5
<1>7. QED
  BY <1>6

(* A dialog that is open was opened, and its card step is that of somebody.     *)
Opened ==
  /\ target # None => opening # 0
  /\ fields.step = "link" => fields.created \in 1 .. Openings

-----------------------------------------------------------------------------
LEMMA DialogInvariant == DialogSpec => [](DialogTypeOK /\ Opened)
<1> USE OpeningsAssumption, SaveCallAssumption DEF DialogTypeOK, Opened
<1>1. DialogInit => DialogTypeOK /\ Opened
  <2> SUFFICES ASSUME DialogInit PROVE DialogTypeOK /\ Opened
    OBVIOUS
  <2>1. saving = (save # None)
    BY DEF DialogInit
  <2>2. fields \in [of : 0 .. Openings, step : {"fields", "link"},
                  created : (1 .. Openings) \cup {None}, chosen : (1 .. Openings) \cup {None}]
    BY DEF DialogInit
  <2>3. QED
    BY <2>1, <2>2 DEF DialogInit
<1>2. DialogTypeOK /\ Opened /\ [DialogNext]_dialogVars => (DialogTypeOK /\ Opened)'
  <2> SUFFICES ASSUME DialogTypeOK, Opened, [DialogNext]_dialogVars PROVE (DialogTypeOK /\ Opened)'
    OBVIOUS
  <2>1. ASSUME NEW t \in {"new", "row"}, Open(t) PROVE (DialogTypeOK /\ Opened)'
    <3>1. opening' \in 1 .. Openings /\ opening' # 0
      BY <2>1 DEF Open
    <3>2. fields' = [of |-> opening', step |-> "fields", created |-> None, chosen |-> None]
      BY <2>1 DEF Open, Fill
    <3>3. loads' \in SUBSET (1 .. Openings)
      BY <2>1, <3>1 DEF Open
    <3>4. waiting' \in BOOLEAN
      BY <2>1 DEF Open
    <3>5. QED
      BY <2>1, <3>1, <3>2, <3>3, <3>4 DEF Open
  <2>2. ASSUME NEW n \in 1 .. Openings, ArriveOptions(n) PROVE (DialogTypeOK /\ Opened)'
    <3>1. waiting' \in BOOLEAN
      BY <2>2 DEF ArriveOptions
    <3>2. offer' \in (1 .. Openings) \cup {None}
      BY <2>2 DEF ArriveOptions
    <3>3. QED
      BY <2>2, <3>1, <3>2 DEF ArriveOptions
  <2>3. ASSUME Choose PROVE (DialogTypeOK /\ Opened)'
    BY <2>3 DEF Choose
  <2>4. ASSUME Close PROVE (DialogTypeOK /\ Opened)'
    <3>1. abandoned' \in BOOLEAN /\ skipped' \in BOOLEAN
      BY <2>4 DEF Close
    <3>2. QED
      BY <2>4, <3>1 DEF Close
  <2>5. ASSUME Submit PROVE (DialogTypeOK /\ Opened)'
    <3>1. save' \in SaveCall
      BY <2>5 DEF Submit, SaveCall
    <3>2. saving' = (save' # None)
      BY <2>5, <3>1 DEF Submit
    <3>3. QED
      BY <2>5, <3>1, <3>2 DEF Submit, SaveCall
  <2>6. ASSUME Saved PROVE (DialogTypeOK /\ Opened)'
    <3>1. saving' = (save' # None)
      BY <2>6 DEF Saved
    <3>2. target' \in {"new", "row", None} /\ (target' # None => target # None)
      BY <2>6 DEF Saved, ListAndClose
    <3>3. fields' = fields \/ fields' = [fields EXCEPT !.step = "link", !.created = save.of]
      BY <2>6 DEF Saved
    <3>4. unlisted' \in BOOLEAN
      BY <2>6 DEF Saved, ListAndClose
    <3>5. save.of \in 1 .. Openings
      BY <2>6 DEF Saved, SaveCall
    <3>6. /\ fields' \in [of : 0 .. Openings, step : {"fields", "link"},
                        created : (1 .. Openings) \cup {None}, chosen : (1 .. Openings) \cup {None}]
          /\ fields'.step = "link" => fields'.created \in 1 .. Openings
      BY <3>3, <3>5
    <3>7. QED
      BY <2>6, <3>1, <3>2, <3>4, <3>6 DEF Saved
  <2>7. ASSUME SaveFails PROVE (DialogTypeOK /\ Opened)'
    <3>1. saving' = (save' # None)
      BY <2>7 DEF SaveFails
    <3>2. QED
      BY <2>7, <3>1 DEF SaveFails
  <2>8. ASSUME ConfirmLink PROVE (DialogTypeOK /\ Opened)'
    BY <2>8 DEF ConfirmLink
  <2>9. ASSUME Linked \/ LinkFails PROVE (DialogTypeOK /\ Opened)'
    BY <2>9 DEF Linked, LinkFails, ListAndClose
  <2>10. ASSUME UNCHANGED dialogVars PROVE (DialogTypeOK /\ Opened)'
    BY <2>10 DEF dialogVars
  <2>11. QED
    BY <2>1, <2>2, <2>3, <2>4, <2>5, <2>6, <2>7, <2>8, <2>9, <2>10 DEF DialogNext
<1>3. QED
  BY <1>1, <1>2, PTL DEF DialogSpec

(* Every reachable state is of the declared types. *)
THEOREM DialogTypeCorrect == DialogSpec => []DialogTypeOK
BY DialogInvariant, PTL

-----------------------------------------------------------------------------
(* The form is the one this opening filled, and in a guarded dialog the options *)
(* on offer are this opening's or still on their way.                           *)
OfThisOpening ==
  /\ fields.of = opening
  /\ dialog.options = "guarded" =>
       /\ waiting \/ offer \in {None, opening}
       /\ target # None => fields.chosen \in {None, opening}

(* As long as nobody closed a dialog over a call of its own: the call on its    *)
(* way is that of the open dialog, which is still in the step it was made from. *)
CallsOfThisOpening ==
  ~abandoned =>
    /\ save # None => target # None /\ save.of = opening /\ fields.step = "fields"
    /\ link # None => /\ target # None /\ fields.step = "link"
                      /\ link.created = link.of
    /\ target # None /\ fields.step = "link" => fields.created = opening

(* A student that is not listed is waiting for its card.                        *)
UnlistedWaits ==
  unlisted /\ ~abandoned /\ ~skipped => target # None /\ fields.step = "link"

Kept == OfThisOpening /\ CallsOfThisOpening /\ UnlistedWaits

LEMMA KeptInvariant == DialogSpec => []Kept
<1> USE OpeningsAssumption, SaveCallAssumption DEF Kept, DialogTypeOK
<1>1. DialogInit => Kept
  BY DEF DialogInit, OfThisOpening, CallsOfThisOpening, UnlistedWaits
<1>2. DialogTypeOK /\ Opened /\ Kept /\ [DialogNext]_dialogVars => Kept'
  <2> SUFFICES ASSUME DialogTypeOK, Opened, Kept, [DialogNext]_dialogVars PROVE Kept'
    OBVIOUS
  (* Nothing but an abandoned call is on its way when a dialog opens.           *)
  <2>1. ASSUME NEW t \in {"new", "row"}, Open(t) PROVE Kept'
    <3>1. fields' = [of |-> opening', step |-> "fields", created |-> None, chosen |-> None]
      BY <2>1 DEF Open, Fill
    <3>2. OfThisOpening'
      BY <2>1, <3>1 DEF Open, OfThisOpening
    <3>3. CallsOfThisOpening'
      BY <2>1, <3>1 DEF Open, CallsOfThisOpening
    <3>4. UnlistedWaits'
      BY <2>1, <3>1 DEF Open, UnlistedWaits
    <3>5. QED
      BY <3>2, <3>3, <3>4
  <2>2. ASSUME NEW n \in 1 .. Openings, ArriveOptions(n) PROVE Kept'
    <3>1. OfThisOpening'
      <4>1. CASE dialog.options # "guarded"
        BY <2>2, <4>1 DEF ArriveOptions, OfThisOpening
      <4>2. CASE dialog.options = "guarded" /\ Current(n)
        BY <2>2, <4>2, GuardedDialogs DEF ArriveOptions, OfThisOpening, Current
      <4>3. CASE dialog.options = "guarded" /\ ~Current(n)
        BY <2>2, <4>3 DEF ArriveOptions, OfThisOpening
      <4>4. QED
        BY <4>1, <4>2, <4>3
    <3>2. CallsOfThisOpening' /\ UnlistedWaits'
      BY <2>2 DEF ArriveOptions, CallsOfThisOpening, UnlistedWaits
    <3>3. QED
      BY <3>1, <3>2
  <2>3. ASSUME Choose PROVE Kept'
    <3>1. fields' = [fields EXCEPT !.chosen = offer] /\ fields.step = "fields"
      BY <2>3 DEF Choose
    <3>2. OfThisOpening'
      BY <2>3, <3>1 DEF Choose, OfThisOpening
    <3>3. CallsOfThisOpening' /\ UnlistedWaits'
      BY <2>3, <3>1 DEF Choose, CallsOfThisOpening, UnlistedWaits
    <3>4. QED
      BY <3>2, <3>3
  <2>4. ASSUME Close PROVE Kept'
    BY <2>4 DEF Close, OfThisOpening, CallsOfThisOpening, UnlistedWaits
  <2>5. ASSUME Submit PROVE Kept'
    BY <2>5 DEF Submit, OfThisOpening, CallsOfThisOpening, UnlistedWaits
  <2>6. ASSUME Saved PROVE Kept'
    <3>1. OfThisOpening'
      BY <2>6 DEF Saved, ListAndClose, OfThisOpening
    <3>2. CallsOfThisOpening'
      BY <2>6 DEF Saved, ListAndClose, CallsOfThisOpening
    <3>3. UnlistedWaits'
      BY <2>6 DEF Saved, ListAndClose, CallsOfThisOpening, UnlistedWaits
    <3>4. QED
      BY <3>1, <3>2, <3>3
  <2>7. ASSUME SaveFails PROVE Kept'
    BY <2>7 DEF SaveFails, OfThisOpening, CallsOfThisOpening, UnlistedWaits
  <2>8. ASSUME ConfirmLink PROVE Kept'
    BY <2>8 DEF ConfirmLink, OfThisOpening, CallsOfThisOpening, UnlistedWaits
  (* No save is on its way beside the card: closing leaves none behind.         *)
  <2>9. ASSUME Linked \/ LinkFails PROVE Kept'
    BY <2>9 DEF Linked, LinkFails, ListAndClose, OfThisOpening, CallsOfThisOpening, UnlistedWaits
  <2>10. ASSUME UNCHANGED dialogVars PROVE Kept'
    BY <2>10 DEF dialogVars, OfThisOpening, CallsOfThisOpening, UnlistedWaits
  <2>11. QED
    BY <2>1, <2>2, <2>3, <2>4, <2>5, <2>6, <2>7, <2>8, <2>9, <2>10 DEF DialogNext
<1>3. QED
  BY <1>1, <1>2, DialogInvariant, PTL DEF DialogSpec

(* An open dialog is about one opening: its form, its guarded options, the      *)
(* student whose card it asks for.                                              *)
THEOREM DialogIsAboutOneOpening == DialogSpec => []OneOpening
<1>1. Kept => OneOpening
  BY DEF Kept, OfThisOpening, CallsOfThisOpening, OneOpening
<1>2. QED
  BY <1>1, KeptInvariant, PTL

(* What was saved is in the list that was asked for last, unless a card was     *)
(* skipped or a dialog closed over its own call.                                *)
THEOREM SavedRowsAreListed == DialogSpec => []SavedIsListed
<1>1. DialogTypeOK /\ Kept => SavedIsListed
  BY DEF DialogTypeOK, Kept, UnlistedWaits, SavedIsListed
<1>2. QED
  BY <1>1, KeptInvariant, DialogInvariant, PTL

-----------------------------------------------------------------------------
(* The eight pages: what the types of their state need of them. *)
LEMMA ScreenFacts ==
  ASSUME NEW d \in Screens
  PROVE  /\ d.none \in {0, 1} /\ d.blanks \in BOOLEAN
         /\ "active" \in d.filters /\ d.filters \subseteq {"active", "all"}
<1>1. \A hook \in {useStudents, useGroups, useBillingGroups, useUsers, useRoutes, useSchedules,
                   useDevices, useBuses} : hook.blanks \in BOOLEAN
  <2>1. GuardedHook \in [guarded : BOOLEAN, blanks : BOOLEAN, endsOnFailure : BOOLEAN]
    BY DEF GuardedHook
  <2>2. PlainHook \in [guarded : BOOLEAN, blanks : BOOLEAN, endsOnFailure : BOOLEAN]
    BY <2>1 DEF PlainHook
  <2>3. useBuses.blanks \in BOOLEAN /\ useUsers.blanks \in BOOLEAN
    BY <2>1, <2>2 DEF useBuses, useUsers
  <2>4. QED
    BY <2>1, <2>2, <2>3
    DEF useStudents, useGroups, useBillingGroups, useRoutes, useSchedules, useDevices
<1>2. \A page \in {StudentsPage, GroupsPage, BillingGroupsPage, RoutesPage, RoutePage,
                   DevicesPage, UsersPage, BusesPage} :
        "active" \in page.filters /\ page.filters \subseteq {"active", "all"}
  BY DEF StudentsPage, GroupsPage, BillingGroupsPage, RoutesPage, RoutePage, DevicesPage,
         UsersPage, BusesPage, ReturningPage
<1>3. \A list \in {StudentsList, DevicesList, BusesList, GroupsList, BillingGroupsList,
                   RoutesList, SchedulesList, UsersList} : list.none \in {0, 1}
  BY DEF StudentsList, DevicesList, BusesList, GroupsList, BillingGroupsList, RoutesList,
         SchedulesList, UsersList
<1>4. PICK hook \in {useStudents, useGroups, useBillingGroups, useUsers, useRoutes,
                     useSchedules, useDevices, useBuses},
           page \in {StudentsPage, GroupsPage, BillingGroupsPage, RoutesPage, RoutePage,
                     DevicesPage, UsersPage, BusesPage},
           table \in {StudentsTable, GroupsTable, BillingGroupsTable, RoutesTable,
                      SchedulesTable, DevicesTable, UsersTable, BusesTable},
           list \in {StudentsList, DevicesList, BusesList, GroupsList, BillingGroupsList,
                     RoutesList, SchedulesList, UsersList} :
        d = Screen(hook, page, table, list)
  BY Zenon DEF Screens
<1>5. d.none = list.none /\ d.blanks = hook.blanks /\ d.filters = page.filters
  BY <1>4 DEF Screen
<1>6. QED
  BY <1>1, <1>2, <1>3, <1>5

(* The pages of a list with rows are not more than its rows. *)
LEMMA PagesBounded ==
  ASSUME NEW C \in Nat \ {0}, NEW P \in Nat \ {0}
  PROVE  (C + P - 1) \div P \in 0 .. C
<1> DEFINE x == C + P - 1
           q == x \div P
           m == x % P
<1>1. x \in Nat /\ q \in Int /\ m \in 0 .. P - 1
  OBVIOUS
<1>2. x = P * q + m
  OBVIOUS
<1> HIDE DEF q, m
<1>3. x = C + P - 1
  OBVIOUS
<1> HIDE DEF x
<1>4. ASSUME q >= C + 1 PROVE FALSE
  <2>1. P * q >= P * (C + 1)
    BY <1>1, <1>4
  <2>2. P * (C + 1) = P * C + P
    OBVIOUS
  <2>3. P * C >= C
    OBVIOUS
  <2>4. P * q \in Int /\ P * C \in Int
    BY <1>1
  <2>5. QED
    BY <1>1, <1>2, <1>3, <2>1, <2>2, <2>3, <2>4
<1>5. ASSUME q <= -1 PROVE FALSE
  <2>1. P * q <= -P
    BY <1>1, <1>5
  <2>2. QED
    BY <1>1, <1>2, <2>1
<1>6. q \in 0 .. C
  BY <1>1, <1>4, <1>5
<1>7. QED
  BY <1>6 DEF q, x

LEMMA RowsCounted ==
  /\ Cardinality(Items) \in Nat \ {0}
  /\ \A S \in SUBSET Items : Cardinality(S) \in 0 .. Cardinality(Items)
  /\ \A S \in SUBSET Items : S # {} => Cardinality(S) # 0
<1>1. Cardinality(Items) \in Nat \ {0}
  BY ItemsAssumption, FS_CardinalityType, FS_EmptySet
<1>2. ASSUME NEW S \in SUBSET Items
      PROVE  Cardinality(S) \in 0 .. Cardinality(Items) /\ (S # {} => Cardinality(S) # 0)
  <2>1. IsFiniteSet(S) /\ Cardinality(S) <= Cardinality(Items)
    BY ItemsAssumption, FS_Subset
  <2>2. Cardinality(S) \in Nat /\ (S # {} => Cardinality(S) # 0)
    BY <2>1, FS_CardinalityType, FS_EmptySet
  <2>3. QED
    BY <1>1, <2>1, <2>2
<1>3. QED
  BY <1>1, <1>2

(* The answer to a query is a part of the list, and its last page is at most as *)
(* far as there are rows.                                                      *)
LEMMA AnswerTyped ==
  ASSUME screen \in Screens, NEW q \in Queries, NEW now \in SUBSET Items
  PROVE  AnswerTo(q, now) \in Replies
<1> DEFINE S == Listed(q.filter, now)
<1>1. S \in SUBSET Items
  BY DEF Listed
<1>2. LastPage(q.filter, now) \in 0 .. Cardinality(Items)
  <2>1. CASE S = {}
    BY <2>1, ScreenFacts, RowsCounted DEF LastPage
  <2>2. CASE S # {}
    <3>1. Cardinality(S) \in Nat \ {0} /\ Cardinality(S) <= Cardinality(Items)
      BY <1>1, <2>2, RowsCounted
    <3>2. (Cardinality(S) + PageSize - 1) \div PageSize \in 0 .. Cardinality(S)
      BY <3>1, PageSizeAssumption, PagesBounded
    <3>3. QED
      BY <2>2, <3>1, <3>2, RowsCounted DEF LastPage
  <2>3. QED
    BY <2>1, <2>2
<1> DEFINE data == {<<i, i \in now>> : i \in {j \in S : Rank(j, S) \div PageSize = q.page - 1}}
<1>3. data \in SUBSET (Items \X BOOLEAN)
  <2>1. ASSUME NEW i \in Items PROVE <<i, i \in now>> \in Items \X BOOLEAN
    <3>1. (i \in now) \in BOOLEAN
      OBVIOUS
    <3>2. QED
      BY <3>1
  <2>2. \A x \in data : \E i \in Items : x = <<i, i \in now>>
    BY <1>1
  <2>3. QED
    BY <2>1, <2>2
<1>4. AnswerTo(q, now) = [data |-> data, lastPage |-> LastPage(q.filter, now)]
  BY DEF AnswerTo
<1> HIDE DEF data, S
<1>5. QED
  BY <1>2, <1>3, <1>4 DEF Replies

-----------------------------------------------------------------------------
(* The requests on their way after each of the things that change them. *)
LEMMA RequestTyped ==
  ASSUME NEW q \in Queries, NEW kind \in {"effect", "refetch"}
  PROVE  /\ Request(q, kind) \in Fetches
         /\ Request(q, kind).query = q /\ Request(q, kind).kind = kind
         /\ Request(q, kind).reply = None /\ Request(q, kind).current
BY DEF Request, Fetches

(* The cleanup of the effect keeps all but that they are current. *)
LEMMA OutdatedList ==
  ASSUME requests \in Seq(Fetches)
  PROVE  /\ Outdated \in Seq(Fetches) /\ Len(Outdated) = Len(requests)
         /\ \A j \in 1 .. Len(requests) :
              /\ Outdated[j].kind = requests[j].kind
              /\ Outdated[j].kind = "effect" => ~Outdated[j].current
<1>1. DOMAIN requests = 1 .. Len(requests) /\ Len(requests) \in Nat
  BY LenProperties
<1>2. ASSUME NEW j \in 1 .. Len(requests)
      PROVE  /\ Outdated[j] \in Fetches
             /\ Outdated[j].kind = requests[j].kind
             /\ Outdated[j].kind = "effect" => ~Outdated[j].current
  <2>1. requests[j] \in Fetches
    BY ElementOfSeq
  <2>2. Outdated[j] = [requests[j] EXCEPT !.current = @ /\ requests[j].kind # "effect"]
    BY <1>1 DEF Outdated
  <2> DEFINE still == requests[j].current /\ requests[j].kind # "effect"
  <2>3. Outdated[j] = [requests[j] EXCEPT !.current = still]
    BY <2>2
  <2>4. still \in BOOLEAN /\ (requests[j].kind = "effect" => ~still)
    OBVIOUS
  <2> HIDE DEF still
  <2>5. /\ [requests[j] EXCEPT !.current = still] \in Fetches
        /\ [requests[j] EXCEPT !.current = still].kind = requests[j].kind
        /\ [requests[j] EXCEPT !.current = still].current = still
    BY <2>1, <2>4 DEF Fetches
  <2>6. QED
    BY <2>3, <2>4, <2>5
<1>3. Outdated \in [1 .. Len(requests) -> Fetches]
  BY <1>1, <1>2 DEF Outdated
<1>4. Outdated \in Seq(Fetches)
  BY <1>1, <1>3, SeqDef
<1>5. Len(Outdated) = Len(requests)
  BY <1>1, <1>3, <1>4, LenProperties
<1>6. QED
  BY <1>2, <1>4, <1>5

(* A request that is over leaves the others, those before it with its passing. *)
LEMMA RemainingList ==
  ASSUME requests \in Seq(Fetches), NEW k \in DOMAIN requests, RequestOver(k)
  PROVE  /\ requests' \in Seq(Fetches) /\ Len(requests') = Len(requests) - 1
         /\ k \in 1 .. Len(requests)
         /\ \A j \in 1 .. Len(requests') :
              /\ j >= k => requests'[j] = requests[j + 1]
              /\ j < k =>
                   /\ requests'[j].query = requests[j].query
                   /\ requests'[j].kind = requests[j].kind
                   /\ requests'[j].reply = requests[j].reply
                   /\ requests'[j].current = requests[j].current
                   /\ requests'[j].passed =
                        (requests[j].passed \/ Unguarded(requests[j], requests[k]))
<1>1. DOMAIN requests = 1 .. Len(requests) /\ Len(requests) \in Nat
  BY LenProperties
<1> DEFINE n == Len(requests) - 1
<1>2. n \in Nat /\ k \in 1 .. Len(requests)
  BY <1>1
<1>3. ASSUME NEW j \in 1 .. n
      PROVE  /\ requests'[j] \in Fetches
             /\ j >= k => requests'[j] = requests[j + 1]
             /\ j < k =>
                  /\ requests'[j].query = requests[j].query
                  /\ requests'[j].kind = requests[j].kind
                  /\ requests'[j].reply = requests[j].reply
                  /\ requests'[j].current = requests[j].current
                  /\ requests'[j].passed =
                       (requests[j].passed \/ Unguarded(requests[j], requests[k]))
  <2>1. requests[j] \in Fetches /\ requests[j + 1] \in Fetches
    BY <1>1, <1>2, ElementOfSeq
  <2> DEFINE past == requests[j].passed \/ Unguarded(requests[j], requests[k])
  <2>2. requests'[j] = IF j < k THEN [requests[j] EXCEPT !.passed = past] ELSE requests[j + 1]
    BY DEF RequestOver
  <2>3. past \in BOOLEAN
    OBVIOUS
  <2>4. past = (requests[j].passed \/ Unguarded(requests[j], requests[k]))
    OBVIOUS
  <2> HIDE DEF past
  <2>5. LET r == [requests[j] EXCEPT !.passed = past] IN
          /\ r \in Fetches /\ r.query = requests[j].query /\ r.kind = requests[j].kind
          /\ r.reply = requests[j].reply /\ r.current = requests[j].current
          /\ r.passed = past
    BY <2>1, <2>3 DEF Fetches
  <2>6. CASE j < k
    BY <1>2, <2>2, <2>4, <2>5, <2>6
  <2>7. CASE j >= k
    BY <1>1, <2>1, <2>2, <2>7
  <2>8. QED
    BY <1>1, <2>6, <2>7
<1>4. requests' \in [1 .. n -> Fetches]
  BY <1>3 DEF RequestOver
<1> HIDE DEF n
<1>5. requests' \in Seq(Fetches)
  BY <1>2, <1>4, SeqDef
<1>6. Len(requests') = n
  BY <1>2, <1>4, <1>5, LenProperties
<1>7. QED
  BY <1>2, <1>3, <1>5, <1>6 DEF n

(* The answer of the server changes nothing else of a request. *)
LEMMA ReadList ==
  ASSUME ListTypeOK, NEW k \in DOMAIN requests, Read(k)
  PROVE  /\ requests' \in Seq(Fetches) /\ Len(requests') = Len(requests)
         /\ \A j \in 1 .. Len(requests) :
              /\ requests'[j].query = requests[j].query
              /\ requests'[j].kind = requests[j].kind
              /\ requests'[j].current = requests[j].current
              /\ requests'[j].passed = requests[j].passed
              /\ \/ requests'[j].reply = requests[j].reply
                 \/ requests'[j].reply = AnswerTo(requests[j].query, active)
<1>1. requests \in Seq(Fetches) /\ screen \in Screens /\ active \in SUBSET Items
  BY DEF ListTypeOK
<1>2. k \in 1 .. Len(requests) /\ requests[k] \in Fetches
  BY <1>1, LenProperties, ElementOfSeq
<1> DEFINE answer == AnswerTo(requests[k].query, active)
           r == [requests[k] EXCEPT !.reply = answer]
<1>3. answer \in Replies
  BY <1>1, <1>2, AnswerTyped DEF Fetches
<1>4. requests' = [requests EXCEPT ![k] = r]
  BY DEF Read
<1> HIDE DEF answer
<1>5. /\ r \in Fetches /\ r.query = requests[k].query /\ r.kind = requests[k].kind
      /\ r.current = requests[k].current /\ r.passed = requests[k].passed /\ r.reply = answer
  BY <1>2, <1>3 DEF Fetches
<1> HIDE DEF r
<1>6. /\ requests' \in Seq(Fetches) /\ Len(requests') = Len(requests)
      /\ \A j \in 1 .. Len(requests) : requests'[j] = IF j = k THEN r ELSE requests[j]
  BY <1>1, <1>2, <1>4, <1>5, ExceptSeq
<1>7. QED
  BY <1>5, <1>6 DEF answer

(* The newest request is for the query shown, and the effects before it that a  *)
(* guard may keep from the page are no longer current.                          *)
NewestAsks ==
  /\ Len(requests) > 0
  /\ LET newest == requests[Len(requests)] IN
       /\ ~crossed => newest.query = query
       /\ newest.reply = None /\ newest.current
       /\ \A j \in 1 .. Len(requests) - 1 :
            newest.kind = "effect" /\ requests[j].kind = "effect" => ~requests[j].current

LEMMA ShownList ==
  ASSUME ListTypeOK, NEW q \in Queries, Show(q)
  PROVE  /\ requests' \in Seq(Fetches) /\ Len(requests') = Len(requests) + 1
         /\ NewestAsks'
<1> DEFINE r == Request(q, "effect")
<1>1. r \in Fetches /\ r.query = q /\ r.kind = "effect" /\ r.reply = None /\ r.current
  BY RequestTyped
<1>2. /\ Outdated \in Seq(Fetches) /\ Len(Outdated) = Len(requests) /\ Len(requests) \in Nat
      /\ \A j \in 1 .. Len(requests) : Outdated[j].kind = "effect" => ~Outdated[j].current
  BY OutdatedList, LenProperties DEF ListTypeOK
<1>3. requests' = Append(Outdated, r) /\ query' = q
  BY DEF Show
<1> HIDE DEF r
<1>4. /\ requests' \in Seq(Fetches) /\ Len(requests') = Len(requests) + 1
      /\ \A j \in 1 .. Len(requests) : requests'[j] = Outdated[j]
      /\ requests'[Len(requests) + 1] = r
  BY <1>1, <1>2, <1>3, AppendProperties
<1>5. QED
  BY <1>1, <1>2, <1>3, <1>4 DEF NewestAsks

LEMMA FinishedList ==
  ASSUME ListTypeOK, Finish
  PROVE  /\ requests' \in Seq(Fetches) /\ Len(requests') <= MaxAsked
         /\ query' \in Queries /\ query'.filter = query.filter
         /\ NewestAsks'
<1> DEFINE first == [query EXCEPT !.page = 1]
           refetch == Request(op.query, "refetch")
           effect == Request(first, "effect")
<1>1. op \in Operations /\ op.query \in Queries /\ query \in Queries
  BY DEF Finish, ListTypeOK, Operations
<1>2. first \in Queries /\ first.filter = query.filter
  BY <1>1, RowsCounted DEF Queries
<1>3. /\ refetch \in Fetches /\ refetch.query = op.query /\ refetch.kind = "refetch"
      /\ refetch.reply = None /\ refetch.current
  BY <1>1, RequestTyped
<1>4. /\ effect \in Fetches /\ effect.query = first /\ effect.kind = "effect"
      /\ effect.reply = None /\ effect.current
  BY <1>2, RequestTyped
<1>5. /\ Outdated \in Seq(Fetches) /\ Len(Outdated) = Len(requests) /\ Len(requests) \in Nat
      /\ \A j \in 1 .. Len(requests) : Outdated[j].kind = "effect" => ~Outdated[j].current
      /\ requests \in Seq(Fetches)
  BY OutdatedList, LenProperties DEF ListTypeOK
<1>6. Len(requests') <= MaxAsked /\ (~crossed' => op.query = query)
  BY DEF Finish
<1>7. \/ query' = first /\ requests' = Outdated \o <<refetch, effect>>
      \/ query' = query /\ requests' = Append(requests, refetch)
  BY DEF Finish
<1> HIDE DEF first, refetch, effect
<1>8. CASE query' = first /\ requests' = Outdated \o <<refetch, effect>>
  <2>1. <<refetch, effect>> \in Seq(Fetches) /\ Len(<<refetch, effect>>) = 2
    BY <1>3, <1>4
  <2>2. /\ requests' \in Seq(Fetches) /\ Len(requests') = Len(requests) + 2
        /\ \A j \in 1 .. Len(requests) + 2 :
             requests'[j] = IF j <= Len(requests) THEN Outdated[j]
                            ELSE <<refetch, effect>>[j - Len(requests)]
    BY <1>5, <1>8, <2>1, ConcatProperties
  <2>3. requests'[Len(requests) + 1] = refetch /\ requests'[Len(requests) + 2] = effect
    BY <1>5, <2>2
  <2>4. \A j \in 1 .. Len(requests) : requests'[j] = Outdated[j]
    BY <1>5, <2>2
  <2>5. \A j \in 1 .. Len(requests) + 1 : requests'[j].kind = "effect" => ~requests'[j].current
    BY <1>3, <1>5, <2>3, <2>4
  <2>6. NewestAsks'
    BY <1>4, <1>5, <1>8, <2>2, <2>3, <2>5 DEF NewestAsks
  <2>7. QED
    BY <1>2, <1>6, <1>8, <2>2, <2>6
<1>9. CASE query' = query /\ requests' = Append(requests, refetch)
  <2>1. /\ requests' \in Seq(Fetches) /\ Len(requests') = Len(requests) + 1
        /\ requests'[Len(requests) + 1] = refetch
    BY <1>3, <1>5, <1>9, AppendProperties
  <2>2. NewestAsks'
    BY <1>3, <1>5, <1>6, <1>9, <2>1 DEF NewestAsks
  <2>3. QED
    BY <1>1, <1>6, <1>9, <2>1, <2>2
<1>10. QED
  BY <1>7, <1>8, <1>9

(* The types are kept by every step. *)
LEMMA ListTypeKept == ListTypeOK /\ [ListNext]_listVars => ListTypeOK'
<1> SUFFICES ASSUME ListTypeOK, [ListNext]_listVars
             PROVE  ListTypeOK'
  OBVIOUS
<1>1. /\ screen \in Screens /\ active \in SUBSET Items
      /\ query \in Queries /\ query.filter \in screen.filters
      /\ requests \in Seq(Fetches) /\ Len(requests) \in Nat /\ Len(requests) <= MaxAsked
      /\ MaxOps \in Nat /\ MaxAsked \in Nat
  BY LenProperties, BoundsAssumption DEF ListTypeOK
<1>2. ASSUME NEW f \in {"active", "all"}, ChangeFilter(f) PROVE ListTypeOK'
  <2> DEFINE q == [filter |-> f, page |-> 1]
  <2>1. q \in Queries /\ q.filter = f /\ f \in screen.filters
    BY <1>2, RowsCounted DEF Queries, ChangeFilter
  <2>2. Show(q) /\ query' = q /\ loading' = screen.blanks
    BY <1>2 DEF ChangeFilter, Show
  <2> HIDE DEF q
  <2>3. requests' \in Seq(Fetches) /\ Len(requests') = Len(requests) + 1
    BY <2>1, <2>2, ShownList
  <2>4. loading' \in BOOLEAN
    BY <1>1, <2>2, ScreenFacts
  <2>5. Len(requests') <= MaxAsked
    BY <1>1, <1>2, <2>3 DEF ChangeFilter
  <2>6. QED
    BY <1>2, <2>1, <2>2, <2>3, <2>4, <2>5 DEF ChangeFilter, ListTypeOK
<1>3. ASSUME NEW p \in 1 .. Cardinality(Items) + 1, ChangePage(p) PROVE ListTypeOK'
  <2> DEFINE q == [query EXCEPT !.page = p]
  <2>1. q \in Queries /\ q.filter = query.filter
    BY <1>1 DEF Queries
  <2>2. Show(q) /\ query' = q /\ loading' = screen.blanks
    BY <1>3 DEF ChangePage, Show
  <2> HIDE DEF q
  <2>3. requests' \in Seq(Fetches) /\ Len(requests') = Len(requests) + 1
    BY <2>1, <2>2, ShownList
  <2>4. loading' \in BOOLEAN
    BY <1>1, <2>2, ScreenFacts
  <2>5. Len(requests') <= MaxAsked
    BY <1>1, <1>3, <2>3 DEF ChangePage
  <2>6. QED
    BY <1>1, <1>3, <2>1, <2>2, <2>3, <2>4, <2>5 DEF ChangePage, ListTypeOK
<1>4. ASSUME NEW k \in DOMAIN requests, Read(k) PROVE ListTypeOK'
  <2>1. requests' \in Seq(Fetches) /\ Len(requests') = Len(requests)
    BY <1>4, ReadList
  <2>2. QED
    BY <1>4, <2>1 DEF Read, ListTypeOK
<1>5. ASSUME NEW k \in DOMAIN requests, ArriveRows(k) PROVE ListTypeOK'
  <2>1. requests' \in Seq(Fetches) /\ Len(requests') = Len(requests) - 1
    BY <1>1, <1>5, RemainingList DEF ArriveRows
  <2>2. requests[k] \in Fetches /\ requests[k].reply # None
    BY <1>1, <1>5, LenProperties, ElementOfSeq DEF ArriveRows
  <2>3. requests[k].reply \in Replies /\ requests[k].passed \in BOOLEAN
    BY <2>2 DEF Fetches
  <2>4. rows' \in Replies /\ loading' \in BOOLEAN /\ crossed' \in BOOLEAN
    BY <1>5, <2>3 DEF ArriveRows, ListTypeOK
  <2>5. Len(requests') <= MaxAsked
    BY <1>1, <2>1
  <2>6. QED
    BY <1>5, <2>1, <2>4, <2>5 DEF ArriveRows, ListTypeOK
<1>6. ASSUME NEW k \in DOMAIN requests, Lose(k) PROVE ListTypeOK'
  <2>1. requests' \in Seq(Fetches) /\ Len(requests') = Len(requests) - 1
    BY <1>1, <1>6, RemainingList DEF Lose
  <2>2. loading' \in BOOLEAN
    BY <1>6 DEF Lose, ListTypeOK
  <2>3. Len(requests') <= MaxAsked
    BY <1>1, <2>1
  <2>4. QED
    BY <1>6, <2>1, <2>2, <2>3 DEF Lose, ListTypeOK
<1>7. ASSUME NEW ids \in SUBSET Items, StartDeactivate(ids) PROVE ListTypeOK'
  <2>1. op' \in Operations
    BY <1>1, <1>7 DEF StartDeactivate, Operations
  <2>2. ops' \in 0 .. MaxOps
    BY <1>1, <1>7 DEF StartDeactivate, ListTypeOK
  <2>3. QED
    BY <1>7, <2>1, <2>2 DEF StartDeactivate, ListTypeOK
<1>8. ASSUME NEW i \in Items, StartSave(i) PROVE ListTypeOK'
  <2>1. op' \in Operations
    BY <1>1, <1>8 DEF StartSave, Operations
  <2>2. ops' \in 0 .. MaxOps
    BY <1>1, <1>8 DEF StartSave, ListTypeOK
  <2>3. QED
    BY <1>8, <2>1, <2>2 DEF StartSave, ListTypeOK
<1>9. CASE Commit
  <2>1. op \in Operations
    BY <1>9 DEF Commit, ListTypeOK
  <2>2. op' \in Operations /\ active' \in SUBSET Items
    BY <1>9, <2>1 DEF Commit, Operations
  <2>3. QED
    BY <1>9, <2>2 DEF Commit, ListTypeOK
<1>10. CASE Finish
  <2>1. /\ requests' \in Seq(Fetches) /\ Len(requests') <= MaxAsked
        /\ query' \in Queries /\ query'.filter = query.filter
    BY <1>10, FinishedList
  <2>2. loading' \in BOOLEAN /\ crossed' \in BOOLEAN
    BY <1>10 DEF Finish
  <2>3. QED
    BY <1>10, <2>1, <2>2 DEF Finish, ListTypeOK
<1>11. CASE OperationFails
  BY <1>11 DEF OperationFails, ListTypeOK
<1>12. CASE UNCHANGED listVars
  BY <1>12 DEF listVars, ListTypeOK
<1>13. QED
  BY <1>2, <1>3, <1>4, <1>5, <1>6, <1>7, <1>8, <1>9, <1>10, <1>11, <1>12 DEF ListNext

LEMMA ListStarts ==
  ASSUME ListInit
  PROVE  ListTypeOK /\ NewestAsks /\ Len(requests) = 1
<1>1. FirstQuery \in Queries /\ FirstQuery.filter = "active"
  BY RowsCounted DEF FirstQuery, Queries
<1> DEFINE r == Request(FirstQuery, "effect")
<1>2. r \in Fetches /\ r.query = FirstQuery /\ r.reply = None /\ r.current
  BY <1>1, RequestTyped
<1>3. requests = <<r>>
  BY DEF ListInit
<1> HIDE DEF r
<1>4. requests \in Seq(Fetches) /\ Len(requests) = 1 /\ requests[1] = r
  BY <1>2, <1>3
<1>5. [data |-> {}, lastPage |-> 1] \in Replies
  BY RowsCounted DEF Replies
<1>6. "active" \in screen.filters
  BY ScreenFacts DEF ListInit
<1>7. ListTypeOK
  <2>1. query = FirstQuery /\ rows \in Replies /\ op = None /\ ops = 0
        /\ loading = TRUE /\ lost = FALSE /\ crossed = FALSE /\ screen \in Screens
    BY <1>5 DEF ListInit
  <2>2. active \in SUBSET Items
    BY ItemsAssumption DEF ListInit
  <2>3. Len(requests) <= MaxAsked /\ 0 \in 0 .. MaxOps
    BY <1>4, BoundsAssumption
  <2>4. query.filter \in screen.filters
    BY <1>1, <1>6, <2>1
  <2>5. QED
    BY <1>1, <1>4, <2>1, <2>2, <2>3, <2>4 DEF ListTypeOK
<1>8. NewestAsks
  BY <1>2, <1>4 DEF ListInit, NewestAsks
<1>9. QED
  BY <1>4, <1>7, <1>8

(* The query, the rows, the requests on their way and the operation of a page  *)
(* are of their types: no page is beyond the one after the last row.           *)
THEOREM ListTypeCorrect == ListSpec => []ListTypeOK
BY ListStarts, ListTypeKept, PTL DEF ListSpec

-----------------------------------------------------------------------------
(* A request whose answer, if the page takes it, leaves the page showing its    *)
(* query, and one that will make it so.                                        *)
Good(r) ==
  /\ r.query = query /\ Taken(r)
  /\ r.reply = None \/ r.reply = AnswerTo(query, active)
Harmless(r) == ~Taken(r) \/ r.passed \/ Good(r)

(* Without an operation on its way, and unless a call failed or answers         *)
(* crossed, the page is up to date and no answer on its way can change that, or *)
(* its newest request will bring it up to date and by then the others, which a  *)
(* guard keeps away or that one passes, can do no harm.                         *)
AllHarmless == UpToDate /\ \A j \in 1 .. Len(requests) : Harmless(requests[j])
NewestIsGood ==
  /\ Len(requests) > 0
  /\ Good(requests[Len(requests)])
  /\ \A j \in 1 .. Len(requests) - 1 :
       Harmless(requests[j]) \/ Unguarded(requests[j], requests[Len(requests)])
Settling == op = None /\ ~lost /\ ~crossed => AllHarmless \/ NewestIsGood

ListInv == ListTypeOK /\ Settling

LEMMA NewestSuffices ==
  ASSUME requests \in Seq(Fetches), NewestAsks
  PROVE  ~crossed => NewestIsGood
<1> SUFFICES ASSUME ~crossed PROVE NewestIsGood
  OBVIOUS
<1> DEFINE n == Len(requests)
<1>1. n \in Nat /\ n > 0 /\ (\A j \in 1 .. n : requests[j] \in Fetches)
  BY LenProperties, ElementOfSeq DEF NewestAsks
<1>2. Good(requests[n])
  BY DEF NewestAsks, Good, Taken
<1>3. ASSUME NEW j \in 1 .. n - 1
      PROVE  Harmless(requests[j]) \/ Unguarded(requests[j], requests[n])
  <2>1. requests[j].kind \in {"effect", "refetch"} /\ requests[n].kind \in {"effect", "refetch"}
    BY <1>1 DEF Fetches
  <2>2. requests[n].kind = "effect" /\ requests[j].kind = "effect" => ~requests[j].current
    BY DEF NewestAsks
  <2>3. CASE screen.guarded /\ requests[n].kind = "effect" /\ requests[j].kind = "effect"
    BY <2>2, <2>3 DEF Harmless, Taken
  <2>4. CASE ~screen.guarded \/ "refetch" \in {requests[j].kind, requests[n].kind}
    BY <2>4 DEF Unguarded
  <2>5. QED
    BY <2>1, <2>3, <2>4
<1>4. QED
  BY <1>1, <1>2, <1>3 DEF NewestIsGood

(* The answer a request would get does not change while the query, the rows at  *)
(* the server and the page stay.                                               *)
LEMMA SameAnswer ==
  ASSUME UNCHANGED <<screen, active, query>>
  PROVE  /\ AnswerTo(query, active)' = AnswerTo(query, active)
         /\ \A r : Taken(r)' <=> Taken(r)
         /\ \A r, s : Unguarded(r, s)' <=> Unguarded(r, s)
BY DEF AnswerTo, LastPage, Listed, Taken, Unguarded

(* A request as harmless as before, with a reply of the server or without. *)
LEMMA GoodKept ==
  ASSUME UNCHANGED <<screen, active, query>>, NEW a, NEW b,
         b.query = a.query, b.current = a.current,
         b.reply = a.reply \/ b.reply = AnswerTo(a.query, active)
  PROVE  /\ Good(a) => Good(b)'
         /\ Harmless(a) /\ (a.passed => b.passed) => Harmless(b)'
<1>1. Taken(a) <=> Taken(b)'
  BY DEF Taken
<1>2. ASSUME Good(a) PROVE Good(b)'
  <2>1. /\ a.query = query /\ Taken(a)
        /\ b.reply = None \/ b.reply = AnswerTo(query, active)
    BY <1>2 DEF Good
  <2>2. b.reply = None \/ b.reply = AnswerTo(query, active)'
    BY <2>1, SameAnswer
  <2>3. b.query = query'
    BY <2>1
  <2>4. QED
    BY <1>1, <2>1, <2>2, <2>3 DEF Good
<1>3. QED
  BY <1>1, <1>2 DEF Harmless

(* What the answer to a request, or its reading, leaves of the two cases.       *)
LEMMA ReadSettles ==
  ASSUME ListTypeOK, NEW k \in DOMAIN requests, Read(k), AllHarmless \/ NewestIsGood
  PROVE  (AllHarmless \/ NewestIsGood)'
<1>1. UNCHANGED <<screen, active, query, rows>>
  BY DEF Read
<1> DEFINE n == Len(requests)
<1>2. /\ n \in Nat /\ Len(requests') = n
      /\ \A j \in 1 .. n :
           /\ requests'[j].query = requests[j].query
           /\ requests'[j].kind = requests[j].kind
           /\ requests'[j].current = requests[j].current
           /\ requests'[j].passed = requests[j].passed
           /\ \/ requests'[j].reply = requests[j].reply
              \/ requests'[j].reply = AnswerTo(requests[j].query, active)
  BY ReadList, LenProperties DEF ListTypeOK
<1>3. ASSUME NEW j \in 1 .. n
      PROVE  /\ Good(requests[j]) => Good(requests[j])'
             /\ Harmless(requests[j]) => Harmless(requests[j])'
  <2> DEFINE a == requests[j]
             b == requests'[j]
  <2>1. /\ b.query = a.query /\ b.current = a.current /\ b.passed = a.passed
        /\ b.reply = a.reply \/ b.reply = AnswerTo(a.query, active)
    BY <1>2
  <2>2. /\ Good(a) => Good(a)'
        /\ Harmless(a) /\ (a.passed => b.passed) => Harmless(a)'
    BY <1>1, <2>1, GoodKept
  <2>3. QED
    BY <2>1, <2>2
<1>4. ASSUME AllHarmless PROVE AllHarmless'
  <2>1. UpToDate'
    BY <1>1, <1>4, SameAnswer DEF AllHarmless, UpToDate
  <2>2. QED
    BY <1>2, <1>3, <1>4, <2>1 DEF AllHarmless
<1>5. ASSUME NewestIsGood PROVE NewestIsGood'
  <2>1. PICK m \in 1 .. n : m = n
    BY <1>2, <1>5 DEF NewestIsGood
  <2>2. Good(requests[m])'
    BY <1>3, <1>5, <2>1 DEF NewestIsGood
  <2>3. ASSUME NEW j \in 1 .. m - 1
        PROVE  (Harmless(requests[j]) \/ Unguarded(requests[j], requests[m]))'
    <3>1. Harmless(requests[j]) \/ Unguarded(requests[j], requests[m])
      BY <1>5, <2>1 DEF NewestIsGood
    <3>2. j \in 1 .. n
      BY <1>2, <2>1
    <3>3. Unguarded(requests[j], requests[m]) => Unguarded(requests[j], requests[m])'
      BY <1>1, <1>2, <2>1, <3>2 DEF Unguarded
    <3>4. QED
      BY <1>3, <3>1, <3>2, <3>3
  <2>4. Len(requests') = m /\ m > 0
    BY <1>2, <2>1
  <2>5. QED
    BY <2>2, <2>3, <2>4 DEF NewestIsGood
<1>6. QED
  BY <1>4, <1>5

(* A request that is over: its answer, taken, is good or leaves a crossing. *)
LEMMA ArrivalSettles ==
  ASSUME ListTypeOK, NEW k \in DOMAIN requests, ArriveRows(k), ~crossed',
         AllHarmless \/ NewestIsGood
  PROVE  (AllHarmless \/ NewestIsGood)'
<1>1. UNCHANGED <<screen, active, query>>
  BY DEF ArriveRows
<1> DEFINE n == Len(requests)
<1>2. /\ n \in Nat /\ k \in 1 .. n /\ Len(requests') = n - 1
      /\ \A j \in 1 .. n - 1 :
           /\ j >= k => requests'[j] = requests[j + 1]
           /\ j < k =>
                /\ requests'[j].query = requests[j].query
                /\ requests'[j].kind = requests[j].kind
                /\ requests'[j].reply = requests[j].reply
                /\ requests'[j].current = requests[j].current
                /\ requests'[j].passed =
                     (requests[j].passed \/ Unguarded(requests[j], requests[k]))
  BY RemainingList, LenProperties DEF ListTypeOK, ArriveRows
<1>3. ASSUME NEW j \in 1 .. n - 1, j < k
      PROVE  /\ Harmless(requests[j]) => Harmless(requests[j])'
             /\ Unguarded(requests[j], requests[k]) => Harmless(requests[j])'
  <2> DEFINE a == requests[j]
             b == requests'[j]
  <2>1. /\ b.query = a.query /\ b.current = a.current /\ b.reply = a.reply
        /\ b.passed = (a.passed \/ Unguarded(a, requests[k]))
    BY <1>2, <1>3
  <2>2. Harmless(a) /\ (a.passed => b.passed) => Harmless(a)'
    BY <1>1, <2>1, GoodKept
  <2>3. b.passed => Harmless(a)'
    BY DEF Harmless
  <2>4. QED
    BY <2>1, <2>2, <2>3
<1>4. ASSUME NEW j \in 1 .. n - 1, j >= k
      PROVE  /\ Good(requests[j + 1]) => Good(requests[j])'
             /\ Harmless(requests[j + 1]) => Harmless(requests[j])'
  <2> DEFINE a == requests[j + 1]
             b == requests'[j]
  <2>1. b = a
    BY <1>2, <1>4
  <2>2. b.query = a.query /\ b.current = a.current /\ b.reply = a.reply /\ b.passed = a.passed
    BY <2>1
  <2>3. /\ Good(a) => Good(requests[j])'
        /\ Harmless(a) /\ (a.passed => b.passed) => Harmless(requests[j])'
    BY <1>1, <2>2, GoodKept
  <2>4. QED
    BY <2>2, <2>3
<1>5. ASSUME Harmless(requests[k]), UpToDate \/ Good(requests[k])
      PROVE  UpToDate'
  <2>1. AnswerTo(query, active)' = AnswerTo(query, active)
    BY <1>1, SameAnswer
  <2>2. CASE Taken(requests[k])
    <3>1. rows' = requests[k].reply /\ ~requests[k].passed /\ requests[k].reply # None
      BY <2>2 DEF ArriveRows
    <3>2. Good(requests[k])
      BY <1>5, <2>2, <3>1 DEF Harmless
    <3>3. rows' = AnswerTo(query, active)
      BY <3>1, <3>2 DEF Good
    <3>4. QED
      BY <2>1, <3>3 DEF UpToDate
  <2>3. CASE ~Taken(requests[k])
    <3>1. rows' = rows
      BY <2>3 DEF ArriveRows
    <3>2. UpToDate
      BY <1>5, <2>3 DEF Good
    <3>3. QED
      BY <2>1, <3>1, <3>2 DEF UpToDate
  <2>4. QED
    BY <2>2, <2>3
<1>6. ASSUME AllHarmless PROVE AllHarmless'
  <2>1. UpToDate'
    BY <1>2, <1>5, <1>6 DEF AllHarmless
  <2>2. ASSUME NEW j \in 1 .. n - 1 PROVE Harmless(requests[j])'
    <3>1. Harmless(requests[j]) /\ Harmless(requests[j + 1])
      BY <1>2, <1>6 DEF AllHarmless
    <3>2. QED
      BY <1>2, <1>3, <1>4, <3>1
  <2>3. QED
    BY <1>2, <2>1, <2>2 DEF AllHarmless
<1>7. ASSUME NewestIsGood, k = n PROVE AllHarmless'
  <2>1. Good(requests[k]) /\ Harmless(requests[k])
    BY <1>7 DEF NewestIsGood, Harmless
  <2>2. UpToDate'
    BY <1>5, <2>1
  <2>3. ASSUME NEW j \in 1 .. n - 1 PROVE Harmless(requests[j])'
    <3>1. Harmless(requests[j]) \/ Unguarded(requests[j], requests[k])
      BY <1>7 DEF NewestIsGood
    <3>2. QED
      BY <1>2, <1>3, <1>7, <3>1
  <2>4. QED
    BY <1>2, <2>2, <2>3 DEF AllHarmless
<1>8. ASSUME NewestIsGood, k < n PROVE NewestIsGood'
  <2>1. PICK m \in 1 .. n - 1 : m = n - 1
    BY <1>2, <1>8
  <2>2. requests'[m] = requests[n] /\ m >= k
    BY <1>2, <1>8, <2>1
  <2>3. Good(requests[m])'
    <3>1. m + 1 = n
      BY <1>2, <2>1
    <3>2. Good(requests[m + 1])
      BY <1>8, <3>1 DEF NewestIsGood
    <3>3. QED
      BY <1>4, <2>2, <3>2
  <2>4. ASSUME NEW j \in 1 .. m - 1
        PROVE  (Harmless(requests[j]) \/ Unguarded(requests[j], requests[m]))'
    <3>1. j \in 1 .. n - 1 /\ j + 1 \in 1 .. n - 1
      BY <1>2, <2>1
    <3>2. /\ Harmless(requests[j]) \/ Unguarded(requests[j], requests[n])
          /\ Harmless(requests[j + 1]) \/ Unguarded(requests[j + 1], requests[n])
      BY <1>8, <3>1 DEF NewestIsGood
    <3>3. CASE j < k
      <4>1. requests'[j].kind = requests[j].kind
        BY <1>2, <3>1, <3>3
      <4>2. Unguarded(requests[j], requests[n]) => Unguarded(requests[j], requests[m])'
        BY <1>1, <2>2, <4>1 DEF Unguarded
      <4>3. QED
        BY <1>3, <3>1, <3>2, <3>3, <4>2
    <3>4. CASE j >= k
      <4>1. requests'[j] = requests[j + 1]
        BY <1>2, <3>1, <3>4
      <4>2. Unguarded(requests[j + 1], requests[n]) => Unguarded(requests[j], requests[m])'
        BY <1>1, <2>2, <4>1 DEF Unguarded
      <4>3. QED
        BY <1>4, <3>1, <3>2, <3>4, <4>2
    <3>5. QED
      BY <1>2, <3>1, <3>3, <3>4
  <2>5. Len(requests') = m /\ m > 0
    BY <1>2, <2>1
  <2>6. QED
    BY <2>3, <2>4, <2>5 DEF NewestIsGood
<1>9. QED
  BY <1>2, <1>6, <1>7, <1>8

LEMMA SettlingKept == ListInv /\ [ListNext]_listVars => Settling'
<1> SUFFICES ASSUME ListTypeOK, Settling, [ListNext]_listVars,
                    op' = None, ~lost', ~crossed'
             PROVE  (AllHarmless \/ NewestIsGood)'
  BY DEF ListInv, Settling
<1>1. ASSUME NEW q \in Queries, Show(q) PROVE NewestIsGood'
  <2>1. requests' \in Seq(Fetches) /\ NewestAsks'
    BY <1>1, ShownList
  <2>2. ((requests \in Seq(Fetches) /\ NewestAsks) => (~crossed => NewestIsGood))'
    BY NewestSuffices, PTL
  <2>3. QED
    BY <2>1, <2>2
<1>2. ASSUME Finish PROVE NewestIsGood'
  <2>1. requests' \in Seq(Fetches) /\ NewestAsks'
    BY <1>2, FinishedList
  <2>2. ((requests \in Seq(Fetches) /\ NewestAsks) => (~crossed => NewestIsGood))'
    BY NewestSuffices, PTL
  <2>3. QED
    BY <2>1, <2>2
<1>3. ASSUME NEW f \in {"active", "all"}, ChangeFilter(f) PROVE NewestIsGood'
  <2>1. [filter |-> f, page |-> 1] \in Queries
    BY RowsCounted DEF Queries
  <2>2. QED
    BY <1>1, <1>3, <2>1 DEF ChangeFilter
<1>4. ASSUME NEW p \in 1 .. Cardinality(Items) + 1, ChangePage(p) PROVE NewestIsGood'
  <2>1. [query EXCEPT !.page = p] \in Queries
    BY DEF ListTypeOK, Queries
  <2>2. QED
    BY <1>1, <1>4, <2>1 DEF ChangePage
<1>5. ASSUME NEW k \in DOMAIN requests, Read(k) PROVE (AllHarmless \/ NewestIsGood)'
  BY <1>5, ReadSettles DEF Settling, Read
<1>6. ASSUME NEW k \in DOMAIN requests, ArriveRows(k) PROVE (AllHarmless \/ NewestIsGood)'
  <2>1. op = None /\ ~lost /\ ~crossed
    BY <1>6 DEF ArriveRows
  <2>2. QED
    BY <1>6, <2>1, ArrivalSettles DEF Settling
<1>7. ASSUME NEW k \in DOMAIN requests, Lose(k) PROVE FALSE
  BY <1>7 DEF Lose
<1>8. ASSUME \/ \E ids \in SUBSET Items : StartDeactivate(ids)
             \/ \E i \in Items : StartSave(i)
             \/ Commit
      PROVE  FALSE
  <2>1. op' \in Operations
    <3>1. ASSUME NEW ids \in SUBSET Items, StartDeactivate(ids) PROVE op' \in Operations
      BY <3>1 DEF StartDeactivate, Operations, ListTypeOK
    <3>2. ASSUME NEW i \in Items, StartSave(i) PROVE op' \in Operations
      BY <3>2 DEF StartSave, Operations, ListTypeOK
    <3>3. ASSUME Commit PROVE op' \in Operations
      <4>1. op \in Operations
        BY <3>3 DEF Commit, ListTypeOK
      <4>2. QED
        BY <3>3, <4>1 DEF Commit, Operations
    <3>4. QED
      BY <1>8, <3>1, <3>2, <3>3
  <2>2. QED
    BY <2>1, OperationsAssumption
<1>9. ASSUME OperationFails PROVE FALSE
  BY <1>9 DEF OperationFails
<1>10. ASSUME UNCHANGED listVars PROVE (AllHarmless \/ NewestIsGood)'
  <2>1. UNCHANGED <<screen, active, query, rows, requests, op, lost, crossed>>
    BY <1>10 DEF listVars
  <2>2. AllHarmless \/ NewestIsGood
    BY <2>1 DEF Settling
  <2>3. QED
    BY <2>1, <2>2
    DEF AllHarmless, NewestIsGood, UpToDate, Harmless, Good, Taken, Unguarded,
        AnswerTo, LastPage, Listed
<1>11. QED
  BY <1>2, <1>3, <1>4, <1>5, <1>6, <1>7, <1>8, <1>9, <1>10 DEF ListNext

(* A page at rest shows the rows its filter and its page name, as they are at  *)
(* the server, unless a call failed or answers crossed where the page has no   *)
(* guard: for any rows, any number of requests on their way and operations.    *)
THEOREM PageShowsItsQuery == ListSpec => []ShowsItsQuery
<1>1. ListInit => ListInv
  <2>1. ListInit => requests \in Seq(Fetches) /\ NewestAsks /\ ListTypeOK
    BY ListStarts DEF ListTypeOK
  <2>2. QED
    BY <2>1, NewestSuffices DEF ListInv, Settling
<1>2. ListInv /\ [ListNext]_listVars => ListInv'
  BY ListTypeKept, SettlingKept DEF ListInv
<1>3. ListInv => ShowsItsQuery
  <2> SUFFICES ASSUME ListInv, AtRest, ~lost, ~crossed PROVE UpToDate
    BY DEF ShowsItsQuery
  <2>1. Len(requests) = 0 /\ op = None
    BY DEF AtRest
  <2>2. QED
    BY <2>1 DEF ListInv, Settling, AllHarmless, NewestIsGood
<1>4. QED
  BY <1>1, <1>2, <1>3, PTL DEF ListSpec
=============================================================================
