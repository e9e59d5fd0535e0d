-------------------------------- MODULE Reports --------------------------------
(***************************************************************************)
(* The reports and the figures of the dashboard                            *)
(* (dashboard/dashboard.service.ts), over the events that readers record.  *)
(*                                                                         *)
(* Five reports read one log through the filters of a query, each with     *)
(* its own joins: an event names a student and a device, whose group,      *)
(* routes and bus are those of the moment of the query.  No code writes a  *)
(* Trip row, so the figures about trips are those of an empty table.       *)
(*                                                                         *)
(* Instants are numbers, DayLength to a day.  Zone, Fixed and Local are    *)
(* the instants a day of APP_TIMEZONE, one at -03:00 and one of the        *)
(* process start later than day 0 of UTC.  Titles, columns, the order of   *)
(* the rows and the filter by type of event, which one report has, are     *)
(* left out.                                                               *)
(***************************************************************************)
EXTENDS Integers, FiniteSets, Functions, Null

CONSTANTS
  Students,
  Groups,
  Routes,
  Places,           (* the groups with the routes a student may be given   *)
  Buses,
  DayLength,
  Zone,
  Fixed,
  Local,
  Horizon,          (* the last instant of the model                       *)
  MaxEvents         (* bound of the model on the log                       *)

VARIABLES
  events,           (* the TransportEvent rows                             *)
  place,            (* the group and the routes of each student            *)
  active,           (* the students that are active                        *)
  deviceBus         (* the bus the reader is mounted on, or None           *)

vars == <<events, place, active, deviceBus>>

Types == {"BOARDING", "DEBOARDING", "DENIED"}

Init ==
  /\ events = {}
  /\ place \in [Students -> Places]
  /\ active = Students
  /\ deviceBus \in Buses

-----------------------------------------------------------------------------
(* What the reader records: an unknown card is denied. *)
Record(type, s, t) ==
  /\ Cardinality(events) < MaxEvents
  /\ s = None => type = "DENIED"
  /\ events' = events \cup {[type |-> type, student |-> s, time |-> t]}
  /\ UNCHANGED <<place, active, deviceBus>>

MoveStudent(s) ==
  /\ place' \in {[place EXCEPT ![s] = p] : p \in Places \ {place[s]}}
  /\ UNCHANGED <<events, active, deviceBus>>

DeactivateStudent(s) ==
  /\ s \in active
  /\ active' = active \ {s}
  /\ UNCHANGED <<events, place, deviceBus>>

MoveDevice ==
  /\ deviceBus' \in (Buses \cup {None}) \ {deviceBus}
  /\ UNCHANGED <<events, place, active>>

Next ==
  \/ \E type \in Types, s \in Students \cup {None}, t \in 0..Horizon : Record(type, s, t)
  \/ \E s \in Students : MoveStudent(s) \/ DeactivateStudent(s)
  \/ MoveDevice

Spec == Init /\ [][Next]_vars

-----------------------------------------------------------------------------
(* Mutated form of DateKey: the day of UTC. *)
DateKeyUTC(t) == t \div DayLength

(* getDateKey: the day of an instant in APP_TIMEZONE. *)
DateKey(t) == (t - Zone) \div DayLength

Days == DateKey(0)..DateKey(Horizon)

(* normalizeReportFilters: the query of a report; None and "all" filter         *)
(* nothing.                                                                   *)
Filters ==
  {f \in [from : Days, to : Days, bus : Buses \cup {None}, route : Routes \cup {None},
          group : Groups \cup {None}, status : {"all", "active", "inactive"}] : f.from <= f.to}

(* buildDateRange: from the midnight of one day to the end of the other, both   *)
(* at -03:00.                                                                 *)
InPeriod(e, f) ==
  /\ e.time >= f.from * DayLength + Fixed
  /\ e.time < (f.to + 1) * DayLength + Fixed

(* buildStudentScope *)
InScope(s, f) ==
  /\ f.group \in {None, place[s].group}
  /\ f.route \in {None} \cup place[s].routes
  /\ f.status = "active" => s \in active
  /\ f.status = "inactive" => s \notin active
Scope(f) == {s \in Students : InScope(s, f)}
Scoped(f) == f.group # None \/ f.route # None \/ f.status # "all"

OnBus(f) == f.bus \in {None, deviceBus}

(* buildBoardingReport, with buildTransportEventStudentScope: a filter of the   *)
(* student hides the events that have none.                                   *)
BoardingEvents(f) ==
  {e \in events : InPeriod(e, f) /\ OnBus(f) /\ (Scoped(f) => e.student \in Scope(f))}

(* The events of the reports of students, routes and groups. *)
StudentEvents(f) == {e \in events : InPeriod(e, f) /\ OnBus(f) /\ e.student \in Scope(f)}

(* buildFleetReport: those of a device on a bus. *)
FleetEvents(f) == {e \in BoardingEvents(f) : deviceBus # None}

Boardings(E) == {e \in E : e.type = "BOARDING"}

(* createDailyChartData, and the bar of a day: an event of another day than     *)
(* those of the chart is in none.                                             *)
Bars(f) == f.from..f.to
Bar(E, d) == Cardinality({e \in E : DateKey(e.time) = d})
ChartTotal(E, f) == SumFunction([d \in Bars(f) |-> Bar(Boardings(E), d)])

(* buildStudentsReport: a row for each student in scope. *)
StudentRow(s, f) == Boardings({e \in StudentEvents(f) : e.student = s})
StudentsTotal(f) == SumFunction([s \in Scope(f) |-> Cardinality(StudentRow(s, f))])

(* The students of the report, those that moved and those that did not. *)
StudentsWithUsage(f) == {s \in Scope(f) : \E e \in StudentEvents(f) : e.student = s}

(* buildGroupsReport: an event counts for the group its student is in now. *)
GroupRows(f) == IF f.group = None THEN Groups ELSE {f.group}
GroupRow(g, f) == Boardings({e \in StudentEvents(f) : place[e.student].group = g})
GroupsTotal(f) == SumFunction([g \in GroupRows(f) |-> Cardinality(GroupRow(g, f))])

(* buildRoutesReport: an event counts for each of the student's routes, and     *)
(* once in the chart.                                                         *)
RouteRows(f) == IF f.route = None THEN Routes ELSE {f.route}
OfRoutes(f) == {e \in StudentEvents(f) : place[e.student].routes \cap RouteRows(f) # {}}
RouteRow(r, f) == Boardings({e \in StudentEvents(f) : r \in place[e.student].routes})
RoutesTotal(f) == SumFunction([r \in RouteRows(f) |-> Cardinality(RouteRow(r, f))])

(* buildFleetReport: a row for each bus, those the events bring in with them. *)
FleetRow(b, f) == Boardings({e \in FleetEvents(f) : deviceBus = b})
FleetTotal(f) == SumFunction([b \in Buses |-> Cardinality(FleetRow(b, f))])

-----------------------------------------------------------------------------
(* getMetrics, on the last day of the model: the card counts what was read      *)
(* since midnight of the process and compares it with the day before;          *)
(* getChartData counts from the midnight of a day to the end of it.           *)
Midnight(d) == d * DayLength + Local
Today == (Horizon - Local) \div DayLength
ReadsSince(d) == {e \in Boardings(events) : e.time >= Midnight(d)}
ReadsOn(d) == {e \in ReadsSince(d) : e.time <= Midnight(d) + DayLength - 1}
Change == Cardinality(ReadsSince(Today)) - Cardinality(ReadsOn(Today - 1))
ChartPoint(d) == Cardinality({e \in Boardings(events) : e.time \in Midnight(d)..(Midnight(d + 1) - 1)})

-----------------------------------------------------------------------------
(* Every variable keeps its type. *)
TypeOK ==
  /\ events \in SUBSET [type : Types, student : Students \cup {None}, time : 0..Horizon]
  /\ place \in [Students -> Places]
  /\ active \in SUBSET Students
  /\ deviceBus \in Buses \cup {None}

(* The five reports tell one story of a query, wherever its period begins     *)
(* and whatever was moved or deactivated since the events: each chart adds up *)
(* to its total, students, groups and movement count the same boardings, the  *)
(* rows of the routes at least those of their chart, and the buses those of   *)
(* the movement while the reader is on one.  The change of the first page is  *)
(* that of its chart.                                                         *)
ReportsAgree ==
  /\ Change = ChartPoint(Today) - ChartPoint(Today - 1)
  /\ \A f \in Filters :
       /\ ChartTotal(BoardingEvents(f), f) = Cardinality(Boardings(BoardingEvents(f)))
       /\ ChartTotal(StudentEvents(f), f) = StudentsTotal(f)
       /\ StudentsTotal(f) = Cardinality(Boardings(BoardingEvents(f)))
       /\ GroupsTotal(f) = StudentsTotal(f)
       /\ ChartTotal(OfRoutes(f), f) <= RoutesTotal(f)
       /\ (f.route = None /\ \A s \in Students : place[s].routes # {})
            => ChartTotal(OfRoutes(f), f) = StudentsTotal(f)
       /\ FleetTotal(f) = IF deviceBus = None THEN 0 ELSE Cardinality(Boardings(BoardingEvents(f)))
=============================================================================
