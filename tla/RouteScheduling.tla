---------------------------- MODULE RouteScheduling ----------------------------
(***************************************************************************)
(* The schedules of a route and the instants at which their students are   *)
(* notified (route-schedules/, notifications/notifications.service.ts).    *)
(*                                                                         *)
(* A schedule is stored with the minute and the days of its notice, which  *)
(* are computed when it is written; the cron looks for them every minute.  *)
(* create and update check that no active schedule has the same slot, then *)
(* write in a later statement.  A slot stands for the bus, the type and    *)
(* the title.  A day is a number, its weekday the remainder by 7.          *)
(***************************************************************************)
EXTENDS Integers, Null

CONSTANTS
  Schedules,     (* ids                                                    *)
  Slots,         (* bus, type and title                                    *)
  DayMinutes,    (* minutes of a day: 1440                                 *)
  Departures,    (* minutes of the day                                     *)
  Notices,       (* minutes before the departure                           *)
  DaySets,       (* sets of weekdays                                       *)
  Requests       (* creates and updates in progress                        *)

VARIABLES
  routeActive,   (* Route.active                                           *)
  schedule,      (* the RouteSchedule rows, None before their creation     *)
  write          (* the schedule and the row each request is to write      *)

scheduleVars == <<routeActive, schedule, write>>

Weekdays == 0..6

(* The limits of the request: times of a day, and days of a week. *)
ASSUME TimesAssumption ==
  /\ DayMinutes \in Nat \ {0}
  /\ Departures \subseteq 0..(DayMinutes - 1)
  /\ Notices \subseteq 0..(DayMinutes - 1)
  /\ DaySets \subseteq SUBSET Weekdays

ScheduleRow ==
  [slot : Slots, departureMinutes : Departures, dayOfWeeks : DaySets,
   notifyBeforeMinutes : Notices, active : BOOLEAN,
   notificationTimeMinutes : 0..(DayMinutes - 1), notificationDayOfWeeks : SUBSET Weekdays]
ASSUME ScheduleRowAssumption ==
  None \notin ScheduleRow \cup [schedule : Schedules, row : ScheduleRow]

-----------------------------------------------------------------------------
(* Mutated form of NoticeDay: a notice at midnight is of the day before. *)
NoticeDayInclusive(day, departure, notice) ==
  IF notice >= departure THEN (day + 6) % 7 ELSE day

(* Mutated form of NoticeDay: the day before a Sunday is not a Saturday. *)
NoticeDayUnwrapped(day, departure, notice) == IF notice > departure THEN day - 1 ELSE day

(* The weekday of the notice of a departure on the weekday day. *)
NoticeDay(day, departure, notice) == IF notice > departure THEN (day + 6) % 7 ELSE day

(* buildScheduleData, getScheduleMetadata *)
ScheduleData(slot, departure, days, notice, active) ==
  [slot |-> slot, departureMinutes |-> departure, dayOfWeeks |-> days,
   notifyBeforeMinutes |-> notice, active |-> active,
   notificationTimeMinutes |-> (departure - notice + DayMinutes) % DayMinutes,
   notificationDayOfWeeks |-> {NoticeDay(day, departure, notice) : day \in days}]

Rows(activity) ==
  {ScheduleData(s, departure, days, notice, active) :
     s \in Slots, departure \in Departures, days \in DaySets, notice \in Notices,
     active \in activity}

SchedulesInit ==
  /\ routeActive = TRUE
  /\ schedule = [s \in Schedules |-> None]
  /\ write = [r \in Requests |-> None]

Created == {s \in Schedules : schedule[s] # None}

SameSlot(row, other) ==
  /\ row.slot = other.slot /\ row.departureMinutes = other.departureMinutes
  /\ row.dayOfWeeks \cap other.dayOfWeeks # {}

(* Mutated form of SlotAvailable: the slot of another day set is another slot. *)
SlotAvailableSameDays(s, row) ==
  \A other \in Created \ {s} :
    schedule[other].active => ~(SameSlot(row, schedule[other])
                                /\ row.dayOfWeeks = schedule[other].dayOfWeeks)

(* ensureScheduleSlotsAvailable: one read for each day, none of which finds   *)
(* an active schedule other than s.                                           *)
SlotAvailable(s, row) ==
  \A other \in Created \ {s} : schedule[other].active => ~SameSlot(row, schedule[other])

(* create: the checks. *)
StartCreateSchedule(r, s) ==
  /\ write[r] = None
  /\ schedule[s] = None
  /\ \A q \in Requests : write[q] # None => write[q].schedule # s
  /\ \E row \in Rows({TRUE}) :
       /\ SlotAvailable(s, row)
       /\ write' = [write EXCEPT ![r] = [schedule |-> s, row |-> row]]
  /\ UNCHANGED <<routeActive, schedule>>

(* update: the read of the row, from which what the request leaves out is      *)
(* taken, and the checks, which an inactive schedule is spared.                *)
StartUpdateSchedule(r, s) ==
  /\ write[r] = None
  /\ schedule[s] # None
  /\ \E row \in Rows(BOOLEAN) :
       /\ row.active => SlotAvailable(s, row)
       /\ write' = [write EXCEPT ![r] = [schedule |-> s, row |-> row]]
  /\ UNCHANGED <<routeActive, schedule>>

(* The insert or the update by id. *)
WriteSchedule(r) ==
  /\ write[r] # None
  /\ schedule' = [schedule EXCEPT ![write[r].schedule] = write[r].row]
  /\ write' = [write EXCEPT ![r] = None]
  /\ UNCHANGED routeActive

(* deactivateMany, and remove of one schedule. *)
DeactivateSchedules(S) ==
  /\ \E s \in S : schedule[s].active
  /\ schedule' = [s \in Schedules |->
       IF s \in S THEN [schedule[s] EXCEPT !.active = FALSE] ELSE schedule[s]]
  /\ UNCHANGED <<routeActive, write>>

(* routes deactivateMany *)
DeactivateRoute ==
  /\ routeActive
  /\ routeActive' = FALSE
  /\ UNCHANGED <<schedule, write>>

SchedulesNext ==
  \/ \E r \in Requests, s \in Schedules :
       StartCreateSchedule(r, s) \/ StartUpdateSchedule(r, s)
  \/ \E r \in Requests : WriteSchedule(r)
  \/ \E S \in SUBSET Created : DeactivateSchedules(S)
  \/ DeactivateRoute

SchedulesSpec == SchedulesInit /\ [][SchedulesNext]_scheduleVars

-----------------------------------------------------------------------------
(* handleNotifications at the instant t: is the schedule of this row among    *)
(* those it finds, and the day of the departure it announces.                 *)
Due(row, t) ==
  /\ routeActive /\ row.active
  /\ row.notificationTimeMinutes = t % DayMinutes
  /\ (t \div DayMinutes) % 7 \in row.notificationDayOfWeeks
Occurrence(row, t) ==
  IF row.notifyBeforeMinutes > row.departureMinutes THEN t \div DayMinutes + 1
  ELSE t \div DayMinutes

-----------------------------------------------------------------------------
(* Every variable keeps its type.                                            *)
SchedulesTypeOK ==
  /\ routeActive \in BOOLEAN
  /\ schedule \in [Schedules -> ScheduleRow \cup {None}]
  /\ write \in [Requests -> [schedule : Schedules, row : ScheduleRow] \cup {None}]

(* The cron finds a schedule exactly at the instants that are its notice     *)
(* before a departure on one of its days, and announces that very departure: *)
(* one week of instants, over the day boundaries and the end of the week.    *)
NoticeExact ==
  \A s \in Created, t \in DayMinutes..(8 * DayMinutes - 1) :
    LET row == schedule[s]
        Announced(d) ==
          /\ d % 7 \in row.dayOfWeeks
          /\ d * DayMinutes + row.departureMinutes - row.notifyBeforeMinutes = t IN
    /\ Due(row, t) <=> (routeActive /\ row.active /\ \E d \in 0..9 : Announced(d))
    /\ Due(row, t) => Announced(Occurrence(row, t))

(* Two active schedules never share a slot on a day, although an update may   *)
(* write back a schedule that was deactivated after it was read: no student   *)
(* is asked twice about one departure.                                        *)
NoSharedSlot ==
  \A s, t \in Created :
    s # t /\ schedule[s].active /\ schedule[t].active => ~SameSlot(schedule[s], schedule[t])
=============================================================================
