----------------------------- MODULE MCManagement -----------------------------
(***************************************************************************)
(* An instance for TLC of what is managed: the positions of the buses, the *)
(* schedules of a route, the students of a company, its plan, its billing  *)
(* settings and its reports, and the pages and dialogs this is done from.  *)
(*                                                                         *)
(* The components share no state, so a behaviour in which one of them      *)
(* steps and the others stay where they began shows all that one can do:   *)
(* `part' says which one it is.                                            *)
(***************************************************************************)
EXTENDS
  Integers, Sequences, FiniteSets, TLC, Null, LiveLocation, RouteScheduling, Roster,
  PlanChange, BillingSettings, BillingPage, FormDialog, ListScreen

VARIABLE part

CONSTANTS Riders, Buses, DayLength, Zone, Fixed, Local, Horizon, MaxEvents
VARIABLES events, place, riders, deviceBus
reportVars == <<events, place, riders, deviceBus>>
(* The second group takes the routes of the first and one more. *)
Places ==
  {[group |-> CHOOSE g \in Groups : TRUE, routes |-> {CHOOSE r \in Routes : TRUE}]}
  \cup {[group |-> g, routes |-> Routes] : g \in Groups \ {CHOOSE g \in Groups : TRUE}}
(* A company has finitely many students, groups, routes and buses, and a day    *)
(* has a length.                                                              *)
ASSUME ReportsAssumption ==
  /\ IsFiniteSet(Riders) /\ IsFiniteSet(Groups) /\ IsFiniteSet(Routes) /\ IsFiniteSet(Buses)
  /\ Groups # {} /\ Routes # {}
  /\ None \notin Riders /\ None \notin Groups /\ None \notin Routes /\ None \notin Buses
  /\ DayLength \in Nat \ {0} /\ Horizon \in Nat
  /\ Zone \in Int /\ Fixed \in Int /\ Local \in Int
TheReports == INSTANCE Reports WITH Students <- Riders, active <- riders

-----------------------------------------------------------------------------
Parts ==
  {"location", "schedules", "roster", "plan", "settings", "reports", "page", "list", "dialog"}

(* What may differ at the start is fixed for the parts that do not step.     *)
ManagementInit ==
  /\ part \in Parts
  /\ LocationInit
  /\ SchedulesInit
  /\ RosterInit
  /\ PlanInit
  /\ SettingsInit
  /\ TheReports!Init
  /\ PageInit
  /\ ListInit
  /\ DialogInit
  /\ part # "plan" => plan = CHOOSE p \in Plans : TRUE
  /\ part # "reports" => \A s \in Riders : place[s] = CHOOSE p \in Places : TRUE
  /\ part # "page" => saved = Blank
  /\ part # "list" => screen = CHOOSE p \in Screens : TRUE
  /\ part # "dialog" => dialog = CHOOSE d \in AllDialogs : TRUE

LocationStep ==
  /\ part = "location" /\ LocationNext
  /\ UNCHANGED <<part, scheduleVars, rosterVars, planVars, settingsVars,
                 reportVars, pageVars, listVars, dialogVars>>
SchedulingStep ==
  /\ part = "schedules" /\ SchedulesNext
  /\ UNCHANGED <<part, locationVars, rosterVars, planVars, settingsVars,
                 reportVars, pageVars, listVars, dialogVars>>
RosterStep ==
  /\ part = "roster" /\ RosterNext
  /\ UNCHANGED <<part, locationVars, scheduleVars, planVars, settingsVars,
                 reportVars, pageVars, listVars, dialogVars>>
PlanStep ==
  /\ part = "plan" /\ PlanNext
  /\ UNCHANGED <<part, locationVars, scheduleVars, rosterVars, settingsVars,
                 reportVars, pageVars, listVars, dialogVars>>
SettingsStep ==
  /\ part = "settings" /\ SettingsNext
  /\ UNCHANGED <<part, locationVars, scheduleVars, rosterVars, planVars,
                 reportVars, pageVars, listVars, dialogVars>>
ReportsStep ==
  /\ part = "reports" /\ TheReports!Next
  /\ UNCHANGED <<part, locationVars, scheduleVars, rosterVars, planVars,
                 settingsVars, pageVars, listVars, dialogVars>>
PageStep ==
  /\ part = "page" /\ PageNext
  /\ UNCHANGED <<part, locationVars, scheduleVars, rosterVars, planVars,
                 settingsVars, reportVars, listVars, dialogVars>>
ListStep ==
  /\ part = "list" /\ ListNext
  /\ UNCHANGED <<part, locationVars, scheduleVars, rosterVars, planVars,
                 settingsVars, reportVars, pageVars, dialogVars>>
DialogStep ==
  /\ part = "dialog" /\ DialogNext
  /\ UNCHANGED <<part, locationVars, scheduleVars, rosterVars, planVars,
                 settingsVars, reportVars, pageVars, listVars>>

ManagementNext ==
  \/ LocationStep \/ SchedulingStep \/ RosterStep \/ PlanStep \/ SettingsStep
  \/ ReportsStep \/ PageStep \/ ListStep \/ DialogStep
managementVars ==
  <<part, locationVars, scheduleVars, rosterVars, planVars, settingsVars, reportVars, pageVars,
    listVars, dialogVars>>
ManagementSpec == ManagementInit /\ [][ManagementNext]_managementVars

-----------------------------------------------------------------------------
(* Every variable of the part that steps keeps its type; the others stay what *)
(* Init made them.                                                            *)
ManagementTypeOK ==
  /\ part = "location" => LocationTypeOK
  /\ part = "schedules" => SchedulesTypeOK
  /\ part = "roster" => RosterTypeOK
  /\ part = "plan" => PlanTypeOK
  /\ part = "settings" => SettingsTypeOK
  /\ part = "reports" => TheReports!TypeOK
  /\ part = "page" => PageTypeOK
  /\ part = "list" => ListTypeOK
  /\ part = "dialog" => DialogTypeOK

(* The property of the part that is an instance, explained in its module;    *)
(* those of the other parts are checked under their own names.               *)
ReportsAgree == part = "reports" => TheReports!ReportsAgree

RidersSymmetric == Permutations(Riders)
=============================================================================
