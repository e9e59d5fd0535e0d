------------------------- MODULE MCNotificationPrompts -------------------------
(* Instances of NotificationPrompts for TLC: prompts are <<user, schedule>>. *)
EXTENDS NotificationPrompts, TLC

OnePrompt == {<<"ana", "go">>}
TwoStudents == {<<"ana", "go">>, <<"bia", "go">>}
User == [p \in Prompts |-> p[1]]
Schedule == [p \in Prompts |-> p[2]]
AtZero == [s \in Schedules |-> 0]
AtOne == [s \in Schedules |-> 1]
Given(departure, notice) == [departure |-> departure, notice |-> notice]
(* The departure comes to lie before, in and after the minute in which the    *)
(* bus was to leave, with a second notice before the last.                    *)
Departures == {Given(0, 0), Given(1, 0), Given(2, 1)}
(* The departure and its notice are moved together. *)
Shifts == {Given(0, 0), Given(1, 1)}
Symmetric == Permutations(Workers) \cup Permutations(CronRuns) \cup Permutations(Requests)
=============================================================================
