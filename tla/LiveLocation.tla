----------------------------- MODULE LiveLocation -----------------------------
(***************************************************************************)
(* The position of a bus: its readers report it, the server answers with   *)
(* the latest (location/location.service.ts), and the page of the fleet    *)
(* polls and draws a trail (useLocationOverview.ts).                       *)
(*                                                                         *)
(* The calls of the page do not wait for each other, so their answers may  *)
(* arrive in another order.  A point of a trail is the instant it was      *)
(* reported; the coordinates are set with it and no state depends on them. *)
(* The page keeps the trail and the state of each bus apart, so one bus is *)
(* modelled: while another is selected, nothing is asked about it.         *)
(***************************************************************************)
EXTENDS Naturals, Sequences, Null

CONSTANTS
  Readers,       (* the devices, numbered in the order of their creation   *)
  Threshold,     (* DEVICE_ONLINE_THRESHOLD_MS                             *)
  Gap,           (* TRAIL_SESSION_GAP_MS                                   *)
  MaxTrail,      (* MAX_TRAIL_POINTS                                       *)
  PageCalls,     (* calls of the page in progress                          *)
  Instants       (* bound: the last instant                                *)

ASSUME ReadersAssumption ==
  /\ Readers \subseteq Nat
  /\ \A S \in SUBSET Readers : S # {} => \E d \in S : \A e \in S : d >= e
ASSUME LimitsAssumption ==
  Threshold \in Nat /\ Gap \in Nat /\ MaxTrail \in Nat \ {0} /\ Instants \in Nat

VARIABLES
  clock,
  reader,        (* Device: on the bus, active and lastUpdate              *)
  report,        (* the instant each reader's telemetry is to be stored at *)
  poll,          (* the answer to each call about the bus                  *)
  trail,         (* trailByBusRef of the bus                               *)
  busState       (* lastStateByBusRef of the bus                           *)

locationVars == <<clock, reader, report, poll, trail, busState>>
screened == <<poll, trail, busState>>

States == {"needs-pairing", "no-online-device", "live", "stale"}
ASSUME LocationNullAssumption == None \notin Nat \cup States
NoCall == [state |-> "none", point |-> None]
Asked == [state |-> "asked", point |-> None]

(* Readers that have reported nothing yet. *)
LocationInit ==
  /\ clock = 0
  /\ reader = [d \in Readers |-> [linked |-> TRUE, active |-> TRUE, lastUpdate |-> None]]
  /\ report = [d \in Readers |-> None]
  /\ poll = [c \in PageCalls |-> NoCall]
  /\ trail = << >>
  /\ busState = None

Elapse ==
  /\ clock < Instants
  /\ clock' = clock + 1
  /\ UNCHANGED <<reader, report, screened>>

-----------------------------------------------------------------------------
(* updateDeviceTelemetry: the reads and the instant, then the update. *)
StartTelemetry(d) ==
  /\ report[d] = None
  /\ reader[d].active
  /\ report' = [report EXCEPT ![d] = clock]
  /\ UNCHANGED <<clock, reader, screened>>

StoreTelemetry(d) ==
  /\ report[d] # None
  /\ reader' = [reader EXCEPT ![d].lastUpdate = report[d]]
  /\ report' = [report EXCEPT ![d] = None]
  /\ UNCHANGED <<clock, screened>>

(* devices linkBus, to the bus or to another, and deleteMany *)
LinkReader(d) ==
  /\ reader' = [reader EXCEPT ![d].linked = ~@]
  /\ UNCHANGED <<clock, report, screened>>

DeleteReader(d) ==
  /\ reader[d].active
  /\ reader' = [reader EXCEPT ![d].active = FALSE]
  /\ UNCHANGED <<clock, report, screened>>

-----------------------------------------------------------------------------
(* findFirst by lastUpdate desc, which puts nulls first, then createdAt desc. *)
Before(d, e) ==
  LET u == reader[d].lastUpdate
      v == reader[e].lastUpdate IN
  \/ u = None /\ v # None
  \/ u # None /\ v # None /\ u > v
  \/ u = v /\ d >= e
LinkedReaders == {d \in Readers : reader[d].linked}
LinkedReader == CHOOSE d \in LinkedReaders : \A e \in LinkedReaders : Before(d, e)

(* getLiveBusLocation *)
Location ==
  IF LinkedReaders = {} \/ ~reader[LinkedReader].active
  THEN [state |-> "needs-pairing", point |-> None]
  ELSE LET updated == reader[LinkedReader].lastUpdate IN
       IF updated = None THEN [state |-> "no-online-device", point |-> None]
       ELSE [state |-> IF clock - updated <= Threshold THEN "live" ELSE "stale",
             point |-> updated]

-----------------------------------------------------------------------------
(* pollSelectedBus every 5 s, and refetch. *)
Fetch(c) ==
  /\ poll[c] = NoCall
  /\ poll' = [poll EXCEPT ![c] = Asked]
  /\ UNCHANGED <<clock, reader, report, trail, busState>>

AnswerCall(c) ==
  /\ poll[c] = Asked
  /\ poll' = [poll EXCEPT ![c] = Location]
  /\ UNCHANGED <<clock, reader, report, trail, busState>>

(* It failed, or the selection of another bus cancelled the poll. *)
DropCall(c) ==
  /\ poll[c] # NoCall
  /\ poll' = [poll EXCEPT ![c] = NoCall]
  /\ UNCHANGED <<clock, reader, report, trail, busState>>

Newest(s) == s[Len(s)]

(* Mutated form of StartsAnew: an older point does not start a new trail. *)
StartsAnewLater(point) ==
  \/ busState # "live"
  \/ trail # << >> /\ point > Newest(trail) + Gap

(* A new trail: no live session before, or shouldResetTrailSession. *)
StartsAnew(point) ==
  \/ busState # "live"
  \/ trail # << >> /\ (point <= Newest(trail) \/ point > Newest(trail) + Gap)

Extended(s, point) ==
  LET longer == Append(s, point) IN
  IF s # << >> /\ Newest(s) = point THEN s
  ELSE IF Len(longer) > MaxTrail THEN Tail(longer) ELSE longer

NextTrail(answer) ==
  IF answer.point = None THEN << >>
  ELSE IF answer.state # "live" THEN <<answer.point>>
  ELSE Extended(IF StartsAnew(answer.point) THEN << >> ELSE trail, answer.point)

(* applyLiveResponse *)
ApplyAnswer(c) ==
  /\ poll[c] \notin {NoCall, Asked}
  /\ trail' = NextTrail(poll[c])
  /\ busState' = poll[c].state
  /\ poll' = [poll EXCEPT ![c] = NoCall]
  /\ UNCHANGED <<clock, reader, report>>

ReaderStep(d) == StartTelemetry(d) \/ StoreTelemetry(d) \/ LinkReader(d) \/ DeleteReader(d)
Polling(c) == Fetch(c) \/ AnswerCall(c) \/ DropCall(c) \/ ApplyAnswer(c)

LocationNext ==
  \/ Elapse
  \/ \E d \in Readers : ReaderStep(d)
  \/ \E c \in PageCalls : Polling(c)

LocationSpec == LocationInit /\ [][LocationNext]_locationVars

-----------------------------------------------------------------------------
(* Every variable keeps its type, and no report is of the future.            *)
LocationTypeOK ==
  /\ clock \in 0..Instants
  /\ reader \in [Readers ->
       [linked : BOOLEAN, active : BOOLEAN, lastUpdate : 0..clock \cup {None}]]
  /\ report \in [Readers -> 0..clock \cup {None}]
  /\ poll \in [PageCalls ->
       [state : States \cup {"none", "asked"}, point : 0..clock \cup {None}]]
  /\ trail \in Seq(0..clock)
  /\ busState \in States \cup {None}

(* The trail is one drive, in whatever order the answers came: its points    *)
(* ascend without a gap, it is bounded, and it has more than one only while  *)
(* the bus is live.                                                          *)
TrailIsOneDrive ==
  /\ Len(trail) <= MaxTrail
  /\ \A i \in 1..(Len(trail) - 1) :
       trail[i] < trail[i + 1] /\ trail[i + 1] <= trail[i] + Gap
  /\ Len(trail) > 1 => busState = "live"
  /\ (trail = << >>) = (busState \notin {"live", "stale"})
=============================================================================
