------------------------------- MODULE Boarding -------------------------------
(***************************************************************************)
(* Students get on and off the bus with an RFID card                       *)
(* (transport/transport.service.ts, rfid/rfid.service.ts).                 *)
(*                                                                         *)
(* A tap comes from the reader itself or from the driver's page; it reads  *)
(* the device, the card with its student and the student's last event at   *)
(* the device, then inserts an event, each in a statement of its own.      *)
(***************************************************************************)
EXTENDS Naturals, Sequences, Null

CONSTANTS
  Students,     (* ids                                                     *)
  Gates,        (* ids of devices                                          *)
  Tags,         (* RFID tags                                               *)
  CompanyOf,    (* the company of each student and of each linked device   *)
  Taps,         (* taps in progress                                        *)
  DeviceOf,     (* the device each tap is about                            *)
  MaxEvents     (* bound: rows of TransportEvent                           *)

ASSUME DeviceOfAssumption == DeviceOf \in [Taps -> Gates]

VARIABLES
  events,        (* TransportEvent rows in the order they were created     *)
  card,          (* the student of each RfidCard, or None                  *)
  activeStudent, (* Student.active                                         *)
  activeDevice,  (* Device.active                                          *)
  pc,            (* where each tap is                                      *)
  kind,          (* boarding or deboarding                                 *)
  tag,           (* the tag that was read                                  *)
  student        (* the student found                                      *)

tap == <<pc, kind, tag, student>>
boardingVars == <<events, card, activeStudent, activeDevice, tap>>

EventType == {"BOARDING", "DEBOARDING", "DENIED"}
Event == [type : EventType, device : Gates, student : Students \cup {None}]
Locations == {"idle", "card", "deny", "last", "create"}

BoardingInit ==
  /\ events = << >>
  /\ card = [t \in Tags |-> None]
  /\ activeStudent = [s \in Students |-> TRUE]
  /\ activeDevice = [d \in Gates |-> TRUE]
  /\ pc = [r \in Taps |-> "idle"]
  /\ kind = [r \in Taps |-> None]
  /\ tag = [r \in Taps |-> None]
  /\ student = [r \in Taps |-> None]

Goto(r, location) == pc' = [pc EXCEPT ![r] = location]

Respond(r) ==
  /\ Goto(r, "idle")
  /\ kind' = [kind EXCEPT ![r] = None]
  /\ tag' = [tag EXCEPT ![r] = None]
  /\ student' = [student EXCEPT ![r] = None]

(* The student's events at a device. *)
EventsAt(d, s) == {i \in DOMAIN events : events[i].device = d /\ events[i].student = s}

(* The type of the last event of S. *)
LastOf(S) ==
  IF S = {} THEN None ELSE events[CHOOSE i \in S : \A j \in S : j <= i].type

(* Mutated form of LastEvent: the last event of the device, whoever's it is. *)
LastEventOfDevice(d, s) == LastOf({i \in DOMAIN events : events[i].device = d})

LastEvent(d, s) == LastOf(EventsAt(d, s))

Insert(type, d, s) ==
  /\ Len(events) < MaxEvents
  /\ events' = Append(events, [type |-> type, device |-> d, student |-> s])

-----------------------------------------------------------------------------
(* validateDevice, validateDeviceCredentials: an inactive device is refused. *)
StartTap(r, k, t) ==
  /\ pc[r] = "idle"
  /\ activeDevice[DeviceOf[r]]
  /\ Goto(r, "card")
  /\ kind' = [kind EXCEPT ![r] = k]
  /\ tag' = [tag EXCEPT ![r] = t]
  /\ UNCHANGED <<events, card, activeStudent, activeDevice, student>>

Known(r) ==
  card[tag[r]] # None /\ CompanyOf[card[tag[r]]] = CompanyOf[DeviceOf[r]]

(* Mutated form of FindCard: the card need not be known to get off. *)
FindCardUnchecked(r) ==
  /\ pc[r] = "card"
  /\ student' = [student EXCEPT ![r] = card[tag[r]]]
  /\ Goto(r, IF kind[r] = "BOARDING" /\ ~(Known(r) /\ activeStudent[card[tag[r]]])
             THEN "deny" ELSE "last")
  /\ UNCHANGED <<events, card, activeStudent, activeDevice, kind, tag>>

(* getCardWithStudent.  A boarding with an unknown card or an inactive       *)
(* student goes on to log the denial; a deboarding with an unknown card is   *)
(* refused, and nothing asks whether its student is active.                  *)
FindCard(r) ==
  /\ pc[r] = "card"
  /\ \/ /\ Known(r)
        /\ student' = [student EXCEPT ![r] = card[tag[r]]]
        /\ Goto(r, IF kind[r] = "BOARDING" /\ ~activeStudent[card[tag[r]]]
                   THEN "deny" ELSE "last")
        /\ UNCHANGED <<kind, tag>>
     \/ /\ ~Known(r) /\ kind[r] = "BOARDING"
        /\ Goto(r, "deny")
        /\ UNCHANGED <<kind, tag, student>>
     \/ /\ ~Known(r) /\ kind[r] = "DEBOARDING"
        /\ Respond(r)
  /\ UNCHANGED <<events, card, activeStudent, activeDevice>>

LogDenied(r) ==
  /\ pc[r] = "deny"
  /\ Insert("DENIED", DeviceOf[r], student[r])
  /\ Respond(r)
  /\ UNCHANGED <<card, activeStudent, activeDevice>>

(* Who may go on from the last event that was read. *)
Allowed(k, last) == IF k = "BOARDING" THEN last # "BOARDING" ELSE last = "BOARDING"

ReadLastEvent(r) ==
  /\ pc[r] = "last"
  /\ Allowed(kind[r], LastEvent(DeviceOf[r], student[r]))
  /\ Goto(r, "create")
  /\ UNCHANGED <<events, card, activeStudent, activeDevice, kind, tag, student>>

Refuse(r) ==
  /\ pc[r] = "last"
  /\ ~Allowed(kind[r], LastEvent(DeviceOf[r], student[r]))
  /\ Respond(r)
  /\ UNCHANGED <<events, card, activeStudent, activeDevice>>

CreateEvent(r) ==
  /\ pc[r] = "create"
  /\ Insert(kind[r], DeviceOf[r], student[r])
  /\ Respond(r)
  /\ UNCHANGED <<card, activeStudent, activeDevice>>

-----------------------------------------------------------------------------
(* rfid link: the unique tag decides between two links. *)
LinkCard(t, s) ==
  /\ card[t] = None
  /\ card' = [card EXCEPT ![t] = s]
  /\ UNCHANGED <<events, activeStudent, activeDevice, tap>>

(* students update and desactivateMany *)
SetStudentActive(s, active) ==
  /\ activeStudent[s] # active
  /\ activeStudent' = [activeStudent EXCEPT ![s] = active]
  /\ UNCHANGED <<events, card, activeDevice, tap>>

(* devices deleteMany *)
DeactivateGate(d) ==
  /\ activeDevice[d]
  /\ activeDevice' = [activeDevice EXCEPT ![d] = FALSE]
  /\ UNCHANGED <<events, card, activeStudent, tap>>

Tap(r) ==
  \/ FindCard(r) \/ LogDenied(r) \/ ReadLastEvent(r) \/ Refuse(r) \/ CreateEvent(r)
Administrator ==
  \/ \E t \in Tags, s \in Students : LinkCard(t, s)
  \/ \E s \in Students, active \in BOOLEAN : SetStudentActive(s, active)
  \/ \E d \in Gates : DeactivateGate(d)

BoardingNext ==
  \/ \E r \in Taps, k \in {"BOARDING", "DEBOARDING"}, t \in Tags : StartTap(r, k, t)
  \/ \E r \in Taps : Tap(r)
  \/ Administrator

BoardingSpec == BoardingInit /\ [][BoardingNext]_boardingVars

-----------------------------------------------------------------------------
(* Every variable keeps its type. *)
BoardingTypeOK ==
  /\ events \in Seq(Event)
  /\ card \in [Tags -> Students \cup {None}]
  /\ activeStudent \in [Students -> BOOLEAN]
  /\ activeDevice \in [Gates -> BOOLEAN]
  /\ pc \in [Taps -> Locations]
  /\ kind \in [Taps -> {"BOARDING", "DEBOARDING", None}]
  /\ tag \in [Taps -> Tags \cup {None}]
  /\ student \in [Taps -> Students \cup {None}]
  /\ \A r \in Taps : pc[r] \in {"last", "create"} => student[r] \in Students

(* At a device a student never gets on twice without a step between, and     *)
(* gets off only right after getting on: processBoarding refuses a student   *)
(* who is already on the bus, processDeboarding one who is not.              *)
Alternates ==
  \A d \in Gates, s \in Students : \A i \in EventsAt(d, s) :
    LET before == LastOf({j \in EventsAt(d, s) : j < i}) IN
    /\ events[i].type = "BOARDING" => before # "BOARDING"
    /\ events[i].type = "DEBOARDING" => before = "BOARDING"

(* The student got on at the device and did not get off. *)
Aboard(d, s) == LastOf({i \in EventsAt(d, s) : events[i].type # "DENIED"}) = "BOARDING"

(* A deboarding is refused only to a student who is not on the bus.          *)
AboardMayLeave ==
  [][\A r \in Taps :
       kind[r] = "DEBOARDING" /\ pc[r] = "last" /\ pc'[r] = "idle"
         => ~Aboard(DeviceOf[r], student[r])]_boardingVars
=============================================================================
