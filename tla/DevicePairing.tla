----------------------------- MODULE DevicePairing -----------------------------
(***************************************************************************)
(* A reader is paired with a company's bus (devices/devices.service.ts,    *)
(* buses/buses.service.ts).  The reader asks for a pairing code and shows  *)
(* it, an administrator links the code to a bus, and the reader claims its *)
(* credentials with the code.  Every operation reads a row, awaits, and    *)
(* updates the row by its id.                                              *)
(*                                                                         *)
(* A device stands for a hardwareId; a secret for the pair of code and     *)
(* secret, which a row gets together; secrets are numbered as generated.   *)
(***************************************************************************)
EXTENDS Naturals, Null

CONSTANTS
  Devices,       (* hardware ids                                           *)
  Codes,         (* pairing codes                                          *)
  Companies,     (* ids                                                    *)
  Buses,         (* ids                                                    *)
  BusCompany,    (* the company of each bus                                *)
  Admins,        (* administrators' requests in progress                   *)
  TTL,           (* PAIRING_TTL_MINUTES                                    *)
  Horizon        (* bound: the last minute                                 *)

ASSUME NullAssumption ==
  None \notin Devices /\ None \notin Codes /\ None \notin Companies /\ None \notin Buses
ASSUME BusAssumption == BusCompany \in [Buses -> Companies]
ASSUME BoundsAssumption == TTL \in Nat \ {0} /\ Horizon \in Nat

VARIABLES
  now,       (* minutes                                                    *)
  device,    (* the Device rows, None before the first pairing             *)
  buses,     (* the Bus rows that exist                                    *)
  minted,    (* secrets generated so far                                   *)
  shown,     (* the code each reader shows                                 *)
  held,      (* the secret each reader has stored, or None                 *)
  call,      (* the call each reader waits for                             *)
  admin      (* what each administrator's request has read                 *)

vars == <<now, device, buses, minted, shown, held, call, admin>>

Row ==
  [pairingCode : Codes \cup {None}, expiresAt : Nat, paired : BOOLEAN, active : BOOLEAN,
   company : Companies \cup {None}, secret : Nat \cup {None}, bus : Buses \cup {None}]
ASSUME RowAssumption == None \notin Row
Calls == {"idle", "create", "renew", "claim"}
NoRequest == [step |-> "idle", device |-> None, company |-> None, bus |-> None, seen |-> None]

Init ==
  /\ now = 0
  /\ device = [d \in Devices |-> None]
  /\ buses = Buses
  /\ minted = 0
  /\ shown = [d \in Devices |-> None]
  /\ held = [d \in Devices |-> None]
  /\ call = [d \in Devices |-> "idle"]
  /\ admin = [a \in Admins |-> NoRequest]

Registered == {d \in Devices : device[d] # None}
CodesInUse == {device[d].pairingCode : d \in Registered}

(* isPairingValid *)
PairingValid(row) == row.pairingCode # None /\ row.expiresAt > now

Tick ==
  /\ now < Horizon
  /\ now' = now + 1
  /\ UNCHANGED <<device, buses, minted, shown, held, call, admin>>

-----------------------------------------------------------------------------
(* The reader's calls.  It waits for one answer before the next call. *)

Wait(d, c) == call' = [call EXCEPT ![d] = c]

(* startPairing: its read of the row. *)
StartPairing(d) ==
  /\ call[d] = "idle"
  /\ held[d] = None
  /\ \/ /\ device[d] = None
        /\ Wait(d, "create")
        /\ shown' = shown
     \/ /\ device[d] # None /\ device[d].active /\ ~device[d].paired
        /\ IF PairingValid(device[d])
           THEN shown' = [shown EXCEPT ![d] = device[d].pairingCode] /\ call' = call
           ELSE shown' = shown /\ Wait(d, "renew")
  /\ UNCHANGED <<now, device, buses, minted, held, admin>>

(* A code generated for two rows is refused by the unique index. *)
CreateDevice(d) ==
  /\ call[d] = "create"
  /\ \E c \in Codes \ CodesInUse :
       /\ device' = [device EXCEPT ![d] =
                       [pairingCode |-> c, expiresAt |-> now + TTL, paired |-> FALSE,
                        active |-> TRUE, company |-> None, secret |-> None, bus |-> None]]
       /\ shown' = [shown EXCEPT ![d] = c]
  /\ Wait(d, "idle")
  /\ UNCHANGED <<now, buses, minted, held, admin>>

(* Mutated form of RenewCode: the code may be one that another row has. *)
RenewCodeTaken(d) ==
  /\ call[d] = "renew"
  /\ \E c \in Codes :
       /\ device' = [device EXCEPT ![d].pairingCode = c, ![d].expiresAt = now + TTL]
       /\ shown' = [shown EXCEPT ![d] = c]
  /\ Wait(d, "idle")
  /\ UNCHANGED <<now, buses, minted, held, admin>>

(* The update of the row whose code is no longer valid. *)
RenewCode(d) ==
  /\ call[d] = "renew"
  /\ \E c \in Codes \ CodesInUse :
       /\ device' = [device EXCEPT ![d].pairingCode = c, ![d].expiresAt = now + TTL]
       /\ shown' = [shown EXCEPT ![d] = c]
  /\ Wait(d, "idle")
  /\ UNCHANGED <<now, buses, minted, held, admin>>

(* claimPairing: its read of the row; the reader polls until it is linked. *)
StartClaim(d) ==
  /\ call[d] = "idle"
  /\ device[d] # None
  /\ device[d].active
  /\ PairingValid(device[d]) /\ device[d].pairingCode = shown[d]
  /\ device[d].company # None /\ device[d].secret # None
  /\ Wait(d, "claim")
  /\ UNCHANGED <<now, device, buses, minted, shown, held, admin>>

(* Its update, which answers with the row as it is now; the answer may be lost. *)
Claim(d) ==
  /\ call[d] = "claim"
  /\ device' = [device EXCEPT ![d].paired = TRUE, ![d].pairingCode = None, ![d].expiresAt = 0]
  /\ \/ held' = [held EXCEPT ![d] = device[d].secret]
     \/ held' = held
  /\ Wait(d, "idle")
  /\ UNCHANGED <<now, buses, minted, shown, admin>>

-----------------------------------------------------------------------------
(* The administrators' requests. *)

Answer(a) == admin' = [admin EXCEPT ![a] = NoRequest]

Read(a, step, d, c, b) ==
  admin' = [admin EXCEPT ![a] =
              [step |-> step, device |-> d, company |-> c, bus |-> b, seen |-> device[d]]]

(* Mutated form of MayLink: a device that has a company may be linked. *)
MayLinkAny(row, c) == PairingValid(row)

(* linkDevice's checks of the row it read. *)
MayLink(row, c) == PairingValid(row) /\ row.company \in {None, c}

(* linkDevice: its reads, with a code some reader has shown. *)
StartLink(a, c, b) ==
  /\ admin[a].step = "idle"
  /\ b \in buses /\ BusCompany[b] = c
  /\ \E d \in Registered :
       /\ \E e \in Devices : device[d].pairingCode = shown[e]
       /\ MayLink(device[d], c)
       /\ Read(a, "link", d, c, b)
  /\ UNCHANGED <<now, device, buses, minted, shown, held, call>>

(* Mutated form of LinkDevice: every link generates new credentials. *)
LinkDeviceAnew(a) ==
  /\ admin[a].step = "link"
  /\ LET d == admin[a].device
         seen == admin[a].seen IN
     /\ admin[a].bus \in buses
     /\ device' = [device EXCEPT
          ![d].bus = admin[a].bus,
          ![d].company = IF seen.company = None THEN admin[a].company ELSE @,
          ![d].secret = minted + 1]
     /\ minted' = minted + 1
  /\ Answer(a)
  /\ UNCHANGED <<now, buses, shown, held, call>>

(* Its update: company and credentials as the row that was read lacked them. *)
LinkDevice(a) ==
  /\ admin[a].step = "link"
  /\ LET d == admin[a].device
         seen == admin[a].seen IN
     /\ admin[a].bus \in buses
     /\ device' = [device EXCEPT
          ![d].bus = admin[a].bus,
          ![d].company = IF seen.company = None THEN admin[a].company ELSE @,
          ![d].secret = IF seen.secret = None THEN minted + 1 ELSE @]
     /\ minted' = IF seen.secret = None THEN minted + 1 ELSE minted
  /\ Answer(a)
  /\ UNCHANGED <<now, buses, shown, held, call>>

(* linkBus: its reads, then its update. *)
StartLinkBus(a, c, b) ==
  /\ admin[a].step = "idle"
  /\ b \in buses /\ BusCompany[b] = c
  /\ \E d \in Registered :
       /\ device[d].company = c
       /\ Read(a, "linkBus", d, c, b)
  /\ UNCHANGED <<now, device, buses, minted, shown, held, call>>

LinkBus(a) ==
  /\ admin[a].step = "linkBus"
  /\ admin[a].bus \in buses
  /\ device' = [device EXCEPT ![admin[a].device].bus = admin[a].bus]
  /\ Answer(a)
  /\ UNCHANGED <<now, buses, minted, shown, held, call>>

(* The bus was deleted meanwhile: the foreign key refuses the update. *)
LinkRefused(a) ==
  /\ admin[a].step # "idle"
  /\ admin[a].bus \notin buses
  /\ Answer(a)
  /\ UNCHANGED <<now, device, buses, minted, shown, held, call>>

(* devices deleteMany *)
Deactivate(d) ==
  /\ device[d] # None /\ device[d].company # None /\ device[d].active
  /\ device' = [device EXCEPT ![d].active = FALSE]
  /\ UNCHANGED <<now, buses, minted, shown, held, call, admin>>

(* buses deleteMany; the foreign key sets the devices' busId to null. *)
DeleteBus(b) ==
  /\ b \in buses
  /\ buses' = buses \ {b}
  /\ device' = [d \in Devices |->
       IF d \in Registered /\ device[d].bus = b THEN [device[d] EXCEPT !.bus = None]
       ELSE device[d]]
  /\ UNCHANGED <<now, minted, shown, held, call, admin>>

Reader(d) ==
  StartPairing(d) \/ CreateDevice(d) \/ RenewCode(d) \/ StartClaim(d) \/ Claim(d)
Update(a) == LinkDevice(a) \/ LinkBus(a) \/ LinkRefused(a)

Next ==
  \/ Tick
  \/ \E d \in Devices : Reader(d) \/ Deactivate(d)
  \/ \E a \in Admins, c \in Companies, b \in Buses : StartLink(a, c, b) \/ StartLinkBus(a, c, b)
  \/ \E a \in Admins : Update(a)
  \/ \E b \in Buses : DeleteBus(b)

Spec == Init /\ [][Next]_vars

-----------------------------------------------------------------------------
(* Every variable keeps its type, and no two devices share a pairing code    *)
(* (@unique).                                                                *)
TypeOK ==
  /\ now \in Nat /\ minted \in Nat
  /\ device \in [Devices -> Row \cup {None}]
  /\ buses \subseteq Buses
  /\ shown \in [Devices -> Codes \cup {None}]
  /\ held \in [Devices -> Nat \cup {None}]
  /\ call \in [Devices -> Calls]
  /\ \A a \in Admins : admin[a].step # "idle" => admin[a].seen \in Row
  /\ \A d, e \in Registered :
       d # e /\ device[d].pairingCode # None => device[d].pairingCode # device[e].pairingCode

(* A device's bus exists and is a bus of its company: its driver's taps and  *)
(* its position are never another company's.                                 *)
BusOfOwner ==
  \A d \in Registered : device[d].bus # None =>
    device[d].bus \in buses /\ BusCompany[device[d].bus] = device[d].company

(* A reader that was told its credentials keeps the ones its row holds: a    *)
(* later pairing code or link of the same device does not lock it out.       *)
CredentialsKept ==
  \A d \in Devices : held[d] # None => device[d].paired /\ device[d].secret = held[d]
=============================================================================
