----------------------------- MODULE IdentityProofs -----------------------------
(***************************************************************************)
(* Proofs about DevicePairing and Boarding, and about the whole of         *)
(* MCIdentity.  The pairing is proved for every number of readers, codes,  *)
(* buses and companies: its types for any number of administrators, and,   *)
(* as long as no two of their requests are about one reader, whose bus it  *)
(* is on and that it keeps its credentials.  The rides of a student are    *)
(* proved to alternate at a device as long as no two taps of the student   *)
(* are being recorded there, for every number of students, devices, cards  *)
(* and events.  The last part shows that the specification TLC runs is the *)
(* six components side by side, so that what is proved of one of them      *)
(* holds of it.                                                            *)
(***************************************************************************)
EXTENDS MCIdentity, AccountProofs, TLAPS

DevicesOK ==
  /\ device \in [Devices -> Row \cup {None}]
  /\ \A d, e \in Registered :
       d # e /\ device[d].pairingCode # None => device[d].pairingCode # device[e].pairingCode

ReadersOK ==
  /\ now \in Nat /\ minted \in Nat /\ buses \subseteq Buses
  /\ shown \in [Devices -> Codes \cup {None}]
  /\ held \in [Devices -> Nat \cup {None}]
  /\ call \in [Devices -> Calls]

(* A call that found a row goes on to one that still exists, and only the     *)
(* reader's own call creates its row.                                         *)
CallsOK ==
  \A d \in Devices :
    /\ call[d] = "create" => device[d] = None
    /\ call[d] \in {"renew", "claim"} => device[d] # None

AdminRequest ==
  [step : {"idle", "link", "linkBus"}, device : Devices \cup {None},
   company : Companies \cup {None}, bus : Buses \cup {None}, seen : Row \cup {None}]

RequestsOK ==
  /\ admin \in [Admins -> AdminRequest]
  /\ \A a \in Admins : admin[a].step # "idle" =>
       /\ admin[a].device \in Registered /\ admin[a].seen \in Row
       /\ admin[a].company \in Companies /\ admin[a].bus \in Buses

TypeInv == DevicesOK /\ ReadersOK /\ CallsOK /\ RequestsOK

LEMMA PairingTypes == TypeInv => TypeOK
BY DEF TypeInv, TypeOK, DevicesOK, ReadersOK, RequestsOK

(* A row is written whose code is its own, none, or in use nowhere. *)
LEMMA RowWritten ==
  ASSUME DevicesOK, NEW d \in Devices, NEW entry \in Row, device' = [device EXCEPT ![d] = entry],
         \/ entry.pairingCode = None
         \/ entry.pairingCode \notin CodesInUse
         \/ device[d] # None /\ entry.pairingCode = device[d].pairingCode
  PROVE  /\ DevicesOK'
         /\ Registered' = Registered \cup {d}
         /\ \A e \in Devices : e # d => device'[e] = device[e]
         /\ device'[d] = entry
<1>1. /\ device' \in [Devices -> Row \cup {None}] /\ device'[d] = entry
      /\ \A e \in Devices : e # d => device'[e] = device[e]
  BY DEF DevicesOK
<1>2. Registered' = Registered \cup {d}
  BY <1>1, RowAssumption DEF Registered
<1>3. \A e \in Registered : device[e].pairingCode \in CodesInUse
  BY DEF CodesInUse
<1>4. \A e, f \in Registered' :
        e # f /\ device'[e].pairingCode # None => device'[e].pairingCode # device'[f].pairingCode
  BY <1>1, <1>2, <1>3 DEF DevicesOK, Registered
<1>5. QED
  BY <1>1, <1>2, <1>4 DEF DevicesOK

LEMMA RequestsStay ==
  ASSUME RequestsOK, admin' = admin, Registered \subseteq Registered'
  PROVE  RequestsOK'
BY DEF RequestsOK

LEMMA RequestOver ==
  ASSUME RequestsOK, NEW a \in Admins, Answer(a), Registered \subseteq Registered'
  PROVE  RequestsOK'
BY DEF RequestsOK, Answer, NoRequest, AdminRequest

LEMMA ReaderKeepsTypes ==
  ASSUME TypeInv, NEW d \in Devices, Reader(d)
  PROVE  TypeInv'
<1> USE DEF TypeInv
<1>1. CASE StartPairing(d) \/ StartClaim(d)
  <2>1. /\ device' = device /\ admin' = admin
        /\ UNCHANGED <<now, buses, minted, held>>
        /\ shown' \in [Devices -> Codes \cup {None}]
        /\ call' = call \/ \E c \in Calls : Wait(d, c)
    BY <1>1 DEF StartPairing, StartClaim, ReadersOK, DevicesOK, Row, Calls
  <2>2. CallsOK'
    BY <1>1 DEF StartPairing, StartClaim, Wait, CallsOK, ReadersOK
  <2>3. QED
    BY <2>1, <2>2 DEF DevicesOK, ReadersOK, RequestsOK, Registered, Wait
<1>2. CASE CreateDevice(d)
  <2>1. PICK c \in Codes \ CodesInUse :
          /\ device' = [device EXCEPT ![d] =
               [pairingCode |-> c, expiresAt |-> now + TTL, paired |-> FALSE,
                active |-> TRUE, company |-> None, secret |-> None, bus |-> None]]
          /\ shown' = [shown EXCEPT ![d] = c]
    BY <1>2 DEF CreateDevice
  <2>2. Wait(d, "idle") /\ UNCHANGED <<now, buses, minted, held, admin>>
    BY <1>2 DEF CreateDevice
  <2>3. [pairingCode |-> c, expiresAt |-> now + TTL, paired |-> FALSE,
         active |-> TRUE, company |-> None, secret |-> None, bus |-> None] \in Row
    BY BoundsAssumption DEF Row, ReadersOK
  <2>4. /\ DevicesOK' /\ Registered \subseteq Registered'
        /\ \A e \in Devices : e # d => device'[e] = device[e]
    BY <2>1, <2>3, RowWritten
  <2>5. ReadersOK'
    BY <2>1, <2>2 DEF ReadersOK, Wait, Calls
  <2>6. CallsOK'
    BY <2>2, <2>4 DEF CallsOK, Wait, ReadersOK
  <2>7. QED
    BY <2>2, <2>4, <2>5, <2>6, RequestsStay
<1>3. CASE RenewCode(d)
  <2>1. PICK c \in Codes \ CodesInUse :
          /\ device' = [device EXCEPT ![d].pairingCode = c, ![d].expiresAt = now + TTL]
          /\ shown' = [shown EXCEPT ![d] = c]
    BY <1>3 DEF RenewCode
  <2>2. Wait(d, "idle") /\ UNCHANGED <<now, buses, minted, held, admin>>
    BY <1>3 DEF RenewCode
  <2>3. device[d] \in Row
    BY <1>3 DEF RenewCode, CallsOK, DevicesOK
  <2> DEFINE entry == [device[d] EXCEPT !.pairingCode = c, !.expiresAt = now + TTL]
  <2>4. entry \in Row /\ entry.pairingCode = c
    <3>1. now + TTL \in Nat
      BY BoundsAssumption DEF ReadersOK
    <3>2. QED
      BY <2>3, <3>1 DEF Row
  <2>5. device' = [device EXCEPT ![d] = entry]
    BY <2>1, <2>3 DEF DevicesOK
  <2>6. /\ DevicesOK' /\ Registered \subseteq Registered'
        /\ \A e \in Devices : e # d => device'[e] = device[e]
    BY <2>4, <2>5, RowWritten
  <2>7. ReadersOK'
    BY <2>1, <2>2 DEF ReadersOK, Wait, Calls
  <2>8. CallsOK'
    BY <2>2, <2>6 DEF CallsOK, Wait, ReadersOK
  <2>9. QED
    BY <2>2, <2>6, <2>7, <2>8, RequestsStay
<1>4. CASE Claim(d)
  <2>1. /\ device' = [device EXCEPT ![d].paired = TRUE, ![d].pairingCode = None,
                                    ![d].expiresAt = 0]
        /\ Wait(d, "idle") /\ UNCHANGED <<now, buses, minted, shown, admin>>
        /\ held' = [held EXCEPT ![d] = device[d].secret] \/ held' = held
    BY <1>4 DEF Claim
  <2>2. device[d] \in Row
    BY <1>4 DEF Claim, CallsOK, DevicesOK
  <2> DEFINE entry == [device[d] EXCEPT !.paired = TRUE, !.pairingCode = None, !.expiresAt = 0]
  <2>3. entry \in Row /\ entry.pairingCode = None
    BY <2>2 DEF Row
  <2>4. device' = [device EXCEPT ![d] = entry]
    BY <2>1, <2>2 DEF DevicesOK
  <2>5. /\ DevicesOK' /\ Registered \subseteq Registered'
        /\ \A e \in Devices : e # d => device'[e] = device[e]
    BY <2>3, <2>4, RowWritten
  <2>6. ReadersOK'
    BY <2>1, <2>2 DEF ReadersOK, Wait, Calls, Row
  <2>7. CallsOK'
    BY <2>1, <2>5 DEF CallsOK, Wait, ReadersOK
  <2>8. QED
    BY <2>1, <2>5, <2>6, <2>7, RequestsStay
<1>5. QED
  BY <1>1, <1>2, <1>3, <1>4 DEF Reader

(* What a request writes to the row it names leaves its code alone. *)
LEMMA UpdateKeepsTypes ==
  ASSUME TypeInv, NEW a \in Admins, Update(a)
  PROVE  TypeInv'
<1> USE DEF TypeInv
<1>1. CASE LinkRefused(a)
  <2>1. Answer(a) /\ UNCHANGED <<now, device, buses, minted, shown, held, call>>
    BY <1>1 DEF LinkRefused
  <2>2. QED
    BY <2>1, RequestOver DEF DevicesOK, ReadersOK, CallsOK, Registered
<1>2. CASE LinkDevice(a) \/ LinkBus(a)
  <2> DEFINE d == admin[a].device
  <2>1. /\ d \in Devices /\ device[d] \in Row /\ admin[a].seen \in Row
        /\ admin[a].company \in Companies /\ admin[a].bus \in Buses
    BY <1>2 DEF LinkDevice, LinkBus, RequestsOK, Registered, DevicesOK
  <2>2. PICK entry \in Row :
          device' = [device EXCEPT ![d] = entry] /\ entry.pairingCode = device[d].pairingCode
    <3>1. CASE LinkBus(a)
      <4> DEFINE entry == [device[d] EXCEPT !.bus = admin[a].bus]
      <4>1. entry \in Row /\ entry.pairingCode = device[d].pairingCode
        BY <2>1 DEF Row
      <4>2. device' = [device EXCEPT ![d] = entry]
        BY <3>1 DEF LinkBus
      <4>3. QED
        BY <4>1, <4>2
    <3>2. CASE LinkDevice(a)
      <4> DEFINE owns == IF admin[a].seen.company = None THEN admin[a].company
                            ELSE device[d].company
                 secret == IF admin[a].seen.secret = None THEN minted + 1 ELSE device[d].secret
                 entry == [device[d] EXCEPT !.bus = admin[a].bus, !.company = owns,
                                          !.secret = secret]
      <4>1. owns \in Companies \cup {None} /\ secret \in Nat \cup {None}
        BY <2>1 DEF Row, ReadersOK
      <4> HIDE DEF owns, secret
      <4>2. entry \in Row /\ entry.pairingCode = device[d].pairingCode
        BY <2>1, <4>1 DEF Row
      <4>3. device' = [device EXCEPT ![d] = entry]
        BY <2>1, <3>2 DEF LinkDevice, DevicesOK, owns, secret
      <4>4. QED
        BY <4>2, <4>3
    <3>3. QED
      BY <1>2, <3>1, <3>2
  <2>3. /\ Answer(a) /\ UNCHANGED <<now, buses, shown, held, call>>
        /\ minted' \in Nat
    BY <1>2 DEF LinkDevice, LinkBus, ReadersOK
  <2>4. device[d] # None
    BY <2>1, RowAssumption
  <2>5. /\ DevicesOK' /\ Registered \subseteq Registered'
        /\ \A e \in Devices : device'[e] = None <=> device[e] = None
    <3>1. /\ DevicesOK' /\ Registered' = Registered \cup {d} /\ device'[d] = entry
          /\ \A e \in Devices : e # d => device'[e] = device[e]
      BY <2>1, <2>2, <2>4, RowWritten
    <3>2. QED
      BY <2>4, <3>1, RowAssumption
  <2>6. ReadersOK' /\ CallsOK'
    BY <2>3, <2>5 DEF ReadersOK, CallsOK
  <2>7. QED
    BY <2>3, <2>5, <2>6, RequestOver
<1>3. QED
  BY <1>1, <1>2 DEF Update

LEMMA StartKeepsTypes ==
  ASSUME TypeInv, NEW a \in Admins, NEW c \in Companies, NEW b \in Buses,
         StartLink(a, c, b) \/ StartLinkBus(a, c, b)
  PROVE  TypeInv'
<1> USE DEF TypeInv
<1>1. PICK d \in Registered, step \in {"link", "linkBus"} : Read(a, step, d, c, b)
  BY DEF StartLink, StartLinkBus
<1>2. UNCHANGED <<now, device, buses, minted, shown, held, call>>
  BY DEF StartLink, StartLinkBus
<1>3. device[d] \in Row /\ d \in Devices
  BY DEF DevicesOK, Registered
<1>4. RequestsOK'
  BY <1>1, <1>2, <1>3 DEF RequestsOK, Read, AdminRequest, Registered
<1>5. QED
  BY <1>2, <1>4 DEF DevicesOK, ReadersOK, CallsOK, Registered

(* A deactivation, and the deletion of a bus, which leaves every row its code. *)
LEMMA RemovalKeepsTypes ==
  ASSUME TypeInv,
         (\E d \in Devices : Deactivate(d)) \/ (\E b \in Buses : DeleteBus(b))
  PROVE  TypeInv'
<1> USE DEF TypeInv
<1>1. /\ UNCHANGED <<now, minted, shown, held, call, admin>>
      /\ buses' \subseteq Buses
  BY DEF Deactivate, DeleteBus, ReadersOK
<1>2. /\ device' \in [Devices -> Row \cup {None}]
      /\ \A e \in Devices : device'[e] = None <=> device[e] = None
      /\ \A e \in Registered : device'[e].pairingCode = device[e].pairingCode
  <2>1. ASSUME NEW d \in Devices, Deactivate(d)
        PROVE  /\ device' \in [Devices -> Row \cup {None}]
               /\ \A e \in Devices : device'[e] = None <=> device[e] = None
               /\ \A e \in Registered : device'[e].pairingCode = device[e].pairingCode
    <3> DEFINE entry == [device[d] EXCEPT !.active = FALSE]
    <3>1. device[d] \in Row /\ device' = [device EXCEPT ![d] = entry]
      BY <2>1 DEF Deactivate, DevicesOK
    <3>2. entry \in Row /\ entry.pairingCode = device[d].pairingCode
      BY <3>1 DEF Row
    <3>3. QED
      BY <3>1, <3>2, RowAssumption DEF DevicesOK, Registered
  <2>2. ASSUME NEW b \in Buses, DeleteBus(b)
        PROVE  /\ device' \in [Devices -> Row \cup {None}]
               /\ \A e \in Devices : device'[e] = None <=> device[e] = None
               /\ \A e \in Registered : device'[e].pairingCode = device[e].pairingCode
    <3>1. ASSUME NEW e \in Registered
          PROVE  LET entry == [device[e] EXCEPT !.bus = None]
                 IN entry \in Row /\ entry.pairingCode = device[e].pairingCode
      <4>1. device[e] \in Row
        BY DEF Registered, DevicesOK
      <4>2. QED
        BY <4>1 DEF Row
    <3>2. device' = [d \in Devices |->
             IF d \in Registered /\ device[d].bus = b THEN [device[d] EXCEPT !.bus = None]
             ELSE device[d]]
      BY <2>2 DEF DeleteBus
    <3>3. QED
      BY <3>1, <3>2, RowAssumption DEF DevicesOK, Registered
  <2>3. QED
    BY <2>1, <2>2
<1>3. Registered' = Registered
  BY <1>2 DEF Registered
<1>4. DevicesOK'
  BY <1>2, <1>3 DEF DevicesOK
<1>5. QED
  BY <1>1, <1>2, <1>3, <1>4, RequestsStay DEF ReadersOK, CallsOK

LEMMA TypesInit == Init => TypeInv
BY DEF Init, TypeInv, DevicesOK, ReadersOK, CallsOK, RequestsOK, Registered, Calls, AdminRequest,
       NoRequest

LEMMA TypesNext == TypeInv /\ [Next]_vars => TypeInv'
<1> SUFFICES ASSUME TypeInv, [Next]_vars PROVE TypeInv'
  OBVIOUS
<1>1. CASE Tick \/ UNCHANGED vars
  BY <1>1 DEF Tick, vars, TypeInv, DevicesOK, ReadersOK, CallsOK, RequestsOK, Registered
<1>2. QED
  BY <1>1, ReaderKeepsTypes, UpdateKeepsTypes, StartKeepsTypes, RemovalKeepsTypes DEF Next

(* Every variable keeps its type and no two devices share a pairing code,     *)
(* however many readers and administrators overlap.                           *)
THEOREM PairingTypeCorrect == Spec => []TypeOK
BY TypesInit, TypesNext, PairingTypes, PTL DEF Spec
-----------------------------------------------------------------------------
(* Two requests of administrators are never in progress about one reader.      *)
OneRequestADevice ==
  \A a, x \in Admins :
    /\ admin[a].step # "idle" /\ admin[x].step # "idle"
    /\ admin[a].device = admin[x].device
    => a = x

(* While its request is alone on the reader, what an administrator read of the *)
(* row is what the row holds: only requests set its company or secret.         *)
ReadIsCurrent ==
  \A a \in Admins : admin[a].step # "idle" =>
    LET entry == device[admin[a].device] IN
    /\ entry.company = admin[a].seen.company /\ entry.secret = admin[a].seen.secret
    /\ BusCompany[admin[a].bus] = admin[a].company
    /\ entry.company \in {None, admin[a].company}
    /\ admin[a].step = "linkBus" => entry.company = admin[a].company

HolderIsRegistered == \A d \in Devices : held[d] # None => d \in Registered

PairingInv ==
  TypeInv /\ ReadIsCurrent /\ BusOfOwner /\ CredentialsKept /\ HolderIsRegistered

(* A step that leaves the company, the secret and the bus of every row alone. *)
LEMMA OwnersUndisturbed ==
  ASSUME PairingInv, TypeInv', buses' = buses, admin' = admin,
         Registered \subseteq Registered',
         \A d \in Registered :
           /\ device'[d].company = device[d].company /\ device'[d].secret = device[d].secret
           /\ device'[d].bus = device[d].bus /\ (device[d].paired => device'[d].paired),
         \A d \in Registered' \ Registered : device'[d].bus = None,
         \A d \in Devices :
           \/ held'[d] = held[d]
           \/ d \in Registered /\ device'[d].paired /\ device[d].secret = held'[d]
  PROVE  PairingInv'
<1> USE DEF PairingInv
<1>1. ReadIsCurrent'
  BY DEF ReadIsCurrent, TypeInv, RequestsOK
<1>2. BusOfOwner'
  BY DEF BusOfOwner
<1>3. CredentialsKept' /\ HolderIsRegistered'
  BY DEF CredentialsKept, HolderIsRegistered
<1>4. QED
  BY <1>1, <1>2, <1>3

LEMMA ReaderKeepsOwners ==
  ASSUME PairingInv, NEW d \in Devices, Reader(d)
  PROVE  PairingInv'
<1>1. TypeInv /\ TypeInv'
  BY ReaderKeepsTypes DEF PairingInv
<1>2. CASE StartPairing(d) \/ StartClaim(d)
  <2>1. UNCHANGED <<device, buses, held, admin>>
    BY <1>2 DEF StartPairing, StartClaim
  <2>2. QED
    BY <1>1, <2>1, OwnersUndisturbed DEF Registered
<1>3. CASE CreateDevice(d)
  <2>1. PICK entry \in Row : device' = [device EXCEPT ![d] = entry] /\ entry.bus = None
    <3>1. now + TTL \in Nat
      BY <1>1, BoundsAssumption DEF TypeInv, ReadersOK
    <3>2. PICK c \in Codes :
            device' = [device EXCEPT ![d] =
               [pairingCode |-> c, expiresAt |-> now + TTL, paired |-> FALSE,
                active |-> TRUE, company |-> None, secret |-> None, bus |-> None]]
      BY <1>3 DEF CreateDevice
    <3>3. [pairingCode |-> c, expiresAt |-> now + TTL, paired |-> FALSE,
           active |-> TRUE, company |-> None, secret |-> None, bus |-> None] \in Row
      BY <3>1 DEF Row
    <3>4. QED
      BY <3>2, <3>3
  <2>2. d \notin Registered /\ UNCHANGED <<buses, held, admin>>
    BY <1>1, <1>3 DEF CreateDevice, TypeInv, CallsOK, Registered
  <2>3. /\ Registered' = Registered \cup {d} /\ device'[d] = entry
        /\ \A e \in Registered : device'[e] = device[e]
    BY <1>1, <2>1, <2>2, RowAssumption DEF TypeInv, DevicesOK, Registered
  <2>4. QED
    BY <1>1, <2>1, <2>2, <2>3, OwnersUndisturbed
<1>4. CASE RenewCode(d) \/ Claim(d)
  <2>1. /\ device[d] \in Row /\ d \in Registered /\ UNCHANGED <<buses, admin>>
    BY <1>1, <1>4 DEF RenewCode, Claim, TypeInv, CallsOK, DevicesOK, Registered
  <2>2. /\ device'[d].company = device[d].company /\ device'[d].secret = device[d].secret
        /\ device'[d].bus = device[d].bus /\ (device[d].paired => device'[d].paired)
        /\ \A e \in Devices : e # d => device'[e] = device[e]
        /\ Claim(d) => device'[d].paired
    <3>1. CASE RenewCode(d)
      BY <1>1, <2>1, <3>1 DEF RenewCode, Claim, TypeInv, DevicesOK, ReadersOK, Wait, Row, Calls
    <3>2. CASE Claim(d)
      BY <1>1, <2>1, <3>2 DEF Claim, TypeInv, DevicesOK, Row
    <3>3. QED
      BY <1>4, <3>1, <3>2
  <2>3. Registered' = Registered
    <3>1. device'[d] # None
      <4>1. CASE RenewCode(d)
        <5>1. PICK c \in Codes :
                device' = [device EXCEPT ![d].pairingCode = c, ![d].expiresAt = now + TTL]
          BY <4>1 DEF RenewCode
        <5> DEFINE entry == [device[d] EXCEPT !.pairingCode = c, !.expiresAt = now + TTL]
        <5>2. now + TTL \in Nat
          BY <1>1, BoundsAssumption DEF TypeInv, ReadersOK
        <5>3. entry \in Row
          BY <2>1, <5>2 DEF Row
        <5>4. device'[d] = entry
          BY <1>1, <2>1, <5>1 DEF TypeInv, DevicesOK
        <5>5. QED
          BY <5>3, <5>4, RowAssumption
      <4>2. CASE Claim(d)
        <5> DEFINE entry == [device[d] EXCEPT !.paired = TRUE, !.pairingCode = None,
                                            !.expiresAt = 0]
        <5>1. entry \in Row
          BY <2>1 DEF Row
        <5>2. device'[d] = entry
          BY <1>1, <2>1, <4>2 DEF Claim, TypeInv, DevicesOK
        <5>3. QED
          BY <5>1, <5>2, RowAssumption
      <4>3. QED
        BY <1>4, <4>1, <4>2
    <3>2. QED
      BY <2>1, <2>2, <3>1 DEF Registered
  <2>4. \A e \in Devices :
          \/ held'[e] = held[e]
          \/ e \in Registered /\ device'[e].paired /\ device[e].secret = held'[e]
    BY <1>1, <1>4, <2>1, <2>2 DEF RenewCode, Claim, TypeInv, ReadersOK
  <2>5. QED
    BY <1>1, <2>1, <2>2, <2>3, <2>4, OwnersUndisturbed DEF Registered
<1>5. QED
  BY <1>2, <1>3, <1>4 DEF Reader

LEMMA StartKeepsOwners ==
  ASSUME PairingInv, NEW a \in Admins, NEW c \in Companies, NEW b \in Buses,
         StartLink(a, c, b) \/ StartLinkBus(a, c, b)
  PROVE  PairingInv'
<1> USE DEF PairingInv
<1>1. TypeInv'
  BY StartKeepsTypes
<1>2. PICK d \in Registered, step \in {"link", "linkBus"} :
        /\ Read(a, step, d, c, b)
        /\ BusCompany[b] = c
        /\ device[d].company \in {None, c}
        /\ step = "linkBus" => device[d].company = c
  BY DEF StartLink, StartLinkBus, MayLink
<1>3. UNCHANGED <<device, buses, held>>
  BY DEF StartLink, StartLinkBus
<1>4. /\ admin'[a].step = step /\ admin'[a].device = d /\ admin'[a].company = c
      /\ admin'[a].bus = b /\ admin'[a].seen = device[d]
      /\ \A x \in Admins : x # a => admin'[x] = admin[x]
  BY <1>2 DEF Read, TypeInv, RequestsOK
<1>5. ReadIsCurrent'
  BY <1>2, <1>3, <1>4 DEF ReadIsCurrent
<1>6. QED
  BY <1>1, <1>3, <1>5 DEF BusOfOwner, CredentialsKept, HolderIsRegistered, Registered

LEMMA UpdateKeepsOwners ==
  ASSUME PairingInv, NEW a \in Admins, OneRequestADevice, Update(a)
  PROVE  PairingInv'
<1> USE DEF PairingInv
<1>1. TypeInv'
  BY UpdateKeepsTypes
<1>2. ASSUME \A e \in Devices : e # admin[a].device => device'[e] = device[e]
      PROVE  ReadIsCurrent'
  <2>1. /\ admin'[a].step = "idle" /\ admin[a].step # "idle"
        /\ \A x \in Admins : x # a => admin'[x] = admin[x]
    BY DEF Update, LinkDevice, LinkBus, LinkRefused, Answer, NoRequest, TypeInv, RequestsOK
  <2>2. \A x \in Admins : x # a /\ admin[x].step # "idle" =>
          admin[x].device \in Devices /\ admin[x].device # admin[a].device
    BY <2>1 DEF OneRequestADevice, TypeInv, RequestsOK, Registered
  <2>3. QED
    BY <1>2, <2>1, <2>2 DEF ReadIsCurrent
<1>3. CASE LinkRefused(a)
  <2>1. UNCHANGED <<device, buses, held>>
    BY <1>3 DEF LinkRefused
  <2>2. QED
    BY <1>1, <1>2, <2>1 DEF BusOfOwner, CredentialsKept, HolderIsRegistered, Registered
<1>4. CASE LinkDevice(a) \/ LinkBus(a)
  <2> DEFINE d == admin[a].device
  <2>1. /\ d \in Registered /\ device[d] \in Row /\ admin[a].seen \in Row
        /\ admin[a].bus \in buses /\ UNCHANGED <<buses, held>>
    BY <1>4 DEF LinkDevice, LinkBus, TypeInv, RequestsOK, DevicesOK, Registered
  <2>2. /\ device[d].company = admin[a].seen.company /\ device[d].secret = admin[a].seen.secret
        /\ BusCompany[admin[a].bus] = admin[a].company
        /\ device[d].company \in {None, admin[a].company}
        /\ admin[a].step = "linkBus" => device[d].company = admin[a].company
    BY <1>4 DEF LinkDevice, LinkBus, ReadIsCurrent
  <2>3. /\ \A e \in Devices : e # d => device'[e] = device[e]
        /\ device'[d].bus = admin[a].bus /\ device'[d].company = admin[a].company
        /\ device'[d].paired = device[d].paired
        /\ device[d].secret # None => device'[d].secret = device[d].secret
        /\ device'[d] # None
    <3>1. CASE LinkBus(a)
      <4> DEFINE entry == [device[d] EXCEPT !.bus = admin[a].bus]
      <4>1. device' = [device EXCEPT ![d] = entry] /\ admin[a].step = "linkBus"
        BY <3>1 DEF LinkBus
      <4>2. entry \in Row
        BY <2>1 DEF Row, TypeInv, ReadersOK
      <4>3. device'[d] = entry /\ \A e \in Devices : e # d => device'[e] = device[e]
        BY <2>1, <4>1 DEF TypeInv, DevicesOK, Registered
      <4>4. QED
        BY <2>1, <2>2, <4>1, <4>2, <4>3, RowAssumption DEF Row
    <3>2. CASE LinkDevice(a)
      <4> DEFINE owns == IF admin[a].seen.company = None THEN admin[a].company
                            ELSE device[d].company
                 secret == IF admin[a].seen.secret = None THEN minted + 1 ELSE device[d].secret
                 entry == [device[d] EXCEPT !.bus = admin[a].bus, !.company = owns,
                                          !.secret = secret]
      <4>1. /\ owns = admin[a].company /\ owns \in Companies
            /\ secret \in Nat \cup {None}
            /\ device[d].secret # None => secret = device[d].secret
        BY <2>1, <2>2, <3>2 DEF Row, LinkDevice, TypeInv, ReadersOK, RequestsOK
      <4>2. device' = [device EXCEPT ![d] = entry]
        BY <2>1, <3>2 DEF LinkDevice, TypeInv, DevicesOK
      <4> HIDE DEF owns, secret
      <4>3. entry \in Row
        BY <2>1, <4>1 DEF Row, TypeInv, ReadersOK
      <4>4. device'[d] = entry /\ \A e \in Devices : e # d => device'[e] = device[e]
        BY <2>1, <4>2 DEF TypeInv, DevicesOK, Registered
      <4>5. QED
        BY <2>1, <4>1, <4>3, <4>4, RowAssumption DEF Row
    <3>3. QED
      BY <1>4, <3>1, <3>2
  <2>4. Registered' = Registered
    BY <2>1, <2>3 DEF Registered
  <2>5. BusOfOwner'
    BY <2>1, <2>2, <2>3, <2>4 DEF BusOfOwner, Registered
  <2>6. CredentialsKept' /\ HolderIsRegistered'
    BY <2>1, <2>3, <2>4 DEF CredentialsKept, HolderIsRegistered
  <2>7. QED
    BY <1>1, <1>2, <2>3, <2>5, <2>6
<1>5. QED
  BY <1>3, <1>4 DEF Update

LEMMA RemovalKeepsOwners ==
  ASSUME PairingInv,
         (\E d \in Devices : Deactivate(d)) \/ (\E b \in Buses : DeleteBus(b))
  PROVE  PairingInv'
<1>1. TypeInv /\ TypeInv'
  BY RemovalKeepsTypes DEF PairingInv
<1>2. ASSUME NEW d \in Devices, Deactivate(d)
      PROVE  PairingInv'
  <2>1. /\ device' = [device EXCEPT ![d].active = FALSE] /\ device[d] \in Row
        /\ UNCHANGED <<buses, held, admin>>
    BY <1>1, <1>2 DEF Deactivate, TypeInv, DevicesOK
  <2>2. /\ device'[d] # None /\ \A e \in Devices : e # d => device'[e] = device[e]
        /\ device'[d].company = device[d].company /\ device'[d].secret = device[d].secret
        /\ device'[d].bus = device[d].bus /\ device'[d].paired = device[d].paired
    <3> DEFINE entry == [device[d] EXCEPT !.active = FALSE]
    <3>1. /\ entry \in Row /\ entry.company = device[d].company /\ entry.secret = device[d].secret
          /\ entry.bus = device[d].bus /\ entry.paired = device[d].paired
      BY <2>1 DEF Row
    <3>2. device'[d] = entry /\ \A e \in Devices : e # d => device'[e] = device[e]
      BY <1>1, <2>1 DEF TypeInv, DevicesOK
    <3>3. QED
      BY <3>1, <3>2, RowAssumption
  <2>3. Registered' = Registered
    BY <1>2, <2>2 DEF Deactivate, Registered
  <2>4. QED
    BY <1>1, <2>1, <2>2, <2>3, OwnersUndisturbed DEF Registered
<1>3. ASSUME NEW b \in Buses, DeleteBus(b)
      PROVE  PairingInv'
  <2>1. /\ buses' = buses \ {b} /\ UNCHANGED <<held, admin>>
        /\ device' = [d \in Devices |->
             IF d \in Registered /\ device[d].bus = b THEN [device[d] EXCEPT !.bus = None]
             ELSE device[d]]
    BY <1>3 DEF DeleteBus
  <2>2. \A d \in Registered :
          /\ device'[d] # None
          /\ device'[d].company = device[d].company /\ device'[d].secret = device[d].secret
          /\ device'[d].paired = device[d].paired
          /\ device'[d].bus = IF device[d].bus = b THEN None ELSE device[d].bus
    <3>1. \A d \in Registered : d \in Devices /\ device[d] \in Row
      BY <1>1 DEF TypeInv, DevicesOK, Registered
    <3>2. \A d \in Registered : [device[d] EXCEPT !.bus = None] \in Row
      BY <3>1 DEF Row
    <3>3. QED
      BY <2>1, <3>1, <3>2, RowAssumption DEF Row
  <2>3. Registered' = Registered
    BY <2>1, <2>2 DEF Registered
  <2>4. ReadIsCurrent'
    BY <1>1, <2>1, <2>2 DEF PairingInv, ReadIsCurrent, TypeInv, RequestsOK
  <2>5. BusOfOwner'
    BY <2>1, <2>2, <2>3 DEF PairingInv, BusOfOwner
  <2>6. CredentialsKept' /\ HolderIsRegistered'
    BY <2>1, <2>2, <2>3 DEF PairingInv, CredentialsKept, HolderIsRegistered
  <2>7. QED
    BY <1>1, <2>4, <2>5, <2>6 DEF PairingInv
<1>4. QED
  BY <1>2, <1>3

LEMMA OwnersInit == Init => PairingInv
BY TypesInit
   DEF Init, PairingInv, ReadIsCurrent, BusOfOwner, CredentialsKept, HolderIsRegistered, Registered,
       NoRequest

LEMMA OwnersNext == PairingInv /\ OneRequestADevice /\ [Next]_vars => PairingInv'
<1> SUFFICES ASSUME PairingInv, OneRequestADevice, [Next]_vars PROVE PairingInv'
  OBVIOUS
<1>1. CASE Tick \/ UNCHANGED vars
  <2>1. UNCHANGED <<device, buses, held, admin>>
    BY <1>1 DEF Tick, vars
  <2>2. TypeInv'
    BY TypesNext DEF PairingInv
  <2>3. QED
    BY <2>1, <2>2, OwnersUndisturbed DEF Registered
<1>2. QED
  BY <1>1, ReaderKeepsOwners, UpdateKeepsOwners, StartKeepsOwners, RemovalKeepsOwners DEF Next

(* A device's bus exists and is a bus of its company, for any number of readers *)
(* and administrators, as long as no two of them are linking one reader at a    *)
(* time.                                                                       *)
THEOREM BusIsOfTheOwner == Spec /\ []OneRequestADevice => []BusOfOwner
<1>1. PairingInv => BusOfOwner
  BY DEF PairingInv
<1>2. QED
  BY OwnersInit, OwnersNext, <1>1, PTL DEF Spec

(* Under the same condition a reader that was told its credentials holds those  *)
(* of its row.                                                                 *)
THEOREM ReaderKeepsCredentials == Spec /\ []OneRequestADevice => []CredentialsKept
<1>1. PairingInv => CredentialsKept
  BY DEF PairingInv
<1>2. QED
  BY OwnersInit, OwnersNext, <1>1, PTL DEF Spec

-----------------------------------------------------------------------------
(* A tap in progress has a kind and a tag. *)
TapsOK ==
  \A r \in Taps : pc[r] # "idle" => kind[r] \in {"BOARDING", "DEBOARDING"} /\ tag[r] \in Tags

(* A set of events has a last one. *)
LastsExist == \A S \in SUBSET DOMAIN events : S # {} => \E i \in S : \A j \in S : j <= i

(* A tap that is about to be recorded still fits the last event. *)
TapsFit ==
  \A r \in Taps : pc[r] = "create" => Allowed(kind[r], LastEvent(DeviceOf[r], student[r]))

BoardingInv == BoardingTypeOK /\ TapsOK /\ LastsExist /\ TapsFit /\ Alternates

(* An event is recorded after those there are. *)
LEMMA EventRecorded ==
  ASSUME events \in Seq(Event), LastsExist, NEW e \in Event, events' = Append(events, e)
  PROVE  /\ events' \in Seq(Event)
         /\ DOMAIN events' = DOMAIN events \cup {Len(events) + 1}
         /\ \A i \in DOMAIN events : i < Len(events) + 1 /\ events'[i] = events[i]
         /\ events'[Len(events) + 1] = e
         /\ LastsExist'
<1> DEFINE n == Len(events)
<1>1. n \in Nat /\ DOMAIN events = 1..n
  OBVIOUS
<1>2. events' \in Seq(Event) /\ Len(events') = n + 1 /\ DOMAIN events' = 1..(n + 1)
  OBVIOUS
<1>3. (\A i \in 1..n : events'[i] = events[i]) /\ events'[n + 1] = e
  OBVIOUS
<1>4. LastsExist'
  <2> SUFFICES ASSUME NEW S \in SUBSET (1..(n + 1)), S # {}
               PROVE  \E i \in S : \A j \in S : j <= i
    BY <1>2 DEF LastsExist
  <2>1. CASE n + 1 \in S
    BY <1>1, <2>1
  <2>2. CASE n + 1 \notin S
    <3>1. S \in SUBSET (1..n)
      BY <1>1, <2>2
    <3>2. QED
      BY <1>1, <3>1 DEF LastsExist
  <2>3. QED
    BY <2>1, <2>2
<1>5. QED
  BY <1>1, <1>2, <1>3, <1>4

(* The last of a set of events stays its last. *)
LEMMA LastOfKept ==
  ASSUME LastsExist, \A i \in DOMAIN events : events'[i] = events[i],
         NEW S \in SUBSET DOMAIN events
  PROVE  (IF S = {} THEN None ELSE events'[CHOOSE i \in S : \A j \in S : j <= i].type) = LastOf(S)
<1>1. CASE S = {}
  BY <1>1 DEF LastOf
<1>2. CASE S # {}
  <2>1. (CHOOSE i \in S : \A j \in S : j <= i) \in DOMAIN events
    BY <1>2 DEF LastsExist
  <2>2. QED
    BY <1>2, <2>1 DEF LastOf
<1>3. QED
  BY <1>1, <1>2

(* What a step does to the taps and to the events: the taps other than its own *)
(* stay as they are, and what it records is an event of its own tap.           *)
LEMMA BoardingTypes ==
  BoardingTypeOK /\ TapsOK /\ LastsExist /\ [BoardingNext]_boardingVars
    => BoardingTypeOK' /\ TapsOK' /\ LastsExist'
<1> SUFFICES ASSUME BoardingTypeOK, TapsOK, LastsExist, [BoardingNext]_boardingVars
             PROVE  BoardingTypeOK' /\ TapsOK' /\ LastsExist'
  OBVIOUS
<1> USE DeviceOfAssumption DEF Locations, Goto
<1>1. ASSUME NEW r \in Taps, NEW k \in {"BOARDING", "DEBOARDING"}, NEW t \in Tags, StartTap(r, k, t)
      PROVE  BoardingTypeOK' /\ TapsOK' /\ LastsExist'
  BY <1>1 DEF StartTap, BoardingTypeOK, TapsOK, LastsExist
<1>2. ASSUME NEW r \in Taps, FindCard(r) PROVE BoardingTypeOK' /\ TapsOK' /\ LastsExist'
  <2>1. pc[r] = "card" /\ tag[r] \in Tags /\ kind[r] \in {"BOARDING", "DEBOARDING"}
    BY <1>2 DEF FindCard, TapsOK
  <2>2. CASE /\ Known(r) /\ student' = [student EXCEPT ![r] = card[tag[r]]]
             /\ \E l \in {"deny", "last"} : pc' = [pc EXCEPT ![r] = l]
             /\ UNCHANGED <<events, card, activeStudent, activeDevice, kind, tag>>
    <3>1. card[tag[r]] \in Students
      BY <2>1, <2>2 DEF Known, BoardingTypeOK
    <3>2. QED
      BY <2>1, <2>2, <3>1 DEF BoardingTypeOK, TapsOK, LastsExist
  <2>3. CASE /\ pc' = [pc EXCEPT ![r] = "deny"]
             /\ UNCHANGED <<events, card, activeStudent, activeDevice, kind, tag, student>>
    BY <2>1, <2>3 DEF BoardingTypeOK, TapsOK, LastsExist
  <2>4. CASE Respond(r) /\ UNCHANGED <<events, card, activeStudent, activeDevice>>
    BY <2>4 DEF Respond, BoardingTypeOK, TapsOK, LastsExist
  <2>5. QED
    BY <1>2, <2>2, <2>3, <2>4 DEF FindCard
<1>3. ASSUME NEW r \in Taps, NEW type \in EventType, Insert(type, DeviceOf[r], student[r]),
             Respond(r), UNCHANGED <<card, activeStudent, activeDevice>>
      PROVE  BoardingTypeOK' /\ TapsOK' /\ LastsExist'
  <2> DEFINE e == [type |-> type, device |-> DeviceOf[r], student |-> student[r]]
  <2>1. e \in Event /\ events' = Append(events, e) /\ events \in Seq(Event)
    BY <1>3 DEF Event, Insert, BoardingTypeOK
  <2>2. events' \in Seq(Event) /\ LastsExist'
    BY <2>1, EventRecorded
  <2>3. QED
    BY <1>3, <2>2 DEF Respond, BoardingTypeOK, TapsOK
<1>4. ASSUME NEW r \in Taps, LogDenied(r) \/ CreateEvent(r)
      PROVE  BoardingTypeOK' /\ TapsOK' /\ LastsExist'
  BY <1>3, <1>4 DEF LogDenied, CreateEvent, TapsOK, EventType
<1>5. ASSUME NEW r \in Taps, ReadLastEvent(r) PROVE BoardingTypeOK' /\ TapsOK' /\ LastsExist'
  BY <1>5 DEF ReadLastEvent, BoardingTypeOK, TapsOK, LastsExist
<1>6. ASSUME NEW r \in Taps, Refuse(r) PROVE BoardingTypeOK' /\ TapsOK' /\ LastsExist'
  BY <1>6 DEF Refuse, Respond, BoardingTypeOK, TapsOK, LastsExist
<1>7. CASE Administrator
  BY <1>7 DEF Administrator, LinkCard, SetStudentActive, DeactivateGate, tap, BoardingTypeOK,
              TapsOK, LastsExist
<1>8. CASE UNCHANGED boardingVars
  BY <1>8 DEF boardingVars, tap, BoardingTypeOK, TapsOK, LastsExist
<1>9. QED
  BY <1>1, <1>2, <1>4, <1>5, <1>6, <1>7, <1>8 DEF BoardingNext, Tap

(* Cards, students, devices and taps keep their types. *)
THEOREM BoardingTypeCorrect == BoardingSpec => []BoardingTypeOK
<1>1. BoardingInit => BoardingTypeOK /\ TapsOK /\ LastsExist
  BY DEF BoardingInit, BoardingTypeOK, TapsOK, LastsExist, Locations
<1>2. QED
  BY <1>1, BoardingTypes, PTL DEF BoardingSpec

-----------------------------------------------------------------------------
(* A step that records nothing keeps the rides. *)
LEMMA RidesUntouched ==
  ASSUME Alternates, events' = events
  PROVE  Alternates'
BY DEF Alternates, EventsAt, LastOf

LEMMA FitUntouched ==
  ASSUME events' = events, NEW q \in Taps, kind'[q] = kind[q], student'[q] = student[q]
  PROVE  (Allowed(kind[q], LastEvent(DeviceOf[q], student[q])))'
           = Allowed(kind[q], LastEvent(DeviceOf[q], student[q]))
<1>1. (LastEvent(DeviceOf[q], student[q]))' = LastEvent(DeviceOf[q], student[q])
  BY DEF LastEvent, LastOf, EventsAt
<1>2. QED
  BY <1>1 DEF Allowed

(* An event that fits the last one, or that is no ride, keeps them too. *)
LEMMA RideRecorded ==
  ASSUME BoardingTypeOK, LastsExist, Alternates, NEW e \in Event, events' = Append(events, e),
         \A d \in Gates, s \in Students :
           e.device = d /\ e.student = s =>
             /\ e.type = "BOARDING" => LastEvent(d, s) # "BOARDING"
             /\ e.type = "DEBOARDING" => LastEvent(d, s) = "BOARDING"
  PROVE  Alternates'
<1> DEFINE n == Len(events)
           Earlier(d, s, i) == {j \in EventsAt(d, s) : j < i}
           Last1(S) == IF S = {} THEN None ELSE events'[CHOOSE i \in S : \A j \in S : j <= i].type
<1>1. /\ DOMAIN events' = DOMAIN events \cup {n + 1}
      /\ \A i \in DOMAIN events : i < n + 1 /\ events'[i] = events[i]
      /\ events'[n + 1] = e
  BY EventRecorded DEF BoardingTypeOK
<1>2. \A S \in SUBSET DOMAIN events : Last1(S) = LastOf(S)
  BY <1>1, LastOfKept
<1>3. n \in Nat /\ DOMAIN events = 1..n
  BY DEF BoardingTypeOK
<1> SUFFICES ASSUME NEW d \in Gates, NEW s \in Students, NEW i \in EventsAt(d, s)'
             PROVE  LET before == Last1({j \in EventsAt(d, s)' : j < i}) IN
                    /\ events'[i].type = "BOARDING" => before # "BOARDING"
                    /\ events'[i].type = "DEBOARDING" => before = "BOARDING"
  BY DEF Alternates, LastOf
<1>4. CASE i \in DOMAIN events
  <2>1. {j \in EventsAt(d, s)' : j < i} = Earlier(d, s, i)
    BY <1>1, <1>3, <1>4 DEF EventsAt
  <2>2. Earlier(d, s, i) \in SUBSET DOMAIN events /\ i \in EventsAt(d, s) /\ events'[i] = events[i]
    BY <1>1, <1>4 DEF EventsAt
  <2>3. Last1({j \in EventsAt(d, s)' : j < i}) = LastOf(Earlier(d, s, i))
    BY <1>2, <2>1, <2>2
  <2>4. QED
    BY <2>2, <2>3 DEF Alternates
<1>5. CASE i = n + 1
  <2>1. {j \in EventsAt(d, s)' : j < i} = EventsAt(d, s)
    BY <1>1, <1>3, <1>5 DEF EventsAt
  <2>2. EventsAt(d, s) \in SUBSET DOMAIN events /\ e.device = d /\ e.student = s
    BY <1>1, <1>5 DEF EventsAt
  <2>3. Last1({j \in EventsAt(d, s)' : j < i}) = LastEvent(d, s)
    BY <1>2, <2>1, <2>2 DEF LastEvent
  <2>4. QED
    BY <1>1, <1>5, <2>2, <2>3
<1>6. QED
  BY <1>1, <1>4, <1>5 DEF EventsAt

(* Two taps of one student are never about to be recorded at one device.       *)
OneTapOfAStudent ==
  \A q, r \in Taps :
    /\ pc[q] \in {"deny", "create"} /\ pc[r] \in {"deny", "create"}
    /\ DeviceOf[q] = DeviceOf[r] /\ student[q] = student[r]
    => q = r

(* As long as they are not, what a tap was allowed is still allowed when it is *)
(* recorded.                                                                  *)
LEMMA TapsFitKept ==
  ASSUME OneTapOfAStudent, BoardingInv, [BoardingNext]_boardingVars
  PROVE  TapsFit' /\ Alternates'
<1> USE DeviceOfAssumption DEF Goto
<1> BoardingTypeOK /\ TapsOK /\ LastsExist /\ TapsFit /\ Alternates
  BY DEF BoardingInv
<1>1. ASSUME NEW r \in Taps, events' = events, pc'[r] # "create",
             \A q \in Taps \ {r} : /\ pc'[q] = pc[q] /\ kind'[q] = kind[q]
                                   /\ student'[q] = student[q]
      PROVE  TapsFit' /\ Alternates'
  <2>1. \A q \in Taps \ {r} : pc'[q] = "create" =>
          (Allowed(kind[q], LastEvent(DeviceOf[q], student[q])))'
    BY <1>1, FitUntouched DEF TapsFit
  <2>2. QED
    BY <1>1, <2>1, RidesUntouched DEF TapsFit
<1>2. ASSUME NEW r \in Taps, NEW k \in {"BOARDING", "DEBOARDING"}, NEW t \in Tags, StartTap(r, k, t)
      PROVE  TapsFit' /\ Alternates'
  BY <1>1, <1>2 DEF StartTap, BoardingTypeOK
<1>3. ASSUME NEW r \in Taps, FindCard(r) \/ Refuse(r) PROVE TapsFit' /\ Alternates'
  <2>1. events' = events /\ pc'[r] \in {"idle", "deny", "last"}
    BY <1>3 DEF FindCard, Refuse, Respond, BoardingTypeOK
  <2>2. \A q \in Taps \ {r} : /\ pc'[q] = pc[q] /\ kind'[q] = kind[q]
                              /\ student'[q] = student[q]
    BY <1>3 DEF FindCard, Refuse, Respond, BoardingTypeOK
  <2>3. QED
    BY <1>1, <2>1, <2>2
<1>4. ASSUME NEW r \in Taps, ReadLastEvent(r) PROVE TapsFit' /\ Alternates'
  <2>1. /\ Allowed(kind[r], LastEvent(DeviceOf[r], student[r]))
        /\ UNCHANGED <<events, kind, student>>
        /\ \A q \in Taps \ {r} : pc'[q] = pc[q]
    BY <1>4 DEF ReadLastEvent, BoardingTypeOK
  <2>2. QED
    <3>1. \A q \in Taps : pc'[q] = "create" =>
            (Allowed(kind[q], LastEvent(DeviceOf[q], student[q])))'
      BY <2>1, FitUntouched DEF TapsFit
    <3>2. QED
      BY <2>1, <3>1, RidesUntouched DEF TapsFit
<1>5. ASSUME NEW r \in Taps, NEW type \in EventType, Insert(type, DeviceOf[r], student[r]),
             Respond(r), pc[r] \in {"deny", "create"},
             type # "DENIED" => Allowed(type, LastEvent(DeviceOf[r], student[r]))
      PROVE  TapsFit' /\ Alternates'
  <2> DEFINE e == [type |-> type, device |-> DeviceOf[r], student |-> student[r]]
  <2>1. e \in Event /\ events' = Append(events, e)
    BY <1>5 DEF Event, Insert, BoardingTypeOK
  <2>2. Alternates'
    BY <1>5, <2>1, RideRecorded DEF Allowed, EventType
  <2>3. /\ DOMAIN events' = DOMAIN events \cup {Len(events) + 1}
        /\ \A i \in DOMAIN events : events'[i] = events[i]
        /\ events'[Len(events) + 1] = e
    BY <2>1, EventRecorded DEF BoardingTypeOK
  <2>4. ASSUME NEW q \in Taps, pc'[q] = "create"
        PROVE  (Allowed(kind[q], LastEvent(DeviceOf[q], student[q])))'
    <3>1. q # r /\ pc[q] = "create" /\ kind'[q] = kind[q] /\ student'[q] = student[q]
      BY <1>5, <2>4 DEF Respond, BoardingTypeOK
    <3> DEFINE S == EventsAt(DeviceOf[q], student[q])
    <3>2. e.device # DeviceOf[q] \/ e.student # student[q]
      BY <1>5, <3>1 DEF OneTapOfAStudent
    <3>3. S \in SUBSET DOMAIN events /\ S' = S
      BY <2>3, <3>1, <3>2 DEF EventsAt
    <3>4. (LastEvent(DeviceOf[q], student[q]))' = LastEvent(DeviceOf[q], student[q])
      BY <2>3, <3>3, LastOfKept DEF LastEvent, LastOf
    <3>5. QED
      BY <3>1, <3>4 DEF TapsFit, Allowed
  <2>5. QED
    BY <2>2, <2>4 DEF TapsFit
<1>6. ASSUME NEW r \in Taps, LogDenied(r) \/ CreateEvent(r) PROVE TapsFit' /\ Alternates'
  BY <1>5, <1>6 DEF LogDenied, CreateEvent, TapsOK, TapsFit, EventType
<1>7. CASE UNCHANGED <<events, tap>>
  <2>1. \A q \in Taps : pc'[q] = "create" =>
          (Allowed(kind[q], LastEvent(DeviceOf[q], student[q])))'
    BY <1>7, FitUntouched DEF TapsFit, tap
  <2>2. QED
    BY <1>7, <2>1, RidesUntouched DEF TapsFit
<1>8. (Administrator \/ UNCHANGED boardingVars) => UNCHANGED <<events, tap>>
  BY DEF Administrator, LinkCard, SetStudentActive, DeactivateGate, boardingVars
<1>9. QED
  BY <1>2, <1>3, <1>4, <1>6, <1>7, <1>8 DEF BoardingNext, Tap

(* At a device a student never gets on twice without a step between and gets   *)
(* off only right after getting on, for every number of devices, students and  *)
(* overlapping taps, as long as two taps of one student are not recorded there *)
(* at the same time.                                                          *)
THEOREM RidesAlternate == BoardingSpec /\ []OneTapOfAStudent => []Alternates
<1>1. BoardingInit => BoardingInv
  BY DEF BoardingInit, BoardingInv, BoardingTypeOK, TapsOK, LastsExist, TapsFit, Alternates,
         EventsAt, Locations
<1>2. BoardingInv /\ OneTapOfAStudent /\ [BoardingNext]_boardingVars => BoardingInv'
  BY BoardingTypes, TapsFitKept DEF BoardingInv
<1>3. BoardingInv => Alternates
  BY DEF BoardingInv
<1>4. QED
  BY <1>1, <1>2, <1>3, PTL DEF BoardingSpec

-----------------------------------------------------------------------------
(* MCIdentity: the components share no variable, so each of them is a          *)
(* projection of the whole.                                                    *)
LEMMA PairingProjected == [IdentityNext]_identityVars => [Next]_vars
BY DEF IdentityNext, identityVars, PairingStep, BoardingStep, OnboardingStep, AccountStep,
       PushStep, BrowserStep

LEMMA BoardingProjected == [IdentityNext]_identityVars => [BoardingNext]_boardingVars
BY DEF IdentityNext, identityVars, PairingStep, BoardingStep, OnboardingStep, AccountStep,
       PushStep, BrowserStep

LEMMA OnboardingProjected == [IdentityNext]_identityVars => [OnboardingNext]_onboardingVars
BY DEF IdentityNext, identityVars, PairingStep, BoardingStep, OnboardingStep, AccountStep,
       PushStep, BrowserStep

LEMMA AccountsProjected == [IdentityNext]_identityVars => [AccountsNext]_accountVars
BY DEF IdentityNext, identityVars, PairingStep, BoardingStep, OnboardingStep, AccountStep,
       PushStep, BrowserStep

LEMMA PushProjected == [IdentityNext]_identityVars => [PushNext]_pushVars
BY DEF IdentityNext, identityVars, PairingStep, BoardingStep, OnboardingStep, AccountStep,
       PushStep, BrowserStep

LEMMA SessionProjected == [IdentityNext]_identityVars => [SessionNext]_sessionVars
BY DEF IdentityNext, identityVars, PairingStep, BoardingStep, OnboardingStep, AccountStep,
       PushStep, BrowserStep

(* Every behaviour of the whole is, seen through the variables of a component, *)
(* a behaviour of that component: what is proved of the component holds of the *)
(* whole.                                                                      *)
THEOREM IdentityIsItsParts ==
  IdentitySpec =>
    Spec /\ BoardingSpec /\ OnboardingSpec /\ AccountsSpec /\ PushSpec /\ SessionSpec
<1>1. IdentityInit =>
        Init /\ BoardingInit /\ OnboardingInit /\ AccountsInit /\ PushInit /\ SessionInit
  BY DEF IdentityInit
<1>2. QED
  BY <1>1, PairingProjected, BoardingProjected, OnboardingProjected, AccountsProjected,
     PushProjected, SessionProjected, PTL
  DEF IdentitySpec, Spec, BoardingSpec, OnboardingSpec, AccountsSpec, PushSpec, SessionSpec

(* Every variable of the component that steps keeps its type.                  *)
THEOREM IdentityTypeCorrect == IdentitySpec => []IdentityTypeOK
<1>1. TypeOK /\ BoardingTypeOK /\ OnboardingTypeOK /\ AccountsTypeOK /\ PushTypeOK
      /\ SessionTypeOK => IdentityTypeOK
  BY Zenon DEF IdentityTypeOK
<1>2. QED
  BY <1>1, IdentityIsItsParts, PairingTypeCorrect, BoardingTypeCorrect, OnboardingTypeCorrect,
     AccountsTypeCorrect, PushTypeCorrect, SessionTypeCorrect, PTL

(* What the run checks of the whole, for every value of the constants, as long  *)
(* as no two administrators link one reader and no two taps of one student are *)
(* recorded at one device at the same time.                                    *)
THEOREM IdentityIsSafe ==
  IdentitySpec =>
    /\ []OneRequestADevice => [](BusOfOwner /\ CredentialsKept)
    /\ []OneTapOfAStudent => []Alternates
    /\ [](VerificationSpent /\ StudentAccounts /\ DeactivatedIsOut)
    /\ [](TokenOfRegistrant /\ ClosedStaysClosed)
    /\ OfferedIsAllowed
<1>1. IdentitySpec => ([]OneRequestADevice => [](BusOfOwner /\ CredentialsKept))
  BY IdentityIsItsParts, BusIsOfTheOwner, ReaderKeepsCredentials, PTL
<1>2. IdentitySpec => ([]OneTapOfAStudent => []Alternates)
  BY IdentityIsItsParts, RidesAlternate, PTL
<1>3. IdentitySpec => [](VerificationSpent /\ StudentAccounts /\ DeactivatedIsOut)
  BY IdentityIsItsParts, VerifiedOnce, OneAccountPerStudent, DeactivatedStaysOut, PTL
<1>4. IdentitySpec => [](TokenOfRegistrant /\ ClosedStaysClosed)
  BY IdentityIsItsParts, DeviceIsOfItsRegistrant, ClosedIsNotRevived, PTL
<1>5. IdentitySpec => OfferedIsAllowed
  BY IdentityIsItsParts, OfferedPagesAllowed
<1>6. QED
  BY <1>1, <1>2, <1>3, <1>4, <1>5
=============================================================================
