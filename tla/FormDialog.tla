------------------------------- MODULE FormDialog -------------------------------
(***************************************************************************)
(* The dialog in which a row is created or edited, one on each management  *)
(* page of the front end.  A dialog is opened again and again, and keeps   *)
(* its state in between; calls made from one opening may be answered in a  *)
(* later one.                                                              *)
(*                                                                         *)
(* An opening is known by its number.  What a form contains is left out    *)
(* but for the opening it was filled, or chosen from a list, in.           *)
(***************************************************************************)
EXTENDS Integers, TLC, Null

CONSTANT Openings   (* bound of the number of openings                     *)

ASSUME OpeningsAssumption == Openings \in Nat

VARIABLES
  dialog,           (* one of AllDialogs                                   *)
  opening,          (* the number of the last opening                      *)
  target,           (* "new" or "row" while it is open, None when closed   *)
  fields,           (* the state of the component                          *)
  saving,           (* isSaving                                            *)
  save,             (* the save on its way: its target and its opening     *)
  link,             (* the card being linked: the opening its student was  *)
                    (* created in, and the one the card was held out in    *)
  loads,            (* the requests of the options on their way            *)
  offer,            (* the opening the options were loaded for             *)
  waiting,          (* the flag that they are on their way                 *)
  unlisted,         (* history: a row was saved, the list not asked again  *)
  abandoned,        (* history: a dialog was closed over its own call      *)
  skipped           (* history: one was closed before a card was linked    *)

dialogVars == <<dialog, opening, target, fields, saving, save, link, loads, offer, waiting,
                unlisted, abandoned, skipped>>

-----------------------------------------------------------------------------
(* What the dialogs differ in: the options they load when they open and         *)
(* whether an answer that is late is ignored, whether the save waits for them,   *)
(* whether the old ones stay when the request fails, whether a card is linked   *)
(* to what was created, and whether the list is awaited before it closes.       *)
PlainDialog ==
  [options |-> "none", waits |-> FALSE, keeps |-> FALSE, links |-> FALSE, awaits |-> FALSE]

StudentModal == [PlainDialog EXCEPT !.options = "guarded", !.waits = TRUE, !.links = TRUE]
UserFormModal == [PlainDialog EXCEPT !.options = "guarded", !.awaits = TRUE]
DeviceModal == [PlainDialog EXCEPT !.options = "plain", !.waits = TRUE]
ScheduleFormModal == [PlainDialog EXCEPT !.options = "plain", !.keeps = TRUE]
RouteModal == PlainDialog
BusFormModal == PlainDialog
GroupFormModal == PlainDialog
BillingGroupFormModal == PlainDialog

AllDialogs ==
  {StudentModal, UserFormModal, DeviceModal, ScheduleFormModal, RouteModal, BusFormModal,
   GroupFormModal, BillingGroupFormModal}

-----------------------------------------------------------------------------
DialogInit ==
  /\ dialog \in AllDialogs
  /\ opening = 0 /\ target = None
  /\ fields = [of |-> 0, step |-> "fields", created |-> None, chosen |-> None]
  /\ saving = FALSE /\ save = None /\ link = None
  /\ loads = {} /\ offer = None /\ waiting = FALSE
  /\ unlisted = FALSE /\ abandoned = FALSE /\ skipped = FALSE

(* Mutated form of Fill: the step the dialog was in stays. *)
FillFields(n) == [fields EXCEPT !.of = n, !.chosen = None]

(* The effect that runs when the dialog opens. *)
Fill(n) == [of |-> n, step |-> "fields", created |-> None, chosen |-> None]

Open(t) ==
  /\ target = None /\ opening < Openings
  /\ opening' = opening + 1
  /\ target' = t
  /\ fields' = Fill(opening')
  /\ IF dialog.options = "none"
     THEN UNCHANGED <<loads, waiting>>
     ELSE loads' = loads \cup {opening'} /\ waiting' = TRUE
  /\ UNCHANGED <<dialog, saving, save, link, offer, unlisted, abandoned, skipped>>

(* The options arrive, or their request fails.  With a guard, only those of     *)
(* the opening the dialog is in are taken.                                     *)
Current(n) == dialog.options = "guarded" => target # None /\ n = opening

ArriveOptions(n) ==
  /\ n \in loads
  /\ loads' = loads \ {n}
  /\ offer' \in IF Current(n) THEN {n, IF dialog.keeps THEN offer ELSE None} ELSE {offer}
  /\ waiting' = (waiting /\ ~Current(n))
  /\ UNCHANGED <<dialog, opening, target, fields, saving, save, link, unlisted, abandoned, skipped>>

(* A choice among the options. *)
Choose ==
  /\ target # None /\ fields.step = "fields"
  /\ offer # None /\ ~waiting
  /\ fields' = [fields EXCEPT !.chosen = offer]
  /\ UNCHANGED <<dialog, opening, target, saving, save, link, loads, offer, waiting, unlisted,
                 abandoned, skipped>>

Close ==
  /\ target # None
  /\ target' = None
  /\ abandoned' = (abandoned \/ save # None \/ link # None)
  /\ skipped' = (skipped \/ fields.step = "link")
  /\ UNCHANGED <<dialog, opening, fields, saving, save, link, loads, offer, waiting, unlisted>>

-----------------------------------------------------------------------------
(* handleSubmit *)
Submit ==
  /\ target # None /\ fields.step = "fields" /\ ~saving
  /\ dialog.waits => ~waiting /\ offer # None
  /\ save' = [target |-> target, of |-> opening]
  /\ saving' = TRUE
  /\ UNCHANGED <<dialog, opening, target, fields, link, loads, offer, waiting, unlisted,
                 abandoned, skipped>>

(* onSuccess and onOpenChange: the list is asked again and the dialog closes,   *)
(* whatever it was opened for since.  Where the list is awaited and fails, the   *)
(* dialog stays.                                                               *)
ListAndClose ==
  /\ unlisted' = FALSE
  /\ target' \in {None} \cup {t \in {target} : dialog.awaits}

(* The save succeeds.  A created student stays in the dialog for its card. *)
Saved ==
  /\ save # None
  /\ IF dialog.links /\ save.target = "new"
     THEN /\ fields' = [fields EXCEPT !.step = "link", !.created = save.of]
          /\ unlisted' = TRUE
          /\ UNCHANGED target
     ELSE ListAndClose /\ UNCHANGED fields
  /\ save' = None /\ saving' = FALSE
  /\ UNCHANGED <<dialog, opening, link, loads, offer, waiting, abandoned, skipped>>

SaveFails ==
  /\ save # None
  /\ save' = None /\ saving' = FALSE
  /\ UNCHANGED <<dialog, opening, target, fields, link, loads, offer, waiting, unlisted,
                 abandoned, skipped>>

(* handleConfirmLink; a second click meanwhile links the same card and is left  *)
(* out.                                                                       *)
ConfirmLink ==
  /\ target # None /\ fields.step = "link" /\ link = None
  /\ link' = [created |-> fields.created, of |-> opening]
  /\ UNCHANGED <<dialog, opening, target, fields, saving, save, loads, offer, waiting, unlisted,
                 abandoned, skipped>>

(* Mutated form of Linked: the dialog only closes. *)
LinkedSilently ==
  /\ link # None
  /\ link' = None /\ target' = None
  /\ UNCHANGED <<dialog, opening, fields, saving, save, loads, offer, waiting, unlisted, abandoned,
                 skipped>>

Linked ==
  /\ link # None
  /\ link' = None
  /\ ListAndClose
  /\ UNCHANGED <<dialog, opening, fields, saving, save, loads, offer, waiting, abandoned, skipped>>

LinkFails ==
  /\ link # None
  /\ link' = None
  /\ UNCHANGED <<dialog, opening, target, fields, saving, save, loads, offer, waiting, unlisted,
                 abandoned, skipped>>

DialogNext ==
  \/ \E t \in {"new", "row"} : Open(t)
  \/ \E n \in 1 .. Openings : ArriveOptions(n)
  \/ Choose \/ Close \/ Submit \/ Saved \/ SaveFails \/ ConfirmLink \/ Linked \/ LinkFails

DialogSpec == DialogInit /\ [][DialogNext]_dialogVars

-----------------------------------------------------------------------------
SaveCall == [target : {"new", "row"}, of : 1 .. Openings]
ASSUME SaveCallAssumption == None \notin SaveCall

(* Every variable keeps its type. *)
DialogTypeOK ==
  /\ dialog \in AllDialogs /\ opening \in 0 .. Openings
  /\ target \in {"new", "row", None}
  /\ fields \in [of : 0 .. Openings, step : {"fields", "link"},
                 created : (1 .. Openings) \cup {None},
                 chosen : (1 .. Openings) \cup {None}]
  /\ saving = (save # None)
  /\ save # None => save \in SaveCall
  /\ link # None => link \in [created : 1 .. Openings, of : 1 .. Openings]
  /\ loads \in SUBSET (1 .. Openings) /\ offer \in (1 .. Openings) \cup {None}
  /\ waiting \in BOOLEAN /\ unlisted \in BOOLEAN /\ abandoned \in BOOLEAN /\ skipped \in BOOLEAN

(* An open dialog is about one opening: unless one was closed over a call of    *)
(* its own, the card step is that of the student created in it, and a card is   *)
(* linked to the student it was held out for.  Where an answer that is late is  *)
(* ignored, a choice comes from the options loaded for this opening: they       *)
(* differ from row to row in the dialog of the accounts.                        *)
OneOpening ==
  target # None =>
    /\ fields.of = opening
    /\ dialog.options = "guarded" => fields.chosen \in {None, opening}
    /\ ~abandoned =>
         /\ fields.step = "link" => fields.created = opening
         /\ link # None => link.created = link.of

(* A row that was saved is asked for in the list once the dialog is closed and  *)
(* nothing is on its way, unless the card of a new student was skipped or the   *)
(* dialog was closed over a call.                                              *)
SavedIsListed ==
  target = None /\ save = None /\ link = None /\ ~skipped /\ ~abandoned => ~unlisted
=============================================================================
