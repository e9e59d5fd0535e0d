------------------------------ MODULE BillingPage ------------------------------
(***************************************************************************)
(* The settings tab of the billing page (frontend                          *)
(* dashboard/billing/page.tsx) in the browser of one administrator, over   *)
(* settings that others save as well.                                      *)
(*                                                                         *)
(* The form is filled from each overview that arrives; out of its edit     *)
(* mode it is what the page shows as saved.  What the settings contain is  *)
(* a value; BillingSettings has what the server makes of it.               *)
(***************************************************************************)
EXTENDS Null

CONSTANTS
  Contents,         (* of the settings and of the form                     *)
  Blank,            (* the settings of a company that never saved any, one *)
                    (* of Contents                                         *)
  Platform,         (* the contents with the platform's gateway on         *)
  Loads             (* requests of the overview: "save" and "submit", the  *)
                    (* reloads after those, and others                     *)

ASSUME ContentsAssumption == Blank \in Contents /\ Platform \subseteq Contents
ASSUME LoadsAssumption == {"first", "save", "submit"} \subseteq Loads

VARIABLES
  saved,            (* the settings at the server                          *)
  overview,         (* the settings of the last overview, None before it   *)
  form,
  editing,          (* isEditingSettings                                   *)
  failed,           (* loadError: the page shows nothing else              *)
  asked,            (* the requests of the overview on their way           *)
  answer,           (* the settings each of them was answered with         *)
  busy,             (* what the page waits for: saving, submitting         *)
  sent              (* the form of the save on its way                     *)

pageVars == <<saved, overview, form, editing, failed, asked, answer, busy, sent>>

PageInit ==
  /\ saved \in Contents
  /\ overview = None /\ form = Blank
  /\ editing = FALSE /\ failed = FALSE
  /\ asked = {"first"} /\ answer = [l \in Loads |-> None]
  /\ busy = {} /\ sent = None

Shown == overview # None /\ ~failed

-----------------------------------------------------------------------------
(* Another administrator saves. *)
SavedElsewhere ==
  /\ saved' \in Contents \ {Blank, saved}
  /\ UNCHANGED <<overview, form, editing, failed, asked, answer, busy, sent>>

(* hasBillingConfiguration *)
Configured(s) == s # Blank

(* fetchOverview: the request; the server reads the settings while it is on    *)
(* its way.                                                                   *)
Ask(l) == asked' = asked \cup {l} /\ failed' = FALSE

Answer(l) ==
  /\ l \in asked /\ answer[l] = None
  /\ answer' = [answer EXCEPT ![l] = saved]
  /\ UNCHANGED <<saved, overview, form, editing, failed, asked, busy, sent>>

(* The request is over, and the operation that waited for it. *)
Over(l) ==
  /\ asked' = asked \ {l}
  /\ answer' = [answer EXCEPT ![l] = None]
  /\ busy' = busy \ {l}

(* syncFromOverview, and the effect that closes or opens the edit mode. *)
Arrive(l) ==
  /\ answer[l] # None
  /\ overview' = answer[l] /\ form' = answer[l]
  /\ editing' = ~Configured(answer[l])
  /\ Over(l)
  /\ UNCHANGED <<saved, failed, sent>>

LoadFails(l) ==
  /\ l \in asked
  /\ failed' = TRUE
  /\ Over(l)
  /\ UNCHANGED <<saved, overview, form, editing, sent>>

(* handleRefreshAll *)
Refresh(l) ==
  /\ Shown /\ l \notin {"save", "submit"} \cup asked
  /\ Ask(l)
  /\ UNCHANGED <<saved, overview, form, editing, answer, busy, sent>>

-----------------------------------------------------------------------------
StartEditing ==
  /\ Shown /\ ~editing
  /\ editing' = TRUE
  /\ UNCHANGED <<saved, overview, form, failed, asked, answer, busy, sent>>

(* handleStartGatewaySetup, offered while neither the overview nor the form     *)
(* has the platform's gateway.                                                *)
StartGatewaySetup ==
  /\ Shown /\ ~editing /\ {overview, form} \cap Platform = {}
  /\ form' \in Platform
  /\ editing' = TRUE
  /\ UNCHANGED <<saved, overview, failed, asked, answer, busy, sent>>

(* The fields of the form. *)
Edit ==
  /\ Shown /\ editing
  /\ form' \in Contents \ {form}
  /\ UNCHANGED <<saved, overview, editing, failed, asked, answer, busy, sent>>

(* Mutated form of CancelEdit: the form keeps what was typed. *)
CancelKeeping ==
  /\ Shown /\ editing
  /\ editing' = FALSE
  /\ UNCHANGED <<saved, overview, form, failed, asked, answer, busy, sent>>

(* handleCancelSettingsEdit *)
CancelEdit ==
  /\ Shown /\ editing
  /\ form' = overview
  /\ editing' = FALSE
  /\ UNCHANGED <<saved, overview, failed, asked, answer, busy, sent>>

(* handleSaveSettings: the whole form is sent. *)
Save ==
  /\ Shown /\ editing /\ "save" \notin busy
  /\ sent' = form
  /\ busy' = busy \cup {"save"}
  /\ UNCHANGED <<saved, overview, form, editing, failed, asked, answer>>

(* The server has saved it; the edit mode ends, and the overview is asked for. *)
(* A form without an address is refused.                                      *)
SaveAnswered ==
  /\ sent \notin {None, Blank}
  /\ saved' = sent /\ sent' = None
  /\ editing' = FALSE
  /\ Ask("save")
  /\ UNCHANGED <<overview, form, answer, busy>>

(* handleSubmitOnboarding *)
SubmitOnboarding ==
  /\ Shown /\ "submit" \notin busy /\ (editing => form \in Platform)
  /\ busy' = busy \cup {"submit"}
  /\ UNCHANGED <<saved, overview, form, editing, failed, asked, answer, sent>>

Submitted ==
  /\ "submit" \in busy \ asked
  /\ Ask("submit")
  /\ UNCHANGED <<saved, overview, form, editing, answer, busy, sent>>

(* The save or the submission fails: a message. *)
Fail(l) ==
  /\ l \in busy \ asked
  /\ busy' = busy \ {l}
  /\ sent' = IF l = "save" THEN None ELSE sent
  /\ UNCHANGED <<saved, overview, form, editing, failed, asked, answer>>

PageNext ==
  \/ SavedElsewhere
  \/ \E l \in Loads : Answer(l) \/ Arrive(l) \/ LoadFails(l) \/ Refresh(l) \/ Fail(l)
  \/ StartEditing \/ StartGatewaySetup \/ Edit \/ CancelEdit
  \/ Save \/ SaveAnswered \/ SubmitOnboarding \/ Submitted

PageSpec == PageInit /\ [][PageNext]_pageVars

-----------------------------------------------------------------------------
(* Every variable keeps its type. *)
PageTypeOK ==
  /\ saved \in Contents /\ form \in Contents
  /\ overview \in Contents \cup {None} /\ sent \in Contents \cup {None}
  /\ editing \in BOOLEAN /\ failed \in BOOLEAN
  /\ asked \in SUBSET Loads
  /\ answer \in [Loads -> Contents \cup {None}]
  /\ busy \in SUBSET {"save", "submit"}

(* Once nothing is on its way, the page out of its edit mode shows the        *)
(* settings of the overview it got last, not what somebody typed and left.    *)
Resting == busy = {} /\ asked = {}
ShowsWhatIsSaved == Shown /\ Resting /\ ~editing => form = overview
=============================================================================
