---------------------------- MODULE BillingSettings ----------------------------
(***************************************************************************)
(* The billing settings of a company (billing/billing.service.ts): whether *)
(* it uses the gateway of the platform, and its onboarding to it.          *)
(*                                                                         *)
(* updateCompanySettings and submitOnboarding read the row and then update *)
(* it by id, the first from the status and the second from the gateway it  *)
(* read.  The fields an onboarding needs are one flag here: all filled in  *)
(* and accepted, or not.  No code of the repository writes the statuses    *)
(* ACTIVE and REJECTED.                                                    *)
(***************************************************************************)
EXTENDS Null

CONSTANT
  SettingsCalls     (* calls of the two operations in progress             *)

VARIABLES
  settings,         (* the CompanyBillingSettings row                      *)
  settingsCall,     (* the local variables of each call                    *)
  late              (* history: the platform's gateway was switched off    *)
                    (* while the last submission was in progress           *)

settingsVars == <<settings, settingsCall, late>>

Statuses == {"NOT_STARTED", "IN_PROGRESS", "UNDER_REVIEW", "SUSPENDED"}
ASSUME StatusesAssumption == None \notin Statuses /\ None \notin BOOLEAN

Settings == [platform : BOOLEAN, complete : BOOLEAN, status : Statuses, updated : BOOLEAN]

(* The row ensureCompanySettings inserts. *)
NewSettings ==
  [platform |-> FALSE, complete |-> FALSE, status |-> "NOT_STARTED", updated |-> FALSE]

SettingsInit ==
  /\ settings = NewSettings
  /\ settingsCall = [c \in SettingsCalls |-> None]
  /\ late = FALSE

-----------------------------------------------------------------------------
(* Mutated form of NextStatus: a switch to the company's own gateway leaves    *)
(* the review alone.                                                          *)
NextStatusKept(status, platform) ==
  IF status = "UNDER_REVIEW" THEN status
  ELSE IF platform THEN "IN_PROGRESS" ELSE "NOT_STARTED"

(* resolveOnboardingStatusChange *)
NextStatus(status, platform) ==
  IF status = "UNDER_REVIEW"
  THEN IF platform THEN status ELSE "SUSPENDED"
  ELSE IF platform THEN "IN_PROGRESS" ELSE "NOT_STARTED"

(* updateCompanySettings: the read, and what is going to be written; None      *)
(* stands for what the request leaves out.                                    *)
StartUpdate(c, platform, complete) ==
  /\ settingsCall[c] = None
  /\ settingsCall' = [settingsCall EXCEPT ![c] =
       [kind |-> "update", platform |-> platform, complete |-> complete, late |-> FALSE,
        status |-> IF platform = None THEN None ELSE NextStatus(settings.status, platform)]]
  /\ UNCHANGED <<settings, late>>

Or(new, old) == IF new = None THEN old ELSE new

(* The update.  The submissions in progress have read the gateway this one may *)
(* switch off.                                                                *)
WriteUpdate(c) ==
  /\ settingsCall[c] # None /\ settingsCall[c].kind = "update"
  /\ settings' = [platform |-> Or(settingsCall[c].platform, settings.platform),
                  complete |-> Or(settingsCall[c].complete, settings.complete),
                  status |-> Or(settingsCall[c].status, settings.status),
                  updated |-> TRUE]
  /\ settingsCall' = [d \in SettingsCalls |->
       IF d = c THEN None
       ELSE IF settingsCall[d] # None /\ settingsCall[d].kind = "submit" /\ ~settings'.platform
       THEN [settingsCall[d] EXCEPT !.late = TRUE]
       ELSE settingsCall[d]]
  /\ UNCHANGED late

(* submitOnboarding: the read and its two checks. *)
StartSubmit(c) ==
  /\ settingsCall[c] = None
  /\ settings.platform /\ settings.complete
  /\ settingsCall' = [settingsCall EXCEPT ![c] =
       [kind |-> "submit", platform |-> None, complete |-> None, late |-> FALSE, status |-> None]]
  /\ UNCHANGED <<settings, late>>

(* The update. *)
WriteSubmit(c) ==
  /\ settingsCall[c] # None /\ settingsCall[c].kind = "submit"
  /\ settings' = [settings EXCEPT !.status = "UNDER_REVIEW", !.updated = TRUE]
  /\ late' = settingsCall[c].late
  /\ settingsCall' = [settingsCall EXCEPT ![c] = None]

SettingsNext ==
  \E c \in SettingsCalls :
    \/ \E platform \in BOOLEAN \cup {None}, complete \in BOOLEAN \cup {None} :
         StartUpdate(c, platform, complete)
    \/ WriteUpdate(c)
    \/ StartSubmit(c)
    \/ WriteSubmit(c)

SettingsSpec == SettingsInit /\ [][SettingsNext]_settingsVars

-----------------------------------------------------------------------------
(* Every variable keeps its type. *)
Call ==
  [kind : {"update", "submit"}, platform : BOOLEAN \cup {None}, complete : BOOLEAN \cup {None},
   late : BOOLEAN, status : Statuses \cup {None}]
SettingsTypeOK ==
  /\ settings \in Settings
  /\ settingsCall \in [SettingsCalls -> Call \cup {None}]
  /\ late \in BOOLEAN

(* An onboarding is under review for a company that uses the gateway of the   *)
(* platform, whatever updates and submissions overlap, unless the gateway was *)
(* switched off while the submission was being written.                       *)
ReviewedByPlatform == settings.status = "UNDER_REVIEW" /\ ~late => settings.platform
=============================================================================
