--------------------------- MODULE CompanyOnboarding ---------------------------
(***************************************************************************)
(* How a company signs up (companies/companies.service.ts): a code sent to *)
(* a phone by SMS, its verification, and the creation of the company and   *)
(* of its administrator.                                                   *)
(*                                                                         *)
(* The challenges are objects of a Map in the memory of the API: an        *)
(* onboarding keeps the object it read while it waits for the database,    *)
(* a newer SMS replaces the entry, a restart loses them all.               *)
(***************************************************************************)
EXTENDS Null

CONSTANTS
  Phones,
  Challenges,       (* objects, each with a code of its own                *)
  Onboardings,      (* requests to createOnboarding in progress            *)
  Tenants,          (* ids of companies                                    *)
  Cnpjs,
  Domains,
  PlatformDomain    (* an administrator of the platform has an address on  *)
                    (* it                                                  *)

VARIABLES
  challenge,        (* the objects: None until they are created            *)
  current,          (* smsChallenges: the object of each phone             *)
  onboarding,       (* the local variables of each request                 *)
  company,          (* the Company rows, with their administrator          *)
  edit              (* the update of a profile in progress                 *)

onboardingVars == <<challenge, current, onboarding, company, edit>>

Challenge == [phone : Phones, expired : BOOLEAN, verified : BOOLEAN]
Onboarding ==
  [step : {"company", "email", "create", "created"}, phone : Phones, challenge : Challenges,
   cnpj : Cnpjs, domain : Domains]
CompanyRow == [cnpj : Cnpjs, domain : Domains, challenge : Challenges]
ASSUME OnboardingNullAssumption ==
  None \notin Challenges \cup Challenge \cup Onboarding \cup CompanyRow

OnboardingInit ==
  /\ challenge = [c \in Challenges |-> None]
  /\ current = [p \in Phones |-> None]
  /\ onboarding = [o \in Onboardings |-> None]
  /\ company = [x \in Tenants |-> None]
  /\ edit = None

Signed == {x \in Tenants : company[x] # None}

-----------------------------------------------------------------------------
(* sendSmsCode: the entry is replaced before the SMS is sent, whose code      *)
(* reaches the phone or not.                                                  *)
SendSmsCode(p, c) ==
  /\ challenge[c] = None
  /\ challenge' = [challenge EXCEPT ![c] = [phone |-> p, expired |-> FALSE, verified |-> FALSE]]
  /\ current' = [current EXCEPT ![p] = c]
  /\ UNCHANGED <<onboarding, company, edit>>

(* Ten minutes pass. *)
Expire(c) ==
  /\ challenge[c] # None /\ ~challenge[c].expired
  /\ challenge' = [challenge EXCEPT ![c].expired = TRUE]
  /\ UNCHANGED <<current, onboarding, company, edit>>

(* verifySmsCode with the code that is asked for; with another it does nothing. *)
VerifySmsCode(p) ==
  /\ current[p] # None /\ ~challenge[current[p]].expired
  /\ challenge' = [challenge EXCEPT ![current[p]].verified = TRUE]
  /\ UNCHANGED <<current, onboarding, company, edit>>

(* verifySmsCode after the ten minutes. *)
VerifyTooLate(p) ==
  /\ current[p] # None /\ challenge[current[p]].expired
  /\ current' = [current EXCEPT ![p] = None]
  /\ UNCHANGED <<challenge, onboarding, company, edit>>

-----------------------------------------------------------------------------
(* createOnboarding: the challenge of the phone has been verified; whether it *)
(* has expired since is not looked at.                                        *)
StartOnboarding(o, p, cnpj, domain) ==
  /\ onboarding[o] = None
  /\ current[p] # None /\ challenge[current[p]].verified
  /\ onboarding' = [onboarding EXCEPT ![o] =
       [step |-> "company", phone |-> p, challenge |-> current[p], cnpj |-> cnpj, domain |-> domain]]
  /\ UNCHANGED <<challenge, current, company, edit>>

Leave(o) == onboarding' = [onboarding EXCEPT ![o] = None]

(* ensureCompanyAvailability, ensureAdminEmailAvailability: the reads before   *)
(* the transaction.                                                           *)
CheckCompany(o) ==
  /\ onboarding[o] # None /\ onboarding[o].step = "company"
  /\ IF \E x \in Signed : \/ company[x].cnpj = onboarding[o].cnpj
                          \/ company[x].domain = onboarding[o].domain
     THEN Leave(o)
     ELSE onboarding' = [onboarding EXCEPT ![o].step = "email"]
  /\ UNCHANGED <<challenge, current, company, edit>>

CheckEmail(o) ==
  /\ onboarding[o] # None /\ onboarding[o].step = "email"
  /\ IF onboarding[o].domain = PlatformDomain
     THEN Leave(o)
     ELSE onboarding' = [onboarding EXCEPT ![o].step = "create"]
  /\ UNCHANGED <<challenge, current, company, edit>>

(* The unique indexes of cnpj and emailDomain. *)
Refused(x, cnpj, domain) ==
  \E y \in Signed \ {x} : company[y].cnpj = cnpj \/ company[y].domain = domain

(* The transaction that creates the company and its administrator. *)
CreateCompany(o, x) ==
  /\ onboarding[o] # None /\ onboarding[o].step = "create"
  /\ company[x] = None
  /\ ~Refused(x, onboarding[o].cnpj, onboarding[o].domain)
  /\ company' = [company EXCEPT ![x] =
       [cnpj |-> onboarding[o].cnpj, domain |-> onboarding[o].domain,
        challenge |-> onboarding[o].challenge]]
  /\ onboarding' = [onboarding EXCEPT ![o].step = "created"]
  /\ UNCHANGED <<challenge, current, edit>>

RefuseCompany(o) ==
  /\ onboarding[o] # None /\ onboarding[o].step = "create"
  /\ Refused(None, onboarding[o].cnpj, onboarding[o].domain)
  /\ Leave(o)
  /\ UNCHANGED <<challenge, current, company, edit>>

(* Mutated form of FinishOnboarding: the challenge stays in the map. *)
FinishKeeping(o) ==
  /\ onboarding[o] # None /\ onboarding[o].step = "created"
  /\ Leave(o)
  /\ UNCHANGED <<challenge, current, company, edit>>

(* After the commit: the entry of the phone is deleted, whichever it is now. *)
FinishOnboarding(o) ==
  /\ onboarding[o] # None /\ onboarding[o].step = "created"
  /\ current' = [current EXCEPT ![onboarding[o].phone] = None]
  /\ Leave(o)
  /\ UNCHANGED <<challenge, company, edit>>

-----------------------------------------------------------------------------
(* updateMine: the check, then the update, which the unique index may refuse. *)
StartEdit(x, cnpj) ==
  /\ edit = None /\ x \in Signed
  /\ ~\E y \in Signed \ {x} : company[y].cnpj = cnpj
  /\ edit' = [company |-> x, cnpj |-> cnpj]
  /\ UNCHANGED <<challenge, current, onboarding, company>>

WriteEdit ==
  /\ edit # None
  /\ company' =
       IF \E y \in Signed \ {edit.company} : company[y].cnpj = edit.cnpj THEN company
       ELSE [company EXCEPT ![edit.company].cnpj = edit.cnpj]
  /\ edit' = None
  /\ UNCHANGED <<challenge, current, onboarding>>

-----------------------------------------------------------------------------
(* The API dies and starts again: its memory is gone, what was committed stays. *)
Restart ==
  /\ \E p \in Phones : current[p] # None
  /\ current' = [p \in Phones |-> None]
  /\ onboarding' = [o \in Onboardings |-> None]
  /\ edit' = None
  /\ UNCHANGED <<challenge, company>>

OnboardingNext ==
  \/ \E p \in Phones :
       \/ \E c \in Challenges : SendSmsCode(p, c)
       \/ VerifySmsCode(p)
       \/ VerifyTooLate(p)
  \/ \E c \in Challenges : Expire(c)
  \/ \E o \in Onboardings :
       \/ \E p \in Phones, cnpj \in Cnpjs, domain \in Domains : StartOnboarding(o, p, cnpj, domain)
       \/ CheckCompany(o)
       \/ CheckEmail(o)
       \/ \E x \in Tenants : CreateCompany(o, x)
       \/ RefuseCompany(o)
       \/ FinishOnboarding(o)
  \/ \E x \in Tenants, cnpj \in Cnpjs : StartEdit(x, cnpj)
  \/ WriteEdit
  \/ Restart

OnboardingSpec == OnboardingInit /\ [][OnboardingNext]_onboardingVars

-----------------------------------------------------------------------------
(* Every variable keeps its type. *)
OnboardingTypeOK ==
  /\ challenge \in [Challenges -> Challenge \cup {None}]
  /\ current \in [Phones -> Challenges \cup {None}]
  /\ onboarding \in [Onboardings -> Onboarding \cup {None}]
  /\ company \in [Tenants -> CompanyRow \cup {None}]
  /\ edit \in [company : Tenants, cnpj : Cnpjs] \cup {None}

(* A verification that has made a company is spent: its challenge is not the  *)
(* one of its phone any more once its onboarding is over, whatever was sent,  *)
(* verified or lost meanwhile, so none that starts later can use it.          *)
(* Onboardings that overlap may have read the same challenge, and then each   *)
(* makes a company: the code does not keep them apart.                        *)
Finishing(c) ==
  \E o \in Onboardings :
    onboarding[o] # None /\ onboarding[o].step = "created" /\ onboarding[o].challenge = c
VerificationSpent ==
  \A x \in Signed :
    LET c == company[x].challenge IN current[challenge[c].phone] = c => Finishing(c)
=============================================================================
