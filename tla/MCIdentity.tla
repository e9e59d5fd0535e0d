------------------------------ MODULE MCIdentity ------------------------------
(***************************************************************************)
(* An instance for TLC of what tells who is who: the pairing of readers,   *)
(* the cards and taps of students, the onboarding of companies, accounts,  *)
(* the sessions of a browser and the devices notices are pushed to.        *)
(*                                                                         *)
(* The components share no state, so a behaviour in which one of them      *)
(* steps and the others stay where they began shows all that one can do:   *)
(* `part' says which one it is.  For the sake of symmetry they share the   *)
(* names of their ids.                                                     *)
(***************************************************************************)
EXTENDS
  MCDevicePairing, Boarding, PushSubscriptions, UserAccounts, CompanyOnboarding, Session

VARIABLE part

(* One tap in progress at each gate; the cards are foreign to the second.    *)
GateOf == [r \in Taps |-> IF r = "tap1" THEN "gate1" ELSE "gate2"]
CompanyAt == [x \in Students \cup Gates |-> IF x = "gate2" THEN "beta" ELSE "acme"]

-----------------------------------------------------------------------------
Parts ==
  {"pairing", "boarding", "onboarding", "accounts", "push", "browser"}

(* What may differ at the start is fixed for the parts that do not step.     *)
IdentityInit ==
  /\ part \in Parts
  /\ Init
  /\ BoardingInit
  /\ OnboardingInit
  /\ AccountsInit
  /\ PushInit
  /\ SessionInit
  /\ part # "browser" => \A a \in Owners : owner[a].role = "ADMIN"

PairingStep ==
  /\ part = "pairing" /\ Next
  /\ UNCHANGED <<part, boardingVars, onboardingVars, accountVars, pushVars, sessionVars>>
BoardingStep ==
  /\ part = "boarding" /\ BoardingNext
  /\ UNCHANGED <<part, vars, onboardingVars, accountVars, pushVars, sessionVars>>
OnboardingStep ==
  /\ part = "onboarding" /\ OnboardingNext
  /\ UNCHANGED <<part, vars, boardingVars, accountVars, pushVars, sessionVars>>
AccountStep ==
  /\ part = "accounts" /\ AccountsNext
  /\ UNCHANGED <<part, vars, boardingVars, onboardingVars, pushVars, sessionVars>>
PushStep ==
  /\ part = "push" /\ PushNext
  /\ UNCHANGED <<part, vars, boardingVars, onboardingVars, accountVars, sessionVars>>
BrowserStep ==
  /\ part = "browser" /\ SessionNext
  /\ UNCHANGED <<part, vars, boardingVars, onboardingVars, accountVars, pushVars>>

IdentityNext ==
  PairingStep \/ BoardingStep \/ OnboardingStep \/ AccountStep \/ PushStep \/ BrowserStep
identityVars ==
  <<part, vars, boardingVars, onboardingVars, accountVars, pushVars, sessionVars>>
IdentitySpec == IdentityInit /\ [][IdentityNext]_identityVars

-----------------------------------------------------------------------------
(* Every variable of the part that steps keeps its type; the others stay what *)
(* Init made them.                                                            *)
IdentityTypeOK ==
  /\ part = "pairing" => TypeOK
  /\ part = "boarding" => BoardingTypeOK
  /\ part = "onboarding" => OnboardingTypeOK
  /\ part = "accounts" => AccountsTypeOK
  /\ part = "push" => PushTypeOK
  /\ part = "browser" => SessionTypeOK

IdsSymmetric == Permutations(Devices) \cup Permutations(Codes) \cup Permutations(Registrations)
=============================================================================
