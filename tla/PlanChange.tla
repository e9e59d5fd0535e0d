------------------------------ MODULE PlanChange -------------------------------
(***************************************************************************)
(* The plan of a company (companies/companies.service.ts): its             *)
(* administrator asks for another one, the owner of the platform applies   *)
(* what is asked for.  Both read the row, then update it by id.            *)
(***************************************************************************)
EXTENDS Null

CONSTANTS
  Plans,
  PlanCalls,        (* requestPlanChange calls in progress                 *)
  Owners            (* applyRequestedPlan calls in progress                *)

VARIABLES
  plan,             (* Company.plan                                        *)
  requestedPlan,    (* Company.requestedPlan                               *)
  planCall,         (* the plan each call is about to write                *)
  apply,            (* the requested plan each call has read               *)
  owed              (* history: the plan that was asked for last while no  *)
                    (* owner was applying another, and is not applied yet  *)

planVars == <<plan, requestedPlan, planCall, apply, owed>>

PlanInit ==
  /\ plan \in Plans
  /\ requestedPlan = None
  /\ planCall = [r \in PlanCalls |-> None]
  /\ apply = [a \in Owners |-> None]
  /\ owed = None

(* requestPlanChange: the read; a plan in use or already asked for is not      *)
(* written.                                                                   *)
StartRequest(r, wanted) ==
  /\ planCall[r] = None
  /\ wanted \notin {plan, requestedPlan}
  /\ planCall' = [planCall EXCEPT ![r] = wanted]
  /\ UNCHANGED <<plan, requestedPlan, apply, owed>>

(* The update. *)
WriteRequest(r) ==
  /\ planCall[r] # None
  /\ requestedPlan' = planCall[r]
  /\ owed' = IF \A a \in Owners : apply[a] = None THEN planCall[r] ELSE None
  /\ planCall' = [planCall EXCEPT ![r] = None]
  /\ UNCHANGED <<plan, apply>>

(* Mutated form of StartApply: an owner applies what an earlier page showed. *)
StartApplyShown(a) ==
  /\ apply[a] = None
  /\ \E shown \in Plans : apply' = [apply EXCEPT ![a] = shown]
  /\ UNCHANGED <<plan, requestedPlan, planCall, owed>>

(* applyRequestedPlan: the read of what is asked for. *)
StartApply(a) ==
  /\ apply[a] = None
  /\ requestedPlan # None
  /\ apply' = [apply EXCEPT ![a] = requestedPlan]
  /\ UNCHANGED <<plan, requestedPlan, planCall, owed>>

(* The update: the plan that was read, and no request any more. *)
WriteApply(a) ==
  /\ apply[a] # None
  /\ plan' = apply[a]
  /\ requestedPlan' = None
  /\ owed' = IF owed = apply[a] THEN None ELSE owed
  /\ apply' = [apply EXCEPT ![a] = None]
  /\ UNCHANGED planCall

PlanNext ==
  \/ \E r \in PlanCalls : (\E wanted \in Plans : StartRequest(r, wanted)) \/ WriteRequest(r)
  \/ \E a \in Owners : StartApply(a) \/ WriteApply(a)

PlanSpec == PlanInit /\ [][PlanNext]_planVars

-----------------------------------------------------------------------------
(* Every variable keeps its type. *)
PlanTypeOK ==
  /\ plan \in Plans
  /\ requestedPlan \in Plans \cup {None}
  /\ planCall \in [PlanCalls -> Plans \cup {None}]
  /\ apply \in [Owners -> Plans \cup {None}]
  /\ owed \in Plans \cup {None}

(* A plan that was asked for while no owner was applying another one stays    *)
(* pending until it is applied, or until another is asked for: the owner of   *)
(* the platform gets to see it.                                               *)
PendingKept == owed # None => requestedPlan = owed
=============================================================================
