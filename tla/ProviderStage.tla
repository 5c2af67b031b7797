----------------------------- MODULE ProviderStage -----------------------------
(***************************************************************************)
(* The shape that the plans of the durable store provider share            *)
(* (pipeline/persistence/durable_store_import/provider).  A plan is made   *)
(* of the plan before it.  It goes ahead (ok), with an operation and an    *)
(* identity for what comes next, or it says why not: then its failure      *)
(* takes over the message of the source's failure, if the source is the    *)
(* reason.  What a plan admits to have done outside the program is in      *)
(* effects; a plan has to admit to nothing.                                *)
(***************************************************************************)
EXTENDS DurableStoreImport

Failure(kind, message) == {[kind |-> kind, message |-> message]}

(* Slip: the message says what this stage waited for. *)
InheritedWithoutCause(kind, source, otherwise) == Failure(kind, otherwise)

(* A failure with the message of the source's. *)
Inherited(kind, source, otherwise) ==
    Failure(kind, IF source.failure = {} THEN otherwise ELSE The(source.failure).message)

Plan(ok, operation, identity, failure) ==
    [ok |-> ok, operation |-> operation,
     identity |-> IF ok THEN identity ELSE {},
     failure |-> IF ok THEN {} ELSE failure,
     effects |-> {}]

(* What every validator of a plan asks. *)
PlanAccepted(p, operation) ==
    /\ p.effects = {}
    /\ IF p.ok THEN p.operation = operation /\ p.identity # {} /\ p.failure = {}
       ELSE p.operation # operation /\ p.identity = {} /\ p.failure # {}
-----------------------------------------------------------------------------
(* Four plans depend on a profile or policy as well: it has to be the one  *)
(* written for the source, to support the capabilities the plan needs, and *)
(* to carry no secret, endpoint, path or payload (material).               *)
ProfileAccepted(profile) == profile.material = {}

FirstMissing(profile, capabilities) ==
    capabilities[CHOOSE i \in DOMAIN capabilities :
                    /\ capabilities[i] \notin profile.supports
                    /\ \A j \in 1 .. i - 1 : capabilities[j] \in profile.supports]

(* kinds: of the failures for a source that is not ready, another source's *)
(* profile and a missing capability; the operation then is a no-op of the  *)
(* same name.                                                              *)
GatedPlan(source, profile, capabilities, operation, kinds) ==
    LET supported == Members(capabilities) \subseteq profile.supports
        ok == source.ok /\ source.identity # {} /\ profile.matches /\ supported
        why == CASE ~source.ok \/ source.identity = {} -> kinds[1]
                 [] source.ok /\ source.identity # {} /\ ~profile.matches -> kinds[2]
                 [] OTHER -> kinds[3]
    IN  Plan(ok, IF ok THEN operation ELSE why, source.identity,
             CASE why = kinds[1] -> Inherited(why, source, "source is not ready")
               [] why = kinds[2] -> Failure(why, why)
               [] why = kinds[3] ->
                     IF ok THEN {} ELSE Failure(why, FirstMissing(profile, capabilities)))

GatedPlanAccepted(p, source, profile, capabilities, operation) ==
    /\ PlanAccepted(p, operation)
    /\ p.ok => /\ source.ok /\ source.identity # {}
               /\ Members(capabilities) \subseteq profile.supports

(* A plan without a profile: it goes ahead when its source does. *)
FollowingPlan(source, operation, kind) ==
    LET ok == source.ok /\ source.identity # {}
    IN  Plan(ok, IF ok THEN operation ELSE kind, source.identity,
             Inherited(kind, source, "source is not ready"))

FollowingPlanAccepted(p, source, operation) ==
    /\ PlanAccepted(p, operation)
    /\ p.ok => source.ok /\ source.identity # {}

(* A readiness review repeats its plan and adds the next action. *)
ReviewOf(p, next_action) == [plan |-> p, next_action |-> next_action]

ReviewAccepted(v, operation) ==
    /\ v.plan.effects = {}
    /\ IF v.plan.ok
       THEN v.plan.operation = operation /\ v.plan.identity # {} /\ v.plan.failure = {}
       ELSE v.plan.identity = {} /\ v.plan.failure # {}

(* ready, and what to do of a failure of each kind; anything else is left  *)
(* to a person.                                                            *)
NextActionOf(p, ready, of) ==
    CASE p.ok -> ready
      [] ~p.ok /\ p.failure # {} /\ The(p.failure).kind \in DOMAIN of -> of[The(p.failure).kind]
      [] OTHER -> "ManualReviewRequired"
-----------------------------------------------------------------------------
(* Later plans have an identity whether they are ready or not, so that the *)
(* status of the source decides alone; it may be the next action of a      *)
(* review (AsSource).                                                      *)
StatusPlan(source, operation, kind) ==
    Plan(source.ok, IF source.ok THEN operation ELSE kind, {},
         Inherited(kind, source, "source is not ready"))

StatusPlanAccepted(p, source, operation) ==
    /\ p.effects = {}
    /\ IF p.ok THEN source.ok /\ p.operation = operation /\ p.failure = {}
       ELSE p.operation # operation /\ p.failure # {}

StatusReviewAccepted(v, ready) ==
    /\ v.plan.effects = {}
    /\ IF v.plan.ok THEN v.next_action = ready /\ v.plan.failure = {} ELSE v.plan.failure # {}

AsSource(v, action) == [ok |-> v.next_action = action, failure |-> v.plan.failure]

(* The record of what was run of a plan.  It is ready when the plan was,   *)
(* with the outcome of the run and the failure of it, if it failed.        *)
RunOf(p, operation, kind, outcome, failure) ==
    [ok |-> p.ok, operation |-> IF p.ok THEN operation ELSE kind,
     outcome |-> IF p.ok THEN outcome ELSE "Blocked",
     failure |-> IF p.ok THEN failure ELSE Inherited(kind, p, "plan is not ready"),
     effects |-> {}]

RunAccepted(o, p, operation) ==
    /\ o.effects = {}
    /\ IF o.ok THEN p.ok /\ o.operation = operation
       ELSE o.operation # operation /\ o.failure # {}
================================================================================
