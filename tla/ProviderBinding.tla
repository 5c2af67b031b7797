---------------------------- MODULE ProviderBinding ----------------------------
(***************************************************************************)
(* provider/binding.cpp: the preview of a provider write, the handoff that *)
(* says how it would be recovered, and the binding of a driver to it.      *)
(* What an adapter supports is the set of capabilities of its matrix.      *)
(***************************************************************************)
EXTENDS ProviderStage

Matrices == SUBSET {"PlanProviderWrite", "RetryPlaceholder", "ResumePlaceholder"}

(* Of the capability matrix and the receipt the matrix is asked first: a   *)
(* write that is not supported hides why the receipt was not persisted.    *)
WriteAttemptOf(receipt, matrix) ==
    LET supported == "PlanProviderWrite" \in matrix
        ok == /\ receipt.response_status = "Accepted" /\ receipt.mutation_status = "Persisted"
              /\ receipt.persistence_id # {} /\ supported
        noop == IF receipt.response_status = "Accepted" THEN "NoopUnsupportedCapability"
                ELSE Noop(receipt.response_status)
        plan == Plan(ok, IF ok THEN "ProviderPersistReceipt" ELSE noop, receipt.persistence_id,
                     IF supported THEN Inherited("SourceExecutionNotPersisted", receipt, "")
                     ELSE Failure("UnsupportedProviderCapability", "write is not supported"))
    IN  [ok |-> plan.ok, operation |-> plan.operation, identity |-> plan.identity,
         failure |-> plan.failure, effects |-> {}, mutates_provider |-> ok,
         source_persistence_id |-> receipt.persistence_id,
         retry_placeholder |-> ok /\ "RetryPlaceholder" \in matrix,
         resume_placeholder |-> ok /\ "ResumePlaceholder" \in matrix]

WriteAttemptAccepted(p, receipt, matrix) ==
    /\ PlanAccepted(p, "ProviderPersistReceipt")
    /\ p.mutates_provider <=> p.ok
    /\ p.ok => /\ receipt.response_status = "Accepted"
               /\ receipt.mutation_status = "Persisted"
               /\ "PlanProviderWrite" \in matrix
               /\ p.source_persistence_id # {}

RecoveryHandoffOf(p) ==
    ReviewOf(p, CASE p.ok -> "NoRecoveryRequired"
                  [] ~p.ok /\ The(p.failure).kind = "UnsupportedProviderCapability" ->
                        IF p.retry_placeholder THEN "ResumeUnavailable" ELSE "RetryUnavailable"
                  [] OTHER -> "ManualReviewRequired")

RecoveryHandoffAccepted(v) ==
    IF v.plan.ok THEN v.plan.identity # {} /\ v.plan.failure = {}
    ELSE v.plan.identity = {} /\ v.plan.failure # {}
-----------------------------------------------------------------------------
DriverCapabilities == <<"LoadSecretFreeProfile", "TranslateWriteIntent">>

DriverProfileAccepted(profile) == ProfileAccepted(profile)

DriverBindingOf(attempt, profile) ==
    GatedPlan(attempt, profile, DriverCapabilities, "TranslateProviderPersistReceipt",
              <<"SourceWriteAttemptNotPlanned", "DriverProfileMismatch",
                "UnsupportedDriverCapability">>)

DriverBindingAccepted(p, attempt, profile) ==
    GatedPlanAccepted(p, attempt, profile, DriverCapabilities, "TranslateProviderPersistReceipt")

DriverReadinessOf(p) ==
    ReviewOf(p, NextActionOf(p, "ReadyForDriverImplementation",
        [k \in {"DriverProfileMismatch", "UnsupportedDriverCapability"} |->
            IF k = "DriverProfileMismatch" THEN "FixProviderProfile"
            ELSE "WaitForDriverCapability"]))

DriverReadinessAccepted(v) == ReviewAccepted(v, "TranslateProviderPersistReceipt")
-----------------------------------------------------------------------------
(* provider/runtime.cpp: the preflight of the provider's runtime and the   *)
(* envelope of the SDK request.                                            *)

RuntimeCapabilities ==
    <<"LoadSecretFreeRuntimeProfile", "ResolveSecretHandlePlaceholder",
      "LoadConfigSnapshotPlaceholder", "PlanSdkInvocationEnvelope">>

RuntimeProfileAccepted(profile) == ProfileAccepted(profile)

RuntimePreflightOf(binding, profile) ==
    GatedPlan(binding, profile, RuntimeCapabilities, "PlanProviderSdkInvocationEnvelope",
              <<"DriverBindingNotReady", "RuntimeProfileMismatch",
                "UnsupportedRuntimeCapability">>)

RuntimePreflightAccepted(p, binding, profile) ==
    GatedPlanAccepted(p, binding, profile, RuntimeCapabilities,
                      "PlanProviderSdkInvocationEnvelope")

RuntimeReadinessOf(p) ==
    ReviewOf(p, NextActionOf(p, "ReadyForSdkAdapterImplementation",
        [k \in {"RuntimeProfileMismatch", "UnsupportedRuntimeCapability"} |->
            IF k = "RuntimeProfileMismatch" THEN "FixRuntimeProfile"
            ELSE "WaitForRuntimeCapability"]))

RuntimeReadinessAccepted(v) == ReviewAccepted(v, "PlanProviderSdkInvocationEnvelope")
-----------------------------------------------------------------------------
EnvelopeCapabilities == <<"PlanSecretFreeRequestEnvelope", "PlanHostHandoffDescriptor">>

EnvelopePolicyAccepted(policy) == ProfileAccepted(policy)

SdkEnvelopeOf(preflight, policy) ==
    GatedPlan(preflight, policy, EnvelopeCapabilities, "PlanProviderSdkRequestEnvelope",
              <<"RuntimePreflightNotReady", "EnvelopePolicyMismatch",
                "UnsupportedEnvelopeCapability">>)

SdkEnvelopeAccepted(p, preflight, policy) ==
    GatedPlanAccepted(p, preflight, policy, EnvelopeCapabilities,
                      "PlanProviderSdkRequestEnvelope")

SdkHandoffReadinessOf(p) ==
    ReviewOf(p, NextActionOf(p, "ReadyForHostExecutionPrototype",
        [k \in {"EnvelopePolicyMismatch", "UnsupportedEnvelopeCapability"} |->
            IF k = "EnvelopePolicyMismatch" THEN "FixEnvelopePolicy"
            ELSE "WaitForEnvelopeCapability"]))

SdkHandoffReadinessAccepted(v) == ReviewAccepted(v, "PlanProviderSdkRequestEnvelope")
================================================================================
