--------------------------- MODULE ProviderExecution --------------------------
(***************************************************************************)
(* The provider's way to a write, in two parts: execution.cpp and          *)
(* configuration.cpp.                                                      *)
(***************************************************************************)
EXTENDS ProviderStage

(* provider/execution.cpp: the plan of the host execution and its          *)
(* simulated receipt, the test harness of the local host, and the write to *)
(* the local file system, the one step of the chain that leaves something  *)
(* outside the program.                                                    *)

HostCapabilities == <<"PlanLocalHostExecutionDescriptor", "PlanDryRunHostReceiptPlaceholder">>

HostPolicyAccepted(policy) == ProfileAccepted(policy)

HostExecutionOf(envelope, policy) ==
    GatedPlan(envelope, policy, HostCapabilities, "PlanProviderHostExecution",
              <<"SdkHandoffNotReady", "HostPolicyMismatch", "UnsupportedHostCapability">>)

HostExecutionAccepted(p, envelope, policy) ==
    GatedPlanAccepted(p, envelope, policy, HostCapabilities, "PlanProviderHostExecution")

HostExecutionReadinessOf(p) ==
    ReviewOf(p, NextActionOf(p, "ReadyForLocalHostExecutionHarness",
        [k \in {"HostPolicyMismatch", "UnsupportedHostCapability"} |->
            IF k = "HostPolicyMismatch" THEN "FixHostPolicy" ELSE "WaitForHostCapability"]))

HostExecutionReadinessAccepted(v) == ReviewAccepted(v, "PlanProviderHostExecution")

LocalHostReceiptOf(host) ==
    FollowingPlan(host, "SimulateProviderLocalHostExecutionReceipt", "HostExecutionNotReady")

LocalHostReceiptAccepted(p, host) ==
    FollowingPlanAccepted(p, host, "SimulateProviderLocalHostExecutionReceipt")

LocalHostReceiptReviewOf(p) ==
    ReviewOf(p, NextActionOf(p, "ReadyForProviderSdkAdapterPrototype",
        [k \in {"HostExecutionNotReady"} |-> "WaitForHostExecutionPlan"]))

LocalHostReceiptReviewAccepted(v) ==
    ReviewAccepted(v, "SimulateProviderLocalHostExecutionReceipt")
-----------------------------------------------------------------------------
(* The harness runs a fixture in a sandbox for tests. *)
Fixtures == {"Success", "NonzeroExit", "Timeout", "SandboxDenied"}

HarnessRequestOf(secret_policy) ==
    StatusPlan(AsSource(secret_policy, "ReadyForLocalHostHarness"), "PlanHarnessRequest",
               "SecretPolicyNotReady")

HarnessRequestAccepted(p, secret_policy) ==
    StatusPlanAccepted(p, AsSource(secret_policy, "ReadyForLocalHostHarness"),
                       "PlanHarnessRequest")

HarnessOutcome(fixture) ==
    CASE fixture = "Success"       -> "Succeeded"
      [] fixture = "NonzeroExit"   -> "Failed"
      [] fixture = "Timeout"       -> "TimedOut"
      [] fixture = "SandboxDenied" -> "SandboxDenied"

HarnessRecordOf(request, fixture) ==
    RunOf(request, "RunTestHarness", "HarnessRequestNotReady", HarnessOutcome(fixture),
          IF fixture = "Success" THEN {} ELSE Failure(fixture, fixture))

HarnessRecordAccepted(o, request) == RunAccepted(o, request, "RunTestHarness")

HarnessReviewOf(o) ==
    ReviewOf(o, CASE o.ok /\ o.outcome = "Succeeded" -> "ReadyForSdkPayloadMaterialization"
                  [] ~o.ok -> "WaitForSecretPolicy"
                  [] OTHER -> "ManualReviewRequired")

HarnessReviewAccepted(v) ==
    v.next_action = "ReadyForSdkPayloadMaterialization" =>
        v.plan.ok /\ v.plan.outcome = "Succeeded" /\ v.plan.failure = {}
-----------------------------------------------------------------------------
(* The local file system alpha writes one file, named after the session.   *)
(* An earlier file of that name is overwritten.                            *)
AlphaPlanOf(mock_readiness, session_id) ==
    [plan |-> StatusPlan(AsSource(mock_readiness, "ReadyForRealAdapterParity"),
                         "PlanLocalFilesystemAlpha", "MockReadinessNotReady"),
     target_object_name |-> session_id]

AlphaPlanAccepted(a, mock_readiness) ==
    StatusPlanAccepted(a.plan, AsSource(mock_readiness, "ReadyForRealAdapterParity"),
                       "PlanLocalFilesystemAlpha")

(* The disk takes the file, or only opens it and leaves it empty, or does  *)
(* not open it.  What fails when the stream is flushed at the end goes     *)
(* unnoticed.                                                              *)
AlphaRunOf(a, opt_in, disk) ==
    LET outcome == CASE ~opt_in -> "DryRunOnly"
                     [] opt_in /\ disk = "writes" -> "Accepted"
                     [] OTHER -> "WriteFailed"
        failure == CASE outcome = "DryRunOnly" -> Failure("OptInRequired", "not enabled")
                     [] outcome = "Accepted" -> {}
                     [] OTHER -> Failure("FilesystemWriteFailed", "write failed")
    IN  [run |-> RunOf(a.plan, "RunLocalFilesystemAlpha", "AlphaPlanNotReady", outcome, failure),
         written |-> IF a.plan.ok /\ opt_in /\ disk # "refuses" THEN {a.target_object_name} ELSE {}]

AlphaRunAccepted(o, a) == RunAccepted(o.run, a.plan, "RunLocalFilesystemAlpha")

AlphaReadinessOf(o) ==
    ReviewOf(o.run, CASE o.run.ok /\ o.run.outcome \in {"Accepted", "DryRunOnly"} ->
                           "ReadyForIdempotencyContract"
                      [] ~o.run.ok -> "WaitForMockAdapter"
                      [] OTHER -> "ManualReviewRequired")
-----------------------------------------------------------------------------
(* provider/sdk.cpp: the adapter request and its placeholder response, the *)
(* adapter's interface, the payload of the request and the mock adapter    *)
(* that is run with it.                                                    *)

AdapterRequestOf(receipt) ==
    FollowingPlan(receipt, "PlanProviderSdkAdapterRequest", "LocalHostExecutionNotReady")

AdapterRequestAccepted(p, receipt) ==
    FollowingPlanAccepted(p, receipt, "PlanProviderSdkAdapterRequest")

AdapterResponseOf(request) ==
    FollowingPlan(request, "PlanProviderSdkAdapterResponsePlaceholder",
                  "SdkAdapterRequestNotReady")

AdapterResponseAccepted(p, request) ==
    FollowingPlanAccepted(p, request, "PlanProviderSdkAdapterResponsePlaceholder")

AdapterReadinessOf(p) ==
    ReviewOf(p, NextActionOf(p, "ReadyForProviderSdkAdapterInterface",
        [k \in {"LocalHostExecutionNotReady", "SdkAdapterRequestNotReady"} |->
            "WaitForLocalHostExecutionReceipt"]))

AdapterReadinessAccepted(v) == ReviewAccepted(v, "PlanProviderSdkAdapterResponsePlaceholder")
-----------------------------------------------------------------------------
(* What the interface supports and the error it normalizes to follow from  *)
(* whether it is ready.                                                    *)
AdapterInterfaceOf(request) ==
    [plan |-> FollowingPlan(request, "PlanProviderSdkAdapterInterface",
                            "SdkAdapterRequestNotReady"),
     support_status |-> IF request.ok THEN "Supported" ELSE "Unsupported",
     normalized_error_kind |-> IF request.ok THEN "None" ELSE "SdkAdapterRequestNotReady"]

AdapterInterfaceAccepted(a, request) ==
    /\ a.plan.effects = {}
    /\ IF a.plan.ok
       THEN /\ request.ok /\ request.identity # {}
            /\ a.plan.operation = "PlanProviderSdkAdapterInterface"
            /\ a.support_status = "Supported" /\ a.normalized_error_kind = "None"
            /\ a.plan.failure = {}
       ELSE a.plan.operation # "PlanProviderSdkAdapterInterface" /\ a.plan.failure # {}

AdapterInterfaceReviewOf(a) ==
    ReviewOf(a.plan, NextActionOf(a.plan, "ReadyForMockAdapterImplementation",
        [k \in {"SdkAdapterRequestNotReady"} |-> "WaitForSdkAdapterRequest"]))

AdapterInterfaceReviewAccepted(v) ==
    /\ StatusReviewAccepted(v, "ReadyForMockAdapterImplementation")
    /\ v.plan.ok => v.plan.operation = "PlanProviderSdkAdapterInterface"
-----------------------------------------------------------------------------
PayloadPlanOf(harness_review) ==
    StatusPlan(AsSource(harness_review, "ReadyForSdkPayloadMaterialization"),
               "PlanFakeProviderPayloadMaterialization", "HarnessNotReady")

PayloadPlanAccepted(p, harness_review) ==
    StatusPlanAccepted(p, AsSource(harness_review, "ReadyForSdkPayloadMaterialization"),
                       "PlanFakeProviderPayloadMaterialization")

PayloadAuditOf(p) ==
    ReviewOf(p, NextActionOf(p, "ReadyForMockAdapter",
        [k \in {"HarnessNotReady"} |-> "WaitForLocalHarness"]))

PayloadAuditAccepted(v) ==
    v.next_action = "ReadyForMockAdapter" => v.plan.ok /\ v.plan.failure = {}
-----------------------------------------------------------------------------
Scenarios == {"Success", "Failure", "Timeout", "Throttle", "Conflict", "SchemaMismatch"}

MockContractOf(audit) ==
    StatusPlan(AsSource(audit, "ReadyForMockAdapter"), "PlanMockAdapterContract",
               "PayloadNotReady")

MockContractAccepted(p, audit) ==
    StatusPlanAccepted(p, AsSource(audit, "ReadyForMockAdapter"), "PlanMockAdapterContract")

MockOutcome(scenario) ==
    CASE scenario = "Success"  -> "Accepted"
      [] scenario = "Failure"  -> "ProviderFailure"
      [] scenario = "Throttle" -> "Throttled"
      [] OTHER -> scenario

MockExecutionOf(contract, scenario) ==
    RunOf(contract, "RunMockAdapter", "ContractNotReady", MockOutcome(scenario),
          IF scenario = "Success" THEN {} ELSE Failure(MockOutcome(scenario), scenario))

MockExecutionAccepted(o, contract) == RunAccepted(o, contract, "RunMockAdapter")

MockReadinessOf(o) ==
    ReviewOf(o, CASE o.ok /\ o.outcome = "Accepted" -> "ReadyForRealAdapterParity"
                  [] ~o.ok -> "WaitForPayload"
                  [] OTHER -> "ManualReviewRequired")

MockReadinessAccepted(v) ==
    v.next_action = "ReadyForRealAdapterParity" =>
        v.plan.ok /\ v.plan.outcome = "Accepted" /\ v.plan.failure = {}

-----------------------------------------------------------------------------
(* provider/configuration.cpp: the plan to load the provider's             *)
(* configuration and the snapshot of it, the resolver of the secret handle *)
(* and the validation of the configuration bundle.  Snapshot and handle    *)
(* are placeholders: their validators forbid them to hold anything.        *)

ConfigLoadOf(interface) ==
    StatusPlan(interface.plan, "PlanProviderConfigLoad", "AdapterInterfaceNotReady")

ConfigLoadAccepted(p, interface) ==
    StatusPlanAccepted(p, interface.plan, "PlanProviderConfigLoad")

ConfigSnapshotOf(load) ==
    StatusPlan(load, "PlanProviderConfigSnapshotPlaceholder", "ConfigLoadNotReady")

ConfigSnapshotAccepted(p, load) ==
    StatusPlanAccepted(p, load, "PlanProviderConfigSnapshotPlaceholder")

ConfigReadinessOf(p) ==
    ReviewOf(p, NextActionOf(p, "ReadyForSecretHandleResolver",
        [k \in {"AdapterInterfaceNotReady", "ConfigLoadNotReady"} |-> "WaitForAdapterInterface"]))

ConfigReadinessAccepted(v) == StatusReviewAccepted(v, "ReadyForSecretHandleResolver")
-----------------------------------------------------------------------------
SecretRequestOf(snapshot) ==
    StatusPlan(snapshot, "PlanSecretResolverRequest", "ConfigSnapshotNotReady")

SecretRequestAccepted(p, snapshot) ==
    StatusPlanAccepted(p, snapshot, "PlanSecretResolverRequest")

(* The state of the credential is PlaceholderPendingResolution if and only *)
(* if the response is ready; no step ever takes it further.                *)
SecretResponseOf(request) ==
    StatusPlan(request, "PlanSecretResolverResponsePlaceholder", "SecretResolverRequestNotReady")

SecretResponseAccepted(p, request) ==
    StatusPlanAccepted(p, request, "PlanSecretResolverResponsePlaceholder")

SecretPolicyReviewOf(p) ==
    ReviewOf(p, NextActionOf(p, "ReadyForLocalHostHarness",
        [k \in {"ConfigSnapshotNotReady", "SecretResolverRequestNotReady"} |->
            "WaitForConfigSnapshot"]))

SecretPolicyReviewAccepted(v) == StatusReviewAccepted(v, "ReadyForLocalHostHarness")
-----------------------------------------------------------------------------
(* The validation of the configuration bundle.  A provider the plan names  *)
(* is valid, an empty name is missing.                                     *)
ReferenceCheck(id) == IF id = {} THEN "Missing" ELSE "Valid"

(* The secret handle is present when the snapshot admits to have read      *)
(* secret material, which its validator forbids (344-353): a bundle is     *)
(* never complete.                                                         *)
SecretPresence(snapshot) ==
    IF "reads_secret_material" \in snapshot.effects THEN "Valid" ELSE "Missing"

EndpointCheck(snapshot) == IF snapshot.ok THEN "Valid" ELSE "Missing"

EnvironmentCheck(snapshot) == IF snapshot.ok THEN "Valid" ELSE "Missing"

(* The checks in the order of the report; the scope of the handle, the     *)
(* fourth, is the profile, which always has a name.                        *)
ConfigBundleOf(selection, snapshot) ==
    LET checks == <<ReferenceCheck(selection.selected), ReferenceCheck(selection.fallback),
                    SecretPresence(snapshot), "Valid",
                    EndpointCheck(snapshot), EnvironmentCheck(snapshot)>>
        count(status) == Cardinality({i \in DOMAIN checks : checks[i] = status})
    IN  [valid_count |-> count("Valid"), invalid_count |-> count("Invalid"),
         missing_count |-> count("Missing")]
=============================================================================
