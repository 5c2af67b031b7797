-------------------------- MODULE ProviderProduction --------------------------
(***************************************************************************)
(* From the outcome of a provider write to its release, in three parts:    *)
(* reliability.cpp, governance.cpp and production.cpp.                     *)
(***************************************************************************)
EXTENDS ProviderStage

(* provider/reliability.cpp: what becomes of the outcome of a provider     *)
(* write: may it be retried, was it committed, how is it recovered.  The   *)
(* failure taxonomy classifies the same outcome by a table of its own.     *)

RetryEligibility(outcome) ==
    CASE outcome = "Accepted" -> "NotApplicable"
      [] outcome \in {"Timeout", "Throttled"} -> "Retryable"
      [] outcome = "Conflict" -> "DuplicateReviewRequired"
      [] outcome \in {"ProviderFailure", "SchemaMismatch"} -> "NonRetryable"
      [] outcome = "Blocked" -> "Blocked"

(* The key names the session, not the checkpoint that is written. *)
idempotency_key(session_id) == <<session_id>>

RetryDecisionOf(execution, session_id) ==
    LET eligibility == RetryEligibility(execution.outcome)
    IN  [retry_eligibility |-> eligibility,
         retry_allowed |-> eligibility = "Retryable",
         duplicate_write_possible |-> eligibility = "DuplicateReviewRequired",
         idempotency_key |-> idempotency_key(session_id),
         failure |-> IF eligibility = "NotApplicable" THEN {}
                     ELSE Inherited(eligibility, execution, "provider failure")]

RetryDecisionAccepted(d) ==
    /\ d.retry_allowed => d.retry_eligibility = "Retryable"
    /\ d.duplicate_write_possible => d.retry_eligibility = "DuplicateReviewRequired"
    /\ d.retry_eligibility = "Blocked" => d.failure # {}
-----------------------------------------------------------------------------
CommitStatus(eligibility) ==
    CASE eligibility = "NotApplicable" -> "Committed"
      [] eligibility = "DuplicateReviewRequired" -> "Duplicate"
      [] eligibility = "Retryable" -> "Partial"
      [] eligibility = "NonRetryable" -> "Failed"
      [] eligibility = "Blocked" -> "Blocked"

(* From here on the failure has a message of its own: the cause is lost. *)
CommitReceiptOf(d) ==
    LET status == CommitStatus(d.retry_eligibility)
    IN  [commit_status |-> status, idempotency_key |-> d.idempotency_key,
         failure |-> IF status = "Committed" THEN {} ELSE Failure(status, status)]

CommitReceiptAccepted(c) == c.commit_status # "Committed" => c.failure # {}

CommitReviewOf(c) ==
    [commit_status |-> c.commit_status,
     next_action |-> CASE c.commit_status \in {"Committed", "Duplicate"} ->
                             "ReadyForRecoveryAudit"
                       [] c.commit_status = "Partial" -> "RetryUsingIdempotencyContract"
                       [] OTHER -> "ManualReviewRequired"]
-----------------------------------------------------------------------------
RecoveryCheckpointOf(c) ==
    [checkpoint_status |-> CASE c.commit_status = "Committed" -> "StableCommitted"
                             [] c.commit_status = "Duplicate" -> "DuplicateReview"
                             [] c.commit_status = "Partial"   -> "PartialWrite"
                             [] c.commit_status = "Failed"    -> "FailedWrite"
                             [] c.commit_status = "Blocked"   -> "Blocked",
     recovery_eligibility |-> CASE c.commit_status = "Committed" -> "NotRequired"
                                [] c.commit_status = "Duplicate" -> "DuplicateLookupRequired"
                                [] c.commit_status = "Partial"   -> "ResumeRequired"
                                [] c.commit_status = "Failed"    -> "ManualRecoveryRequired"
                                [] c.commit_status = "Blocked"   -> "Blocked",
     idempotency_key |-> c.idempotency_key,
     failure |-> IF c.commit_status = "Committed" THEN {}
                 ELSE Failure(c.commit_status, c.commit_status)]

RecoveryCheckpointAccepted(k) == k.recovery_eligibility # "NotRequired" => k.failure # {}

RecoveryPlanOf(k) ==
    [plan_action |->
         CASE k.recovery_eligibility = "NotRequired"             -> "NoopCommitted"
           [] k.recovery_eligibility = "DuplicateLookupRequired" -> "LookupDuplicateCommit"
           [] k.recovery_eligibility = "ResumeRequired"          -> "ResumeWithIdempotencyKey"
           [] k.recovery_eligibility = "ManualRecoveryRequired"  -> "ManualRemediation"
           [] k.recovery_eligibility = "Blocked"                 -> "WaitForCommitReceipt",
     requires_provider_commit_lookup |-> k.recovery_eligibility = "DuplicateLookupRequired",
     requires_operator_approval |->
         k.recovery_eligibility \in {"DuplicateLookupRequired", "ManualRecoveryRequired", "Blocked"},
     failure |-> k.failure, effects |-> {}]

RecoveryPlanAccepted(r) ==
    r.effects = {} /\ (r.plan_action # "NoopCommitted" => r.failure # {})

RecoveryReviewOf(r) ==
    [plan_action |-> r.plan_action,
     next_action |-> CASE r.plan_action = "NoopCommitted" -> "ReadyForAuditEvent"
                       [] r.plan_action = "ResumeWithIdempotencyKey" -> "ResumeUsingToken"
                       [] OTHER -> "ManualReviewRequired"]
-----------------------------------------------------------------------------
(* apply_mapping: kind, retryability and the operator's action. *)
TaxonomyOf(outcome) ==
    CASE outcome = "Accepted"  -> <<"None", "NotApplicable", "None">>
      [] outcome = "Timeout"   -> <<"Network", "Retryable", "RetryLater">>
      [] outcome = "Throttled" -> <<"Throttling", "Retryable", "RetryLater">>
      [] outcome = "Conflict"  -> <<"Conflict", "DuplicateReviewRequired", "InspectDuplicate">>
      [] outcome = "SchemaMismatch"  -> <<"SchemaMismatch", "NonRetryable", "FixSchema">>
      [] outcome = "ProviderFailure" -> <<"ProviderInternal", "NonRetryable", "EscalateProvider">>
      [] outcome = "Blocked"   -> <<"Blocked", "Blocked", "ManualReview">>

TaxonomyReportOf(execution, recovery) ==
    LET t == TaxonomyOf(execution.outcome)
    IN  [failure_kind |-> t[1], retryability |-> t[2], operator_action |-> t[3],
         recovery |-> recovery.plan_action, effects |-> {}]

TaxonomyReportAccepted(t) == t.effects = {}

-----------------------------------------------------------------------------
(* provider/governance.cpp: audit event, telemetry and operator review of  *)
(* a provider write; the compatibility suite, the registry of providers    *)
(* and the selection of one; conformance and schema compatibility.         *)
(* Persisting secrets, raw errors or raw telemetry is an effect, as in     *)
(* ProviderStage.                                                          *)

AuditOutcome(failure_kind) ==
    CASE failure_kind = "None" -> "Success"
      [] failure_kind \in {"Network", "Throttling"} -> "RetryPending"
      [] failure_kind = "Conflict" -> "RecoveryPending"
      [] failure_kind = "Blocked" -> "Blocked"
      [] OTHER -> "Failure"

AuditEventOf(taxonomy) ==
    [outcome |-> AuditOutcome(taxonomy.failure_kind), retryability |-> taxonomy.retryability,
     effects |-> taxonomy.effects]

AuditEventAccepted(event) == event.effects = {}

TelemetryOf(event) ==
    [outcome |-> event.outcome,
     provider_write_committed |-> event.outcome = "Success",
     retry_recommended |-> event.outcome = "RetryPending",
     recovery_required |-> event.outcome = "RecoveryPending",
     effects |-> event.effects]

TelemetryAccepted(telemetry) == telemetry.effects = {}

OperatorReviewOf(telemetry) ==
    [outcome |-> telemetry.outcome,
     next_action |-> CASE telemetry.outcome = "Success" -> "Archive"
                       [] telemetry.outcome = "RetryPending" -> "RetryWithIdempotency"
                       [] telemetry.outcome = "RecoveryPending" -> "RecoveryReview"
                       [] OTHER -> "OperatorReview"]
-----------------------------------------------------------------------------
(* The suite's manifest and its matrix are fixed: both providers, the four *)
(* fixtures.  Nothing is run.                                              *)
CompatibilityFixtures == {"Success", "Timeout", "Conflict", "SchemaMismatch"}

CompatibilityManifestOf(review) ==
    [providers |-> {"mock_adapter", "local_filesystem_alpha"},
     fixture_count |-> Cardinality(CompatibilityFixtures)]

CompatibilityManifestAccepted(manifest) ==
    /\ {"mock_adapter", "local_filesystem_alpha"} \subseteq manifest.providers
    /\ Cardinality(manifest.providers) >= 2 /\ manifest.fixture_count >= 4

FixtureMatrixOf(manifest) ==
    [providers |-> manifest.providers, fixtures |-> CompatibilityFixtures,
     fixture_count |-> manifest.fixture_count]

FixtureMatrixAccepted(matrix) ==
    /\ {"mock_adapter", "local_filesystem_alpha"} \subseteq matrix.providers
    /\ CompatibilityFixtures \subseteq matrix.fixtures
    /\ Cardinality(matrix.providers) >= 2 /\ matrix.fixture_count >= 4

CompatibilityReportOf(matrix, telemetry) ==
    LET mock     == "mock_adapter" \in matrix.providers
        alpha    == "local_filesystem_alpha" \in matrix.providers
        complete == CompatibilityFixtures \subseteq matrix.fixtures
    IN  [mock_adapter_compatible |-> mock, local_filesystem_alpha_compatible |-> alpha,
         capability_matrix_complete |-> complete,
         status |-> CASE telemetry.outcome = "Blocked" -> "Blocked"
                      [] telemetry.outcome # "Blocked" /\ mock /\ alpha /\ complete -> "Passed"
                      [] OTHER -> "Failed"]
-----------------------------------------------------------------------------
RegistryOf(report) ==
    [registered |-> {"mock_adapter", "local_filesystem_alpha"},
     primary |-> {"local_filesystem_alpha"}, fallback |-> {"mock_adapter"},
     unaudited_fallback_allowed |-> FALSE,
     compatibility_status |-> report.status]

RegistryAccepted(registry) ==
    /\ {"mock_adapter", "local_filesystem_alpha"} \subseteq registry.registered
    /\ ~registry.unaudited_fallback_allowed

SelectionOf(registry) ==
    LET status == CASE registry.compatibility_status = "Passed" -> "Selected"
                    [] registry.compatibility_status = "Failed" -> "FallbackSelected"
                    [] OTHER -> "Blocked"
    IN  [status |-> status,
         selected |-> IF status = "Selected" THEN registry.primary ELSE registry.fallback,
         fallback |-> registry.fallback,
         requires_operator_review |-> status # "Selected"]

SelectionAccepted(selection) == selection.status = "Blocked" => selection.requires_operator_review

NegotiationOf(selection) ==
    CASE selection.status = "Selected" -> "Compatible"
      [] selection.status = "FallbackSelected" -> "Degraded"
      [] selection.status = "Blocked" -> "Blocked"
-----------------------------------------------------------------------------
(* The conformance checks, those that compare ids excepted: all artifacts  *)
(* of a chain carry the ids of its session.                                *)
ConformanceOf(report, registry, evidence) ==
    LET checks == <<report.status = "Passed", report.mock_adapter_compatible,
                    report.local_filesystem_alpha_compatible, report.capability_matrix_complete,
                    "mock_adapter" \in registry.registered,
                    "local_filesystem_alpha" \in registry.registered,
                    registry.compatibility_status \in {"Passed", "Failed"},
                    evidence.security, evidence.recovery, evidence.compatibility,
                    evidence.observability, evidence.registry, evidence.blocking_issue_count = 0>>
    IN  [pass_count |-> Cardinality({i \in DOMAIN checks : checks[i]}),
         fail_count |-> Cardinality({i \in DOMAIN checks : ~checks[i]})]

(* versions: the compatibility of each artifact's version; chain, refs:    *)
(* whether the sources and the references agree.                           *)
SchemaCompatibilityOf(versions, chain, refs) ==
    LET count(status) == Cardinality({i \in DOMAIN versions : versions[i] = status})
    IN  [compatible_count |-> count("Compatible"), incompatible_count |-> count("Incompatible"),
         unknown_count |-> count("Unknown"),
         has_schema_drift |-> count("Incompatible") > 0 \/ ~chain \/ ~refs]

SchemaCompatibilityAccepted(s, versions) ==
    s.compatible_count + s.incompatible_count + s.unknown_count = Len(versions)

-----------------------------------------------------------------------------
(* provider/production.cpp: the evidence of production readiness, the      *)
(* release archive, the approval, the opt-in, the runtime policy and the   *)
(* dry run of the production integration, a chain of gates before real     *)
(* provider traffic.  An item of evidence is there in every chain that     *)
(* gets this far; what can be wrong with it is that it is not valid.       *)

EvidenceOf(negotiation, report, event, recovery, taxonomy) ==
    LET passed == [security |-> taxonomy.effects = {}, recovery |-> recovery.effects = {},
                   compatibility |-> report.status = "Passed",
                   observability |-> event.effects = {},
                   registry |-> negotiation = "Compatible"]
    IN  [security |-> passed.security, recovery |-> passed.recovery,
         compatibility |-> passed.compatibility, observability |-> passed.observability,
         registry |-> passed.registry,
         blocking_issue_count |-> IF \A e \in DOMAIN passed : passed[e] THEN 0 ELSE 1]

(* The gate of the readiness review, which the report repeats. *)
ReleaseGate(evidence) ==
    CASE evidence.blocking_issue_count = 0 -> "ReadyForProductionReview"
      [] evidence.blocking_issue_count > 0 /\ evidence.compatibility /\ evidence.observability ->
            "Conditional"
      [] OTHER -> "Blocked"
-----------------------------------------------------------------------------
ReadinessValid(evidence) ==
    /\ evidence.blocking_issue_count = 0
    /\ evidence.security /\ evidence.recovery /\ evidence.compatibility

(* For the archive a configuration with missing items is valid. *)
ArchiveOf(conformance, schema, config, evidence) ==
    LET valid == <<conformance.fail_count = 0, ~schema.has_schema_drift,
                   config.invalid_count = 0, ReadinessValid(evidence)>>
    IN  [total_evidence_count |-> Len(valid),
         valid_evidence_count |-> Cardinality({i \in DOMAIN valid : valid[i]}),
         invalid_evidence_count |-> Cardinality({i \in DOMAIN valid : ~valid[i]}),
         is_release_ready |-> \A i \in DOMAIN valid : valid[i]]

ArchiveAccepted(archive) ==
    archive.total_evidence_count = archive.valid_evidence_count + archive.invalid_evidence_count

(* What the operator decides; a rejection says why. *)
ApprovalDecisions == {"Approved", "Rejected", "Deferred"}

DecisionRecordAccepted(decision) ==
    decision.verdict = "Rejected" => decision.rejection_details # {}

(* The request is made whatever the archive says, and nothing compares the *)
(* session of the request with that of the decision.                       *)
ApprovalReceiptOf(archive, decision) ==
    [final_decision |-> decision.verdict, is_approved |-> decision.verdict = "Approved"]

ApprovalReceiptAccepted(receipt) ==
    receipt.is_approved => receipt.final_decision = "Approved"
-----------------------------------------------------------------------------
(* A gate that did not pass gives one reason, in the order of the gates. *)
Denials(gates) == {g \in DOMAIN gates : ~gates[g]}

ConfigGate(config) == config.invalid_count = 0 /\ config.missing_count = 0

ApprovalGate(receipt) == receipt.is_approved /\ receipt.final_decision = "Approved"

RegistryGate(selection) == selection.status \in {"Selected", "FallbackSelected"}

(* Slip: the approval alone opens the way to real traffic. *)
OptInByApproval(receipt, config, selection) ==
    [decision |-> IF ApprovalGate(receipt) THEN "Allow" ELSE "Deny",
     is_real_provider_traffic_allowed |-> ApprovalGate(receipt),
     denial_reasons |-> {}]

OptInOf(receipt, config, selection) ==
    LET denied == Denials([NoApproval |-> ApprovalGate(receipt),
                           ConfigInvalid |-> ConfigGate(config),
                           RegistryMismatch |-> RegistryGate(selection)])
    IN  [decision |-> IF denied = {} THEN "Allow" ELSE "Deny",
         is_real_provider_traffic_allowed |-> denied = {},
         denial_reasons |-> denied]

OptInAccepted(o) == (o.decision = "Allow") <=> o.is_real_provider_traffic_allowed

RuntimePolicyOf(o, receipt, config, selection, evidence) ==
    LET violations == Denials([OptInNotGranted |-> o.decision = "Allow"
                                                   /\ o.is_real_provider_traffic_allowed,
                               ApprovalMissing |-> ApprovalGate(receipt),
                               ConfigInvalid |-> ConfigGate(config),
                               RegistryMismatch |-> RegistryGate(selection),
                               ReadinessNotMet |-> ReadinessValid(evidence)])
    IN  [decision |-> IF violations = {} THEN "Permit" ELSE "Deny",
         is_execution_permitted |-> violations = {},
         violations |-> violations]

RuntimePolicyAccepted(p) == (p.decision = "Permit") <=> p.is_execution_permitted
-----------------------------------------------------------------------------
DryRunOf(conformance, schema, config, archive, receipt, o, policy) ==
    LET blocking == Denials(
            [conformance |-> conformance.fail_count = 0,
             schema_compatibility |-> schema.incompatible_count = 0 /\ ~schema.has_schema_drift,
             config_validation |-> ConfigGate(config),
             release_archive |-> archive.is_release_ready,
             approval |-> receipt.is_approved,
             opt_in |-> o.is_real_provider_traffic_allowed,
             runtime_policy |-> policy.is_execution_permitted])
    IN  [readiness_state |-> IF blocking = {} THEN "ReadyForControlledRollout" ELSE "Blocked",
         is_ready_for_controlled_rollout |-> blocking = {},
         blocking_items |-> blocking]

DryRunAccepted(d) ==
    (d.readiness_state = "ReadyForControlledRollout") <=> d.is_ready_for_controlled_rollout
=============================================================================
