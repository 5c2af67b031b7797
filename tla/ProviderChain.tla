----------------------------- MODULE ProviderChain -----------------------------
(***************************************************************************)
(* The chain of DurableChain continued by the provider's builders, down to *)
(* the dry run of the production integration: every builder of the         *)
(* command's artifact graph (provider_artifact_graph.cpp), in its order.   *)
(* The command passes matching profiles, the successful fixture and        *)
(* scenario, no opt-in and a rejected approval; other callers of the       *)
(* library pass what they like, and so does this chain.                    *)
(***************************************************************************)
EXTENDS DurableChain, ProviderBinding, ProviderExecution, ProviderProduction

VARIABLES
    opted,    \* the local file system alpha was asked to write for real
    files     \* the objects it has written, or at least opened

provider_vars == <<opted, files>>
vars == <<stage, art, run, cause, opted, files>>

Start == Init /\ opted = FALSE /\ files = {}

(* A profile or policy for a plan that needs capabilities. *)
Profiles(capabilities) ==
    [matches : BOOLEAN, supports : SUBSET Members(capabilities), material : SUBSET {"secret"}]

(* A builder of a plan: the first that does not go ahead says why. *)
BuildPlan(from, to, sources, artifact, failure, accepted, keep) ==
    /\ Build(from, to, sources, artifact, accepted, keep)
    /\ cause' = IF sources /\ cause = {} THEN Says(failure) ELSE cause
    /\ UNCHANGED provider_vars

(* A builder that makes no plan. *)
BuildReport(from, to, artifact, accepted, keep) ==
    Build(from, to, TRUE, artifact, accepted, keep) /\ UNCHANGED <<cause, opted, files>>
-----------------------------------------------------------------------------
BuildWriteAttempt ==
    /\ stage = "execution"
    /\ \E matrix \in Matrices :
          LET x == WriteAttemptOf(art.execution, matrix)
          IN  /\ Build("execution", "attempt", TRUE, x,
                       /\ WriteAttemptAccepted(x, art.execution, matrix)
                       /\ RecoveryHandoffAccepted(RecoveryHandoffOf(x)), {})
              /\ cause' = IF "PlanProviderWrite" \in matrix THEN cause ELSE Says(x.failure)
    /\ UNCHANGED provider_vars

BuildDriverBinding ==
    /\ stage = "attempt"
    /\ \E profile \in Profiles(DriverCapabilities) :
          LET x == DriverBindingOf(art.attempt, profile)
          IN  BuildPlan("attempt", "driver", DriverProfileAccepted(profile), x, x.failure,
                        /\ DriverBindingAccepted(x, art.attempt, profile)
                        /\ DriverReadinessAccepted(DriverReadinessOf(x)), {})

BuildRuntimePreflight ==
    /\ stage = "driver"
    /\ \E profile \in Profiles(RuntimeCapabilities) :
          LET x == RuntimePreflightOf(art.driver, profile)
          IN  BuildPlan("driver", "preflight", RuntimeProfileAccepted(profile), x, x.failure,
                        /\ RuntimePreflightAccepted(x, art.driver, profile)
                        /\ RuntimeReadinessAccepted(RuntimeReadinessOf(x)), {})

BuildSdkEnvelope ==
    /\ stage = "preflight"
    /\ \E policy \in Profiles(EnvelopeCapabilities) :
          LET x == SdkEnvelopeOf(art.preflight, policy)
          IN  BuildPlan("preflight", "envelope", EnvelopePolicyAccepted(policy), x, x.failure,
                        /\ SdkEnvelopeAccepted(x, art.preflight, policy)
                        /\ SdkHandoffReadinessAccepted(SdkHandoffReadinessOf(x)), {})

BuildHostExecution ==
    /\ stage = "envelope"
    /\ \E policy \in Profiles(HostCapabilities) :
          LET x == HostExecutionOf(art.envelope, policy)
          IN  BuildPlan("envelope", "host", HostPolicyAccepted(policy), x, x.failure,
                        /\ HostExecutionAccepted(x, art.envelope, policy)
                        /\ HostExecutionReadinessAccepted(HostExecutionReadinessOf(x)), {})

BuildLocalHostReceipt ==
    /\ stage = "host"
    /\ LET x == LocalHostReceiptOf(art.host)
       IN  BuildPlan("host", "host_receipt", TRUE, x, x.failure,
                     /\ LocalHostReceiptAccepted(x, art.host)
                     /\ LocalHostReceiptReviewAccepted(LocalHostReceiptReviewOf(x)), {})

BuildAdapterRequest ==
    /\ stage = "host_receipt"
    /\ LET x == AdapterRequestOf(art.host_receipt)
       IN  BuildPlan("host_receipt", "adapter_request", TRUE, x, x.failure,
                     AdapterRequestAccepted(x, art.host_receipt), {})

BuildAdapterResponse ==
    /\ stage = "adapter_request"
    /\ LET x == AdapterResponseOf(art.adapter_request)
       IN  BuildPlan("adapter_request", "adapter_response", TRUE, x, x.failure,
                     /\ AdapterResponseAccepted(x, art.adapter_request)
                     /\ AdapterReadinessAccepted(AdapterReadinessOf(x)), {"adapter_request"})

BuildAdapterInterface ==
    /\ stage = "adapter_response"
    /\ LET x == AdapterInterfaceOf(art.adapter_request)
       IN  BuildPlan("adapter_response", "interface", TRUE, x, x.plan.failure,
                     /\ AdapterInterfaceAccepted(x, art.adapter_request)
                     /\ AdapterInterfaceReviewAccepted(AdapterInterfaceReviewOf(x)), {})

BuildConfigLoad ==
    /\ stage = "interface"
    /\ LET x == ConfigLoadOf(art.interface)
       IN  BuildPlan("interface", "config_load", TRUE, x, x.failure,
                     ConfigLoadAccepted(x, art.interface), {})

BuildConfigSnapshot ==
    /\ stage = "config_load"
    /\ LET x == ConfigSnapshotOf(art.config_load)
       IN  BuildPlan("config_load", "config_snapshot", TRUE, x, x.failure,
                     /\ ConfigSnapshotAccepted(x, art.config_load)
                     /\ ConfigReadinessAccepted(ConfigReadinessOf(x)), {})

BuildSecretRequest ==
    /\ stage = "config_snapshot"
    /\ LET x == SecretRequestOf(art.config_snapshot)
       IN  BuildPlan("config_snapshot", "secret_request", TRUE, x, x.failure,
                     SecretRequestAccepted(x, art.config_snapshot), {"config_snapshot"})

BuildSecretResponse ==
    /\ stage = "secret_request"
    /\ LET x == SecretResponseOf(art.secret_request)
       IN  BuildPlan("secret_request", "secret_response", TRUE, x, x.failure,
                     /\ SecretResponseAccepted(x, art.secret_request)
                     /\ SecretPolicyReviewAccepted(SecretPolicyReviewOf(x)),
                     {"config_snapshot"})
-----------------------------------------------------------------------------
BuildHarnessRequest ==
    /\ stage = "secret_response"
    /\ LET policy == SecretPolicyReviewOf(art.secret_response)
           x      == HarnessRequestOf(policy)
       IN  BuildPlan("secret_response", "harness_request", TRUE, x, x.failure,
                     HarnessRequestAccepted(x, policy), {"config_snapshot"})

RunHarness ==
    /\ stage = "harness_request"
    /\ \E fixture \in Fixtures :
          LET x == HarnessRecordOf(art.harness_request, fixture)
          IN  BuildPlan("harness_request", "harness_record", TRUE, x, x.failure,
                        /\ HarnessRecordAccepted(x, art.harness_request)
                        /\ HarnessReviewAccepted(HarnessReviewOf(x)), {"config_snapshot"})

BuildPayloadPlan ==
    /\ stage = "harness_record"
    /\ LET review == HarnessReviewOf(art.harness_record)
           x      == PayloadPlanOf(review)
       IN  BuildPlan("harness_record", "payload", TRUE, x, x.failure,
                     /\ PayloadPlanAccepted(x, review)
                     /\ PayloadAuditAccepted(PayloadAuditOf(x)), {"config_snapshot"})

BuildMockContract ==
    /\ stage = "payload"
    /\ LET audit == PayloadAuditOf(art.payload)
           x     == MockContractOf(audit)
       IN  BuildPlan("payload", "contract", TRUE, x, x.failure,
                     MockContractAccepted(x, audit), {"config_snapshot"})

RunMockAdapter ==
    /\ stage = "contract"
    /\ \E scenario \in Scenarios :
          LET x == MockExecutionOf(art.contract, scenario)
          IN  BuildPlan("contract", "mock", TRUE, x, x.failure,
                        /\ MockExecutionAccepted(x, art.contract)
                        /\ MockReadinessAccepted(MockReadinessOf(x)), {"config_snapshot"})

BuildAlphaPlan ==
    /\ stage = "mock"
    /\ LET readiness == MockReadinessOf(art.mock)
           x         == AlphaPlanOf(readiness, SessionId)
       IN  BuildPlan("mock", "alpha_plan", TRUE, x, x.plan.failure,
                     AlphaPlanAccepted(x, readiness), {"config_snapshot", "mock"})

(* The run is a branch of its own: the retry decision is about the mock    *)
(* adapter's execution.                                                    *)
RunAlpha ==
    /\ stage = "alpha_plan"
    /\ \E opt_in \in BOOLEAN, disk \in {"writes", "opens", "refuses"} :
          LET x == AlphaRunOf(art.alpha_plan, opt_in, disk)
          IN  /\ Build("alpha_plan", "alpha_run", TRUE, x, AlphaRunAccepted(x, art.alpha_plan),
                       {"config_snapshot", "mock"})
              /\ opted' = opt_in
              /\ files' = files \cup x.written
    /\ UNCHANGED cause
-----------------------------------------------------------------------------
BuildRetryDecision ==
    /\ stage = "alpha_run"
    /\ LET x == RetryDecisionOf(art.mock, SessionId)
       IN  BuildReport("alpha_run", "retry", x, RetryDecisionAccepted(x),
                       {"config_snapshot", "mock"})

BuildCommitReceipt ==
    /\ stage = "retry"
    /\ LET x == CommitReceiptOf(art.retry)
       IN  BuildReport("retry", "commit", x, CommitReceiptAccepted(x),
                       {"config_snapshot", "mock", "retry"})

BuildRecoveryCheckpoint ==
    /\ stage = "commit"
    /\ LET x == RecoveryCheckpointOf(art.commit)
       IN  BuildReport("commit", "recovery_checkpoint", x, RecoveryCheckpointAccepted(x),
                       {"config_snapshot", "mock", "retry", "commit"})

BuildRecoveryPlan ==
    /\ stage = "recovery_checkpoint"
    /\ LET x == RecoveryPlanOf(art.recovery_checkpoint)
       IN  BuildReport("recovery_checkpoint", "recovery", x, RecoveryPlanAccepted(x),
                       {"config_snapshot", "mock", "retry", "commit"})

BuildTaxonomyReport ==
    /\ stage = "recovery"
    /\ LET x == TaxonomyReportOf(art.mock, art.recovery)
       IN  BuildReport("recovery", "taxonomy", x, TaxonomyReportAccepted(x),
                       {"config_snapshot", "retry", "commit", "recovery"})

BuildAuditEvent ==
    /\ stage = "taxonomy"
    /\ LET x == AuditEventOf(art.taxonomy)
       IN  BuildReport("taxonomy", "audit", x, AuditEventAccepted(x),
                       {"config_snapshot", "retry", "commit", "recovery", "taxonomy"})

BuildTelemetry ==
    /\ stage = "audit"
    /\ LET x == TelemetryOf(art.audit)
       IN  BuildReport("audit", "telemetry", x, TelemetryAccepted(x),
                       {"config_snapshot", "commit", "retry", "recovery", "taxonomy", "audit"})

BuildCompatibility ==
    /\ stage = "telemetry"
    /\ LET manifest == CompatibilityManifestOf(OperatorReviewOf(art.telemetry))
           matrix   == FixtureMatrixOf(manifest)
       IN  BuildReport("telemetry", "compatibility",
                       CompatibilityReportOf(matrix, art.telemetry),
                       CompatibilityManifestAccepted(manifest) /\ FixtureMatrixAccepted(matrix),
                       {"config_snapshot", "recovery", "taxonomy", "audit"})

BuildRegistry ==
    /\ stage = "compatibility"
    /\ LET x == RegistryOf(art.compatibility)
       IN  BuildReport("compatibility", "registry", x, RegistryAccepted(x),
                       {"config_snapshot", "recovery", "taxonomy", "audit", "compatibility"})

BuildSelection ==
    /\ stage = "registry"
    /\ LET x == SelectionOf(art.registry)
       IN  BuildReport("registry", "selection", x, SelectionAccepted(x),
                       {"config_snapshot", "recovery", "taxonomy", "audit", "compatibility",
                        "registry"})

BuildEvidence ==
    /\ stage = "selection"
    /\ BuildReport("selection", "evidence",
                   EvidenceOf(NegotiationOf(art.selection), art.compatibility, art.audit,
                              art.recovery, art.taxonomy), TRUE,
                   {"config_snapshot", "audit", "compatibility", "registry", "selection"})

(* The reports the release gate is made of.  schema: the versions of the   *)
(* artifacts, whether their sources and whether their references agree.    *)
BuildReleaseGate ==
    /\ stage = "evidence"
    /\ \E versions \in [1 .. 2 -> {"Compatible", "Incompatible", "Unknown"}],
          chain, refs \in BOOLEAN :
          LET conformance == ConformanceOf(art.compatibility, art.registry, art.evidence)
              schema      == SchemaCompatibilityOf(versions, chain, refs)
              config      == ConfigBundleOf(art.selection, art.config_snapshot)
              archive     == ArchiveOf(conformance, schema, config, art.evidence)
          IN  BuildReport("evidence", "release",
                  [conformance |-> conformance, schema |-> schema, config |-> config,
                   archive |-> archive],
                  SchemaCompatibilityAccepted(schema, versions) /\ ArchiveAccepted(archive),
                  {"audit", "selection", "evidence"})

Approve ==
    /\ stage = "release"
    /\ \E decision \in [verdict : ApprovalDecisions, rejection_details : {{}, {"details"}}] :
          LET x == ApprovalReceiptOf(art.release.archive, decision)
          IN  Build("release", "approval", DecisionRecordAccepted(decision), x,
                    ApprovalReceiptAccepted(x), {"audit", "selection", "evidence", "release"})
    /\ UNCHANGED <<cause, opted, files>>

BuildOptIn ==
    /\ stage = "approval"
    /\ LET x == OptInOf(art.approval, art.release.config, art.selection)
       IN  BuildReport("approval", "opt_in", x, OptInAccepted(x),
                       {"audit", "selection", "evidence", "release", "approval"})

BuildRuntimePolicy ==
    /\ stage = "opt_in"
    /\ LET x == RuntimePolicyOf(art.opt_in, art.approval, art.release.config, art.selection,
                                art.evidence)
       IN  BuildReport("opt_in", "policy", x, RuntimePolicyAccepted(x),
                       {"audit", "release", "approval", "opt_in"})

BuildDryRun ==
    /\ stage = "policy"
    /\ LET x == DryRunOf(art.release.conformance, art.release.schema, art.release.config,
                         art.release.archive, art.approval, art.opt_in, art.policy)
       IN  BuildReport("policy", "dry_run", x, DryRunAccepted(x),
                       {"audit", "release", "approval", "policy"})
-----------------------------------------------------------------------------
Next ==
    \/ DurableNext /\ UNCHANGED provider_vars
    \/ BuildWriteAttempt \/ BuildDriverBinding \/ BuildRuntimePreflight \/ BuildSdkEnvelope
    \/ BuildHostExecution \/ BuildLocalHostReceipt \/ BuildAdapterRequest
    \/ BuildAdapterResponse \/ BuildAdapterInterface \/ BuildConfigLoad \/ BuildConfigSnapshot
    \/ BuildSecretRequest \/ BuildSecretResponse \/ BuildHarnessRequest \/ RunHarness
    \/ BuildPayloadPlan \/ BuildMockContract \/ RunMockAdapter \/ BuildAlphaPlan \/ RunAlpha
    \/ BuildRetryDecision \/ BuildCommitReceipt \/ BuildRecoveryCheckpoint \/ BuildRecoveryPlan
    \/ BuildTaxonomyReport \/ BuildAuditEvent \/ BuildTelemetry \/ BuildCompatibility
    \/ BuildRegistry \/ BuildSelection \/ BuildEvidence \/ BuildReleaseGate \/ Approve
    \/ BuildOptIn \/ BuildRuntimePolicy \/ BuildDryRun

Spec == Start /\ [][Next]_vars
-----------------------------------------------------------------------------

(* What is persisted follows from how the run went, over the whole chain   *)
(* and whatever snapshot it is started with: of a failed run nothing is    *)
(* written to the store, committed or put in a file, a completed run is    *)
(* written, and no artifact claims a node the run did not complete.  A     *)
(* file is written only on request, of a chain in which nothing was        *)
(* blocked; and a chain that was blocked is not reviewed as ready to have  *)
(* its write repeated.                                                     *)
VerdictFollowsRun ==
    /\ \A n \in DOMAIN art \cap {"record", "descriptor"} :
          art[n].prefix = Prefix(Len(art[n].prefix)) /\ Len(art[n].prefix) <= run.done
    /\ stage = "response" =>
          (ResponseReviewAction(art.response) = "AcknowledgeResponse"
              => run.status # "Failed")
    /\ stage = "execution" =>
          /\ art.execution.mutates_store => run.status # "Failed"
          /\ run.status = "Completed" => art.execution.mutates_store
          /\ run.status = "Partial" => (art.execution.mutates_store <=> cause = {})
    /\ stage = "commit" /\ art.commit.commit_status # "Blocked" => run.status # "Failed"
    /\ files # {} => opted /\ cause = {} /\ run.status # "Failed"
    /\ stage = "alpha_run"
          /\ AlphaReadinessOf(art.alpha_run).next_action = "ReadyForIdempotencyContract" =>
              cause = {} /\ run.status # "Failed" /\ (opted => files # {})

(* What an artifact says to be the reason that it does not go ahead. *)
Reason(x) ==
    CASE "blocker" \in DOMAIN x -> x.blocker
      [] "plan" \in DOMAIN x -> x.plan.failure
      [] OTHER -> x.failure

(* What the first artifact said of an outcome is what every later one      *)
(* says.  The reason the first blocked artifact gave reaches every later   *)
(* one down to the retry decision, through some twenty builders that each  *)
(* put their own kind on it.  (A write the adapter does not support takes  *)
(* its place, and the commit receipt drops it.)  The retry decision, the   *)
(* commit receipt, the recovery plan, the failure taxonomy and the         *)
(* telemetry classify the outcome by five tables, which agree: what may be *)
(* retried is resumed and nothing else, what may have been written twice   *)
(* is looked up first, what is committed needs nothing.                    *)
OutcomeIsKept ==
    /\ stage \in DOMAIN art \ {"commit", "recovery_checkpoint", "recovery"}
          /\ DOMAIN art[stage] \cap {"blocker", "plan", "failure"} # {} =>
              Says(Reason(art[stage])) = cause
    /\ stage = "telemetry" =>
        LET agree(eligibility, commit, action, outcome) ==
                /\ (art.retry.retry_eligibility \in eligibility) = (art.commit.commit_status \in commit)
                /\ (art.commit.commit_status \in commit) = (art.recovery.plan_action \in action)
                /\ (art.recovery.plan_action \in action) = (art.telemetry.outcome \in outcome)
        IN  /\ agree({"NotApplicable"}, {"Committed"}, {"NoopCommitted"}, {"Success"})
            /\ agree({"Retryable"}, {"Partial"}, {"ResumeWithIdempotencyKey"}, {"RetryPending"})
            /\ agree({"DuplicateReviewRequired"}, {"Duplicate"}, {"LookupDuplicateCommit"},
                     {"RecoveryPending"})
            /\ agree({"Blocked"}, {"Blocked"}, {"WaitForCommitReceipt"}, {"Blocked"})
            /\ art.taxonomy.retryability = art.retry.retry_eligibility
            /\ art.telemetry.provider_write_committed => ~art.retry.retry_allowed
            /\ CommitReviewOf(art.commit).next_action = "RetryUsingIdempotencyContract" <=>
                  RecoveryReviewOf(art.recovery).next_action = "ResumeUsingToken"

(* The gates before real provider traffic, for every outcome of the write, *)
(* schema and decision of the operator.  The review of production          *)
(* readiness is ready for every outcome of the write but a blocked one, a  *)
(* failed write included.  Opt-in, runtime policy and dry run test much    *)
(* the same conditions, each with a list of its own; the dry run names     *)
(* exactly what blocks: a configuration that is not complete, an approval  *)
(* that was not given, the opt-in and the policy that depend on both, and  *)
(* what a blocked write and schemas that drifted entail.                   *)
BlockersAreExact ==
    /\ stage = "evidence" =>
          ReleaseGate(art.evidence) = IF art.audit.outcome = "Blocked" THEN "Blocked"
                                      ELSE "ReadyForProductionReview"
    /\ stage = "dry_run" =>
          LET complete == art.release.config.invalid_count + art.release.config.missing_count = 0
              approved == art.approval.final_decision = "Approved"
              written  == art.audit.outcome # "Blocked"
              stable   == ~art.release.schema.has_schema_drift
          IN  art.dry_run.blocking_items =
                (IF complete THEN {} ELSE {"config_validation"})
                \cup (IF approved THEN {} ELSE {"approval"})
                \cup (IF complete /\ approved THEN {} ELSE {"opt_in"})
                \cup (IF complete /\ approved /\ written THEN {} ELSE {"runtime_policy"})
                \cup (IF written THEN {} ELSE {"conformance"})
                \cup (IF stable THEN {} ELSE {"schema_compatibility"})
                \cup (IF written /\ stable THEN {} ELSE {"release_archive"})
=============================================================================
