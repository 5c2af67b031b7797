---------------------------- MODULE ArtifactPipeline ----------------------------
(***************************************************************************)
(* How the command line gets the artifact it is asked to emit              *)
(* (tooling/cli/cli_pipeline_artifacts, tooling/cli/provider): every kind  *)
(* has a memo entry and a builder that asks for the artifacts it is made   *)
(* of, recursively.  Three memos work the same way: LazyArtifact for the   *)
(* kinds up to the store import, ProviderPipelineCache for the provider's, *)
(* and the release gate's.  An entry is marked before its builder runs, so *)
(* that a kind that (by a mistake in the catalog) needs itself finds its   *)
(* own entry empty and is given up without a word.                         *)
(***************************************************************************)
EXTENDS Naturals, Sequences, FiniteSets, TLC

CONSTANT MaxFailures    \* bound: builders that report an error

VARIABLES
    request,    \* the kind to emit
    entries,    \* the memo: "open" while it is built, "built", or "none"
    stack,      \* the calls of get: kind, declared, reads, ok
    builds,     \* how often the artifact of a kind was made
    failed      \* the kinds whose builder reported an error

vars == <<request, entries, stack, builds, failed>>

-----------------------------------------------------------------------------
(* What the builders of the first kinds ask for, in order.                 *)
FrontReads ==
       "Plan"       :> <<>>
    @@ "Request"    :> <<"Plan">>
    @@ "Session"    :> <<"Plan", "Request">>
    @@ "Journal"    :> <<"Session">>
    @@ "Replay"     :> <<"Plan", "Session", "Journal">>
    @@ "Snapshot"   :> <<"Plan", "Session", "Journal", "Replay">>
    @@ "Record"     :> <<"Plan", "Session", "Journal", "Replay", "Snapshot">>
    @@ "Descriptor" :> <<"Plan", "Session", "Journal", "Replay", "Snapshot", "Record">>
    @@ "Manifest"   :> <<"Plan", "Session", "Journal", "Replay", "Snapshot", "Record",
                         "Descriptor">>
    @@ "StoreImport" :> <<"Plan", "Session", "Journal", "Replay", "Snapshot", "Record",
                          "Descriptor", "Manifest">>
    @@ "Trace"      :> <<"Plan", "Request">>
    @@ "Audit"      :> <<"Plan", "Session", "Journal", "Trace">>

(* The catalog: the provider kinds and the dependencies each declares.     *)
BindingKinds ==
       "WriteAttempt" :> <<>>
    @@ "RecoveryHandoff" :> <<"WriteAttempt">>
    @@ "DriverBinding"   :> <<"WriteAttempt">>
    @@ "DriverReadiness" :> <<"DriverBinding">>
    @@ "RuntimePreflight" :> <<"DriverBinding">>
    @@ "RuntimeReadiness" :> <<"RuntimePreflight">>
    @@ "SdkEnvelope"     :> <<"RuntimePreflight">>
    @@ "SdkHandoffReadiness" :> <<"SdkEnvelope">>

ExecutionKinds ==
       "HostExecution" :> <<"SdkEnvelope">>
    @@ "HostExecutionReadiness" :> <<"HostExecution">>
    @@ "LocalHostExecutionReceipt" :> <<"HostExecution">>
    @@ "LocalHostExecutionReceiptReview" :> <<"LocalHostExecutionReceipt">>
    @@ "SdkAdapterRequest" :> <<"LocalHostExecutionReceipt">>
    @@ "SdkAdapterResponsePlaceholder" :> <<"SdkAdapterRequest">>
    @@ "SdkAdapterReadiness" :> <<"SdkAdapterResponsePlaceholder">>
    @@ "SdkAdapterInterface" :> <<"SdkAdapterRequest">>
    @@ "SdkAdapterInterfaceReview" :> <<"SdkAdapterInterface">>

ConfigurationKinds ==
       "ConfigLoad" :> <<"SdkAdapterInterface">>
    @@ "ConfigSnapshot" :> <<"ConfigLoad">>
    @@ "ConfigReadiness" :> <<"ConfigSnapshot">>
    @@ "SecretResolverRequest" :> <<"ConfigSnapshot">>
    @@ "SecretResolverResponse" :> <<"SecretResolverRequest">>
    @@ "SecretPolicyReview" :> <<"SecretResolverResponse">>
    @@ "LocalHostHarnessRequest" :> <<"SecretPolicyReview">>
    @@ "LocalHostHarnessRecord" :> <<"LocalHostHarnessRequest">>
    @@ "LocalHostHarnessReview" :> <<"LocalHostHarnessRecord">>

AdapterKinds ==
       "SdkPayloadPlan" :> <<"LocalHostHarnessReview">>
    @@ "SdkPayloadAudit" :> <<"SdkPayloadPlan">>
    @@ "SdkMockAdapterContract" :> <<"SdkPayloadAudit">>
    @@ "SdkMockAdapterExecution" :> <<"SdkMockAdapterContract">>
    @@ "SdkMockAdapterReadiness" :> <<"SdkMockAdapterExecution">>
    @@ "LocalFilesystemAlphaPlan" :> <<"SdkMockAdapterReadiness">>
    @@ "LocalFilesystemAlphaResult" :> <<"LocalFilesystemAlphaPlan">>
    @@ "LocalFilesystemAlphaReadiness" :> <<"LocalFilesystemAlphaResult">>

ReliabilityKinds ==
       "WriteRetryDecision" :> <<"SdkMockAdapterExecution">>
    @@ "WriteCommitReceipt" :> <<"WriteRetryDecision">>
    @@ "WriteCommitReview" :> <<"WriteCommitReceipt">>
    @@ "WriteRecoveryCheckpoint" :> <<"WriteCommitReceipt">>
    @@ "WriteRecoveryPlan" :> <<"WriteRecoveryCheckpoint">>
    @@ "WriteRecoveryReview" :> <<"WriteRecoveryPlan">>
    @@ "FailureTaxonomyReport" :> <<"SdkMockAdapterExecution", "WriteRecoveryPlan">>
    @@ "FailureTaxonomyReview" :> <<"FailureTaxonomyReport">>

GovernanceKinds ==
       "ExecutionAuditEvent" :> <<"FailureTaxonomyReport">>
    @@ "TelemetrySummary" :> <<"ExecutionAuditEvent">>
    @@ "OperatorReviewEvent" :> <<"TelemetrySummary">>
    @@ "CompatibilityTestManifest" :> <<"OperatorReviewEvent">>
    @@ "FixtureMatrix" :> <<"CompatibilityTestManifest">>
    @@ "CompatibilityReport" :> <<"FixtureMatrix", "TelemetrySummary">>
    @@ "Registry" :> <<"CompatibilityReport">>
    @@ "SelectionPlan" :> <<"Registry">>
    @@ "CapabilityNegotiationReview" :> <<"SelectionPlan">>

(* Slip: the evidence of readiness waits for the approval that is given    *)
(* in view of it.                                                          *)
ProductionKindsCyclic ==
       "ProductionReadinessEvidence" :>
           <<"CapabilityNegotiationReview", "CompatibilityReport", "ExecutionAuditEvent",
             "WriteRecoveryPlan", "FailureTaxonomyReport", "ApprovalReceipt">>
    @@ "ProductionReadinessReview" :> <<"ProductionReadinessEvidence">>
    @@ "ProductionReadinessReport" :> <<"ProductionReadinessReview">>
    @@ "ReleaseEvidenceArchiveManifest" :>
           <<"CompatibilityReport", "Registry", "ProductionReadinessEvidence", "SelectionPlan",
             "ConfigSnapshot">>
    @@ "ApprovalReceipt" :> <<"ReleaseEvidenceArchiveManifest">>

ProductionKinds ==
       "ProductionReadinessEvidence" :>
           <<"CapabilityNegotiationReview", "CompatibilityReport", "ExecutionAuditEvent",
             "WriteRecoveryPlan", "FailureTaxonomyReport">>
    @@ "ProductionReadinessReview" :> <<"ProductionReadinessEvidence">>
    @@ "ProductionReadinessReport" :> <<"ProductionReadinessReview">>
    @@ "ConformanceReport" :>
           <<"CompatibilityReport", "Registry", "ProductionReadinessEvidence">>
    @@ "SchemaCompatibilityReport" :> <<"ProductionReadinessEvidence">>
    @@ "ConfigBundleValidationReport" :> <<"SelectionPlan", "ConfigSnapshot">>
    @@ "ReleaseEvidenceArchiveManifest" :>
           <<"CompatibilityReport", "Registry", "ProductionReadinessEvidence", "SelectionPlan",
             "ConfigSnapshot">>
    @@ "ApprovalReceipt" :> <<"ReleaseEvidenceArchiveManifest">>
    @@ "OptInDecisionReport" :> <<"ApprovalReceipt">>
    @@ "RuntimePolicyReport" :> <<"OptInDecisionReport">>
    @@ "ProductionIntegrationDryRunReport" :> <<"RuntimePolicyReport">>

Catalog ==
    BindingKinds @@ ExecutionKinds @@ ConfigurationKinds @@ AdapterKinds @@ ReliabilityKinds
        @@ GovernanceKinds @@ ProductionKinds
-----------------------------------------------------------------------------
(* What the release gate and the builders of the last kinds ask for; every *)
(* other provider builder asks for what it declares.                       *)
GateReads ==
    <<"CompatibilityReport", "Registry", "ProductionReadinessEvidence", "SelectionPlan",
      "ConfigSnapshot">>

LastReads ==
       "ReleaseEvidenceArchiveManifest" :> <<"ReleaseGate">>
    @@ "ApprovalReceipt" :> <<"ReleaseGate">>
    @@ "OptInDecisionReport" :> <<"ReleaseGate", "ApprovalReceipt">>
    @@ "RuntimePolicyReport" :> <<"ReleaseGate", "ApprovalReceipt", "OptInDecisionReport">>
    @@ "ProductionIntegrationDryRunReport" :>
           <<"ReleaseGate", "ApprovalReceipt", "OptInDecisionReport", "RuntimePolicyReport">>

(* The first provider kind is made of the store import and five artifacts  *)
(* that have no memo.                                                      *)
ProviderReads ==
    "WriteAttempt" :> <<"StoreImport">> @@ "ReleaseGate" :> GateReads @@ LastReads @@ Catalog

Reads == FrontReads @@ ProviderReads

Kinds == DOMAIN FrontReads \cup DOMAIN Catalog

Declared(kind) == IF kind \in DOMAIN Catalog THEN Catalog[kind] ELSE <<>>

(* These ask for everything before they look whether something is missing. *)
Eager(kind) ==
    kind \in DOMAIN FrontReads \cup {"ProductionReadinessEvidence", "ReleaseGate"}
-----------------------------------------------------------------------------
Frame(kind) == [kind |-> kind, declared |-> Declared(kind), reads |-> Reads[kind], ok |-> TRUE]

Top == stack[Len(stack)]

Rest == SubSeq(stack, 1, Len(stack) - 1)

(* Nothing more is asked for: a missing declared dependency ends get, a    *)
(* missing artifact ends the builder unless it is eager.                   *)
Asked ==
    /\ Top.declared = <<>> \/ ~Top.ok
    /\ Top.reads = <<>> \/ (~Top.ok /\ (Top.declared # <<>> \/ ~Eager(Top.kind)))

Wanted == IF Top.declared # <<>> THEN Head(Top.declared) ELSE Head(Top.reads)

Init ==
    /\ request \in Kinds
    /\ stack = <<Frame(request)>>
    /\ entries = request :> "open"
    /\ builds = <<>>
    /\ failed = {}

(* An entry that exists is used as it is. *)
UseEntry ==
    /\ stack # <<>> /\ ~Asked
    /\ Wanted \in DOMAIN entries
    /\ LET found == [Top EXCEPT !.ok = @ /\ entries[Wanted] = "built"]
       IN  stack' = Append(Rest, IF Top.declared # <<>>
                                 THEN [found EXCEPT !.declared = Tail(@)]
                                 ELSE [found EXCEPT !.reads = Tail(@)])
    /\ UNCHANGED <<request, entries, builds, failed>>

Get ==
    /\ stack # <<>> /\ ~Asked
    /\ Wanted \notin DOMAIN entries
    /\ stack' = Append(stack, Frame(Wanted))
    /\ entries' = entries @@ Wanted :> "open"
    /\ UNCHANGED <<request, builds, failed>>

(* Something the artifact is made of is missing. *)
GiveUp ==
    /\ stack # <<>> /\ Asked /\ ~Top.ok
    /\ stack' = Rest
    /\ entries' = [entries EXCEPT ![Top.kind] = "none"]
    /\ UNCHANGED <<request, builds, failed>>

Made(result) ==
    /\ stack # <<>> /\ Asked /\ Top.ok
    /\ stack' = Rest
    /\ entries' = [entries EXCEPT ![Top.kind] = result]
    /\ builds' = Append(builds, Top.kind)
    /\ UNCHANGED request

Built == Made("built") /\ UNCHANGED failed

(* The builder reports an error and gives no artifact. *)
Fails ==
    /\ Cardinality(failed) < MaxFailures
    /\ Made("none")
    /\ failed' = failed \cup {Top.kind}

Next == UseEntry \/ Get \/ GiveUp \/ Built \/ Fails

Spec == Init /\ [][Next]_vars
-----------------------------------------------------------------------------
(* Emission is sound: an artifact is given exactly when no builder         *)
(* reported an error, so that nothing is given up silently; no builder     *)
(* runs twice, and so reports its errors once, although the last kinds     *)
(* reach the first ones along many paths; no entry is read while it is     *)
(* being built; and what a provider's builder asks for is already there,   *)
(* as its declared dependencies or theirs, the gate itself excepted.       *)
EmitIsSound ==
    /\ stack = <<>> => ((entries[request] = "built") <=> failed = {})
    /\ Cardinality({builds[i] : i \in DOMAIN builds}) = Len(builds)
    /\ stack # <<>> /\ ~Asked =>
          /\ Wanted \in DOMAIN entries => entries[Wanted] # "open"
          /\ Top.kind \in DOMAIN ProviderReads \ {"WriteAttempt"} /\ Top.declared = <<>> =>
                Wanted \in DOMAIN entries \cup {"ReleaseGate"}
================================================================================
