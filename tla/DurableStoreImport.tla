-------------------------- MODULE DurableStoreImport --------------------------
(***************************************************************************)
(* From a store import descriptor to the (fake) durable store              *)
(* (pipeline/persistence/durable_store_import): request, adapter decision, *)
(* decision receipt, receipt persistence request and response, adapter     *)
(* execution receipt and recovery preview.  Four of them are contracts of  *)
(* one shape: what becomes of the request is accepted, blocked, deferred   *)
(* or rejected, and each repeats the statuses of the ones before it.       *)
(***************************************************************************)
EXTENDS PersistenceArtifacts

to_request_blocker(b) ==
    [b EXCEPT !.kind = CASE b.kind = "WaitingOnExportManifest" -> "WaitingOnRequestedArtifact"
                         [] b.kind = "MissingStoreImportCandidateIdentity" ->
                               "MissingRequestIdentity"
                         [] b.kind = "MissingStagingArtifactSet" -> "MissingRequestedArtifactSet"
                         [] OTHER -> b.kind]

requested_artifact_set(d) == <<"StoreImportDescriptor">> \o d.staging_artifact_set

RequestOf(d) ==
    LET ready == d.status \in {"ReadyToImport", "TerminalCompleted"}
    IN  [status |-> IF d.status = "ReadyToImport" THEN "ReadyForAdapter" ELSE d.status,
         workflow_status |-> d.workflow_status,
         source_status |-> d.status,
         workflow_failure_summary |-> d.workflow_failure_summary,
         session_id |-> d.session_id,
         planned_durable_identity |-> d.planned_durable_identity,
         requested_artifact_set |-> requested_artifact_set(d),
         boundary_kind |-> IF ready THEN "AdapterContractConsumable" ELSE "LocalIntentOnly",
         next_required_artifact_kind |->
             IF d.status = "Blocked" THEN d.next_required_staging_artifact_kind ELSE {},
         ready |-> ready,
         blocker |-> IF ready THEN {} ELSE {to_request_blocker(b) : b \in d.blocker}]

RequestAccepted(a) ==
    /\ PackageAccepted(a, "ReadyForAdapter", a.requested_artifact_set,
                       a.next_required_artifact_kind)
    /\ a.source_status = IF a.status = "ReadyForAdapter" THEN "ReadyToImport" ELSE a.status
    /\ a.boundary_kind = "AdapterContractConsumable" => a.ready \/ a.status = "TerminalCompleted"

RequestReviewOf(a) ==
    [a |-> a, next_required |-> a.next_required_artifact_kind,
     next_action |-> ReviewAction(a.status, <<"HandoffRequest", "AwaitAdapterReadiness",
        "ArchiveCompletedState", "InvestigateFailure", "PreservePartialState">>)]

RequestReviewAccepted(v) ==
    PackageReviewAccepted(v, "ReadyForAdapter", <<"HandoffRequest", "AwaitAdapterReadiness",
        "ArchiveCompletedState", "InvestigateFailure", "PreservePartialState">>)
-----------------------------------------------------------------------------
(* The adapter's decision.  A request of a completed run is accepted like  *)
(* one that is ready for the adapter.                                      *)
to_adapter_capability(kind) ==
    CASE kind = "StoreImportDescriptor" -> "ConsumeStoreImportDescriptor"
      [] kind = "ExportManifest"        -> "ConsumeExportManifest"
      [] kind = "PersistenceDescriptor" -> "ConsumePersistenceDescriptor"
      [] kind = "PersistenceReview"     -> "ConsumeHumanReviewContext"
      [] kind = "CheckpointRecord"      -> "ConsumeCheckpointRecord"

DecisionStatus(request_status) ==
    CASE request_status \in {"ReadyForAdapter", "TerminalCompleted"} -> "Accepted"
      [] request_status = "Blocked"         -> "Blocked"
      [] request_status = "TerminalPartial" -> "Deferred"
      [] request_status = "TerminalFailed"  -> "Rejected"

DecisionCapability(q) ==
    CASE q.status = "Blocked" ->
            {to_adapter_capability(k) : k \in q.next_required_artifact_kind}
      [] q.status = "TerminalPartial" -> {"PreservePartialWorkflowState"}
      [] OTHER -> {}

DecisionBlocker(q) ==
    LET message == IF q.blocker = {} THEN "request is not adapter-consumable"
                   ELSE The(q.blocker).message
        blocker(kind) == {[kind |-> kind, message |-> message,
                           required_capability |-> DecisionCapability(q)]}
    IN  CASE q.status = "Blocked" /\ DecisionCapability(q) # {} ->
                blocker("MissingRequiredAdapterCapability")
          [] q.status = "Blocked" /\ DecisionCapability(q) = {} -> blocker("SourceRequestBlocked")
          [] q.status = "TerminalPartial" -> blocker("PartialWorkflowState")
          [] q.status = "TerminalFailed"  -> blocker("WorkflowFailure")
          [] OTHER -> {}

DecisionOf(q) ==
    LET status == DecisionStatus(q.status)
    IN  [status |-> status,
         accepted |-> status = "Accepted",
         consumable |-> status = "Accepted",
         workflow_status |-> q.workflow_status,
         workflow_failure_summary |-> q.workflow_failure_summary,
         session_id |-> q.session_id,
         planned_durable_identity |-> q.planned_durable_identity,
         identity |-> <<q.session_id, status>>,
         request_status |-> q.status,
         source_consumable |-> q.boundary_kind = "AdapterContractConsumable",
         history |-> {},
         next_required_capability |-> DecisionCapability(q),
         blocker |-> DecisionBlocker(q)]

(* What the validators of decision, receipt, persistence request and       *)
(* response share.  ok is the status that stands for acceptance, partial   *)
(* and failed are the kinds of blocker that deferral and rejection need,   *)
(* history holds the statuses of the contracts before this one.  They also *)
(* compare the outcome with the status; the builders set both in the same  *)
(* branch, so that the model has the status alone.                         *)
ContractAccepted(a, ok, partial, failed) ==
    /\ a.accepted => a.blocker = {} /\ a.next_required_capability = {}
    /\ ~a.accepted => a.blocker # {}
    /\ a.consumable => a.accepted
    /\ \A b \in a.blocker : b.required_capability # {} =>
          a.next_required_capability = b.required_capability
    /\ CASE a.status = ok ->
               /\ a.accepted /\ a.history \subseteq {"Accepted"}
               /\ a.request_status \in {"ReadyForAdapter", "TerminalCompleted"}
         [] a.status = "Blocked" ->
               /\ ~a.accepted /\ a.history \subseteq {"Blocked"} /\ a.request_status = "Blocked"
               /\ a.blocker # {}
         [] a.status = "Deferred" ->
               /\ ~a.accepted /\ a.history \subseteq {"Deferred"}
               /\ a.request_status = "TerminalPartial"
               /\ a.next_required_capability = {"PreservePartialWorkflowState"}
               /\ \E b \in a.blocker : b.kind = partial
         [] a.status = "Rejected" ->
               /\ ~a.accepted /\ a.history \subseteq {"Rejected"}
               /\ a.request_status = "TerminalFailed"
               /\ a.workflow_failure_summary # {}
               /\ \E b \in a.blocker : b.kind = failed
    /\ CASE a.workflow_status = "Completed" -> a.status = ok
         [] a.workflow_status = "Failed"    -> a.status = "Rejected"
         [] a.workflow_status = "Partial"   -> a.status \in {ok, "Blocked", "Deferred"}

(* Only what its source offers for consumption is accepted.  The validator *)
(* of the receipt does not ask this.                                       *)
SourceIsConsumable(a) == a.accepted => a.source_consumable

DecisionAccepted(a) ==
    /\ ContractAccepted(a, "Accepted", "PartialWorkflowState", "WorkflowFailure")
    /\ SourceIsConsumable(a)

(* The next actions of a contract's review: accepted of a completed run,   *)
(* accepted, blocked, deferred, rejected.                                  *)
ContractAction(a, ok, actions) ==
    CASE a.status = ok /\ a.request_status = "TerminalCompleted" -> actions[1]
      [] a.status = ok /\ a.request_status # "TerminalCompleted" -> actions[2]
      [] a.status = "Blocked"  -> actions[3]
      [] a.status = "Deferred" -> actions[4]
      [] a.status = "Rejected" -> actions[5]

DecisionReviewOf(a) ==
    [a |-> a, next_action |-> ContractAction(a, "Accepted",
        <<"ArchiveCompletedDecision", "HandoffDecision", "ResolveRequiredAdapterCapability",
          "PreservePartialDecision", "InvestigateDecisionRejection">>)]

ContractReviewAccepted(v, ok, actions) ==
    /\ v.a.accepted => v.a.blocker = {} /\ v.a.next_required_capability = {}
    /\ CASE v.a.status = ok ->
               /\ v.next_action = IF v.a.request_status = "TerminalCompleted"
                                  THEN actions[1] ELSE actions[2]
               /\ v.a.accepted
         [] v.a.status = "Blocked"  -> v.next_action = actions[3] /\ v.a.blocker # {}
         [] v.a.status = "Deferred" -> v.next_action = actions[4] /\ v.a.blocker # {}
         [] v.a.status = "Rejected" -> v.next_action = actions[5] /\ v.a.blocker # {}

DecisionReviewAccepted(v) ==
    /\ ContractReviewAccepted(v, "Accepted",
        <<"ArchiveCompletedDecision", "HandoffDecision", "ResolveRequiredAdapterCapability",
          "PreservePartialDecision", "InvestigateDecisionRejection">>)
    /\ v.a.status = "Blocked" => ~v.a.accepted
-----------------------------------------------------------------------------
(* Receipt, persistence request and response are projections: the status   *)
(* is renamed, the blocker's kind is mapped, the source's status of        *)
(* acceptance becomes this one's and clears what is required.              *)
Projection(a, source_ok, ok, kinds) ==
    LET accepted == a.status = source_ok
        kind(b)  == IF b.kind \in DOMAIN kinds THEN kinds[b.kind] ELSE b.kind
    IN  [a EXCEPT !.status = IF accepted THEN ok ELSE a.status,
                  !.accepted = accepted,
                  !.consumable = accepted,
                  !.source_consumable = a.consumable,
                  !.identity = <<a.session_id, IF accepted THEN ok ELSE a.status>>,
                  !.history = a.history \cup {IF accepted THEN "Accepted" ELSE a.status},
                  !.next_required_capability = IF accepted THEN {} ELSE a.next_required_capability,
                  !.blocker = IF accepted THEN {} ELSE {[b EXCEPT !.kind = kind(b)] : b \in a.blocker}]

ReceiptOf(d) ==
    Projection(d, "Accepted", "ReadyForArchive",
               [k \in {"SourceRequestBlocked"} |-> "SourceDecisionBlocked"])

ReceiptAccepted(a) ==
    /\ ContractAccepted(a, "ReadyForArchive", "PartialWorkflowState", "WorkflowFailure")
    /\ a.accepted <=> a.consumable

ReceiptReviewOf(a) ==
    [a |-> a, next_action |-> ContractAction(a, "ReadyForArchive",
        <<"ArchiveCompletedReceipt", "HandoffReceipt", "ResolveRequiredAdapterCapability",
          "PreservePartialReceipt", "InvestigateReceiptRejection">>)]

ReceiptReviewAccepted(v) ==
    /\ ContractReviewAccepted(v, "ReadyForArchive",
        <<"ArchiveCompletedReceipt", "HandoffReceipt", "ResolveRequiredAdapterCapability",
          "PreservePartialReceipt", "InvestigateReceiptRejection">>)
    /\ v.a.accepted <=> v.a.consumable

PersistenceRequestOf(r) ==
    Projection(r, "ReadyForArchive", "ReadyToPersist",
               [k \in {"SourceDecisionBlocked"} |-> "SourceReceiptBlocked"])

PersistenceRequestAccepted(a) ==
    /\ ContractAccepted(a, "ReadyToPersist", "PartialWorkflowState", "WorkflowFailure")
    /\ a.accepted <=> a.consumable
    /\ SourceIsConsumable(a)

PersistenceRequestReviewOf(a) ==
    [a |-> a, next_action |-> ContractAction(a, "ReadyToPersist",
        <<"PersistCompletedReceipt", "HandoffPersistenceRequest",
          "ResolveRequiredAdapterCapability", "PreservePartialReceipt",
          "InvestigatePersistenceRejection">>)]

PersistenceRequestReviewAccepted(v) ==
    /\ ContractReviewAccepted(v, "ReadyToPersist",
        <<"PersistCompletedReceipt", "HandoffPersistenceRequest",
          "ResolveRequiredAdapterCapability", "PreservePartialReceipt",
          "InvestigatePersistenceRejection">>)
    /\ v.a.accepted <=> v.a.consumable
    /\ v.a.accepted <=> v.a.blocker = {}
    /\ v.a.status = "Deferred" => \E b \in v.a.blocker : b.kind = "PartialWorkflowState"
    /\ v.a.status = "Rejected" =>
          /\ v.a.workflow_failure_summary # {}
          /\ \E b \in v.a.blocker : b.kind = "WorkflowFailure"

ResponseKinds ==
    [k \in {"SourceReceiptBlocked", "WorkflowFailure", "PartialWorkflowState"} |->
        CASE k = "SourceReceiptBlocked" -> "SourcePersistenceRequestBlocked"
          [] k = "WorkflowFailure"      -> "PersistenceWorkflowFailure"
          [] k = "PartialWorkflowState" -> "PartialPersistenceState"]


PersistenceResponseOf(q) == Projection(q, "ReadyToPersist", "Accepted", ResponseKinds)

PersistenceResponseAccepted(a) ==
    /\ ContractAccepted(a, "Accepted", "PartialPersistenceState", "PersistenceWorkflowFailure")
    /\ a.accepted <=> a.consumable
    /\ SourceIsConsumable(a)

(* The review of a response.  Its validator compares no statuses: what it  *)
(* recommends is a property of the chain.                                  *)
ResponseReviewAction(a) ==
    CASE a.accepted \/ a.status = "Accepted" -> "AcknowledgeResponse"
      [] ~a.accepted /\ a.status = "Blocked"  -> "ResolveBlocker"
      [] ~a.accepted /\ a.status = "Deferred" -> "WaitForCapability"
      [] ~a.accepted /\ a.status = "Rejected" -> "ReviewFailure"
-----------------------------------------------------------------------------
(* The adapter execution receipt: the fake store is written if and only if *)
(* the response was accepted.                                              *)
Noop(status) ==
    CASE status = "Blocked" -> "NoopBlocked" [] status = "Deferred" -> "NoopDeferred"
      [] status = "Rejected" -> "NoopRejected"

AdapterExecutionOf(p) ==
    LET mutates == p.status = "Accepted"
    IN  [response_status |-> p.status,
         accepted |-> p.accepted,
         consumable |-> p.consumable,
         session_id |-> p.session_id,
         planned_durable_identity |-> p.planned_durable_identity,
         intent |-> IF mutates THEN "PersistReceipt" ELSE Noop(p.status),
         mutates_store |-> mutates,
         mutation_status |-> IF mutates THEN "Persisted" ELSE "NotMutated",
         persistence_id |-> IF mutates THEN {<<p.session_id, p.status>>} ELSE {},
         failure |-> IF mutates THEN {}
                     ELSE {[kind |-> CASE p.status = "Blocked"  -> "SourceResponseBlocked"
                                       [] p.status = "Deferred" -> "SourceResponseDeferred"
                                       [] p.status = "Rejected" -> "SourceResponseRejected",
                            message |-> The(p.blocker).message,
                            required_capability |-> p.next_required_capability]}]

AdapterExecutionAccepted(a) ==
    IF a.response_status = "Accepted"
    THEN /\ a.accepted /\ a.consumable
         /\ a.intent = "PersistReceipt" /\ a.mutates_store /\ a.mutation_status = "Persisted"
         /\ a.persistence_id # {} /\ a.failure = {}
    ELSE /\ ~a.accepted
         /\ ~a.mutates_store /\ a.intent = Noop(a.response_status)
         /\ a.mutation_status = "NotMutated"
         /\ a.persistence_id = {} /\ a.failure # {}

RecoveryPreviewOf(a) ==
    [response_status |-> a.response_status, mutation_status |-> a.mutation_status,
     persistence_id |-> a.persistence_id, failure |-> a.failure,
     next_action |-> CASE a.response_status = "Accepted" /\ a.mutation_status = "Persisted" ->
                             "NoRecoveryRequired"
                       [] a.response_status = "Blocked"  -> "ResolveBlocker"
                       [] a.response_status = "Deferred" -> "WaitForCapability"
                       [] OTHER -> "ReviewFailure"]

RecoveryPreviewAccepted(v) ==
    IF v.response_status = "Accepted"
    THEN v.mutation_status = "Persisted" /\ v.persistence_id # {} /\ v.failure = {}
    ELSE v.mutation_status = "NotMutated" /\ v.persistence_id = {} /\ v.failure # {}
===============================================================================
