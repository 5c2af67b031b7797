------------------------- MODULE PersistenceArtifacts -------------------------
(***************************************************************************)
(* The three artifacts that lead from a checkpoint record to a durable     *)
(* store (pipeline/persistence): the persistence descriptor, the export    *)
(* manifest and the store import descriptor, each with its validator, its  *)
(* builder and its review summary.  An identity is the tuple of the parts  *)
(* its string is put together from, after the prefix and the name of the   *)
(* package or the workflow, which are constant.                            *)
(***************************************************************************)
EXTENDS CheckpointRecord

(* What the descriptor's builder asks of the record, besides asking again  *)
(* what the record's builder asked of the others.                          *)
DescriptorSources(order, s, r, t, record) ==
    /\ RecordSources(order, s, r, t)
    /\ record.session_id = s.session_id
    /\ record.workflow_status = s.workflow_status
    /\ record.workflow_failure_summary = s.failure_summary
    /\ record.source_status = t.snapshot_status
    /\ record.execution_order = t.execution_order
    /\ record.prefix = t.completed_prefix
    /\ record.candidate = t.next_candidate_node_name

to_persistence_blocker(b) ==
    [b EXCEPT !.kind = IF b.kind \in {"NotCheckpointFriendly", "WaitingOnSchedulerState"}
                       THEN "WaitingOnCheckpointState" ELSE b.kind]

planned_durable_identity(record) == <<record.session_id, Len(record.prefix)>>

DescriptorOf(record) ==
    [status |-> IF record.status = "ReadyToPersist" THEN "ReadyToExport" ELSE record.status,
     workflow_status |-> record.workflow_status,
     source_status |-> record.status,
     workflow_failure_summary |-> record.workflow_failure_summary,
     session_id |-> record.session_id,
     planned_durable_identity |-> planned_durable_identity(record),
     execution_order |-> record.execution_order,
     prefix |-> record.prefix,
     candidate |-> IF record.status \in Terminal THEN {} ELSE record.candidate,
     ready |-> record.status = "ReadyToPersist",
     blocker |-> IF record.status \in {"ReadyToPersist", "TerminalCompleted"} THEN {}
                 ELSE {to_persistence_blocker(b) : b \in record.blocker}]

DescriptorAccepted(a) ==
    /\ CursorAccepted(a)
    /\ BlockerAccepted(a, "ReadyToExport")
    /\ a.status = "ReadyToExport" => a.candidate # {} /\ a.source_status = "ReadyToPersist"
    /\ SourceAccepted(a)
    /\ PartialAccepted(a, "ReadyToExport")

PersistenceReviewOf(a) ==
    [a |-> a, next_action |-> ReviewAction(a.status, <<"ExportPersistenceHandoff",
        "AwaitPersistenceReadiness", "WorkflowCompleted", "InvestigateFailure",
        "PreservePartialState">>)]

PersistenceReviewAccepted(v) ==
    /\ v.a.ready => v.a.blocker = {}
    /\ CASE v.a.status = "ReadyToExport" ->
               v.next_action = "ExportPersistenceHandoff" /\ v.a.ready /\ v.a.candidate # {}
         [] v.a.status = "Blocked" ->
               v.next_action = "AwaitPersistenceReadiness" /\ ~v.a.ready /\ v.a.blocker # {}
         [] v.a.status = "TerminalCompleted" ->
               v.next_action = "WorkflowCompleted" /\ v.a.blocker = {} /\ v.a.candidate = {}
         [] v.a.status = "TerminalFailed" ->
               v.next_action = "InvestigateFailure" /\ v.a.blocker # {}
         [] v.a.status = "TerminalPartial" ->
               v.next_action = "PreservePartialState" /\ v.a.blocker # {}
    /\ v.a.workflow_status = "Completed" => v.a.status = "TerminalCompleted"
    /\ v.a.workflow_status = "Failed" => v.a.status = "TerminalFailed"
    /\ SourceAccepted(v.a) /\ PartialAccepted(v.a, "ReadyToExport")
-----------------------------------------------------------------------------
ManifestSources(order, s, r, t, record, descriptor) ==
    /\ DescriptorSources(order, s, r, t, record)
    /\ descriptor.session_id = s.session_id
    /\ descriptor.workflow_status = s.workflow_status
    /\ descriptor.workflow_failure_summary = s.failure_summary
    /\ descriptor.execution_order = record.execution_order
    /\ descriptor.prefix = record.prefix
    /\ descriptor.candidate = record.candidate
    /\ descriptor.source_status = record.status

to_store_import_blocker(b, artifact) ==
    [kind |-> IF b.kind \in {"WaitingOnCheckpointState", "MissingPlannedDurableIdentity"}
              THEN "WaitingOnPersistenceState" ELSE b.kind,
     message |-> b.message, logical_artifact_name |-> artifact]

DefaultBundle == <<"PersistenceDescriptor", "CheckpointRecord">>

ManifestOf(descriptor) ==
    [status |-> IF descriptor.status = "ReadyToExport" THEN "ReadyToImport" ELSE descriptor.status,
     workflow_status |-> descriptor.workflow_status,
     checkpoint_status |-> descriptor.source_status,
     source_status |-> descriptor.status,
     workflow_failure_summary |-> descriptor.workflow_failure_summary,
     session_id |-> descriptor.session_id,
     planned_durable_identity |-> descriptor.planned_durable_identity,
     export_package_identity |-> <<descriptor.session_id, Len(descriptor.prefix)>>,
     artifact_bundle |-> DefaultBundle,
     boundary_kind |-> "LocalBundleOnly",
     next_required_artifact_kind |->
         IF descriptor.status = "Blocked" THEN {"PersistenceDescriptor"} ELSE {},
     ready |-> descriptor.status \in {"ReadyToExport", "TerminalCompleted"},
     blocker |->
         IF descriptor.status \in {"ReadyToExport", "TerminalCompleted"} THEN {}
         ELSE {to_store_import_blocker(b, IF descriptor.status = "Blocked"
                                          THEN {"PersistenceDescriptor"} ELSE {})
                  : b \in descriptor.blocker}]

(* What the validators of manifest, store descriptor and request share:    *)
(* a package of distinct artifacts, and nothing more required of one that  *)
(* is ready or has ended.                                                  *)
PackageAccepted(a, ready_status, bundle, next_required) ==
    /\ Distinct(bundle)
    /\ a.ready => bundle # <<>> /\ next_required = {}
    /\ a.status = "Blocked" => ~a.ready
    /\ a.status = "TerminalCompleted" => a.ready
    /\ a.status \in Terminal => next_required = {}
    /\ BlockerAccepted(a, ready_status)
    /\ PartialAccepted(a, ready_status)

ManifestAccepted(a) ==
    /\ PackageAccepted(a, "ReadyToImport", a.artifact_bundle, a.next_required_artifact_kind)
    /\ a.status = "ReadyToImport" => a.source_status = "ReadyToExport"
    /\ a.boundary_kind = "StoreImportAdjacent" => a.ready \/ a.status = "TerminalCompleted"
    /\ SourceAccepted(a)
    /\ a.checkpoint_status \in Terminal => a.status = a.checkpoint_status

ExportReviewOf(a) ==
    [a |-> a, next_required |-> a.next_required_artifact_kind,
     next_action |-> ReviewAction(a.status, <<"HandoffExportPackage",
        "AwaitManifestReadiness", "ArchiveCompletedExportPackage", "InvestigateExportFailure",
        "PreservePartialExportState">>)]

(* The reviews of manifest and store descriptor; actions as in             *)
(* ReviewAction.                                                           *)
PackageReviewAccepted(v, ready_status, actions) ==
    /\ v.a.ready => v.a.blocker = {} /\ v.next_required = {}
    /\ CASE v.a.status = ready_status -> v.next_action = actions[1] /\ v.a.ready
         [] v.a.status = "Blocked" ->
               v.next_action = actions[2] /\ ~v.a.ready /\ v.a.blocker # {}
         [] v.a.status = "TerminalCompleted" ->
               /\ v.next_action = actions[3] /\ v.a.ready
               /\ v.a.blocker = {} /\ v.next_required = {}
         [] v.a.status = "TerminalFailed" -> v.next_action = actions[4] /\ v.a.blocker # {}
         [] v.a.status = "TerminalPartial" -> v.next_action = actions[5] /\ v.a.blocker # {}

ExportReviewAccepted(v) ==
    /\ PackageReviewAccepted(v, "ReadyToImport", <<"HandoffExportPackage",
          "AwaitManifestReadiness", "ArchiveCompletedExportPackage", "InvestigateExportFailure",
          "PreservePartialExportState">>)
    /\ v.a.workflow_status = "Completed" => v.a.status = "TerminalCompleted"
    /\ v.a.workflow_status = "Failed" => v.a.status = "TerminalFailed"
    /\ SourceAccepted(v.a) /\ PartialAccepted(v.a, "ReadyToImport")
    /\ v.a.checkpoint_status \in Terminal => v.a.status = v.a.checkpoint_status
-----------------------------------------------------------------------------
(* compare_manifest_against_expected: the manifest has to be the one its   *)
(* own builder makes of the descriptor.                                    *)
StoreImportSources(order, s, r, t, record, descriptor, manifest) ==
    /\ ManifestSources(order, s, r, t, record, descriptor)
    /\ manifest = ManifestOf(descriptor)

to_staging_blocker(b) ==
    [b EXCEPT !.kind = CASE b.kind = "WaitingOnPersistenceState" -> "WaitingOnExportManifest"
                         [] b.kind = "MissingExportPackageIdentity" ->
                               "MissingStoreImportCandidateIdentity"
                         [] b.kind = "MissingArtifactBundle" -> "MissingStagingArtifactSet"
                         [] OTHER -> b.kind]

staging_artifact_set(manifest) == <<"ExportManifest">> \o manifest.artifact_bundle

StoreDescriptorOf(manifest) ==
    LET ready == manifest.status \in {"ReadyToImport", "TerminalCompleted"}
    IN  [status |-> manifest.status,
         workflow_status |-> manifest.workflow_status,
         checkpoint_status |-> manifest.checkpoint_status,
         persistence_status |-> manifest.source_status,
         source_status |-> manifest.status,
         workflow_failure_summary |-> manifest.workflow_failure_summary,
         session_id |-> manifest.session_id,
         planned_durable_identity |-> manifest.planned_durable_identity,
         candidate_identity |-> <<manifest.session_id, Len(staging_artifact_set(manifest))>>,
         staging_artifact_set |-> staging_artifact_set(manifest),
         boundary_kind |-> IF ready THEN "AdapterConsumable" ELSE "LocalStagingOnly",
         next_required_staging_artifact_kind |->
             IF manifest.status = "Blocked" THEN manifest.next_required_artifact_kind ELSE {},
         ready |-> ready,
         blocker |-> IF ready THEN {} ELSE {to_staging_blocker(b) : b \in manifest.blocker}]

(* Here every status has to be the manifest's, not the terminal ones alone. *)
StoreDescriptorAccepted(a) ==
    /\ PackageAccepted(a, "ReadyToImport", a.staging_artifact_set,
                       a.next_required_staging_artifact_kind)
    /\ a.status = a.source_status
    /\ a.boundary_kind = "AdapterConsumable" => a.ready \/ a.status = "TerminalCompleted"
    /\ a.checkpoint_status \in Terminal => a.status = a.checkpoint_status
    /\ a.persistence_status \in Terminal => a.status = a.persistence_status

StoreImportReviewOf(a) ==
    [a |-> a, next_required |-> a.next_required_staging_artifact_kind,
     next_action |-> ReviewAction(a.status, <<"HandoffStoreImportDescriptor",
        "AwaitStagingReadiness", "ArchiveCompletedStoreImportState",
        "InvestigateStoreImportFailure", "PreservePartialStoreImportState">>)]

StoreImportReviewAccepted(v) ==
    /\ PackageReviewAccepted(v, "ReadyToImport", <<"HandoffStoreImportDescriptor",
          "AwaitStagingReadiness", "ArchiveCompletedStoreImportState",
          "InvestigateStoreImportFailure", "PreservePartialStoreImportState">>)
    /\ v.a.workflow_status = "Completed" => v.a.status = "TerminalCompleted"
    /\ v.a.workflow_status = "Failed" => v.a.status = "TerminalFailed"
    /\ PartialAccepted(v.a, "ReadyToImport")
    /\ v.a.checkpoint_status \in Terminal => v.a.status = v.a.checkpoint_status
    /\ v.a.persistence_status \in Terminal => v.a.status = v.a.persistence_status
===============================================================================
