----------------------------- MODULE DurableChain -----------------------------
(***************************************************************************)
(* The builders from the scheduler snapshot of a run to the receipt of the *)
(* durable store, one step each, as the CLI (cli_pipeline_artifacts.cpp)   *)
(* and any other caller of the library applies them.  A builder validates  *)
(* its sources, makes its artifact, validates it, and gives no artifact if *)
(* a rule is broken; so does the builder of the review that goes with it.  *)
(*                                                                         *)
(* The session and the replay view belong to one run of the workflow, the  *)
(* snapshot to the same or to another run of it, without a run id both     *)
(* have the same ids.  Snapshots are all those the validator accepts, also *)
(* the ones build_scheduler_snapshot does not make.                        *)
(***************************************************************************)
EXTENDS DurableStoreImport, Naturals

CONSTANTS Order,      \* the nodes of the plan, in order
          SessionId

ASSUME ChainAssumption == Distinct(Order) /\ Order # <<>>

VARIABLES
    stage,    \* the artifact made last; "refused": a source was not accepted;
              \* "broken": a builder's own artifact, or its review, was not
    art,      \* the artifacts that are still needed
    run,      \* the run the session is of
    cause     \* why nothing is persisted, as far as it was ever said

Prefix(n) == SubSeq(Order, 1, n)

(* A run: how it ended, how many nodes it completed and, if it failed, at  *)
(* which node: the next one.                                               *)
Runs ==
    {[status |-> "Completed", done |-> Len(Order)]}
        \cup [status : {"Failed", "Partial"}, done : 0 .. Len(Order) - 1]

Summary(r) == IF r.status = "Failed" THEN {Order[r.done + 1]} ELSE {}

SessionOf(r) ==
    [workflow_status |-> r.status, failure_summary |-> Summary(r), session_id |-> SessionId,
     execution_order |-> Prefix(IF r.status = "Failed" THEN r.done + 1 ELSE r.done)]

ReplayOfRun(r) ==
    [workflow_status |-> r.status, workflow_failure_summary |-> Summary(r),
     execution_order |-> SessionOf(r).execution_order,
     plan_matches_session |-> TRUE, session_matches_journal |-> TRUE,
     journal_matches_execution_order |-> TRUE]

(* The nodes of a snapshot that are not in its prefix: those in ready, and *)
(* the others, each waiting for the node before it.                        *)
ReadyEntry(i) ==
    [node_name |-> Order[i], execution_index |-> i - 1, planned_dependencies |-> <<>>,
     satisfied_dependencies |-> <<>>]

BlockedEntry(i, status) ==
    [node_name |-> Order[i], execution_index |-> i - 1,
     planned_dependencies |-> Prefix(i - 1), missing_dependencies |-> Prefix(i - 1),
     blocked_reason |-> IF status = "Failed" THEN "WorkflowTerminalFailure"
                        ELSE IF i = 1 THEN "UpstreamPartial" ELSE "WaitingOnDependencies",
     may_become_ready |-> FALSE,
     blocking_failure_summary |-> IF status = "Failed" THEN {"workflow failed"} ELSE {}]

(* The snapshots of a run that its validator accepts. *)
SnapshotsOf(r) ==
    LET open == r.done + 1 .. Len(Order)
        snapshot(status, ready, candidate, friendly) ==
            [workflow_status |-> r.status, snapshot_status |-> status,
             workflow_failure_summary |-> Summary(r), execution_order |-> Order,
             completed_prefix |-> Prefix(r.done),
             ready_nodes |-> IF ready THEN [i \in 1 .. 1 |-> ReadyEntry(r.done + i)] ELSE <<>>,
             blocked_nodes |-> LET from == IF ready THEN r.done + 1 ELSE r.done
                               IN  [i \in 1 .. Len(Order) - from |->
                                       BlockedEntry(from + i, r.status)],
             next_candidate_node_name |-> candidate,
             checkpoint_friendly |-> friendly]
    IN  {t \in {snapshot(status, ready, candidate, friendly) :
                   status \in SnapshotStatuses,
                   ready \in {x \in BOOLEAN : x => open # {}},
                   candidate \in {{}} \cup {{Order[i]} : i \in open},
                   friendly \in BOOLEAN} : SnapshotAccepted(t)}

Init ==
    /\ stage = "snapshot"
    /\ run \in Runs
    /\ \E other \in Runs : \E t \in SnapshotsOf(other) :
          art = [session |-> SessionOf(run), replay |-> ReplayOfRun(run), snapshot |-> t]
    /\ cause = {}
-----------------------------------------------------------------------------
(* One builder: what it asks of its sources, what it makes, and whether    *)
(* that and the review of it are accepted.  A refused source gives no      *)
(* artifact.  Only what is asked for later is kept.                        *)
Build(from, to, sources, artifact, accepted, keep) ==
    /\ stage = from
    /\ stage' = CASE ~sources -> "refused"
                  [] sources /\ ~accepted -> "broken"
                  [] OTHER -> to
    /\ art' = [n \in (IF ~sources THEN {} ELSE {to} \cup (IF accepted THEN keep ELSE {})) |->
                  IF n = to THEN artifact ELSE art[n]]
    /\ UNCHANGED run

Says(option) == {b.message : b \in option}

session  == art.session
replay   == art.replay
snapshot == art.snapshot

BuildRecord ==
    /\ stage = "snapshot"
    /\ LET x == RecordOf(session, snapshot)
       IN  /\ Build("snapshot", "record",
                    RecordSources(Order, session, replay, snapshot), x,
                    /\ DecisionSummaryAccepted(DecisionSummaryOf(snapshot))
                    /\ RecordAccepted(x) /\ CheckpointReviewAccepted(CheckpointReviewOf(x)),
                    {"session", "replay", "snapshot"})
           /\ cause' = Says(x.blocker)

BuildDescriptor ==
    /\ stage = "record"
    /\ LET x == DescriptorOf(art.record)
       IN  Build("record", "descriptor",
                 DescriptorSources(Order, session, replay, snapshot, art.record), x,
                 DescriptorAccepted(x) /\ PersistenceReviewAccepted(PersistenceReviewOf(x)),
                 {"session", "replay", "snapshot", "record"})
    /\ UNCHANGED cause

BuildManifest ==
    /\ stage = "descriptor"
    /\ LET x == ManifestOf(art.descriptor)
       IN  Build("descriptor", "manifest",
                 ManifestSources(Order, session, replay, snapshot, art.record, art.descriptor), x,
                 ManifestAccepted(x) /\ ExportReviewAccepted(ExportReviewOf(x)),
                 {"session", "replay", "snapshot", "record", "descriptor"})
    /\ UNCHANGED cause

BuildStoreDescriptor ==
    /\ stage = "manifest"
    /\ LET x == StoreDescriptorOf(art.manifest)
       IN  Build("manifest", "store",
                 StoreImportSources(Order, session, replay, snapshot, art.record,
                                    art.descriptor, art.manifest), x,
                 StoreDescriptorAccepted(x) /\ StoreImportReviewAccepted(StoreImportReviewOf(x)),
                 {})
    /\ UNCHANGED cause

BuildRequest ==
    /\ stage = "store"
    /\ LET x == RequestOf(art.store)
       IN  Build("store", "request", TRUE, x,
                 RequestAccepted(x) /\ RequestReviewAccepted(RequestReviewOf(x)), {})
    /\ UNCHANGED cause

BuildDecision ==
    /\ stage = "request"
    /\ LET x == DecisionOf(art.request)
       IN  Build("request", "decision", TRUE, x,
                 DecisionAccepted(x) /\ DecisionReviewAccepted(DecisionReviewOf(x)), {})
    /\ UNCHANGED cause

BuildReceipt ==
    /\ stage = "decision"
    /\ LET x == ReceiptOf(art.decision)
       IN  Build("decision", "receipt", TRUE, x,
                 ReceiptAccepted(x) /\ ReceiptReviewAccepted(ReceiptReviewOf(x)), {})
    /\ UNCHANGED cause

BuildPersistenceRequest ==
    /\ stage = "receipt"
    /\ LET x == PersistenceRequestOf(art.receipt)
       IN  Build("receipt", "persistence_request", TRUE, x,
                 /\ PersistenceRequestAccepted(x)
                 /\ PersistenceRequestReviewAccepted(PersistenceRequestReviewOf(x)), {})
    /\ UNCHANGED cause

BuildPersistenceResponse ==
    /\ stage = "persistence_request"
    /\ LET x == PersistenceResponseOf(art.persistence_request)
       IN  Build("persistence_request", "response", TRUE, x,
                 PersistenceResponseAccepted(x), {})
    /\ UNCHANGED cause

BuildAdapterExecution ==
    /\ stage = "response"
    /\ LET x == AdapterExecutionOf(art.response)
       IN  Build("response", "execution", TRUE, x,
                 /\ AdapterExecutionAccepted(x)
                 /\ RecoveryPreviewAccepted(RecoveryPreviewOf(x)), {})
    /\ UNCHANGED cause

DurableNext ==
    \/ BuildRecord \/ BuildDescriptor \/ BuildManifest \/ BuildStoreDescriptor
    \/ BuildRequest \/ BuildDecision \/ BuildReceipt
    \/ BuildPersistenceRequest \/ BuildPersistenceResponse \/ BuildAdapterExecution
===============================================================================
