--------------------------- MODULE CheckpointRecord ---------------------------
(***************************************************************************)
(* build_checkpoint_record and validate_checkpoint_record                  *)
(* (pipeline/observation/checkpoint_record), with the review summaries of  *)
(* the snapshot and of the record.  The record says how much of a run can  *)
(* be persisted and whether it can be resumed from there.  Optional values *)
(* are sets of at most one element; of a failure or a blocker only its     *)
(* kind and its message are kept.                                          *)
(*                                                                         *)
(* The record and the four artifacts made of it (PersistenceArtifacts,     *)
(* DurableStoreImport) have one shape: a status, a ready flag, a blocker   *)
(* and the status of the source.  The rules their validators share are     *)
(* stated here once.                                                       *)
(***************************************************************************)
EXTENDS SchedulerSnapshot

SnapshotStatuses ==
    {"Runnable", "Waiting", "TerminalCompleted", "TerminalFailed", "TerminalPartial"}

Terminal == {"TerminalCompleted", "TerminalFailed", "TerminalPartial"}

(* The element of an optional value that is there. *)
The(option) == CHOOSE x \in option : TRUE
-----------------------------------------------------------------------------
(* The scheduler's decision summary of a snapshot. *)
DecisionSummaryOf(t) ==
    [snapshot_status |-> t.snapshot_status,
     next_action |->
         CASE t.snapshot_status = "Runnable"          -> "RunReadyNode"
           [] t.snapshot_status = "Waiting"           -> "AwaitDependencies"
           [] t.snapshot_status = "TerminalCompleted" -> "WorkflowCompleted"
           [] t.snapshot_status = "TerminalFailed"    -> "InvestigateFailure"
           [] t.snapshot_status = "TerminalPartial"   -> "PreservePartialState",
     terminal_reason |->
         CASE t.snapshot_status = "TerminalCompleted" -> {"workflow_completed"}
           [] t.snapshot_status = "TerminalFailed"    -> {"workflow_failed"}
           [] t.snapshot_status = "TerminalPartial"   -> {"partial_snapshot_retained"}
           [] OTHER -> {}]

DecisionSummaryAccepted(d) ==
    <<d.snapshot_status, d.next_action, d.terminal_reason>> \in
        {<<"Runnable", "RunReadyNode", {}>>, <<"Waiting", "AwaitDependencies", {}>>,
         <<"TerminalCompleted", "WorkflowCompleted", {"workflow_completed"}>>,
         <<"TerminalFailed", "InvestigateFailure", {"workflow_failed"}>>,
         <<"TerminalPartial", "PreservePartialState", {"partial_snapshot_retained"}>>}
-----------------------------------------------------------------------------
(* Slip: the prefix is compared with the order of the plan alone. *)
RecordSourcesByPlan(order, s, r, t) ==
    /\ r.workflow_status = s.workflow_status /\ t.workflow_status = s.workflow_status
    /\ t.execution_order = order
    /\ is_prefix(t.completed_prefix, order)

(* The artifacts a record is made of describe one run.  Their ids are      *)
(* compared as well; they are equal for all runs of a workflow that was    *)
(* started without a run id, so these are the tests that tell runs apart.  *)
RecordSources(order, s, r, t) ==
    /\ r.workflow_status = s.workflow_status /\ t.workflow_status = s.workflow_status
    /\ r.workflow_failure_summary = s.failure_summary
    /\ t.workflow_failure_summary = s.failure_summary
    /\ r.plan_matches_session /\ r.session_matches_journal /\ r.journal_matches_execution_order
    /\ t.execution_order = order
    /\ r.execution_order = s.execution_order
    /\ is_prefix(r.execution_order, t.execution_order)
    /\ is_prefix(t.completed_prefix, r.execution_order)

(* The last cases of the switch give a blocker where there is none yet. *)
ResumeBlocker(s, t) ==
    CASE t.snapshot_status \in {"Runnable", "Waiting"} /\ ~t.checkpoint_friendly ->
            {[kind |-> "NotCheckpointFriendly", message |-> "not checkpoint friendly"]}
      [] t.snapshot_status = "Waiting" /\ t.checkpoint_friendly ->
            {[kind |-> "WaitingOnSchedulerState", message |-> "frontier not runnable"]}
      [] t.snapshot_status = "TerminalFailed" ->
            {[kind |-> "WorkflowFailure",
              message |-> IF s.failure_summary = {} THEN "workflow failed"
                          ELSE The(s.failure_summary)]}
      [] t.snapshot_status = "TerminalPartial" ->
            {[kind |-> "WorkflowPartial", message |-> "workflow remained partial"]}
      [] OTHER -> {}

ResumeCandidate(t) == IF t.snapshot_status \in Terminal THEN {} ELSE t.next_candidate_node_name

RecordOf(s, t) ==
    LET ready == t.snapshot_status = "Runnable" /\ t.checkpoint_friendly
    IN  [status |-> CASE t.snapshot_status \in Terminal -> t.snapshot_status
                      [] ready -> "ReadyToPersist"
                      [] OTHER -> "Blocked",
         workflow_status |-> s.workflow_status,
         source_status |-> t.snapshot_status,
         workflow_failure_summary |-> s.failure_summary,
         session_id |-> s.session_id,
         execution_order |-> t.execution_order,
         prefix |-> t.completed_prefix,
         candidate |-> ResumeCandidate(t),
         ready |-> ready,
         blocker |-> ResumeBlocker(s, t)]
-----------------------------------------------------------------------------
(* The prefix and the candidate of a record and of a descriptor.  A prefix *)
(* longer than the order, which no builder makes, is refused here; the     *)
(* code would read past the end of the order (record.cpp 160).             *)
CursorAccepted(a) ==
    /\ Distinct(a.execution_order)
    /\ is_prefix(a.prefix, a.execution_order)
    /\ a.candidate \subseteq Members(a.execution_order) \ Members(a.prefix)
    /\ a.status = "TerminalCompleted" => a.prefix = a.execution_order
    /\ a.status \in Terminal => a.candidate = {}

(* What is ready has no blocker and what is not has one; how the run ended *)
(* is kept.  ready_status is the one status in which a run that has not    *)
(* ended is ready.                                                         *)
BlockerAccepted(a, ready_status) ==
    /\ a.ready => a.blocker = {}
    /\ ~a.ready /\ a.status # "TerminalCompleted" => a.blocker # {}
    /\ a.status = ready_status => a.ready
    /\ a.status = "TerminalCompleted" => a.blocker = {}
    /\ a.status \in {"TerminalFailed", "TerminalPartial"} => a.blocker # {} /\ ~a.ready
    /\ a.status = "TerminalFailed" => a.workflow_failure_summary # {}
    /\ a.workflow_status = "Completed" => a.status = "TerminalCompleted"
    /\ a.workflow_status = "Failed" => a.status = "TerminalFailed"

(* A terminal source makes the same of the artifact. *)
SourceAccepted(a) == a.source_status \in Terminal => a.status = a.source_status

PartialAccepted(a, ready_status) ==
    a.workflow_status = "Partial" => a.status \in {ready_status, "Blocked", "TerminalPartial"}

RecordAccepted(a) ==
    /\ CursorAccepted(a)
    /\ BlockerAccepted(a, "ReadyToPersist")
    /\ a.status = "ReadyToPersist" => a.candidate # {}
    /\ SourceAccepted(a)

(* What the review summaries of the five artifacts have in common: one     *)
(* next action for each status, in the order ready, blocked, completed,    *)
(* failed, partial.                                                        *)
ReviewAction(status, actions) ==
    CASE status = "Blocked"           -> actions[2]
      [] status = "TerminalCompleted" -> actions[3]
      [] status = "TerminalFailed"    -> actions[4]
      [] status = "TerminalPartial"   -> actions[5]
      [] OTHER                        -> actions[1]

CheckpointReviewOf(a) ==
    [a |-> a,
     next_action |-> ReviewAction(a.status, <<"PersistCheckpoint", "AwaitCheckpointReadiness",
                         "WorkflowCompleted", "InvestigateFailure", "PreservePartialState">>),
     terminal_reason |-> CASE a.status = "TerminalCompleted" -> {"workflow_completed"}
                           [] a.status = "TerminalFailed"    -> {"workflow_failed"}
                           [] a.status = "TerminalPartial"   -> {"partial_checkpoint_retained"}
                           [] OTHER -> {}]

CheckpointReviewAccepted(v) ==
    /\ v.a.ready => v.a.blocker = {}
    /\ CASE v.a.status = "ReadyToPersist" ->
               v.next_action = "PersistCheckpoint" /\ v.terminal_reason = {} /\ v.a.ready
         [] v.a.status = "Blocked" ->
               /\ v.next_action = "AwaitCheckpointReadiness" /\ v.terminal_reason = {}
               /\ ~v.a.ready /\ v.a.blocker # {}
         [] v.a.status = "TerminalCompleted" ->
               v.next_action = "WorkflowCompleted" /\ v.terminal_reason = {"workflow_completed"}
         [] v.a.status = "TerminalFailed" ->
               /\ v.next_action = "InvestigateFailure" /\ v.terminal_reason = {"workflow_failed"}
               /\ v.a.blocker # {}
         [] v.a.status = "TerminalPartial" ->
               /\ v.next_action = "PreservePartialState"
               /\ v.terminal_reason = {"partial_checkpoint_retained"}
               /\ v.a.blocker # {}
===============================================================================
