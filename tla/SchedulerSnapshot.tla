-------------------------- MODULE SchedulerSnapshot --------------------------
(***************************************************************************)
(* build_scheduler_snapshot and validate_scheduler_snapshot                *)
(* (pipeline/observation/scheduler_snapshot/snapshot.cpp): how far a       *)
(* workflow got, which of its nodes could run next and what the others     *)
(* wait for.  The order of a snapshot is the order of the plan.            *)
(***************************************************************************)
EXTENDS ReplayView

(* The last test a replay view has to pass. *)
Snapshotable(order, r) == is_prefix(r.execution_order, order)

(* The place of the first node of the plan that is not completed. *)
FirstOpen(order, s) ==
    LET open == {i \in DOMAIN order : SessionNode(s, order[i]).status # "Completed"}
    IN  IF open = {} THEN Len(order) + 1 ELSE CHOOSE i \in open : \A j \in open : i <= j

(* Slip: that node is taken into the prefix. *)
CompletedPrefixThroughOpen(order, s) == SubSeq(order, 1, FirstOpen(order, s))

CompletedPrefix(order, s) == SubSeq(order, 1, FirstOpen(order, s) - 1)

Missing(order, after, s, n) ==
    IF s.workflow_status # "Partial" THEN <<>>
    ELSE LET planned == after[n.node_name]
             there   == Members(n.satisfied_dependencies) \cup Members(CompletedPrefix(order, s))
         IN  Picked(planned, {k \in DOMAIN planned : planned[k] \notin there})

PlanIndex(order, name) == (CHOOSE i \in DOMAIN order : order[i] = name) - 1

ReadyNode(order, after, n) ==
    [node_name |-> n.node_name, execution_index |-> PlanIndex(order, n.node_name),
     planned_dependencies |-> after[n.node_name],
     satisfied_dependencies |-> n.satisfied_dependencies]

BlockedNode(order, after, s, n) ==
    LET missing == Missing(order, after, s, n)
    IN  [node_name |-> n.node_name, execution_index |-> PlanIndex(order, n.node_name),
         planned_dependencies |-> after[n.node_name],
         missing_dependencies |-> missing,
         blocked_reason |-> IF s.workflow_status = "Failed" THEN "WorkflowTerminalFailure"
                            ELSE IF missing = <<>> THEN "UpstreamPartial"
                                 ELSE "WaitingOnDependencies",
         may_become_ready |-> s.workflow_status # "Failed" /\ missing # <<>>,
         blocking_failure_summary |-> IF s.workflow_status = "Failed" THEN s.failure_summary ELSE {}]

(* The session's nodes with one of these statuses, in plan order. *)
Listed(order, s, statuses) ==
    LET names == Picked(order, {i \in DOMAIN order : SessionNode(s, order[i]).status \in statuses})
    IN  [i \in DOMAIN names |-> SessionNode(s, names[i])]

SnapshotStatus(s, ready) ==
    IF s.workflow_status = "Completed" THEN "TerminalCompleted"
    ELSE IF s.workflow_status = "Failed" THEN "TerminalFailed"
         ELSE IF ready = <<>> THEN "Waiting" ELSE "Runnable"

NextCandidate(status, ready, blocked) ==
    IF status = "Runnable" THEN {ready[1].node_name}
    ELSE IF status = "Waiting" /\ blocked # <<>> THEN {blocked[1].node_name} ELSE {}

SnapshotOf(order, after, s) ==
    LET open    == Listed(order, s, {"Ready"})
        others  == Listed(order, s, {"Blocked", "Skipped"})
        ready   == [i \in DOMAIN open |-> ReadyNode(order, after, open[i])]
        blocked == [i \in DOMAIN others |-> BlockedNode(order, after, s, others[i])]
        status  == SnapshotStatus(s, ready)
    IN  [workflow_status |-> s.workflow_status,
         snapshot_status |-> status,
         workflow_failure_summary |-> s.failure_summary,
         execution_order |-> order,
         ready_nodes |-> ready,
         blocked_nodes |-> blocked,
         completed_prefix |-> CompletedPrefix(order, s),
         next_candidate_node_name |-> NextCandidate(status, ready, blocked)]
-----------------------------------------------------------------------------
(* What ready and blocked nodes have in common. *)
PlacedNode(t, n, dependencies) ==
    /\ n.node_name \notin Members(t.completed_prefix)
    /\ n.execution_index < Len(t.execution_order)
    /\ t.execution_order[n.execution_index + 1] = n.node_name
    /\ Distinct(n.planned_dependencies) /\ Distinct(dependencies)
    /\ Members(dependencies) \subseteq Members(n.planned_dependencies)
    /\ Members(n.planned_dependencies) \subseteq Members(t.execution_order)

BlockedNodeAccepted(n) ==
    /\ n.blocked_reason = "WaitingOnDependencies" =>
          n.missing_dependencies # <<>> /\ n.blocking_failure_summary = {}
    /\ n.blocked_reason = "WorkflowTerminalFailure" =>
          ~n.may_become_ready /\ n.blocking_failure_summary # {}
    /\ n.blocked_reason = "UpstreamPartial" => ~n.may_become_ready

SnapshotAccepted(t) ==
    LET ready   == {n.node_name : n \in Members(t.ready_nodes)}
        blocked == {n.node_name : n \in Members(t.blocked_nodes)}
    IN  /\ Distinct(t.execution_order)
        /\ is_prefix(t.completed_prefix, t.execution_order)
        /\ t.next_candidate_node_name \subseteq
              Members(t.execution_order) \ Members(t.completed_prefix)
        /\ Cardinality(ready \cup blocked) = Len(t.ready_nodes) + Len(t.blocked_nodes)
        /\ \A n \in Members(t.ready_nodes) : PlacedNode(t, n, n.satisfied_dependencies)
        /\ \A n \in Members(t.blocked_nodes) :
              PlacedNode(t, n, n.missing_dependencies) /\ BlockedNodeAccepted(n)
        /\ t.workflow_status = "Completed" =>
              t.snapshot_status = "TerminalCompleted" /\ t.workflow_failure_summary = {}
        /\ t.workflow_status = "Failed" =>
              t.snapshot_status = "TerminalFailed" /\ t.workflow_failure_summary # {}
        /\ t.workflow_status = "Partial" =>
              /\ t.snapshot_status \notin {"TerminalCompleted", "TerminalFailed"}
              /\ t.workflow_failure_summary = {}
        /\ t.snapshot_status = "Runnable" =>
              ready # {} /\ t.next_candidate_node_name \subseteq ready
        /\ t.snapshot_status = "Waiting" =>
              ready = {} /\ blocked # {} /\ t.next_candidate_node_name \subseteq blocked
        /\ t.snapshot_status \notin {"Runnable", "Waiting"} =>
              ready = {} /\ t.next_candidate_node_name = {}
        /\ t.snapshot_status = "TerminalCompleted" =>
              blocked = {} /\ t.completed_prefix = t.execution_order
=============================================================================
