----------------------------- MODULE AuditReport -----------------------------
(***************************************************************************)
(* The dry run of a workflow against the same mocks                        *)
(* (pipeline/execution/dry_run/runner.cpp), and the audit report that      *)
(* compares its trace with session, journal and replay view                *)
(* (pipeline/observation/audit_report/report.cpp).  The dry run executes   *)
(* every node whatever the fixtures say; it asks for a mock behind every   *)
(* binding, and for a binding behind every mock.                           *)
(***************************************************************************)
EXTENDS RuntimeSession, ReplayView

(* validate_capability_mock_set: no binding without a mock, and no mock    *)
(* that find_mock_for_binding never returns.                               *)
MockSetAccepted ==
    LET used == UNION {MockFor(c) : c \in UNION {Members(bindings[n]) : n \in Nodes}}
    IN  /\ \A n \in Nodes : \A c \in Members(bindings[n]) : MockFor(c) # {}
        /\ DOMAIN mocks \subseteq used

(* The loop of run_local_dry_run: the queue, the counts and what was       *)
(* executed, at first and from one node to the next.  What was executed    *)
(* is passed over.                                                         *)
DryRunStart ==
    [ready |-> Picked(order, {i \in DOMAIN order : after[order[i]] = <<>>}),
     left  |-> [n \in Id |-> Len(after[n])],
     done  |-> <<>>]

DryRunNode(s) ==
    LET n        == Head(s.ready)
        executed == Members(s.done) \cup {n}
        waiting  == {m \in Nodes : n \in deps[m] /\ m \notin executed}
        left     == [m \in Id |-> IF m \in waiting /\ s.left[m] > 0
                                    THEN s.left[m] - 1 ELSE s.left[m]]
        queue    == Tail(s.ready) \o
                    Picked(order, {i \in DOMAIN order : order[i] \in waiting /\ left[order[i]] = 0})
    IN  IF s.ready = <<>> THEN s
        ELSE [ready |-> Picked(queue, {i \in DOMAIN queue : queue[i] \notin executed}),
              left  |-> left,
              done  |-> Append(s.done, n)]

DryRun[k \in 0 .. Len(order)] ==
    IF k = 0 THEN DryRunStart ELSE DryRunNode(DryRun[k - 1])

DryRunOrder == DryRun[Len(order)].done

(* find_mock_for_binding, for each binding of the node *)
MockResults(n) ==
    LET mocked == Picked(bindings[n], {i \in DOMAIN bindings[n] : MockFor(bindings[n][i]) # {}})
    IN  [i \in DOMAIN mocked |-> CHOOSE s \in MockFor(mocked[i]) : TRUE]

(* run_local_dry_run returns a trace, and which. *)
Traceable == PlanAccepted /\ MockSetAccepted /\ Len(DryRunOrder) = Len(order)

TraceOf(executed) ==
    [execution_order |-> executed,
     nodes |-> [i \in DOMAIN executed |->
                   [node_name |-> executed[i], execution_index |-> i - 1,
                    mock_result_selectors |-> MockResults(executed[i])]]]
-----------------------------------------------------------------------------
CountOf(events, kinds) ==
    Cardinality({i \in DOMAIN events : events[i].kind \in kinds})

JournalSummary(events) ==
    [total_events              |-> Len(events),
     node_completed_events     |-> CountOf(events, {"NodeCompleted"}),
     node_failed_events        |-> CountOf(events, FailedKinds),
     workflow_completed_events |-> CountOf(events, {"WorkflowCompleted"}),
     workflow_failed_events    |-> CountOf(events, {"WorkflowFailed"}),
     completed_node_order      |-> JournalCompletedOrder(events)]

(* Slip: what did not complete has failed. *)
ConclusionOfIncomplete(s) ==
    IF s.workflow_status = "Completed" THEN "Passed" ELSE "RuntimeFailed"

Conclusion(s) ==
    IF s.workflow_status = "Completed" THEN "Passed"
    ELSE IF s.workflow_status = "Failed" THEN "RuntimeFailed" ELSE "Partial"

(* build_audit_report *)
AuditOf(s, events, trace, r) ==
    [conclusion      |-> Conclusion(s),
     execution_order |-> r.execution_order,
     plan_nodes      |-> [n \in Nodes |-> after[n]],
     workflow_status |-> s.workflow_status,
     session_nodes   |-> s.nodes,
     journal_summary |-> JournalSummary(events),
     trace_summary   |-> trace]

(* What build_audit_report compares itself: the trace goes on where the    *)
(* session ended, and each executed node has its place in the trace and    *)
(* used there the mocks that it used in the session.  The code compares    *)
(* two lists; both are in the order of the node's bindings.                *)
TraceMatchesReplay(trace, r) ==
    /\ is_prefix(r.execution_order, trace.execution_order)
    /\ \A i \in DOMAIN r.nodes : \E j \in DOMAIN trace.nodes :
          /\ trace.nodes[j].node_name = r.nodes[i].node_name
          /\ trace.nodes[j].execution_index = r.nodes[i].execution_index
          /\ Members(trace.nodes[j].mock_result_selectors) = r.nodes[i].used_mock_selectors

(* The session nodes that the audited plan has to account for. *)
SessionNodesAccepted(a) ==
    LET nodes == a.session_nodes
        executed == {i \in DOMAIN nodes : nodes[i].status \in Statuses}
    IN  /\ \A i, j \in DOMAIN nodes : nodes[i].node_name = nodes[j].node_name => i = j
        /\ \A i, j \in executed : nodes[i].execution_index = nodes[j].execution_index => i = j
        /\ \A i \in DOMAIN nodes :
              /\ nodes[i].node_name \in DOMAIN a.plan_nodes
              /\ Distinct(nodes[i].satisfied_dependencies)
              /\ Members(nodes[i].satisfied_dependencies) \subseteq
                    Members(a.plan_nodes[nodes[i].node_name])
              /\ Distinct(nodes[i].used_mocks)
              /\ a.workflow_status = "Completed" => nodes[i].status = "Completed"
        /\ \A k \in DOMAIN a.execution_order : \E i \in DOMAIN nodes :
              nodes[i].node_name = a.execution_order[k] /\ nodes[i].execution_index = k - 1

(* The counts of the journal against the session's nodes and verdict. *)
JournalSummaryAccepted(a) ==
    LET j      == a.journal_summary
        status == [n \in {m.node_name : m \in Members(a.session_nodes)} |->
                      (CHOOSE m \in Members(a.session_nodes) : m.node_name = n).status]
        count(x) == Cardinality({n \in DOMAIN status : status[n] = x})
    IN  /\ j.total_events > 0
        /\ j.node_completed_events = count("Completed")
        /\ j.completed_node_order =
              Picked(a.execution_order,
                     {k \in DOMAIN a.execution_order : status[a.execution_order[k]] = "Completed"})
        /\ a.workflow_status = "Completed" =>
              /\ a.conclusion = "Passed"
              /\ j.workflow_completed_events = 1 /\ j.workflow_failed_events = 0
              /\ j.node_failed_events = 0
        /\ a.workflow_status = "Failed" =>
              /\ a.conclusion = "RuntimeFailed"
              /\ j.workflow_completed_events = 0 /\ j.workflow_failed_events = 1
              /\ count("Failed") > 0 /\ j.node_failed_events > 0
        /\ a.workflow_status = "Partial" =>
              /\ a.conclusion = "Partial"
              /\ j.workflow_completed_events = 0 /\ j.workflow_failed_events = 0
              /\ j.node_failed_events = 0

(* validate_audit_report *)
AuditAccepted(a) ==
    /\ Distinct(a.execution_order)
    /\ \A n \in DOMAIN a.plan_nodes : Distinct(a.plan_nodes[n])
    /\ Members(a.execution_order) \subseteq DOMAIN a.plan_nodes
    /\ SessionNodesAccepted(a)
    /\ JournalSummaryAccepted(a)
    /\ Distinct(a.trace_summary.execution_order)
    /\ is_prefix(a.execution_order, a.trace_summary.execution_order)
    /\ \A n \in Members(a.trace_summary.nodes) : Distinct(n.mock_result_selectors)
    /\ Len(a.trace_summary.nodes) >= Len(a.execution_order)
==============================================================================
