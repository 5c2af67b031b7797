----------------------------- MODULE ReplayView -----------------------------
(***************************************************************************)
(* build_replay_view and validate_replay_view                              *)
(* (pipeline/execution/replay_view/replay.cpp): what plan, session and     *)
(* journal say of each executed node, and whether they agree.              *)
(***************************************************************************)
EXTENDS ExecutionJournal

Statuses == {"Completed", "Failed"}

(* validation::is_prefix, which the artifacts made of a replay view use. *)
is_prefix(prefix, full) ==
    Len(prefix) <= Len(full) /\ \A i \in DOMAIN prefix : prefix[i] = full[i]

(* The events of one execution of a node. *)
EventsOf(events, name, index) ==
    {events[i] : i \in {j \in DOMAIN events :
                            events[j].node_name = {name} /\ events[j].execution_index = {index}}}

CompletedOrder(s) ==
    Picked(s.execution_order,
           {i \in DOMAIN s.execution_order : SessionNode(s, s.execution_order[i]).status = "Completed"})

JournalCompletedOrder(events) ==
    LET done == Picked(events, {i \in DOMAIN events : events[i].kind = "NodeCompleted"})
    IN  [i \in DOMAIN done |-> CHOOSE n \in done[i].node_name : TRUE]

Progression(after, n, found) ==
    LET ends == {e \in found : e.kind \in {"NodeCompleted"} \cup FailedKinds}
    IN  [node_name |-> n.node_name, execution_index |-> n.execution_index,
         planned_dependencies |-> after[n.node_name],
         satisfied_dependencies |-> n.satisfied_dependencies,
         saw |-> {IF e.kind \in FailedKinds THEN "NodeFailed" ELSE e.kind : e \in found},
         failure_summary |-> UNION {e.failure_summary : e \in ends},
         used_mock_selectors |-> UNION {Members(e.used_mock_selectors) : e \in ends},
         final_status |-> n.status]

(* The progression that a status calls for. *)
Expected(status) ==
    {"NodeBecameReady", "NodeStarted"} \cup
    {IF status = "Completed" THEN "NodeCompleted" ELSE "NodeFailed"}

ReplayStatus(s) ==
    IF s.workflow_status = "Completed" THEN "Consistent"
    ELSE IF s.workflow_status = "Failed" THEN "RuntimeFailed" ELSE "Partial"

ReplayOf(order, after, s, events) ==
    LET node(i) == SessionNode(s, s.execution_order[i])
        found(i) == EventsOf(events, node(i).node_name, node(i).execution_index)
    IN  [workflow_status |-> s.workflow_status,
         replay_status |-> ReplayStatus(s),
         workflow_failure_summary |-> s.failure_summary,
         execution_order |-> s.execution_order,
         nodes |-> [i \in DOMAIN s.execution_order |-> Progression(after, node(i), found(i))],
         plan_matches_session |-> Members(s.execution_order) \subseteq Declared(order),
         session_matches_journal |->
             \A i \in DOMAIN s.execution_order :
                 LET p == Progression(after, node(i), found(i))
                 IN  /\ found(i) # {}
                     /\ p.final_status \in Statuses
                     /\ p.saw = Expected(p.final_status)
                     /\ p.final_status = "Failed" => p.failure_summary = node(i).failure_summary,
         journal_matches_execution_order |->
             JournalCompletedOrder(events) = CompletedOrder(s)]

ReplayAccepted(r) ==
    /\ Distinct(r.execution_order)
    /\ Len(r.execution_order) = Len(r.nodes)
    /\ \A i \in DOMAIN r.nodes :
          LET n == r.nodes[i]
          IN  /\ n.execution_index = i - 1
              /\ n.node_name = r.execution_order[i]
              /\ Distinct(n.planned_dependencies) /\ Distinct(n.satisfied_dependencies)
              /\ Members(n.satisfied_dependencies) \subseteq Members(n.planned_dependencies)
              /\ \A f \in n.failure_summary : f.node_name = n.node_name
              /\ n.final_status \in Statuses
              /\ n.saw = Expected(n.final_status)
              /\ n.failure_summary # {} <=> n.final_status = "Failed"
    /\ r.replay_status = ReplayStatus(r)
    /\ r.workflow_failure_summary # {} <=> r.workflow_status = "Failed"
    /\ r.plan_matches_session /\ r.session_matches_journal /\ r.journal_matches_execution_order
=============================================================================
