-------------------------- MODULE ExecutionJournal --------------------------
(***************************************************************************)
(* build_execution_journal and validate_execution_journal                  *)
(* (pipeline/execution/execution_journal/journal.cpp), as functions of a   *)
(* runtime session and of a sequence of events.  The session is the record *)
(* of RuntimeSession; optional values are sets with at most one element.   *)
(***************************************************************************)
EXTENDS Dag

Event(kind, node, index, failure, dependencies, selectors) ==
    [kind |-> kind, node_name |-> node, execution_index |-> index,
     failure_summary |-> failure, satisfied_dependencies |-> dependencies,
     used_mock_selectors |-> selectors]

SessionNode(s, name) == CHOOSE n \in Members(s.nodes) : n.node_name = name

(* What an executed node ends with. *)
LastKind(n) ==
    IF n.status = "Completed" THEN "NodeCompleted"
    ELSE IF n.status = "Failed" /\ \E f \in n.failure_summary : f.kind = "MockMissing"
         THEN "MockMissing" ELSE "NodeFailed"

LastEvent(n) ==
    Event(LastKind(n), {n.node_name}, {n.execution_index}, n.failure_summary,
          n.satisfied_dependencies, n.used_mocks)

(* Ready, started, and settled. *)
NodeEvents(n) ==
    << Event("NodeBecameReady", {n.node_name}, {n.execution_index}, {}, n.satisfied_dependencies, <<>>),
       Event("NodeStarted", {n.node_name}, {n.execution_index}, {}, n.satisfied_dependencies, <<>>),
       LastEvent(n) >>

WorkflowEvents(s) ==
    IF s.workflow_status = "Completed" THEN <<Event("WorkflowCompleted", {}, {}, {}, <<>>, <<>>)>>
    ELSE IF s.workflow_status = "Failed"
         THEN <<Event("WorkflowFailed", {}, {}, s.failure_summary, <<>>, <<>>)>>
         ELSE <<>>

(* The three events of each node in execution order. *)
JournalOf(s) ==
    <<Event("SessionStarted", {}, {}, {}, <<>>, <<>>)>>
    \o [i \in 1 .. 3 * Len(s.execution_order) |->
           NodeEvents(SessionNode(s, s.execution_order[((i - 1) \div 3) + 1]))[((i - 1) % 3) + 1]]
    \o WorkflowEvents(s)
-----------------------------------------------------------------------------
NodeKinds   == {"NodeBecameReady", "NodeStarted", "NodeCompleted", "MockMissing", "NodeFailed"}
FailedKinds == {"MockMissing", "NodeFailed"}
LastKinds   == {"WorkflowCompleted", "WorkflowFailed"}

(* node_event_key, as a pair *)
Key(e) == <<e.node_name, e.execution_index>>

(* The kind of the event of a key before the i-th: its NodeEventPhase.     *)
PhaseBefore(events, i) ==
    LET earlier == {j \in 1 .. i - 1 : events[j].kind \in NodeKinds /\ Key(events[j]) = Key(events[i])}
    IN  IF earlier = {} THEN "None"
        ELSE events[CHOOSE j \in earlier : \A k \in earlier : k <= j].kind

(* The event is the last of its key. *)
IsLastOfKey(events, i) ==
    \A j \in i + 1 .. Len(events) : events[j].kind \in NodeKinds => Key(events[j]) # Key(events[i])

NodeEventAccepted(events, i) ==
    LET e == events[i]
    IN  /\ e.node_name # {} /\ e.execution_index # {}
        /\ \A j \in 1 .. i - 1 : events[j].kind \in NodeKinds =>
              \A k \in events[j].execution_index, l \in e.execution_index : k <= l
        /\ \A f \in e.failure_summary : f.node_name \in e.node_name
        /\ e.failure_summary # {} <=> e.kind \in FailedKinds
        /\ \A f \in e.failure_summary : f.kind = e.kind
        /\ e.kind = "NodeBecameReady" => PhaseBefore(events, i) = "None"
        /\ e.kind = "NodeStarted" => PhaseBefore(events, i) = "NodeBecameReady"
        /\ e.kind \in {"NodeCompleted"} \cup FailedKinds => PhaseBefore(events, i) = "NodeStarted"
        /\ IsLastOfKey(events, i) => e.kind \in {"NodeCompleted"} \cup FailedKinds

JournalAccepted(events) ==
    LET failed == \E i \in DOMAIN events : events[i].kind \in FailedKinds
        last   == {events[i].kind : i \in DOMAIN events} \cap LastKinds
    IN  /\ events # <<>>
        /\ events[1].kind = "SessionStarted"
        /\ \A i \in DOMAIN events :
              /\ Distinct(events[i].satisfied_dependencies)
              /\ Distinct(events[i].used_mock_selectors)
              /\ events[i].kind \in LastKinds => i = Len(events)
              /\ IF events[i].kind \in NodeKinds THEN NodeEventAccepted(events, i)
                 ELSE events[i].node_name = {} /\ events[i].execution_index = {}
              /\ events[i].kind \in {"SessionStarted", "WorkflowCompleted"} =>
                    events[i].failure_summary = {}
              /\ events[i].kind = "WorkflowFailed" =>
                    /\ events[i].failure_summary # {}
                    /\ \A f \in events[i].failure_summary : f.kind = "WorkflowFailed"
        /\ failed <=> "WorkflowFailed" \in last
=============================================================================
