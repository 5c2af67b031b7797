--------------------------- MODULE RuntimeSession ---------------------------
(***************************************************************************)
(* build_runtime_session (pipeline/execution/runtime_session/session.cpp): *)
(* the workflow of an execution plan is run against a set of capability    *)
(* mocks, node by node, until it completes, a mock fails or is missing, or *)
(* a mock asks to stop halfway.  What it returns has passed                *)
(* validate_runtime_session, the first of the validators that guard the    *)
(* chain of artifacts.                                                     *)
(*                                                                         *)
(* Names, summaries, fixtures and messages are never empty here, and       *)
(* format versions are the current ones: the checks on them are left out.  *)
(* A capability stands for itself and for its binding key, which           *)
(* build_execution_plan keeps apart.  Optional values are sets with at     *)
(* most one element.                                                       *)
(***************************************************************************)
EXTENDS Dag

CONSTANTS Id,          \* node names
          Slots,       \* the capabilities, in the order of the package
          MaxNodes,    \* bound: nodes of the workflow
          MaxAfter,    \* bound: names in an after list
          MaxMocks     \* bound: mocks in the mock set

ASSUME SessionAssumption ==
    /\ IsFiniteSet(Id)
    /\ Slots \in Seq(Members(Slots)) /\ Distinct(Slots)
    /\ MaxNodes \in Nat /\ MaxAfter \in Nat /\ MaxMocks \in Nat

VARIABLES
    order, after,       \* WorkflowPlan: node names, and their after lists
    bindings,           \* WorkflowNodePlan::capability_bindings of each node
    mocks,              \* the mock set: the fixture behind each selector
    phase,              \* "planning", "running", "built" or "refused"
    ready_nodes,        \* what is left of ready_nodes
    remaining_dependencies,
    session             \* the RuntimeSession

plan == <<order, after, bindings>>
sessionVars == <<plan, mocks, phase, ready_nodes, remaining_dependencies, session>>

Nodes == Declared(order)
deps  == [n \in Id |-> Members(after[n])]

Selectors == {"binding", "capability"} \X Members(Slots)
Fixtures  == {"done", "fail", "partial"}
MockSets  == UNION {[S -> Fixtures] : S \in {T \in SUBSET Selectors : Cardinality(T) <= MaxMocks}}

NewSession ==
    [workflow_status |-> "Completed", failure_summary |-> {},
     execution_order |-> <<>>, nodes |-> <<>>]

SessionInit ==
    /\ order = <<>>
    /\ after = [n \in Id |-> <<>>]
    /\ bindings = [n \in Id |-> <<>>]
    /\ mocks = <<>>
    /\ phase = "planning"
    /\ ready_nodes = <<>>
    /\ remaining_dependencies = [n \in Id |-> 0]
    /\ session = NewSession

(* One more node of the plan: a list of dependencies, and the capabilities *)
(* of its agent in package order.                                          *)
PlanNode(n, list, capabilities) ==
    /\ phase = "planning"
    /\ Len(order) < MaxNodes
    /\ n \notin Nodes
    /\ order' = Append(order, n)
    /\ after' = [after EXCEPT ![n] = list]
    /\ bindings' = [bindings EXCEPT ![n] = Picked(Slots, {i \in DOMAIN Slots : Slots[i] \in capabilities})]
    /\ UNCHANGED <<mocks, phase, ready_nodes, remaining_dependencies, session>>
-----------------------------------------------------------------------------
(* validate_workflow_plan *)
PlanAccepted ==
    /\ order # <<>>
    /\ \A n \in Nodes : Distinct(after[n])
    /\ IsDag(order, deps)

(* workflow_references_mock_selector, for every mock *)
MocksReferenced(set) ==
    \A s \in DOMAIN set : \E n \in Nodes : s[2] \in Members(bindings[n])

Refuse ==
    /\ phase = "planning"
    /\ \/ ~PlanAccepted
       \/ \E set \in MockSets : ~MocksReferenced(set)
    /\ phase' = "refused"
    /\ UNCHANGED <<plan, mocks, ready_nodes, remaining_dependencies, session>>

Begin ==
    /\ phase = "planning"
    /\ PlanAccepted
    /\ phase' = "running"
    /\ \E set \in MockSets : MocksReferenced(set) /\ mocks' = set
    /\ ready_nodes' = Picked(order, {i \in DOMAIN order : after[order[i]] = <<>>})
    /\ remaining_dependencies' = [n \in Id |-> Len(after[n])]
    /\ UNCHANGED <<plan, session>>
-----------------------------------------------------------------------------
(* find_mock_for_binding: a mock of the binding goes before one of the     *)
(* capability.                                                             *)
MockFor(c) ==
    IF <<"binding", c>> \in DOMAIN mocks THEN {<<"binding", c>>}
    ELSE {<<"capability", c>>} \cap DOMAIN mocks

FixtureFor(c) ==
    IF MockFor(c) = {} THEN "missing" ELSE mocks[CHOOSE s \in MockFor(c) : TRUE]

(* The walk over a node's bindings ends at the first that has no mock or a *)
(* failing one; the partial ones are passed over.                          *)
Walked(n) ==
    LET bad == {i \in DOMAIN bindings[n] : FixtureFor(bindings[n][i]) \in {"missing", "fail"}}
    IN  SubSeq(bindings[n], 1,
               IF bad = {} THEN Len(bindings[n]) ELSE CHOOSE i \in bad : \A j \in bad : i <= j)

UsedMocks(n) ==
    LET walk == Walked(n)
        used == Picked(walk, {i \in DOMAIN walk : FixtureFor(walk[i]) \in {"done", "fail"}})
    IN  [i \in DOMAIN used |-> CHOOSE s \in MockFor(used[i]) : TRUE]

Failures(n) ==
    {[kind |-> IF FixtureFor(c) = "missing" THEN "MockMissing" ELSE "NodeFailed",
      node_name |-> n] : c \in {d \in Members(Walked(n)) : FixtureFor(d) \in {"missing", "fail"}}}

AsksToStop(n) ==
    /\ Failures(n) = {}
    /\ \E c \in Members(Walked(n)) : FixtureFor(c) = "partial"

(* The entry of an executed node. *)
Executed(n, status, failure) ==
    [node_name |-> n, status |-> status, execution_index |-> Len(session.execution_order),
     failure_summary |-> failure, satisfied_dependencies |-> after[n],
     capability_bindings |-> bindings[n], used_mocks |-> UsedMocks(n)]

ExecutedNames == Members(session.execution_order)

(* The entries of the nodes that were not reached, in plan order. *)
Unreached(executed, statuses) ==
    LET rest == Picked(order, {i \in DOMAIN order : order[i] \notin executed})
        satisfied(n) == {k \in DOMAIN after[n] : after[n][k] \in executed}
    IN  [i \in DOMAIN rest |->
            [node_name |-> rest[i], status |-> statuses[rest[i]], execution_index |-> 0,
             failure_summary |-> {},
             satisfied_dependencies |-> Picked(after[rest[i]], satisfied(rest[i])),
             capability_bindings |-> bindings[rest[i]], used_mocks |-> <<>>]]

(* The loop is at node n. *)
At(n) ==
    /\ phase = "running"
    /\ ready_nodes # <<>>
    /\ n = Head(ready_nodes)
    /\ n \notin ExecutedNames

FailNode(n) ==
    /\ At(n)
    /\ Failures(n) # {}
    /\ session' =
          [session EXCEPT
              !.workflow_status = "Failed",
              !.failure_summary = {[kind |-> "WorkflowFailed", node_name |-> n]},
              !.execution_order = Append(@, n),
              !.nodes = Append(@, Executed(n, "Failed", Failures(n)))
                        \o Unreached(ExecutedNames \cup {n}, [m \in Id |-> "Skipped"])]
    /\ phase' = "built"
    /\ UNCHANGED <<plan, mocks, ready_nodes, remaining_dependencies>>

(* Slip: what is ready is told from the nodes without dependencies. *)
StopEarlyRootsReady(n) ==
    /\ At(n)
    /\ AsksToStop(n)
    /\ session' =
          [session EXCEPT
              !.workflow_status = "Partial",
              !.nodes = @ \o Unreached(ExecutedNames,
                                       [m \in Id |-> IF after[m] = <<>> THEN "Ready" ELSE "Blocked"])]
    /\ phase' = "built"
    /\ UNCHANGED <<plan, mocks, ready_nodes, remaining_dependencies>>

StopEarly(n) ==
    /\ At(n)
    /\ AsksToStop(n)
    /\ session' =
          [session EXCEPT
              !.workflow_status = "Partial",
              !.nodes = @ \o Unreached(ExecutedNames,
                                       [m \in Id |-> IF remaining_dependencies[m] = 0
                                                        THEN "Ready" ELSE "Blocked"])]
    /\ phase' = "built"
    /\ UNCHANGED <<plan, mocks, ready_nodes, remaining_dependencies>>

(* n completes and everything that names it in its after list counts down, *)
(* becoming ready when that leaves one of the given counts.                *)
Completes(n, counts) ==
    LET waiting == {m \in Nodes : n \in deps[m] /\ m \notin ExecutedNames \cup {n}}
    IN  /\ session' = [session EXCEPT !.execution_order = Append(@, n),
                                      !.nodes = Append(@, Executed(n, "Completed", {}))]
        /\ remaining_dependencies' =
              [m \in Id |-> IF m \in waiting /\ remaining_dependencies[m] > 0
                              THEN remaining_dependencies[m] - 1 ELSE remaining_dependencies[m]]
        /\ ready_nodes' = Tail(ready_nodes) \o
              Picked(order, {i \in DOMAIN order : /\ order[i] \in waiting
                                                   /\ remaining_dependencies'[order[i]] \in counts})

(* Slip: the first dependency that completes makes a node ready. *)
CompleteNodeEagerly(n) ==
    /\ At(n)
    /\ Failures(n) = {} /\ ~AsksToStop(n)
    /\ Completes(n, Nat)
    /\ UNCHANGED <<plan, mocks, phase>>

CompleteNode(n) ==
    /\ At(n)
    /\ Failures(n) = {} /\ ~AsksToStop(n)
    /\ Completes(n, {0})
    /\ UNCHANGED <<plan, mocks, phase>>

(* The queue is empty and every node was executed. *)
Complete ==
    /\ phase = "running"
    /\ ready_nodes = <<>>
    /\ ExecutedNames = Nodes
    /\ phase' = "built"
    /\ UNCHANGED <<plan, mocks, ready_nodes, remaining_dependencies, session>>

SessionNext ==
    \/ \E n \in Id, capabilities \in SUBSET Members(Slots) :
          \E k \in 0 .. MaxAfter : \E list \in [1 .. k -> Id] : PlanNode(n, list, capabilities)
    \/ Refuse
    \/ Begin
    \/ \E n \in Id : FailNode(n) \/ StopEarly(n) \/ CompleteNode(n)
    \/ Complete

SessionSpec == SessionInit /\ [][SessionNext]_sessionVars
-----------------------------------------------------------------------------
(* validate_runtime_session.  The checks on one node: its lists repeat     *)
(* nothing, every mock it used belongs to a binding and, when it is        *)
(* completed, every binding had one; only a failed node has a failure, its *)
(* own; only an executed node is in the order, at its index.               *)
NodeAccepted(s, n) ==
    /\ Distinct(n.satisfied_dependencies)
    /\ Distinct(n.capability_bindings)
    /\ Distinct(n.used_mocks)
    /\ \A m \in Members(n.used_mocks) : m[2] \in Members(n.capability_bindings)
    /\ n.status = "Completed" =>
          \A c \in Members(n.capability_bindings) : \E m \in Members(n.used_mocks) : m[2] = c
    /\ \A f \in n.failure_summary : f.node_name = n.node_name /\ f.kind # "WorkflowFailed"
    /\ n.failure_summary # {} <=> n.status = "Failed"
    /\ IF n.status \in {"Completed", "Failed"}
         THEN /\ n.execution_index < Len(s.execution_order)
              /\ s.execution_order[n.execution_index + 1] = n.node_name
         ELSE n.used_mocks = <<>> /\ n.node_name \notin Members(s.execution_order)
    /\ n.status \in {"Ready", "Blocked"} => s.workflow_status = "Partial"
    /\ n.status = "Skipped" => s.workflow_status = "Failed"

SessionAccepted(s) ==
    LET nodes    == Members(s.nodes)
        statuses == {n.status : n \in nodes}
    IN  /\ Distinct(s.execution_order)
        /\ \A i, j \in DOMAIN s.nodes : s.nodes[i].node_name = s.nodes[j].node_name => i = j
        /\ \A n \in nodes : NodeAccepted(s, n)
        /\ \A i \in DOMAIN s.execution_order :
              \E n \in nodes : /\ n.node_name = s.execution_order[i]
                               /\ n.status \in {"Completed", "Failed"}
                               /\ n.execution_index = i - 1
        /\ s.workflow_status = "Completed" =>
              /\ s.failure_summary = {}
              /\ Len(s.execution_order) = Len(s.nodes)
              /\ statuses \subseteq {"Completed"}
        /\ s.workflow_status = "Failed" =>
              s.failure_summary # {} /\ "Failed" \in statuses
        /\ s.workflow_status = "Partial" =>
              /\ "Failed" \notin statuses /\ "Skipped" \notin statuses
              /\ statuses \ {"Completed"} # {}
-----------------------------------------------------------------------------
Built == phase = "built"

Completed == {n.node_name : n \in {m \in Members(session.nodes) : m.status = "Completed"}}

(* The builder's variables: nothing waits twice in the queue, and a count  *)
(* never exceeds the after list it was taken from (session.cpp 652-663).   *)
SessionTypeOK ==
    /\ phase \in {"planning", "running", "built", "refused"}
    /\ Members(ready_nodes) \subseteq Nodes /\ Distinct(ready_nodes)
    /\ \A n \in Id : remaining_dependencies[n] \in 0 .. Len(after[n])
    /\ ExecutedNames \subseteq Nodes

(* What the session says of the nodes is what happened: a node was         *)
(* executed on completed dependencies only, every node of the plan has one *)
(* entry, and what a stopped session calls ready is what could run next;   *)
(* and it passes its own validator (session.cpp 837-844).  Until then the  *)
(* queue never runs dry while nodes are left, and never offers a node that *)
(* was executed: the error "could not schedule all workflow nodes" and the *)
(* test on executed_nodes guard against nothing (688-690, 829-835).        *)
SessionIsExact ==
    /\ SessionTypeOK
    /\ phase = "running" =>
          /\ ready_nodes = <<>> => ExecutedNames = Nodes
          /\ Members(ready_nodes) \cap ExecutedNames = {}
    /\ Built =>
        /\ {n.node_name : n \in Members(session.nodes)} = Nodes
        /\ \A i \in DOMAIN session.execution_order :
              deps[session.execution_order[i]] \subseteq
                  {session.execution_order[j] : j \in 1 .. i - 1} \cap Completed
        /\ session.workflow_status = "Partial" =>
              \A n \in Members(session.nodes) : n.node_name \notin Completed =>
                  (n.status = "Ready" <=> deps[n.node_name] \subseteq Completed)
        /\ SessionAccepted(session)
=============================================================================
