-------------------------- MODULE WorkflowRuntime --------------------------
(***************************************************************************)
(* WorkflowRuntime::run (runtime/engine/workflow_runtime.cpp): sort the    *)
(* nodes of a workflow (ProgramIndex::topological_order of                 *)
(* compiler/ir/program_view.cpp), run the agent of each one in that order, *)
(* skip what depends on a failure, and evaluate the return value when      *)
(* nothing failed.                                                         *)
(*                                                                         *)
(* An agent's run is the outcome AgentRuntime gives it.  An iteration of   *)
(* the node loop that does not skip is two steps: it takes the node up,    *)
(* and it settles it.                                                      *)
(***************************************************************************)
EXTENDS Dag

CONSTANTS Id,         \* node names
          MaxNodes,   \* bound: nodes of the workflow
          MaxAfter    \* bound: names in one after list

ASSUME WorkflowAssumption ==
    /\ IsFiniteSet(Id)
    /\ MaxNodes \in Nat
    /\ MaxAfter \in Nat

VARIABLES
    order, after,        \* the declaration: node names, and the after list of each entry
    phase,               \* "declaring", "sorting", "running" or "returned"
    remaining_dependencies, ready, sorted_nodes,   \* topological_order
    status,              \* result.status
    node_status,         \* result.node_results: AgentStatus of each node
    execution_order,     \* result.execution_order
    current,             \* the node taken up, or {}
    failed_nodes, node_outputs,
    output               \* result.output is set

declared     == <<order, after>>
sorting      == <<remaining_dependencies, ready, sorted_nodes>>
progress     == <<node_status, execution_order, current, failed_nodes, node_outputs>>
workflowVars == <<declared, phase, sorting, status, progress, output>>

Nodes == Declared(order)
deps  == [n \in Id |-> UNION {Members(after[i]) : i \in {j \in DOMAIN order : order[j] = n}}]

Terminal == {"Failed", "QuotaExceeded", "InvalidTransition", "InfiniteLoop"}

WorkflowInit ==
    /\ order = <<>>
    /\ after = <<>>
    /\ phase = "declaring"
    /\ remaining_dependencies = [n \in Id |-> 0]
    /\ ready = <<>>
    /\ sorted_nodes = <<>>
    /\ status = "Completed"
    /\ node_status = [n \in Id |-> "None"]
    /\ execution_order = <<>>
    /\ current = {}
    /\ failed_nodes = {}
    /\ node_outputs = {}
    /\ output = FALSE

(* One more node in the declaration, perhaps under a name that is taken.   *)
Declare(n, list) ==
    /\ phase = "declaring"
    /\ Len(order) < MaxNodes
    /\ order' = Append(order, n)
    /\ after' = Append(after, list)
    /\ UNCHANGED <<phase, sorting, status, progress, output>>
-----------------------------------------------------------------------------
(* The workflow is not in the program. *)
NotFound ==
    /\ phase = "declaring"
    /\ order = <<>>
    /\ phase' = "returned"
    /\ status' = "NodeFailed"
    /\ UNCHANGED <<declared, sorting, progress, output>>

(* The return value of the workflow, when there is one. *)
EvalReturn ==
    \/ UNCHANGED <<status, output>>
    \/ status' = "EvalError" /\ UNCHANGED output
    \/ output' = TRUE /\ UNCHANGED status

EmptyWorkflow ==
    /\ phase = "declaring"
    /\ order = <<>>
    /\ phase' = "returned"
    /\ EvalReturn
    /\ UNCHANGED <<declared, sorting, progress>>

(* topological_order: dependency counts, with repetitions (the first entry *)
(* of a name gives its count), and the entries without dependencies.       *)
BeginSort ==
    /\ phase = "declaring"
    /\ order # <<>>
    /\ phase' = "sorting"
    /\ remaining_dependencies' =
          [n \in Id |-> IF n \in Nodes
                          THEN Len(after[CHOOSE i \in DOMAIN order :
                                            /\ order[i] = n
                                            /\ \A j \in 1 .. i - 1 : order[j] # n])
                          ELSE 0]
    /\ ready' = Picked(order, {i \in DOMAIN order : after[i] = <<>>})
    /\ UNCHANGED <<declared, sorted_nodes, status, progress, output>>

(* How often the entries of n up to the i-th name d. *)
Occurrences(n, d, i) ==
    Cardinality({p \in (1 .. i) \X (1 .. MaxAfter) :
                    order[p[1]] = n /\ p[2] \in DOMAIN after[p[1]] /\ after[p[1]][p[2]] = d})

(* What is left of n's count when d has been taken from the entries up to  *)
(* the i-th, never below zero.                                             *)
Decremented(n, d, i) ==
    IF remaining_dependencies[n] > Occurrences(n, d, i)
      THEN remaining_dependencies[n] - Occurrences(n, d, i) ELSE 0

(* The front of ready is processed: every entry that names it and is not   *)
(* processed itself loses it from its count, and joins ready if it is      *)
(* among the unlocked.                                                     *)
SortNode(d, unlocked) ==
    LET processed == Members(sorted_nodes) \cup {d}
    IN  /\ sorted_nodes' = Append(sorted_nodes, d)
        /\ remaining_dependencies' =
              [n \in Id |-> IF n \in Nodes \ processed
                              THEN Decremented(n, d, Len(order)) ELSE remaining_dependencies[n]]
        /\ ready' = Tail(ready) \o
              Picked(order, {i \in unlocked : /\ order[i] \notin processed
                                              /\ d \in Members(after[i])})
        /\ UNCHANGED <<declared, phase, status, progress, output>>

(* Slip: a node is ready as soon as one of its dependencies is sorted. *)
SortStepEarly ==
    /\ phase = "sorting"
    /\ ready # <<>>
    /\ Head(ready) \notin Members(sorted_nodes)
    /\ SortNode(Head(ready), DOMAIN order)

SortStep ==
    /\ phase = "sorting"
    /\ ready # <<>>
    /\ Head(ready) \notin Members(sorted_nodes)
    /\ SortNode(Head(ready), {i \in DOMAIN order : Decremented(order[i], Head(ready), i) = 0})

(* An entry that was processed before, or another one of its name. *)
SortAgain ==
    /\ phase = "sorting"
    /\ ready # <<>>
    /\ Head(ready) \in Members(sorted_nodes)
    /\ ready' = Tail(ready)
    /\ UNCHANGED <<declared, phase, remaining_dependencies, sorted_nodes, status,
                   progress, output>>

(* The order is incomplete: run() returns before any node is touched. *)
CycleFound ==
    /\ phase = "sorting"
    /\ ready = <<>>
    /\ Len(sorted_nodes) # Len(order)
    /\ phase' = "returned"
    /\ status' = "DependencyFailed"
    /\ UNCHANGED <<declared, sorting, progress, output>>

Sorted ==
    /\ phase = "sorting"
    /\ ready = <<>>
    /\ Len(sorted_nodes) = Len(order)
    /\ phase' = "running"
    /\ UNCHANGED <<declared, sorting, status, progress, output>>
-----------------------------------------------------------------------------
(* The node loop is at sorted_nodes[idx]. *)
At(n) ==
    /\ phase = "running"
    /\ current = {}
    /\ Len(execution_order) < Len(sorted_nodes)
    /\ n = sorted_nodes[Len(execution_order) + 1]

Worsen(verdict) == status' = IF status = "Completed" THEN verdict ELSE status

(* The node's entry in node_results and execution_order. *)
Report(n, s) ==
    /\ node_status' = [node_status EXCEPT ![n] = s]
    /\ execution_order' = Append(execution_order, n)
    /\ current' = {}

Fail(n, s) == Report(n, s) /\ failed_nodes' = failed_nodes \cup {n}

(* Slip: a skipped node does not pass the failure on. *)
SkipQuietly(n) ==
    /\ At(n)
    /\ deps[n] \cap failed_nodes # {}
    /\ Report(n, "Skipped")
    /\ Worsen("DependencyFailed")
    /\ UNCHANGED <<declared, phase, sorting, failed_nodes, node_outputs, output>>

(* A dependency failed.  node_results says Failed; the model keeps the     *)
(* skipped nodes apart.                                                    *)
Skip(n) ==
    /\ At(n)
    /\ deps[n] \cap failed_nodes # {}
    /\ Fail(n, "Skipped")
    /\ Worsen("DependencyFailed")
    /\ UNCHANGED <<declared, phase, sorting, node_outputs, output>>

TakeUp(n) ==
    /\ At(n)
    /\ deps[n] \cap failed_nodes = {}
    /\ current' = {n}
    /\ UNCHANGED <<declared, phase, sorting, status, node_status, execution_order,
                   failed_nodes, node_outputs, output>>

InputFails(n) ==
    /\ n \in current
    /\ status' = "EvalError"
    /\ Fail(n, "Failed")
    /\ UNCHANGED <<declared, phase, sorting, node_outputs, output>>

AgentMissing(n) ==
    /\ n \in current
    /\ status' = "NodeFailed"
    /\ Fail(n, "Failed")
    /\ UNCHANGED <<declared, phase, sorting, node_outputs, output>>

(* Completed, with or without an output. *)
AgentCompletes(n) ==
    /\ n \in current
    /\ Report(n, "Completed")
    /\ node_outputs' \in {node_outputs, node_outputs \cup {n}}
    /\ UNCHANGED <<declared, phase, sorting, status, failed_nodes, output>>

AgentFails(n, s) ==
    /\ n \in current
    /\ Worsen("NodeFailed")
    /\ Fail(n, s)
    /\ UNCHANGED <<declared, phase, sorting, node_outputs, output>>

Finish ==
    /\ phase = "running"
    /\ Len(execution_order) = Len(sorted_nodes)
    /\ phase' = "returned"
    /\ IF status = "Completed" THEN EvalReturn ELSE UNCHANGED <<status, output>>
    /\ UNCHANGED <<declared, sorting, progress>>

WorkflowNext ==
    \/ \E n \in Id : \E k \in 0 .. MaxAfter : \E list \in [1 .. k -> Id] : Declare(n, list)
    \/ NotFound \/ EmptyWorkflow \/ BeginSort \/ SortStep \/ SortAgain
    \/ CycleFound \/ Sorted \/ Finish
    \/ \E n \in Id :
          \/ Skip(n) \/ TakeUp(n) \/ InputFails(n) \/ AgentMissing(n) \/ AgentCompletes(n)
          \/ \E s \in Terminal : AgentFails(n, s)

WorkflowSpec == WorkflowInit /\ [][WorkflowNext]_workflowVars
-----------------------------------------------------------------------------
Results == {"None", "Skipped", "Completed"} \cup Terminal

WorkflowTypeOK ==
    /\ order \in Seq(Id)
    /\ phase \in {"declaring", "sorting", "running", "returned"}
    /\ remaining_dependencies \in [Id -> 0 .. MaxAfter]
    /\ ready \in Seq(Id) /\ sorted_nodes \in Seq(Id)
    /\ Len(sorted_nodes) <= Len(order)
    /\ status \in {"Completed", "NodeFailed", "DependencyFailed", "EvalError"}
    /\ node_status \in [Id -> Results]
    /\ failed_nodes \subseteq Id /\ node_outputs \subseteq Id
    /\ output \in BOOLEAN

(* run() goes on to its nodes exactly when the declaration is one that can *)
(* be scheduled: names are not repeated, dependencies are declared, and    *)
(* none is circular, however often an after list repeats a name; the sort  *)
(* never drives a count below zero.  The result says what                  *)
(* happened: the workflow completed just when every node did and its       *)
(* return value, if any, could be evaluated; a node is reported failed     *)
(* through its dependencies just when one of them was not completed, over  *)
(* any distance.  A skipped node never decides the status, because the     *)
(* failure that caused it came first: DependencyFailed is left to an order *)
(* that does not exist.                                                    *)
VerdictIsSound ==
    /\ WorkflowTypeOK
    /\ phase = "running" => IsDag(order, deps)
    /\ phase = "returned" /\ order # <<>> =>
          /\ Len(sorted_nodes) = Len(order) <=> IsDag(order, deps)
          /\ output => status = "Completed"
          /\ status = "Completed" => \A n \in Nodes : node_status[n] = "Completed"
          /\ status = "NodeFailed" => \E n \in Nodes : node_status[n] \in Terminal
          /\ status = "DependencyFailed" <=> ~IsDag(order, deps)
          /\ status # "DependencyFailed" => Members(execution_order) = Nodes
    /\ \A n \in Members(execution_order) :
          node_status[n] = "Skipped" <=>
              \E d \in deps[n] : node_status[d] \in Terminal \cup {"Skipped"}

(* The sequential runtime keeps the contract of the threaded scheduler in  *)
(* its continue-on-error mode.                                             *)
ContractStatus ==
    [n \in Id |-> IF n \in current THEN "Running"
                  ELSE IF node_status[n] = "None" THEN "Pending"
                  ELSE IF node_status[n] \in Terminal THEN "Failed" ELSE node_status[n]]

ContractCall ==
    CASE phase \in {"declaring", "sorting"} -> "building"
      [] phase = "running" -> "running"
      [] OTHER -> IF order = <<>> THEN "building"
                  ELSE IF Len(sorted_nodes) = Len(order) THEN "done" ELSE "rejected"

ContractVerdict ==
    /\ phase = "returned"
    /\ order # <<>>
    /\ \A n \in Nodes : node_status[n] = "Completed"

Contract == INSTANCE DagExecution
    WITH policy <- "ContinueOnError", call <- ContractCall,
         status <- ContractStatus, verdict <- ContractVerdict

(* Started, settled and skipped as DagExecution allows. *)
ImplementsContract == Contract!Spec
=============================================================================
