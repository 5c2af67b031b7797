------------------------- MODULE ParallelScheduler -------------------------
(***************************************************************************)
(* ParallelScheduler::execute(): worker threads run the nodes of a         *)
(* dependency graph.  They share, under one mutex and one condition        *)
(* variable, a FIFO of ready nodes, the in-degrees, the failed set, the    *)
(* results, a completion counter and a stop flag.                          *)
(*                                                                         *)
(* Every critical section of the source is one action; what happens        *)
(* between two critical sections (the node's own code, its retries, the    *)
(* notify_all that follows an unlock) is an action of its own, so the      *)
(* workers interleave exactly where the mutex is free.  Waiting on the     *)
(* condition variable is the position "asleep"; notify_all sends every     *)
(* sleeper back to "wait", where it takes the mutex and looks again.       *)
(***************************************************************************)
EXTENDS Dag

CONSTANTS Id,          \* node identifiers
          NoNode,      \* a worker's node_id before its first pop
          MaxNodes,    \* bound: calls of add_node
          MaxThreads,  \* bound: the largest thread_count explored
          Attempts,    \* values of RetryConfig::max_attempts explored
          Modes        \* values of FailurePropagationMode explored

AllModes == {"FailFast", "FailGraceful", "ContinueOnError"}

ASSUME SchedulerAssumption ==
    /\ IsFiniteSet(Id)
    /\ NoNode \notin Id
    /\ MaxNodes \in Nat
    /\ MaxThreads \in Nat \ {0}
    /\ Attempts \subseteq Int
    /\ Modes \subseteq AllModes

Worker == 1 .. MaxThreads

VARIABLES
    order, deps, max_attempts,   \* nodes_: declaration order and contents
    thread_count, mode,          \* thread_count_ and mode_
    phase,                       \* where the caller of execute() is
    in_degree, ready_queue, failed_nodes, results_map,
    completed_count, stop_requested,     \* the state behind the mutex
    pc, node_id,                 \* each worker's position and current node
    attempts,                    \* calls of node->execute() so far, per node
    report, success              \* SchedulerResult

config  == <<order, deps, max_attempts, thread_count, mode>>
shared  == <<in_degree, ready_queue, failed_nodes, results_map,
             completed_count, stop_requested>>
outcome == <<report, success>>
vars    == <<config, phase, shared, pc, node_id, attempts, outcome>>

Nodes == Declared(order)
Size  == Len(order)
-----------------------------------------------------------------------------
(* The scheduler object before execute().  A thread count of zero becomes  *)
(* one.                                                                    *)
Init ==
    /\ order = <<>>
    /\ deps = [n \in Id |-> {}]
    /\ max_attempts = [n \in Id |-> 0]
    /\ \E requested \in 0 .. MaxThreads :
          thread_count = IF requested = 0 THEN 1 ELSE requested
    /\ mode \in Modes
    /\ phase = "building"
    /\ in_degree = [n \in Id |-> 0]
    /\ ready_queue = <<>>
    /\ failed_nodes = {}
    /\ results_map = [n \in Id |-> "None"]
    /\ completed_count = 0
    /\ stop_requested = FALSE
    /\ pc = [w \in Worker |-> "none"]
    /\ node_id = [w \in Worker |-> NoNode]
    /\ attempts = [n \in Id |-> 0]
    /\ report = [n \in Id |-> "None"]
    /\ success = FALSE

(* A dependency that the vector repeats is counted twice in in_degree and  *)
(* listed twice in adjacency, so that a set has all there is to it.        *)
AddNode(n, D, k) ==
    /\ phase = "building"
    /\ Size < MaxNodes
    /\ order' = Append(order, n)
    /\ deps' = [deps EXCEPT ![n] = @ \cup D]
    /\ max_attempts' = [max_attempts EXCEPT ![n] = k]
    /\ UNCHANGED <<thread_count, mode, phase, shared, pc, node_id, attempts,
                   outcome>>

(* validate_dag() refused the graph: execute() returns with success false  *)
(* and no node result.  VerdictIsExact (MCParallelScheduler): it refuses    *)
(* exactly the declaration lists that are no IsDag.                        *)
Reject ==
    /\ phase = "building"
    /\ ~IsDag(order, deps)
    /\ phase' = "rejected"
    /\ success' = FALSE
    /\ UNCHANGED <<config, shared, pc, node_id, attempts, report>>

(* std::min(thread_count_, nodes_.size()) *)
ActualThreads == IF thread_count < Size THEN thread_count ELSE Size

Roots == {n \in Nodes : deps[n] = {}}

(* Graph structures, the seeded queue (in the unspecified order of an      *)
(* unordered_map) and the launch of the threads.                           *)
Launch ==
    /\ phase = "building"
    /\ IsDag(order, deps)
    /\ phase' = "running"
    /\ in_degree' = [n \in Id |-> IF n \in Nodes THEN Cardinality(deps[n]) ELSE 0]
    /\ \E q \in Listings(Roots) : ready_queue' = q
    /\ pc' = [w \in Worker |-> IF w <= ActualThreads THEN "wait" ELSE "none"]
    /\ UNCHANGED <<config, failed_nodes, results_map, completed_count,
                   stop_requested, node_id, attempts, outcome>>
-----------------------------------------------------------------------------
(* The predicate of cv.wait, and the exit test that follows it. *)
Finished   == stop_requested \/ completed_count = Size
WaitIsOver == ready_queue # <<>> \/ Finished

Woken(p) == [w \in Worker |-> IF p[w] = "asleep" THEN "wait" ELSE p[w]]

At(w, position) == phase = "running" /\ pc[w] = position
Goto(w, position) == pc' = [pc EXCEPT ![w] = position]

Sleep(w) ==
    /\ At(w, "wait")
    /\ ~WaitIsOver
    /\ Goto(w, "asleep")
    /\ UNCHANGED <<config, phase, shared, node_id, attempts, outcome>>

(* A condition variable may wake a waiter that nobody notified. *)
SpuriousWake(w) ==
    /\ At(w, "asleep")
    /\ Goto(w, "wait")
    /\ UNCHANGED <<config, phase, shared, node_id, attempts, outcome>>

Exit(w) ==
    /\ At(w, "wait")
    /\ Finished
    /\ Goto(w, "exited")
    /\ UNCHANGED <<config, phase, shared, node_id, attempts, outcome>>

(* Taking the front of the queue, which leaves rest. *)
Take(w, rest) ==
    /\ At(w, "wait")
    /\ ready_queue # <<>>
    /\ node_id' = [node_id EXCEPT ![w] = Head(ready_queue)]
    /\ ready_queue' = rest
    /\ Goto(w, "popped")
    /\ UNCHANGED <<config, phase, in_degree, failed_nodes, results_map,
                   completed_count, stop_requested, attempts, outcome>>

Pop(w) == ~Finished /\ Take(w, Tail(ready_queue))

(* Slip: the dependency test is left out. *)
CheckNothing(w) ==
    /\ At(w, "popped")
    /\ Goto(w, "executing")
    /\ UNCHANGED <<config, phase, shared, node_id, attempts, outcome>>

(* The dependency test, in a critical section of its own. *)
CheckDeps(w) ==
    /\ At(w, "popped")
    /\ Goto(w, IF deps[node_id[w]] \cap failed_nodes # {}
                 THEN "skipping" ELSE "executing")
    /\ UNCHANGED <<config, phase, shared, node_id, attempts, outcome>>

(* The given nodes lose an edge; those that lose their last one are        *)
(* appended to the queue in the order of the adjacency list, which is the  *)
(* declaration order.                                                      *)
Decrement(losers) ==
    /\ in_degree' = [m \in Id |-> IF m \in losers THEN in_degree[m] - 1
                                                  ELSE in_degree[m]]
    /\ \E q \in Listings({m \in losers : in_degree[m] = 1}) :
          /\ InOrder(q, order)
          /\ ready_queue' = ready_queue \o q

Successors(n) == {m \in Nodes : n \in deps[m]}

(* Slip: every node loses an edge. *)
ReleaseAll(n) == Decrement(Nodes)

ReleaseSuccessors(n) == Decrement(Successors(n))

CommitSkipped(w) ==
    /\ At(w, "skipping")
    /\ results_map' = [results_map EXCEPT ![node_id[w]] = "Skipped"]
    /\ failed_nodes' = failed_nodes \cup {node_id[w]}
    /\ completed_count' = completed_count + 1
    /\ ReleaseSuccessors(node_id[w])
    /\ pc' = Woken([pc EXCEPT ![w] = "wait"])
    /\ UNCHANGED <<config, phase, stop_requested, node_id, attempts, outcome>>

(* One turn of the retry loop; node->execute() returns or throws. *)
TryOnce(w) ==
    /\ At(w, "executing")
    /\ attempts' = [attempts EXCEPT ![node_id[w]] = @ + 1]
    /\ pc' \in {[pc EXCEPT ![w] = "succeeded"], pc}
    /\ UNCHANGED <<config, phase, shared, node_id, outcome>>

(* Slip: the loop bound is inclusive. *)
AttemptOnceMore(w) ==
    TryOnce(w) /\ attempts[node_id[w]] <= max_attempts[node_id[w]]

Attempt(w) == TryOnce(w) /\ attempts[node_id[w]] < max_attempts[node_id[w]]

(* The retry loop ends without success; with max_attempts <= 0 it never    *)
(* calls the node at all.                                                  *)
GiveUp(w) ==
    /\ At(w, "executing")
    /\ attempts[node_id[w]] >= max_attempts[node_id[w]]
    /\ Goto(w, "failing")
    /\ UNCHANGED <<config, phase, shared, node_id, attempts, outcome>>

CommitCompleted(w) ==
    /\ At(w, "succeeded")
    /\ results_map' = [results_map EXCEPT ![node_id[w]] = "Completed"]
    /\ completed_count' = completed_count + 1
    /\ ReleaseSuccessors(node_id[w])
    /\ Goto(w, "notifying")
    /\ UNCHANGED <<config, phase, failed_nodes, stop_requested, node_id,
                   attempts, outcome>>

(* A failure is committed; if it stops the execution, stopped is where it  *)
(* leaves the workers.                                                     *)
FailThen(w, stops, stopped) ==
    /\ At(w, "failing")
    /\ results_map' = [results_map EXCEPT ![node_id[w]] = "Failed"]
    /\ completed_count' = completed_count + 1
    /\ failed_nodes' = failed_nodes \cup {node_id[w]}
    /\ \/ /\ stops
          /\ stop_requested' = TRUE
          /\ pc' = stopped
          /\ UNCHANGED <<in_degree, ready_queue>>
       \/ /\ ~stops
          /\ ReleaseSuccessors(node_id[w])
          /\ Goto(w, "notifying")
          /\ UNCHANGED stop_requested
    /\ UNCHANGED <<config, phase, node_id, attempts, outcome>>

(* Slip: FailFast raises the flag without waking the sleepers. *)
CommitFailedQuietly(w) == FailThen(w, mode = "FailFast", [pc EXCEPT ![w] = "exited"])

(* Slip: FailFast only has the dependents skipped, as the other modes do. *)
CommitFailedLenient(w) == FailThen(w, FALSE, pc)

(* Only FailFast is told apart from the other modes. *)
CommitFailed(w) == FailThen(w, mode = "FailFast", Woken([pc EXCEPT ![w] = "exited"]))

(* notify_all, after the mutex was released. *)
Notify(w) ==
    /\ At(w, "notifying")
    /\ pc' = Woken([pc EXCEPT ![w] = "wait"])
    /\ UNCHANGED <<config, phase, shared, node_id, attempts, outcome>>

(* join() of every thread, then collection: a node without a result is     *)
(* reported as skipped.                                                    *)
Join ==
    /\ phase = "running"
    /\ \A w \in Worker : pc[w] \in {"none", "exited"}
    /\ phase' = "done"
    /\ report' = [n \in Id |->
                    CASE n \notin Nodes -> "None"
                      [] n \in Nodes /\ results_map[n] = "None" -> "Skipped"
                      [] OTHER -> results_map[n]]
    /\ success' = (failed_nodes = {})
    /\ UNCHANGED <<config, shared, pc, node_id, attempts>>
-----------------------------------------------------------------------------
WorkerStep(w) ==
    \/ Sleep(w) \/ Exit(w) \/ Pop(w) \/ CheckDeps(w) \/ CommitSkipped(w)
    \/ Attempt(w) \/ GiveUp(w) \/ CommitCompleted(w) \/ CommitFailed(w)
    \/ Notify(w)

Next ==
    \/ \E n \in Id, D \in SUBSET Id, k \in Attempts : AddNode(n, D, k)
    \/ Reject
    \/ Launch
    \/ \E w \in Worker : WorkerStep(w) \/ SpuriousWake(w)
    \/ Join

(* Every thread that can take a step takes one: the mutex is free between  *)
(* any two actions, and a node's execute() returns or throws.              *)
Fairness ==
    /\ \A w \in Worker : WF_vars(WorkerStep(w))
    /\ WF_vars(Join)

Spec == Init /\ [][Next]_vars /\ Fairness
-----------------------------------------------------------------------------
Settled == {"Completed", "Failed", "Skipped"}

Positions == {"none", "wait", "asleep", "popped", "skipping", "executing",
              "succeeded", "failing", "notifying", "exited"}

(* Positions in which a worker owns the node it popped. *)
Holding == {"popped", "skipping", "executing", "succeeded", "failing"}

TypeOK ==
    /\ order \in Seq(Id)
    /\ deps \in [Id -> SUBSET Id]
    /\ max_attempts \in [Id -> Int]
    /\ thread_count \in Worker
    /\ mode \in AllModes
    /\ phase \in {"building", "rejected", "running", "done"}
    /\ in_degree \in [Id -> Nat]
    /\ ready_queue \in Seq(Id)
    /\ failed_nodes \subseteq Id
    /\ results_map \in [Id -> Settled \cup {"None"}]
    /\ completed_count \in Nat
    /\ stop_requested \in BOOLEAN
    /\ pc \in [Worker -> Positions]
    /\ node_id \in [Worker -> Id \cup {NoNode}]
    /\ attempts \in [Id -> Nat]
    /\ report \in [Id -> Settled \cup {"None"}]
    /\ success \in BOOLEAN

Queued == Members(ready_queue)
Held(w) == IF pc[w] \in Holding THEN {node_id[w]} ELSE {}

(* A node's code runs, and its result is committed as Completed or Failed, *)
(* only when every node it depends on has completed.  The dependency test  *)
(* and the run happen after two separate unlocks.                          *)
RunsAfterDependencies ==
    \A w \in Worker : pc[w] \in {"executing", "succeeded", "failing"} =>
        \A d \in deps[node_id[w]] : results_map[d] = "Completed"

(* A node is in one place at a time: in the queue once, with one worker,   *)
(* or settled.  No node is run or counted twice.                           *)
OneOwner ==
    /\ Distinct(ready_queue)
    /\ \A w \in Worker : Held(w) \cap Queued = {}
    /\ \A v, w \in Worker : v # w => Held(v) \cap Held(w) = {}
    /\ \A n \in Queued \cup (UNION {Held(w) : w \in Worker}) :
          results_map[n] = "None"

(* The counter the workers compare with nodes_.size() to leave counts the  *)
(* settled nodes.                                                          *)
CountIsExact ==
    completed_count = Cardinality({n \in Id : results_map[n] # "None"})

(* Across all workers and retries a node is called at most max_attempts    *)
(* times, and is given up only when they are used up.  What execute()      *)
(* returns: success means that every node completed; a reported result is  *)
(* explained by its dependencies; a node is left unscheduled only by       *)
(* FailFast.                                                               *)
ReportIsSound ==
    /\ \A n \in Id :
          /\ attempts[n] > 0 => attempts[n] <= max_attempts[n]
          /\ results_map[n] = "Completed" => attempts[n] > 0
          /\ results_map[n] = "Failed" => attempts[n] >= max_attempts[n]
          /\ results_map[n] = "Skipped" => attempts[n] = 0
    /\ phase = "done" =>
        /\ success <=> \A n \in Nodes : report[n] = "Completed"
        /\ \A n \in Nodes :
              /\ report[n] \in Settled
              /\ report[n] \in {"Completed", "Failed"} =>
                    \A d \in deps[n] : report[d] = "Completed"
              /\ report[n] = "Skipped" =>
                    \/ \E d \in deps[n] : report[d] \in {"Failed", "Skipped"}
                    \/ mode = "FailFast" /\ \E d \in Nodes : report[d] = "Failed"

(* What holds while the caller has not started the workers. *)
NotStarted ==
    phase \in {"building", "rejected"} =>
        /\ pc = [w \in Worker |-> "none"]
        /\ ready_queue = <<>>
        /\ results_map = [n \in Id |-> "None"]
        /\ attempts = [n \in Id |-> 0]
        /\ failed_nodes = {}
        /\ completed_count = 0
        /\ ~stop_requested
        /\ success = FALSE

(* Nodes whose commit released their successors: all but a failure that    *)
(* stopped the execution.                                                  *)
Released ==
    {n \in Id : \/ results_map[n] \in {"Completed", "Skipped"}
                \/ results_map[n] = "Failed" /\ mode # "FailFast"}

(* The graph the workers see, and the in-degrees: the number of            *)
(* dependencies that have not been released.                               *)
GraphInv ==
    phase \in {"running", "done"} =>
        /\ Distinct(order)
        /\ Closed(order, deps)
        /\ \A n \in Nodes : in_degree[n] = Cardinality(deps[n] \ Released)

(* Nodes leave their dependencies behind before they are queued. *)
Reached == Queued \cup (UNION {Held(w) : w \in Worker})
             \cup {n \in Id : results_map[n] # "None"}

ReachedInv ==
    /\ Reached \subseteq Nodes
    /\ \A n \in Reached : in_degree[n] = 0

FailedInv ==
    /\ failed_nodes = {n \in Id : results_map[n] \in {"Failed", "Skipped"}}
    /\ stop_requested <=> mode = "FailFast" /\ \E n \in Id : results_map[n] = "Failed"

(* A settled node, and one about to settle, is explained by its            *)
(* dependencies.                                                           *)
ExplainedInv ==
    /\ \A n \in Id : results_map[n] \in {"Completed", "Failed"} =>
          \A d \in deps[n] : results_map[d] = "Completed"
    /\ \A n \in Id : results_map[n] = "Skipped" =>
          \E d \in deps[n] : results_map[d] \in {"Failed", "Skipped"}
    /\ \A w \in Worker : pc[w] = "skipping" =>
          \E d \in deps[node_id[w]] : results_map[d] \in {"Failed", "Skipped"}

(* The inductive invariant. *)
SafetyInv ==
    /\ TypeOK /\ NotStarted /\ GraphInv /\ ReachedInv /\ OneOwner
    /\ CountIsExact /\ FailedInv /\ ExplainedInv /\ RunsAfterDependencies

(* A sleeping worker is never forgotten: as long as one sleeps, there is   *)
(* nothing for it to do, or somebody is on the way to notify it.           *)
NoLostWakeup ==
    phase = "running" /\ (\E w \in Worker : pc[w] = "asleep") /\ WaitIsOver =>
        \E w \in Worker : pc[w] \in {"wait", "notifying"} \cup Holding

Running(w) == pc[w] \in {"executing", "succeeded", "failing"}

(* Calls are made only for nodes that run or have run, within the limit,   *)
(* and the retry loop is left with a reason.                               *)
AttemptsInv ==
    /\ \A n \in Id : attempts[n] > 0 =>
          /\ attempts[n] <= max_attempts[n]
          /\ \/ results_map[n] \in {"Completed", "Failed"}
             \/ \E w \in Worker : Running(w) /\ node_id[w] = n
    /\ \A w \in Worker :
          /\ pc[w] = "succeeded" => attempts[node_id[w]] > 0
          /\ pc[w] = "failing" => attempts[node_id[w]] >= max_attempts[node_id[w]]
    /\ \A n \in Id :
          /\ results_map[n] = "Completed" => attempts[n] > 0
          /\ results_map[n] = "Failed" => attempts[n] >= max_attempts[n]

(* A thread was started when there is a node, and leaves only when the     *)
(* work is over for good.                                                  *)
ExitInv ==
    /\ phase \in {"running", "done"} /\ Nodes # {} => pc[1] # "none"
    /\ \A w \in Worker : pc[w] = "exited" => Finished

(* What is left when the caller has joined the threads. *)
DoneInv ==
    phase = "done" =>
        /\ \A w \in Worker : pc[w] \in {"none", "exited"}
        /\ success <=> failed_nodes = {}
        /\ \A n \in Id : report[n] =
              IF n \notin Nodes THEN "None"
              ELSE IF results_map[n] = "None" THEN "Skipped" ELSE results_map[n]

(* Nobody sleeps through the end of the work without a notification under  *)
(* way, nor next to a queued node that no worker will get to.              *)
WakeInv ==
    phase = "running" /\ (\E w \in Worker : pc[w] = "asleep") =>
        /\ Finished => \E w \in Worker : pc[w] = "notifying"
        /\ ready_queue # <<>> =>
              \E w \in Worker : pc[w] \in {"wait", "notifying"} \cup Holding

(* The inductive invariant of the outcome. *)
OutcomeInv == SafetyInv /\ AttemptsInv /\ ExitInv /\ DoneInv /\ WakeInv

(* FailFast: "Stop all on first failure" (parallel_scheduler.hpp 12).  Not *)
(* more nodes fail than there are threads, because what fails after the    *)
(* first failure was with another worker when that was committed: nobody   *)
(* obtains a node from then on, and nobody has two.                        *)
Failures == {n \in Id : results_map[n] = "Failed"}

FailFastStops == mode = "FailFast" => Cardinality(Failures) <= ActualThreads

(* What FailFastStops rests on: once the flag is up, every failure has     *)
(* used up one worker.                                                     *)
Busy == {w \in Worker : pc[w] \in Holding}

StopInv ==
    /\ phase \in {"running", "done"} =>
          \A w \in Worker : pc[w] # "none" => w <= ActualThreads
    /\ stop_requested =>
          Cardinality(Failures) + Cardinality(Busy) <= ActualThreads

(* FailGraceful: "Complete running tasks, then stop" (13).  What runs when *)
(* the first failure is committed runs on other threads, so that the same  *)
(* bound would hold.                                                       *)
GracefulStops == mode = "FailGraceful" => Cardinality(Failures) <= ActualThreads

(* execute() returns.  Every worker that waits on the condition variable   *)
(* is eventually released, in all modes.                                   *)
Returns == phase = "running" ~> phase = "done"

(* The contract DagExecution, with a node Running from the moment a worker *)
(* has decided to execute it until its result is committed.                *)
StatusOf(n) ==
    IF phase = "done" THEN (IF report[n] = "None" THEN "Pending" ELSE report[n])
    ELSE IF results_map[n] # "None" THEN results_map[n]
    ELSE IF \E w \in Worker : Running(w) /\ node_id[w] = n
         THEN "Running" ELSE "Pending"

Contract ==
    INSTANCE DagExecution
    WITH policy <- mode, call <- phase, verdict <- success,
         status <- [n \in Id |-> StatusOf(n)]

(* execute() implements the contract: every critical section of a worker   *)
(* is one step of it or none.                                              *)
ImplementsContract == Contract!Spec
=============================================================================
