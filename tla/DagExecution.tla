---------------------------- MODULE DagExecution ----------------------------
(***************************************************************************)
(* What ParallelScheduler::execute() promises, without threads, queue or   *)
(* counters: the nodes of an acyclic graph are started, settled or skipped *)
(* one at a time in an order the dependencies allow, and the call returns  *)
(* when nothing runs any more.                                             *)
(***************************************************************************)
EXTENDS Dag

CONSTANT Id

VARIABLES order, deps,  \* the graph, built before the call
          policy,       \* FailurePropagationMode
          call,         \* "building", "rejected", "running" or "done"
          status,       \* NodeStatus of each node
          verdict       \* SchedulerResult::success

vars == <<order, deps, policy, call, status, verdict>>

Init ==
    /\ order \in Seq(Id)
    /\ deps \in [Id -> SUBSET Id]
    /\ policy \in {"FailFast", "FailGraceful", "ContinueOnError"}
    /\ call = "building"
    /\ status = [n \in Id |-> "Pending"]
    /\ verdict = FALSE

Build ==
    /\ call = "building"
    /\ order' \in Seq(Id)
    /\ deps' \in [Id -> SUBSET Id]
    /\ UNCHANGED <<policy, call, status, verdict>>

Call ==
    /\ call = "building"
    /\ call' = IF IsDag(order, deps) THEN "running" ELSE "rejected"
    /\ UNCHANGED <<order, deps, policy, status, verdict>>

Become(n, s) ==
    /\ call = "running"
    /\ n \in Declared(order)
    /\ status' = [status EXCEPT ![n] = s]
    /\ UNCHANGED <<order, deps, policy, call, verdict>>

(* A node starts when everything it depends on has completed. *)
Start(n) ==
    /\ status[n] = "Pending"
    /\ \A d \in deps[n] : status[d] = "Completed"
    /\ Become(n, "Running")

Finish(n) ==
    /\ status[n] = "Running"
    /\ Become(n, "Completed") \/ Become(n, "Failed")

(* A node is skipped when something it depends on failed or was skipped.   *)
Skip(n) ==
    /\ status[n] = "Pending"
    /\ \E d \in deps[n] : status[d] \in {"Failed", "Skipped"}
    /\ Become(n, "Skipped")

(* The call returns when no node runs and none is left that could run.     *)
(* After a failure it may leave nodes alone, unless ContinueOnError was    *)
(* asked for: FailFast is to stop all, FailGraceful to complete what runs. *)
Return ==
    /\ call = "running"
    /\ \A n \in Declared(order) : status[n] # "Running"
    /\ \/ \A n \in Declared(order) : status[n] # "Pending"
       \/ policy # "ContinueOnError" /\ \E n \in Declared(order) : status[n] = "Failed"
    /\ call' = "done"
    /\ status' = [n \in Id |-> IF n \in Declared(order) /\ status[n] = "Pending"
                                 THEN "Skipped" ELSE status[n]]
    /\ verdict' = (\A n \in Declared(order) : status[n] = "Completed")
    /\ UNCHANGED <<order, deps, policy>>

Next ==
    \/ Build \/ Call \/ Return
    \/ \E n \in Id : Start(n) \/ Finish(n) \/ Skip(n)

Spec == Init /\ [][Next]_vars
=============================================================================
