---------------------- MODULE ParallelSchedulerProofs ----------------------
(***************************************************************************)
(* Proofs about ParallelScheduler, for every graph, every number of        *)
(* threads, every failure mode and every retry configuration.              *)
(***************************************************************************)
EXTENDS ParallelScheduler, DagProofs, FunctionTheorems

(* A listing of a set of identifiers is a sequence that has its members.   *)
LEMMA ListingFacts ==
    ASSUME NEW S \in SUBSET Id, NEW q \in Listings(S)
    PROVE  q \in Seq(Id) /\ Distinct(q) /\ Members(q) = S
<1>1. Cardinality(S) \in Nat
  BY SchedulerAssumption, FS_Subset, FS_CardinalityType
<1>2. q \in [1 .. Cardinality(S) -> Id] /\ Distinct(q) /\ Members(q) = S
  BY DEF Listings
<1>3. q \in Seq(Id)
  BY <1>1, <1>2, IsASeq
<1>4. QED
  BY <1>2, <1>3

-----------------------------------------------------------------------------
(* The initial states. *)
LEMMA InitSafety == Init => SafetyInv
<1> SUFFICES ASSUME Init PROVE SafetyInv
  OBVIOUS
<1>1. TypeOK
  <2>1. thread_count \in Worker /\ mode \in AllModes
    BY SchedulerAssumption DEF Init, Worker
  <2>2. /\ order \in Seq(Id) /\ ready_queue \in Seq(Id)
        /\ phase \in {"building", "rejected", "running", "done"}
        /\ failed_nodes \subseteq Id
    BY DEF Init
  <2>3. /\ deps \in [Id -> SUBSET Id] /\ max_attempts \in [Id -> Int]
        /\ in_degree \in [Id -> Nat] /\ attempts \in [Id -> Nat]
        /\ completed_count \in Nat
        /\ results_map \in [Id -> Settled \cup {"None"}]
        /\ report \in [Id -> Settled \cup {"None"}]
    BY DEF Init
  <2>4. /\ pc \in [Worker -> Positions]
        /\ node_id \in [Worker -> Id \cup {NoNode}]
    BY DEF Init, Positions
  <2>5. stop_requested \in BOOLEAN /\ success \in BOOLEAN
    BY Zenon DEF Init
  <2>6. QED
    BY <2>1, <2>2, <2>3, <2>4, <2>5 DEF TypeOK
<1>2. NotStarted /\ GraphInv
  BY DEF Init, NotStarted, GraphInv
<1>3. Queued = {} /\ \A w \in Worker : Held(w) = {}
  BY EmptySeq DEF Init, Queued, Members, Held, Holding
<1>4. Reached = {}
  BY <1>3 DEF Init, Reached
<1>5. OneOwner
  BY <1>3, EmptySeq DEF Init, OneOwner, Distinct
<1>6. {n \in Id : results_map[n] # "None"} = {}
  BY DEF Init
<1>7. CountIsExact
  BY <1>6, FS_EmptySet DEF Init, CountIsExact
<1>8. FailedInv /\ ExplainedInv /\ RunsAfterDependencies
  BY DEF Init, FailedInv, ExplainedInv, RunsAfterDependencies
<1>9. QED
  BY <1>1, <1>2, <1>4, <1>5, <1>7, <1>8 DEF SafetyInv, ReachedInv

(* Adding nodes and calling execute() on a graph that is refused. *)
LEMMA BuildSafety ==
    ASSUME SafetyInv,
           NEW n \in Id, NEW D \in SUBSET Id, NEW k \in Attempts,
           AddNode(n, D, k)
    PROVE  SafetyInv'
<1> USE DEF SafetyInv
<1>1. TypeOK'
  BY SchedulerAssumption, AppendProperties
  DEF AddNode, TypeOK, shared, outcome
<1>2. phase' = "building" /\ phase = "building"
  BY DEF AddNode
<1>3. NotStarted' /\ GraphInv'
  BY <1>2 DEF AddNode, NotStarted, GraphInv, shared, outcome
<1>4. /\ Queued' = {} /\ \A w \in Worker : Held(w)' = {}
      /\ \A m \in Id : results_map'[m] = "None"
      /\ ready_queue' = <<>>
  BY <1>2, <1>3, EmptySeq DEF Queued, Members, Held, Holding, NotStarted
<1>5. Reached' = {}
  BY <1>4 DEF Reached
<1>6. OneOwner'
  BY <1>4, EmptySeq DEF OneOwner, Distinct
<1>7. CountIsExact'
  BY DEF CountIsExact, AddNode, shared
<1>8. FailedInv'
  BY DEF FailedInv, AddNode, shared
<1>9. ExplainedInv' /\ RunsAfterDependencies'
  BY <1>2, <1>3, <1>4 DEF ExplainedInv, RunsAfterDependencies, NotStarted
<1>10. QED
  BY <1>1, <1>3, <1>5, <1>6, <1>7, <1>8, <1>9 DEF ReachedInv

LEMMA RejectSafety == SafetyInv /\ Reject => SafetyInv'
<1> SUFFICES ASSUME SafetyInv, Reject PROVE SafetyInv'
  OBVIOUS
<1> USE DEF SafetyInv, Reject, config, shared
<1>1. TypeOK' /\ NotStarted' /\ GraphInv'
  BY DEF TypeOK, NotStarted, GraphInv
<1>2. /\ Queued' = Queued /\ \A w \in Worker : Held(w)' = Held(w)
      /\ Reached' = Reached /\ Nodes' = Nodes
  BY DEF Queued, Held, Reached, Nodes
<1>3. ReachedInv' /\ OneOwner' /\ CountIsExact' /\ FailedInv'
  BY <1>2 DEF ReachedInv, OneOwner, CountIsExact, FailedInv
<1>4. ExplainedInv' /\ RunsAfterDependencies'
  BY DEF ExplainedInv, RunsAfterDependencies
<1>5. QED
  BY <1>1, <1>3, <1>4

LEMMA LaunchSafety == SafetyInv /\ Launch => SafetyInv'
<1> SUFFICES ASSUME SafetyInv, Launch PROVE SafetyInv'
  OBVIOUS
<1> USE DEF SafetyInv
<1>1. /\ phase = "building" /\ phase' = "running"
      /\ results_map = [n \in Id |-> "None"] /\ results_map' = results_map
      /\ deps' = deps /\ order' = order /\ Nodes' = Nodes /\ mode' = mode
      /\ failed_nodes' = {} /\ completed_count' = 0 /\ ~stop_requested'
      /\ Nodes \subseteq Id /\ deps \in [Id -> SUBSET Id]
  BY DEF Launch, NotStarted, config, Nodes, Declared, Members, TypeOK
<1>2. /\ Roots \subseteq Id
      /\ ready_queue' \in Seq(Id)
      /\ Distinct(ready_queue')
      /\ Queued' = Roots
  BY <1>1, ListingFacts DEF Launch, Roots, Queued
<1>3. \A n \in Id : Cardinality(deps[n]) \in Nat
  BY <1>1, SchedulerAssumption, FS_Subset, FS_CardinalityType
<1>4. /\ in_degree' \in [Id -> Nat]
      /\ \A n \in Nodes : in_degree'[n] = Cardinality(deps[n])
  BY <1>1, <1>3 DEF Launch
<1>5. /\ pc' \in [Worker -> Positions]
      /\ \A w \in Worker : pc'[w] \in {"wait", "none"}
  BY DEF Launch, Positions
<1>6. TypeOK'
  BY <1>1, <1>2, <1>4, <1>5 DEF TypeOK, Launch, config, outcome
<1>7. Released' = {}
  BY <1>1 DEF Released
<1>8. GraphInv'
  BY <1>1, <1>4, <1>7 DEF GraphInv, Launch, IsDag
<1>9. \A w \in Worker : Held(w)' = {}
  BY <1>5 DEF Held, Holding
<1>10. Reached' = Roots
  BY <1>1, <1>2, <1>9 DEF Reached
<1>11. ReachedInv'
  BY <1>1, <1>4, <1>10, FS_EmptySet DEF ReachedInv, Roots
<1>12. OneOwner'
  BY <1>1, <1>2, <1>9, <1>10 DEF OneOwner
<1>13. CountIsExact'
  BY <1>1 DEF CountIsExact, Launch
<1>14. FailedInv' /\ ExplainedInv' /\ RunsAfterDependencies'
  BY <1>1, <1>5 DEF FailedInv, ExplainedInv, RunsAfterDependencies
<1>15. QED
  BY <1>1, <1>6, <1>8, <1>11, <1>12, <1>13, <1>14 DEF NotStarted
-----------------------------------------------------------------------------
(* The dependencies of a node that was queued have all been released. *)
LEMMA ReachedReleased ==
    ASSUME SafetyInv, phase \in {"running", "done"}, NEW n \in Reached
    PROVE  /\ n \in Id
           /\ deps[n] \subseteq Released
<1>1. n \in Nodes /\ in_degree[n] = 0
  BY DEF SafetyInv, ReachedInv
<1>2. n \in Id /\ deps[n] \subseteq Id
  BY <1>1 DEF SafetyInv, TypeOK, Nodes, Declared, Members
<1>3. Cardinality(deps[n] \ Released) = 0
  BY <1>1 DEF SafetyInv, GraphInv
<1>4. IsFiniteSet(deps[n] \ Released)
  BY <1>2, SchedulerAssumption, FS_Subset
<1>5. deps[n] \ Released = {}
  BY <1>3, <1>4, FS_EmptySet
<1>6. QED
  BY <1>2, <1>5

(* Steps of a worker that leave the shared state and the ownership alone. *)
LEMMA QuietSafety ==
    ASSUME SafetyInv, phase = "running",
           UNCHANGED <<config, phase, shared, node_id, outcome>>,
           pc' \in [Worker -> Positions], attempts' \in [Id -> Nat],
           \A w \in Worker : Held(w)' = Held(w),
           RunsAfterDependencies',
           \A w \in Worker : pc'[w] = "skipping" =>
              \E d \in deps[node_id[w]] : results_map[d] \in {"Failed", "Skipped"}
    PROVE  SafetyInv'
<1> USE DEF SafetyInv, config, shared, outcome
<1>1. TypeOK' /\ NotStarted'
  BY DEF TypeOK, NotStarted
<1>2. Released' = Released /\ Nodes' = Nodes /\ Queued' = Queued
  BY DEF Released, Nodes, Queued
<1>3. GraphInv'
  BY <1>2 DEF GraphInv
<1>4. Reached' = Reached
  BY <1>2 DEF Reached
<1>5. ReachedInv' /\ OneOwner' /\ CountIsExact' /\ FailedInv'
  BY <1>2, <1>4 DEF ReachedInv, OneOwner, CountIsExact, FailedInv
<1>6. ExplainedInv'
  BY DEF ExplainedInv
<1>7. QED
  BY <1>1, <1>3, <1>5, <1>6

LEMMA QuietStepsSafety ==
    ASSUME SafetyInv, NEW w \in Worker,
           \/ Sleep(w) \/ SpuriousWake(w) \/ Exit(w) \/ Notify(w)
           \/ CheckDeps(w) \/ Attempt(w) \/ GiveUp(w)
    PROVE  SafetyInv'
<1> USE DEF At, Goto
<1>1. phase = "running" /\ UNCHANGED <<config, phase, shared, node_id, outcome>>
  BY DEF Sleep, SpuriousWake, Exit, Notify, CheckDeps, Attempt, TryOnce, GiveUp
<1>2. pc \in [Worker -> Positions] /\ attempts \in [Id -> Nat]
  BY DEF SafetyInv, TypeOK
<1>3. pc' \in [Worker -> Positions]
  BY <1>2 DEF Sleep, SpuriousWake, Exit, Notify, CheckDeps, Attempt, TryOnce, GiveUp,
              Woken, Positions
<1>4. attempts' \in [Id -> Nat]
  BY <1>2 DEF Sleep, SpuriousWake, Exit, Notify, CheckDeps, Attempt, TryOnce, GiveUp
<1>5. \A v \in Worker : (pc'[v] \in Holding) <=> (pc[v] \in Holding)
  BY <1>2 DEF Sleep, SpuriousWake, Exit, Notify, CheckDeps, Attempt, TryOnce, GiveUp,
              Woken, Holding
<1>6. \A v \in Worker : Held(v)' = Held(v)
  BY <1>1, <1>5 DEF Held
<1>7. ASSUME NEW v \in Worker, pc'[v] = "skipping"
      PROVE  \E d \in deps[node_id[v]] : results_map[d] \in {"Failed", "Skipped"}
  <2>1. CASE pc[v] = "skipping"
    BY <2>1 DEF SafetyInv, ExplainedInv
  <2>2. CASE pc[v] # "skipping"
    <3>1. v = w /\ deps[node_id[w]] \cap failed_nodes # {}
      BY <2>2, <1>7, <1>2 DEF Sleep, SpuriousWake, Exit, Notify, CheckDeps,
                              Attempt, TryOnce, GiveUp, Woken
    <3>2. QED
      BY <3>1 DEF SafetyInv, FailedInv
  <2>3. QED
    BY <2>1, <2>2
<1>8. ASSUME NEW v \in Worker, pc'[v] \in {"executing", "succeeded", "failing"},
             NEW d \in deps[node_id[v]]
      PROVE  results_map[d] = "Completed"
  <2>1. CASE pc[v] \in {"executing", "succeeded", "failing"}
    BY <2>1 DEF SafetyInv, RunsAfterDependencies
  <2>2. CASE pc[v] \notin {"executing", "succeeded", "failing"}
    <3>1. v = w /\ pc[w] = "popped" /\ deps[node_id[w]] \cap failed_nodes = {}
      BY <2>2, <1>8, <1>2 DEF Sleep, SpuriousWake, Exit, Notify, CheckDeps,
                              Attempt, TryOnce, GiveUp, Woken
    <3>2. node_id[w] \in Reached
      BY <3>1 DEF Reached, Held, Holding
    <3>3. d \in Released /\ d \notin failed_nodes
      BY <3>1, <3>2, <1>1, ReachedReleased
    <3>4. QED
      BY <3>3 DEF SafetyInv, FailedInv, Released
  <2>3. QED
    BY <2>1, <2>2
<1>9. RunsAfterDependencies'
  BY <1>1, <1>8 DEF RunsAfterDependencies, config, shared
<1>10. QED
  BY <1>1, <1>3, <1>4, <1>6, <1>7, <1>9, QuietSafety

LEMMA PopSafety ==
    ASSUME SafetyInv, NEW w \in Worker, Pop(w)
    PROVE  SafetyInv'
<1> DEFINE n == Head(ready_queue)
<1> USE DEF SafetyInv
<1>1. /\ ready_queue \in Seq(Id) /\ ready_queue # <<>> /\ Distinct(ready_queue)
      /\ pc \in [Worker -> Positions] /\ pc[w] = "wait"
      /\ node_id \in [Worker -> Id \cup {NoNode}] /\ phase = "running"
  BY DEF TypeOK, OneOwner, Pop, Take, At
<1>2. /\ n \in Id /\ n \in Queued
      /\ ready_queue' \in Seq(Id) /\ Distinct(ready_queue')
      /\ Queued' = Queued \ {n}
  BY <1>1, TailMembers DEF Pop, Take, Queued
<1>3. /\ pc' = [pc EXCEPT ![w] = "popped"]
      /\ node_id' = [node_id EXCEPT ![w] = n]
      /\ UNCHANGED <<config, phase, in_degree, failed_nodes, results_map,
                     completed_count, stop_requested, attempts, outcome>>
  BY DEF Pop, Take, Goto
<1>4. TypeOK'
  BY <1>1, <1>2, <1>3 DEF TypeOK, config, outcome, Positions
<1>5. /\ Held(w)' = {n} /\ Held(w) = {}
      /\ \A v \in Worker : v # w => Held(v)' = Held(v)
  BY <1>1, <1>3 DEF Held, Holding
<1>6. NotStarted' /\ GraphInv' /\ CountIsExact' /\ FailedInv'
  BY <1>1, <1>3
  DEF NotStarted, GraphInv, CountIsExact, FailedInv, Released, Nodes, config
<1>7. Reached' = Reached
  BY <1>2, <1>3, <1>5 DEF Reached
<1>8. ReachedInv'
  BY <1>3, <1>7 DEF ReachedInv, Nodes, config
<1>9. OneOwner'
  <2>1. \A v \in Worker : Held(v)' \cap Queued' = {}
    BY <1>2, <1>5 DEF OneOwner
  <2>2. \A u, v \in Worker : u # v => Held(u)' \cap Held(v)' = {}
    BY <1>2, <1>5 DEF OneOwner
  <2>3. \A m \in (Queued \cup (UNION {Held(v) : v \in Worker}))' :
           results_map'[m] = "None"
    BY <1>2, <1>3, <1>5 DEF OneOwner
  <2>4. QED
    BY <1>2, <2>1, <2>2, <2>3 DEF OneOwner
<1>10. ExplainedInv' /\ RunsAfterDependencies'
  BY <1>1, <1>3 DEF ExplainedInv, RunsAfterDependencies, config
<1>11. QED
  BY <1>4, <1>6, <1>8, <1>9, <1>10
-----------------------------------------------------------------------------
(* A worker that holds n: n is declared, has no result, and nobody else    *)
(* has it.                                                                 *)
LEMMA HolderFacts ==
    ASSUME SafetyInv, phase = "running", NEW w \in Worker, pc[w] \in Holding
    PROVE  /\ node_id[w] \in Reached
           /\ node_id[w] \in Nodes
           /\ node_id[w] \in Id
           /\ results_map[node_id[w]] = "None"
           /\ node_id[w] \notin Queued
           /\ \A v \in Worker \ {w} : node_id[w] \notin Held(v)
<1>1. Held(w) = {node_id[w]}
  BY DEF Held
<1>2. node_id[w] \in Reached
  BY <1>1 DEF Reached
<1>3. node_id[w] \in Nodes /\ node_id[w] \in Id
  BY <1>2, ReachedReleased DEF SafetyInv, ReachedInv
<1>4. QED
  BY <1>1, <1>2, <1>3 DEF SafetyInv, OneOwner

(* What a commit that releases the successors of n does to the in-degrees  *)
(* and to the queue.                                                       *)
LEMMA ReleaseFacts ==
    ASSUME SafetyInv, phase = "running", NEW w \in Worker, pc[w] \in Holding,
           NEW n, n = node_id[w], NEW s \in Settled,
           results_map' = [results_map EXCEPT ![n] = s],
           s = "Failed" => mode # "FailFast",
           UNCHANGED config,
           ReleaseSuccessors(n)
    PROVE  /\ in_degree' \in [Id -> Nat]
           /\ Released' = Released \cup {n}
           /\ \A m \in Nodes : in_degree'[m] = Cardinality(deps[m] \ Released')
           /\ \A m \in Reached : in_degree'[m] = 0
           /\ ready_queue' \in Seq(Id)
           /\ Distinct(ready_queue')
           /\ \E New \in SUBSET Nodes :
                 /\ New \cap Reached = {}
                 /\ \A m \in New : in_degree'[m] = 0
                 /\ Queued' = Queued \cup New
<1> DEFINE New == {m \in Nodes : n \in deps[m] /\ in_degree[m] = 1}
<1>1. /\ n \in Reached /\ n \in Nodes /\ n \in Id
      /\ results_map[n] = "None" /\ n \notin Queued
  BY HolderFacts
<1>2. /\ in_degree \in [Id -> Nat] /\ deps \in [Id -> SUBSET Id]
      /\ results_map \in [Id -> Settled \cup {"None"}]
      /\ ready_queue \in Seq(Id) /\ Distinct(ready_queue)
      /\ Nodes \subseteq Id /\ Reached \subseteq Nodes
      /\ \A m \in Reached : in_degree[m] = 0
      /\ \A m \in Nodes : in_degree[m] = Cardinality(deps[m] \ Released)
  <2>1. /\ TypeOK /\ Distinct(ready_queue)
        /\ Reached \subseteq Nodes /\ \A m \in Reached : in_degree[m] = 0
    BY DEF SafetyInv, OneOwner, ReachedInv
  <2>2. \A m \in Nodes : in_degree[m] = Cardinality(deps[m] \ Released)
    BY DEF SafetyInv, GraphInv
  <2>3. Nodes \subseteq Id
    BY <2>1 DEF TypeOK, Nodes, Declared, Members
  <2>4. QED
    BY <2>1, <2>2, <2>3 DEF TypeOK
<1>3. /\ deps' = deps /\ order' = order /\ mode' = mode /\ Nodes' = Nodes
  BY DEF config, Nodes
<1>4. Released' = Released \cup {n} /\ n \notin Released
  BY <1>1, <1>2, <1>3 DEF Released, Settled
<1>5. \A m \in Id : in_degree'[m] = IF m \in Nodes /\ n \in deps[m]
                                      THEN in_degree[m] - 1 ELSE in_degree[m]
  BY DEF ReleaseSuccessors, Decrement, Successors
<1>6. ASSUME NEW m \in Nodes, n \in deps[m]
      PROVE  /\ in_degree[m] >= 1
             /\ in_degree[m] - 1 = Cardinality(deps[m] \ Released')
  <2>1. IsFiniteSet(deps[m] \ Released) /\ n \in deps[m] \ Released
    BY <1>2, <1>4, <1>6, SchedulerAssumption, FS_Subset
  <2>2. deps[m] \ Released' = (deps[m] \ Released) \ {n}
    BY <1>4
  <2>3. Cardinality((deps[m] \ Released) \ {n}) = Cardinality(deps[m] \ Released) - 1
    BY <2>1, FS_RemoveElement
  <2>4. Cardinality((deps[m] \ Released) \ {n}) \in Nat
    BY <2>1, FS_RemoveElement, FS_CardinalityType
  <2>5. in_degree[m] \in Nat /\ in_degree[m] = Cardinality(deps[m] \ Released)
    BY <1>2
  <2>6. in_degree[m] - 1 = Cardinality((deps[m] \ Released) \ {n})
    BY <2>3, <2>5
  <2>7. in_degree[m] - 1 \in Nat
    BY <2>4, <2>6
  <2>8. in_degree[m] >= 1
    BY <2>5, <2>7
  <2>9. QED
    BY <2>2, <2>6, <2>8
<1>7. ASSUME NEW m \in Nodes, n \notin deps[m]
      PROVE  in_degree[m] = Cardinality(deps[m] \ Released')
  BY <1>2, <1>4, <1>7
<1>8. in_degree' \in [Id -> Nat]
  <2>1. \A m \in Id : in_degree[m] \in Nat
    BY <1>2
  <2>2. ASSUME NEW m \in Id PROVE in_degree'[m] \in Nat
    <3>1. CASE m \in Nodes /\ n \in deps[m]
      <4>1. in_degree[m] >= 1
        BY <3>1, <1>6
      <4>2. QED
        BY <4>1, <3>1, <2>1, <1>5
    <3>2. CASE ~(m \in Nodes /\ n \in deps[m])
      BY <3>2, <2>1, <1>5
    <3>3. QED
      BY <3>1, <3>2
  <2>3. QED
    BY <2>2 DEF ReleaseSuccessors, Decrement, Successors
<1>9. \A m \in Nodes : in_degree'[m] = Cardinality(deps[m] \ Released')
  BY <1>2, <1>5, <1>6, <1>7
<1>10. \A m \in Reached : in_degree'[m] = 0
  <2> SUFFICES ASSUME NEW m \in Reached PROVE in_degree'[m] = 0
    OBVIOUS
  <2>1. m \in Nodes /\ m \in Id /\ in_degree[m] = 0
    BY <1>2
  <2>2. n \in deps[m] => in_degree[m] >= 1
    BY <2>1, <1>6
  <2>3. n \notin deps[m]
    BY <2>1, <2>2
  <2>4. QED
    BY <2>1, <2>3, <1>5
<1>11. New \in SUBSET Nodes /\ New \cap Reached = {} /\ New \in SUBSET Id
  BY <1>2
<1>12. \A m \in New : in_degree'[m] = 0
  BY <1>2, <1>5
<1>13. PICK q \in Listings(New) : ready_queue' = ready_queue \o q
  BY DEF ReleaseSuccessors, Decrement, Successors
<1>14. q \in Seq(Id) /\ Distinct(q) /\ Members(q) = New
  BY <1>11, <1>13, ListingFacts
<1>15. Members(ready_queue) \cap Members(q) = {}
  BY <1>11, <1>14 DEF Reached, Queued
<1>16. /\ ready_queue' \in Seq(Id) /\ Distinct(ready_queue')
       /\ Members(ready_queue') = Members(ready_queue) \cup New
  BY <1>2, <1>13, <1>14, <1>15, ConcatMembers
<1>17. Queued' = Queued \cup New
  BY <1>16 DEF Queued
<1>18. QED
  BY <1>4, <1>8, <1>9, <1>10, <1>11, <1>12, <1>16, <1>17

(* A commit of any kind, with or without the release of the successors. *)
LEMMA CommitSafety ==
    ASSUME SafetyInv, phase = "running", NEW w \in Worker, pc[w] \in Holding,
           NEW n, n = node_id[w], NEW s \in Settled,
           results_map' = [results_map EXCEPT ![n] = s],
           completed_count' = completed_count + 1,
           failed_nodes' = IF s = "Completed" THEN failed_nodes
                                              ELSE failed_nodes \cup {n},
           pc' \in [Worker -> Positions], pc'[w] \notin Holding,
           \A v \in Worker \ {w} :
              pc'[v] = pc[v] \/ (pc[v] \notin Holding /\ pc'[v] \notin Holding),
           UNCHANGED <<config, phase, node_id, attempts, outcome>>,
           s \in {"Completed", "Failed"} =>
              \A d \in deps[n] : results_map[d] = "Completed",
           s = "Skipped" =>
              \E d \in deps[n] : results_map[d] \in {"Failed", "Skipped"},
           \/ /\ ReleaseSuccessors(n)
              /\ stop_requested' = stop_requested
              /\ s = "Failed" => mode # "FailFast"
           \/ /\ s = "Failed" /\ mode = "FailFast" /\ stop_requested' = TRUE
              /\ UNCHANGED <<in_degree, ready_queue>>
    PROVE  SafetyInv'
<1>1. /\ n \in Reached /\ n \in Nodes /\ n \in Id
      /\ results_map[n] = "None" /\ n \notin Queued
      /\ \A v \in Worker \ {w} : n \notin Held(v)
  BY HolderFacts
<1>2. TypeOK
  BY DEF SafetyInv
<1>3. /\ deps' = deps /\ order' = order /\ mode' = mode /\ Nodes' = Nodes
      /\ phase' = "running"
  BY DEF config, Nodes
<1>4. PICK New \in SUBSET Nodes :
         /\ in_degree' \in [Id -> Nat]
         /\ \A m \in Nodes : in_degree'[m] = Cardinality(deps[m] \ Released')
         /\ \A m \in Reached : in_degree'[m] = 0
         /\ ready_queue' \in Seq(Id)
         /\ Distinct(ready_queue')
         /\ New \cap Reached = {}
         /\ \A m \in New : in_degree'[m] = 0
         /\ Queued' = Queued \cup New
  <2>1. CASE ReleaseSuccessors(n) /\ (s = "Failed" => mode # "FailFast")
    BY <2>1, ReleaseFacts
  <2>2. CASE /\ s = "Failed" /\ mode = "FailFast"
             /\ UNCHANGED <<in_degree, ready_queue>>
    <3>1. Released' = Released
      BY <2>2, <1>1, <1>2, <1>3 DEF Released, TypeOK
    <3>2. Queued' = Queued \cup {} /\ Distinct(ready_queue)
      BY <2>2 DEF Queued, SafetyInv, OneOwner
    <3>3. \A m \in Nodes : in_degree[m] = Cardinality(deps[m] \ Released)
      BY DEF SafetyInv, GraphInv
    <3>4. \A m \in Reached : in_degree[m] = 0
      BY DEF SafetyInv, ReachedInv
    <3>5. QED
      BY <2>2, <3>1, <3>2, <3>3, <3>4, <1>2 DEF TypeOK
  <2>3. QED
    BY <2>1, <2>2
<1>5. TypeOK'
  <2>1. stop_requested' \in BOOLEAN
    BY <1>2 DEF TypeOK
  <2>2. failed_nodes' \subseteq Id
    BY <1>1, <1>2 DEF TypeOK
  <2>3. /\ results_map' \in [Id -> Settled \cup {"None"}]
        /\ completed_count' \in Nat
    <3>1. results_map \in [Id -> Settled \cup {"None"}] /\ completed_count \in Nat
      BY <1>2 DEF TypeOK
    <3>2. results_map' \in [Id -> Settled \cup {"None"}]
      BY <3>1
    <3>3. QED
      BY <3>1, <3>2
  <2>4. QED
    BY <2>1, <2>2, <2>3, <1>2, <1>4 DEF TypeOK, config, outcome
<1>6. NotStarted' /\ GraphInv'
  BY <1>3, <1>4 DEF NotStarted, SafetyInv, GraphInv
<1>7. /\ Held(w)' = {} /\ Held(w) = {n}
      /\ \A v \in Worker \ {w} : Held(v)' = Held(v)
  BY DEF Held
<1>8. \A m \in Id : results_map'[m] = IF m = n THEN s ELSE results_map[m]
  BY <1>1, <1>2 DEF TypeOK
<1>9. {m \in Id : results_map'[m] # "None"} =
         {m \in Id : results_map[m] # "None"} \cup {n}
  BY <1>1, <1>8 DEF Settled
<1>10. Reached' = Reached \cup New
  <2>1. (UNION {Held(v) : v \in Worker})
           = (UNION {Held(v)' : v \in Worker}) \cup {n}
    <3>1. ASSUME NEW x \in UNION {Held(v) : v \in Worker}, x # n
          PROVE  x \in UNION {Held(v)' : v \in Worker}
      BY <3>1, <1>7
    <3>2. (UNION {Held(v)' : v \in Worker}) \cup {n}
             \subseteq UNION {Held(v) : v \in Worker}
      BY <1>7
    <3>3. QED
      BY <3>1, <3>2
  <2>2. Reached' = Queued' \cup (UNION {Held(v)' : v \in Worker})
                          \cup {m \in Id : results_map'[m] # "None"}
    BY DEF Reached
  <2>3. Reached = Queued \cup (UNION {Held(v) : v \in Worker})
                         \cup {m \in Id : results_map[m] # "None"}
    BY DEF Reached
  <2>4. QED
    BY <1>4, <1>9, <2>1, <2>2, <2>3
<1>11. ReachedInv'
  BY <1>3, <1>4, <1>10 DEF ReachedInv, SafetyInv
<1>12. OneOwner'
  <2>1. \A v \in Worker : Held(v) \subseteq Reached
    BY DEF Reached
  <2>2. \A v \in Worker : Held(v)' \cap Queued' = {}
    BY <1>4, <1>7, <2>1 DEF SafetyInv, OneOwner
  <2>3. \A u, v \in Worker : u # v => Held(u)' \cap Held(v)' = {}
    BY <1>7 DEF SafetyInv, OneOwner
  <2>4. ASSUME NEW m \in Queued' \cup (UNION {Held(v)' : v \in Worker})
        PROVE  results_map'[m] = "None"
    <3>1. m \in Queued \cup New \cup (UNION {Held(v) : v \in Worker \ {w}})
      <4>1. ASSUME NEW v \in Worker, m \in Held(v)'
            PROVE  v # w /\ m \in Held(v)
        BY <4>1, <1>7
      <4>2. m \in Queued' \/ \E v \in Worker : m \in Held(v)'
        BY <2>4
      <4>3. QED
        BY <4>1, <4>2, <1>4
    <3>2. m # n
      BY <3>1, <1>1, <1>4
    <3>3. Queued \subseteq Nodes /\ Nodes \subseteq Id
      BY <1>2
      DEF SafetyInv, ReachedInv, Reached, TypeOK, Nodes, Declared, Members
    <3>4. m \in Id
      BY <3>1, <3>3, <2>1, <1>4 DEF SafetyInv, ReachedInv
    <3>5. m \in New => results_map[m] = "None"
      BY <3>4, <1>4 DEF Reached
    <3>6. m \in Queued \cup (UNION {Held(v) : v \in Worker \ {w}})
             => results_map[m] = "None"
      BY DEF SafetyInv, OneOwner
    <3>7. results_map[m] = "None"
      BY <3>1, <3>5, <3>6
    <3>8. QED
      BY <3>2, <3>4, <3>7, <1>8
  <2>5. QED
    BY <1>4, <2>2, <2>3, <2>4 DEF OneOwner
<1>13. CountIsExact'
  <2> DEFINE Old == {m \in Id : results_map[m] # "None"}
  <2>1. IsFiniteSet(Old) /\ n \notin Old
    BY <1>1, SchedulerAssumption, FS_Subset
  <2>2. Cardinality(Old \cup {n}) = Cardinality(Old) + 1
    BY <2>1, FS_AddElement
  <2>3. completed_count = Cardinality(Old)
    BY DEF SafetyInv, CountIsExact
  <2>4. QED
    BY <2>2, <2>3, <1>9 DEF CountIsExact
<1>14. FailedInv'
  <2>1. failed_nodes' = {m \in Id : results_map'[m] \in {"Failed", "Skipped"}}
    BY <1>1, <1>8 DEF SafetyInv, FailedInv, Settled
  <2>2. (\E m \in Id : results_map'[m] = "Failed")
           <=> s = "Failed" \/ \E m \in Id : results_map[m] = "Failed"
    BY <1>1, <1>8
  <2>3. stop_requested' <=> mode' = "FailFast" /\ \E m \in Id : results_map'[m] = "Failed"
    BY <2>2, <1>3 DEF SafetyInv, FailedInv
  <2>4. QED
    BY <2>1, <2>3 DEF FailedInv
<1>15. \A m \in Id : deps[m] \subseteq Id
  BY <1>2 DEF TypeOK
<1>16. ExplainedInv'
  <2>1. ASSUME NEW m \in Id, results_map'[m] \in {"Completed", "Failed"},
               NEW d \in deps[m]
        PROVE  results_map'[d] = "Completed"
    <3>1. results_map[d] = "Completed"
      BY <2>1, <1>8 DEF SafetyInv, ExplainedInv
    <3>2. QED
      BY <3>1, <1>1, <1>8, <1>15
  <2>2. ASSUME NEW m \in Id, results_map'[m] = "Skipped"
        PROVE  \E d \in deps[m] : results_map'[d] \in {"Failed", "Skipped"}
    <3>1. PICK d \in deps[m] : results_map[d] \in {"Failed", "Skipped"}
      BY <2>2, <1>8 DEF SafetyInv, ExplainedInv
    <3>2. QED
      BY <3>1, <1>1, <1>8, <1>15
  <2>3. ASSUME NEW v \in Worker, pc'[v] = "skipping"
        PROVE  \E d \in deps[node_id[v]] : results_map'[d] \in {"Failed", "Skipped"}
    <3>1. v # w /\ pc[v] = "skipping"
      BY <2>3 DEF Holding
    <3>2. node_id[v] \in Id
      BY <3>1, HolderFacts DEF Holding
    <3>3. PICK d \in deps[node_id[v]] : results_map[d] \in {"Failed", "Skipped"}
      BY <3>1 DEF SafetyInv, ExplainedInv
    <3>4. QED
      BY <3>2, <3>3, <1>1, <1>8, <1>15
  <2>4. QED
    BY <2>1, <2>2, <2>3, <1>3 DEF ExplainedInv
<1>17. RunsAfterDependencies'
  <2> SUFFICES ASSUME NEW v \in Worker,
                      pc'[v] \in {"executing", "succeeded", "failing"},
                      NEW d \in deps[node_id[v]]
               PROVE  results_map'[d] = "Completed"
    BY <1>3 DEF RunsAfterDependencies
  <2>1. v # w /\ pc[v] = pc'[v] /\ pc[v] \in Holding
    BY DEF Holding
  <2>2. node_id[v] \in Id
    BY <2>1, HolderFacts
  <2>3. results_map[d] = "Completed"
    BY <2>1 DEF SafetyInv, RunsAfterDependencies
  <2>4. QED
    BY <2>2, <2>3, <1>1, <1>8, <1>15
<1>18. QED
  BY <1>5, <1>6, <1>11, <1>12, <1>13, <1>14, <1>16, <1>17 DEF SafetyInv

LEMMA CommitStepsSafety ==
    ASSUME SafetyInv, NEW w \in Worker,
           CommitSkipped(w) \/ CommitCompleted(w) \/ CommitFailed(w)
    PROVE  SafetyInv'
<1> USE DEF At, Goto
<1>1. pc \in [Worker -> Positions]
  BY DEF SafetyInv, TypeOK
<1>2. CASE CommitSkipped(w)
  <2>1. /\ pc[w] = "skipping" /\ pc[w] \in Holding /\ phase = "running"
        /\ pc' \in [Worker -> Positions] /\ pc'[w] \notin Holding
        /\ \A v \in Worker \ {w} :
              pc'[v] = pc[v] \/ (pc[v] \notin Holding /\ pc'[v] \notin Holding)
    BY <1>1, <1>2 DEF CommitSkipped, Woken, Holding, Positions
  <2>2. \E d \in deps[node_id[w]] : results_map[d] \in {"Failed", "Skipped"}
    BY <2>1 DEF SafetyInv, ExplainedInv
  <2>3. QED
    BY <1>2, <2>1, <2>2, CommitSafety DEF CommitSkipped, Settled
<1>3. CASE CommitCompleted(w)
  <2>1. /\ pc[w] = "succeeded" /\ pc[w] \in Holding /\ phase = "running"
        /\ pc' \in [Worker -> Positions] /\ pc'[w] \notin Holding
        /\ \A v \in Worker \ {w} : pc'[v] = pc[v]
    BY <1>1, <1>3 DEF CommitCompleted, Holding, Positions
  <2>2. \A d \in deps[node_id[w]] : results_map[d] = "Completed"
    BY <2>1 DEF SafetyInv, RunsAfterDependencies
  <2>3. QED
    BY <1>3, <2>1, <2>2, CommitSafety DEF CommitCompleted, Settled
<1>4. CASE CommitFailed(w)
  <2>1. /\ pc[w] = "failing" /\ pc[w] \in Holding /\ phase = "running"
        /\ pc' \in [Worker -> Positions] /\ pc'[w] \notin Holding
        /\ \A v \in Worker \ {w} :
              pc'[v] = pc[v] \/ (pc[v] \notin Holding /\ pc'[v] \notin Holding)
    BY <1>1, <1>4 DEF CommitFailed, FailThen, Woken, Holding, Positions
  <2>2. \A d \in deps[node_id[w]] : results_map[d] = "Completed"
    BY <2>1 DEF SafetyInv, RunsAfterDependencies
  <2>3. QED
    BY <1>4, <2>1, <2>2, CommitSafety DEF CommitFailed, FailThen, Settled
<1>5. QED
  BY <1>2, <1>3, <1>4

LEMMA JoinSafety == SafetyInv /\ Join => SafetyInv'
<1> SUFFICES ASSUME SafetyInv, Join PROVE SafetyInv'
  OBVIOUS
<1> USE DEF SafetyInv, Join, config, shared
<1>1. report' \in [Id -> Settled \cup {"None"}]
  BY DEF TypeOK, Settled
<1>2. success' \in BOOLEAN
  OBVIOUS
<1>3. TypeOK' /\ NotStarted'
  BY <1>1, <1>2 DEF TypeOK, NotStarted
<1>4. /\ Queued' = Queued /\ \A w \in Worker : Held(w)' = Held(w)
      /\ Reached' = Reached /\ Nodes' = Nodes /\ Released' = Released
  BY DEF Queued, Held, Reached, Nodes, Released
<1>5. GraphInv'
  BY <1>4 DEF GraphInv
<1>6. ReachedInv' /\ OneOwner' /\ CountIsExact' /\ FailedInv'
  BY <1>4 DEF ReachedInv, OneOwner, CountIsExact, FailedInv
<1>7. ExplainedInv' /\ RunsAfterDependencies'
  BY DEF ExplainedInv, RunsAfterDependencies
<1>8. QED
  BY <1>3, <1>5, <1>6, <1>7

LEMMA StutterSafety == SafetyInv /\ UNCHANGED vars => SafetyInv'
<1> SUFFICES ASSUME SafetyInv, UNCHANGED vars PROVE SafetyInv'
  OBVIOUS
<1> USE DEF SafetyInv, vars, config, shared, outcome
<1>1. TypeOK' /\ NotStarted'
  BY DEF TypeOK, NotStarted
<1>2. /\ Queued' = Queued /\ \A w \in Worker : Held(w)' = Held(w)
      /\ Reached' = Reached /\ Nodes' = Nodes /\ Released' = Released
  BY DEF Queued, Held, Reached, Nodes, Released
<1>3. GraphInv'
  BY <1>2 DEF GraphInv
<1>4. ReachedInv' /\ OneOwner' /\ CountIsExact' /\ FailedInv'
  BY <1>2 DEF ReachedInv, OneOwner, CountIsExact, FailedInv
<1>5. ExplainedInv' /\ RunsAfterDependencies'
  BY DEF ExplainedInv, RunsAfterDependencies
<1>6. QED
  BY <1>1, <1>3, <1>4, <1>5
-----------------------------------------------------------------------------
(* The inductive invariant of the worker protocol holds in every state of  *)
(* every execution: in-degrees count the unreleased dependencies, a queued *)
(* node has none left, and each node has one owner.                        *)
THEOREM SchedulerInvariant == Spec => []SafetyInv
<1>1. SafetyInv /\ [Next]_vars => SafetyInv'
  <2> SUFFICES ASSUME SafetyInv, [Next]_vars PROVE SafetyInv'
    OBVIOUS
  <2>1. CASE \E n \in Id, D \in SUBSET Id, k \in Attempts : AddNode(n, D, k)
    BY <2>1, BuildSafety
  <2>2. CASE Reject
    BY <2>2, RejectSafety
  <2>3. CASE Launch
    BY <2>3, LaunchSafety
  <2>4. CASE \E w \in Worker : WorkerStep(w) \/ SpuriousWake(w)
    BY <2>4, QuietStepsSafety, PopSafety, CommitStepsSafety DEF WorkerStep
  <2>5. CASE Join
    BY <2>5, JoinSafety
  <2>6. CASE UNCHANGED vars
    BY <2>6, StutterSafety
  <2>7. QED
    BY <2>1, <2>2, <2>3, <2>4, <2>5, <2>6 DEF Next
<1>2. QED
  BY <1>1, InitSafety, PTL DEF Spec

(* The variables keep their types; in particular no in-degree is ever      *)
(* decremented below zero.                                                 *)
THEOREM TypeCorrect == Spec => []TypeOK
<1>1. SafetyInv => TypeOK
  BY DEF SafetyInv
<1>2. QED
  BY <1>1, SchedulerInvariant, PTL

(* No worker executes a node before all its dependencies have completed.   *)
THEOREM DependenciesFirst == Spec => []RunsAfterDependencies
<1>1. SafetyInv => RunsAfterDependencies
  BY DEF SafetyInv
<1>2. QED
  BY <1>1, SchedulerInvariant, PTL

(* No node is queued twice, handed to two workers, or run again after its  *)
(* result was committed.                                                   *)
THEOREM SingleOwner == Spec => []OneOwner
<1>1. SafetyInv => OneOwner
  BY DEF SafetyInv
<1>2. QED
  BY <1>1, SchedulerInvariant, PTL

(* The counter that lets the workers leave equals the number of results.   *)
THEOREM ExactCount == Spec => []CountIsExact
<1>1. SafetyInv => CountIsExact
  BY DEF SafetyInv
<1>2. QED
  BY <1>1, SchedulerInvariant, PTL

(* The bound on failures under FailFast: both counts are of finite sets,   *)
(* and only threads that were started hold nodes.                          *)
LEMMA StopFacts ==
    ASSUME SafetyInv, StopInv, phase \in {"running", "done"}
    PROVE  /\ IsFiniteSet(Failures) /\ Cardinality(Failures) \in Nat
           /\ IsFiniteSet(Busy) /\ Cardinality(Busy) \in Nat
           /\ ActualThreads \in Nat
           /\ Cardinality(Busy) <= ActualThreads
<1>1. Failures \in SUBSET Id
  BY DEF Failures
<1>2. IsFiniteSet(Failures) /\ Cardinality(Failures) \in Nat
  BY <1>1, SchedulerAssumption, FS_Subset, FS_CardinalityType
<1>3. ActualThreads \in Nat
  BY LenProperties DEF SafetyInv, TypeOK, ActualThreads, Size, Worker
<1>4. Busy \in SUBSET (1 .. ActualThreads)
  BY <1>3, SchedulerAssumption DEF Busy, StopInv, Holding, Worker
<1>5. IsFiniteSet(1 .. ActualThreads) /\ Cardinality(1 .. ActualThreads) = ActualThreads
  BY <1>3, FS_Interval
<1>6. IsFiniteSet(Busy) /\ Cardinality(Busy) \in Nat /\ Cardinality(Busy) <= ActualThreads
  BY <1>4, <1>5, FS_Subset, FS_CardinalityType
<1>7. QED
  BY <1>2, <1>3, <1>6

(* A step that fails no node and, with the flag up, gives nobody a node.   *)
LEMMA StopQuiet ==
    ASSUME SafetyInv, StopInv, phase \in {"running", "done"},
           order' = order, thread_count' = thread_count,
           stop_requested' = stop_requested, Failures' = Failures,
           \A v \in Worker : /\ pc'[v] # "none" => pc[v] # "none"
                             /\ stop_requested /\ pc'[v] \in Holding =>
                                   pc[v] \in Holding
    PROVE  StopInv'
<1>1. ActualThreads' = ActualThreads
  BY DEF ActualThreads, Size
<1>2. ASSUME stop_requested
      PROVE  Cardinality(Failures) + Cardinality(Busy') <= ActualThreads
  <2>1. Busy' \in SUBSET Busy
    BY <1>2 DEF Busy
  <2>2. Cardinality(Busy') \in Nat /\ Cardinality(Busy') <= Cardinality(Busy)
    BY <2>1, StopFacts, FS_Subset, FS_CardinalityType
  <2>3. QED
    BY <1>2, <2>2, StopFacts DEF StopInv
<1>3. QED
  BY <1>1, <1>2 DEF StopInv

(* A failure uses up the worker that commits it. *)
LEMMA StopFailure ==
    ASSUME SafetyInv, StopInv, NEW w \in Worker, CommitFailed(w)
    PROVE  StopInv'
<1>1. /\ phase = "running" /\ pc[w] = "failing" /\ pc[w] \in Holding
      /\ pc \in [Worker -> Positions] /\ results_map \in [Id -> Settled \cup {"None"}]
      /\ phase' = phase
  BY DEF CommitFailed, FailThen, At, SafetyInv, TypeOK, Holding
<1>2. node_id[w] \in Id /\ results_map[node_id[w]] = "None"
  BY <1>1, HolderFacts
<1>3. Failures' = Failures \cup {node_id[w]} /\ node_id[w] \notin Failures
  BY <1>1, <1>2 DEF Failures, CommitFailed, FailThen
<1>4. \A v \in Worker : pc'[v] # "none" => pc[v] # "none"
  BY <1>1 DEF CommitFailed, FailThen, Woken, Goto
<1>5. Busy' = Busy \ {w} /\ w \in Busy
  BY <1>1 DEF Busy, CommitFailed, FailThen, Woken, Goto, Holding
<1>6. ActualThreads' = ActualThreads
  BY DEF CommitFailed, FailThen, config, ActualThreads, Size
<1>7. /\ Cardinality(Failures') = Cardinality(Failures) + 1
      /\ Cardinality(Busy') = Cardinality(Busy) - 1
      /\ Cardinality(Failures) \in Nat /\ Cardinality(Busy) \in Nat
      /\ ActualThreads \in Nat /\ Cardinality(Busy) <= ActualThreads
  BY <1>1, <1>3, <1>5, StopFacts, FS_AddElement, FS_RemoveElement
<1>8. ~stop_requested /\ stop_requested' => Failures = {}
  BY DEF SafetyInv, FailedInv, Failures, CommitFailed, FailThen
<1>9. stop_requested' => Cardinality(Failures') + Cardinality(Busy') <= ActualThreads
  <2>1. CASE stop_requested
    <3>1. Cardinality(Failures) + Cardinality(Busy) <= ActualThreads
      BY <2>1 DEF StopInv
    <3>2. QED
      BY <3>1, <1>7
  <2>2. CASE ~stop_requested /\ stop_requested'
    <3>1. Cardinality(Failures) = 0
      BY <2>2, <1>8, FS_EmptySet
    <3>2. QED
      BY <3>1, <1>7
  <2>3. QED
    BY <2>1, <2>2
<1>10. QED
  BY <1>1, <1>4, <1>6, <1>9 DEF StopInv

LEMMA StopStep == SafetyInv /\ StopInv /\ [Next]_vars => StopInv'
<1> SUFFICES ASSUME SafetyInv, StopInv, [Next]_vars PROVE StopInv'
  OBVIOUS
<1>1. /\ pc \in [Worker -> Positions] /\ results_map \in [Id -> Settled \cup {"None"}]
      /\ phase \in {"building", "rejected", "running", "done"}
  BY DEF SafetyInv, TypeOK
<1>2. CASE \/ \E n \in Id, D \in SUBSET Id, k \in Attempts : AddNode(n, D, k)
           \/ Reject
  BY <1>2 DEF AddNode, Reject, shared, SafetyInv, NotStarted, StopInv
<1>3. CASE Launch
  <2>1. ~stop_requested' /\ ActualThreads' = ActualThreads
    BY <1>3 DEF Launch, config, ActualThreads, Size, SafetyInv, NotStarted
  <2>2. \A w \in Worker : pc'[w] # "none" => w <= ActualThreads
    BY <1>3 DEF Launch
  <2>3. QED
    BY <2>1, <2>2 DEF StopInv
<1>4. ASSUME NEW w \in Worker, WorkerStep(w) \/ SpuriousWake(w) PROVE StopInv'
  <2>1. CASE CommitFailed(w)
    BY <2>1, StopFailure
  <2>2. CASE CommitSkipped(w) \/ CommitCompleted(w)
    <3>1. /\ phase = "running" /\ pc[w] \in Holding
          /\ order' = order /\ thread_count' = thread_count
          /\ stop_requested' = stop_requested
      BY <2>2 DEF CommitSkipped, CommitCompleted, At, Holding, config
    <3>2. results_map[node_id[w]] = "None" /\ node_id[w] \in Id
      BY <3>1, HolderFacts
    <3>3. Failures' = Failures
      BY <1>1, <2>2, <3>2 DEF Failures, CommitSkipped, CommitCompleted
    <3>4. \A v \in Worker : /\ pc'[v] # "none" => pc[v] # "none"
                            /\ pc'[v] \in Holding => pc[v] \in Holding
      BY <1>1, <2>2 DEF CommitSkipped, CommitCompleted, Woken, Goto, At, Holding
    <3>5. QED
      BY <3>1, <3>3, <3>4, StopQuiet
  <2>3. CASE Pop(w)
    <3>1. /\ phase = "running" /\ ~stop_requested
          /\ order' = order /\ thread_count' = thread_count
          /\ stop_requested' = stop_requested /\ results_map' = results_map
      BY <2>3 DEF Pop, Take, Finished, At, config
    <3>2. \A v \in Worker : pc'[v] # "none" => pc[v] # "none"
      BY <1>1, <2>3 DEF Pop, Take, Goto, At
    <3>3. QED
      BY <3>1, <3>2, StopQuiet DEF Failures
  <2>4. CASE \/ Sleep(w) \/ SpuriousWake(w) \/ Exit(w) \/ CheckDeps(w)
             \/ Attempt(w) \/ GiveUp(w) \/ Notify(w)
    <3>1. /\ phase = "running"
          /\ order' = order /\ thread_count' = thread_count
          /\ stop_requested' = stop_requested /\ results_map' = results_map
      BY <2>4
      DEF Sleep, SpuriousWake, Exit, CheckDeps, Attempt, TryOnce, GiveUp, Notify,
          At, config, shared
    <3>2. \A v \in Worker : /\ pc'[v] # "none" => pc[v] # "none"
                            /\ pc'[v] \in Holding => pc[v] \in Holding
      BY <1>1, <2>4
      DEF Sleep, SpuriousWake, Exit, CheckDeps, Attempt, TryOnce, GiveUp, Notify,
          At, Goto, Woken, Holding
    <3>3. QED
      BY <3>1, <3>2, StopQuiet DEF Failures
  <2>5. QED
    BY <1>4, <2>1, <2>2, <2>3, <2>4 DEF WorkerStep
<1>5. CASE Join
  BY <1>5, StopQuiet DEF Join, config, shared, Failures
<1>6. CASE UNCHANGED vars
  BY <1>6 DEF vars, config, shared, StopInv, ActualThreads, Size, Failures, Busy
<1>7. QED
  BY <1>2, <1>3, <1>4, <1>5, <1>6 DEF Next

(* Under FailFast not more nodes fail than there are threads: the failure  *)
(* that raises the flag is the last but for what the other workers already *)
(* hold, for every graph and every number of threads.                      *)
THEOREM FailFastIsBounded == Spec => []FailFastStops
<1>1. Init => StopInv
  BY DEF Init, StopInv
<1>2. SafetyInv /\ StopInv => FailFastStops
  <2> SUFFICES ASSUME SafetyInv, StopInv, mode = "FailFast"
               PROVE  Cardinality(Failures) <= ActualThreads
    BY DEF FailFastStops
  <2>1. ActualThreads \in Nat
    BY LenProperties DEF SafetyInv, TypeOK, ActualThreads, Size, Worker
  <2>2. CASE Failures = {}
    BY <2>1, <2>2, FS_EmptySet
  <2>3. CASE Failures # {}
    <3>1. stop_requested
      BY <2>3 DEF Failures, SafetyInv, FailedInv
    <3>2. phase \in {"running", "done"}
      BY <3>1 DEF SafetyInv, NotStarted, TypeOK
    <3>3. QED
      BY <3>1, <3>2, StopFacts DEF StopInv
  <2>4. QED
    BY <2>2, <2>3
<1>3. QED
  BY <1>1, <1>2, StopStep, SchedulerInvariant, PTL DEF Spec
-----------------------------------------------------------------------------
(* What execute() returns: the report is sound, no sleeping worker is      *)
(* forgotten, and the threaded execution implements the contract           *)
(* DagExecution.  These proofs rest on SafetyInv.                          *)

(* Without repetitions the completion counter reaches the number of        *)
(* declarations exactly when every declared node has a result.             *)
LEMMA CountFacts ==
    ASSUME SafetyInv, phase \in {"running", "done"}
    PROVE  /\ Size = Cardinality(Nodes)
           /\ IsFiniteSet(Nodes)
           /\ Nodes \subseteq Id
           /\ {n \in Id : results_map[n] # "None"} \subseteq Nodes
           /\ completed_count = Size <=> \A n \in Nodes : results_map[n] # "None"
<1> DEFINE Done == {n \in Id : results_map[n] # "None"}
<1>1. order \in Seq(Id) /\ Distinct(order)
  BY DEF SafetyInv, TypeOK, GraphInv
<1>2. /\ Len(order) \in Nat /\ DOMAIN order = 1 .. Len(order)
      /\ \A i \in 1 .. Len(order) : order[i] \in Id
      /\ order \in [1 .. Len(order) -> Id]
  BY <1>1, LenProperties, ElementOfSeq
<1>3. order \in Bijection(1 .. Len(order), Members(order))
  <2>1. order \in [1 .. Len(order) -> Members(order)]
    BY <1>2 DEF Members
  <2>2. /\ \A i, j \in 1 .. Len(order) : order[i] = order[j] => i = j
        /\ \A n \in Members(order) : \E i \in 1 .. Len(order) : order[i] = n
    BY <1>1, <1>2 DEF Distinct, Members
  <2>3. QED
    BY <2>1, <2>2, Fun_IsBij
<1>4. Size = Cardinality(Nodes)
  BY <1>2, <1>3, FS_CountingElements, Fun_ExistsBij DEF Size, Nodes, Declared
<1>5. Nodes \subseteq Id /\ IsFiniteSet(Nodes)
  BY <1>2, SchedulerAssumption, FS_Subset DEF Nodes, Declared, Members
<1>6. Done \subseteq Nodes
  BY DEF SafetyInv, ReachedInv, Reached
<1>7. completed_count = Cardinality(Done)
  BY DEF SafetyInv, CountIsExact
<1>8. completed_count = Size => Done = Nodes
  BY <1>4, <1>5, <1>6, <1>7, FS_Subset
<1>9. QED
  BY <1>4, <1>5, <1>6, <1>7, <1>8

(* Before the workers exist nothing was tried and nothing can be lost. *)
LEMMA NotStartedOutcome ==
    ASSUME SafetyInv, phase \in {"building", "rejected"}
    PROVE  AttemptsInv /\ ExitInv /\ DoneInv /\ WakeInv
<1>1. /\ \A w \in Worker : pc[w] = "none"
      /\ \A n \in Id : results_map[n] = "None" /\ attempts[n] = 0
  BY DEF SafetyInv, NotStarted
<1>2. QED
  BY <1>1 DEF AttemptsInv, ExitInv, DoneInv, WakeInv

LEMMA LaunchOutcome ==
    ASSUME SafetyInv, Launch
    PROVE  AttemptsInv' /\ ExitInv' /\ DoneInv' /\ WakeInv'
<1>1. /\ phase' = "running" /\ order' = order /\ Nodes' = Nodes
      /\ pc' = [w \in Worker |-> IF w <= ActualThreads THEN "wait" ELSE "none"]
      /\ \A n \in Id : results_map'[n] = "None" /\ attempts'[n] = 0
  BY DEF Launch, SafetyInv, NotStarted, config, Nodes
<1>2. AttemptsInv' /\ DoneInv' /\ WakeInv'
  BY <1>1 DEF AttemptsInv, DoneInv, WakeInv, Running
<1>3. Nodes # {} => 1 <= ActualThreads
  <2>1. thread_count \in Nat /\ thread_count >= 1 /\ order \in Seq(Id)
    BY SchedulerAssumption DEF SafetyInv, TypeOK, Worker
  <2>2. Len(order) \in Nat /\ DOMAIN order = 1 .. Len(order)
    BY <2>1, LenProperties
  <2>3. Nodes # {} => Len(order) >= 1
    BY <2>2 DEF Nodes, Declared, Members
  <2>4. QED
    BY <2>1, <2>2, <2>3 DEF ActualThreads, Size
<1>4. 1 \in Worker
  BY SchedulerAssumption DEF Worker
<1>5. ExitInv'
  BY <1>1, <1>3, <1>4 DEF ExitInv
<1>6. QED
  BY <1>2, <1>5

-----------------------------------------------------------------------------
(* The worker holds a node without result, so the work is not complete. *)
LEMMA HolderNotComplete ==
    ASSUME SafetyInv, phase = "running", NEW w \in Worker, pc[w] \in Holding
    PROVE  completed_count # Size
  BY HolderFacts, CountFacts

(* Once the work is over it stays over. *)
LEMMA FinishedStable ==
    ASSUME SafetyInv, NEW w \in Worker, WorkerStep(w) \/ SpuriousWake(w), Finished
    PROVE  Finished'
<1> USE DEF At, Goto
<1>1. Size' = Size
  BY DEF WorkerStep, SpuriousWake, Sleep, Exit, Pop, Take, CheckDeps, CommitSkipped,
         Attempt, TryOnce, GiveUp, CommitCompleted, CommitFailed, FailThen, Notify,
         config, Size
<1>2. CASE stop_requested
  BY <1>2
  DEF WorkerStep, SpuriousWake, Sleep, Exit, Pop, Take, CheckDeps, CommitSkipped,
      Attempt, TryOnce, GiveUp, CommitCompleted, CommitFailed, FailThen, Notify,
      shared, Finished
<1>3. CASE completed_count = Size
  <2>1. ~(CommitSkipped(w) \/ CommitCompleted(w) \/ CommitFailed(w))
    BY <1>3, HolderNotComplete
    DEF CommitSkipped, CommitCompleted, CommitFailed, FailThen, Holding
  <2>2. completed_count' = completed_count
    BY <2>1
    DEF WorkerStep, SpuriousWake, Sleep, Exit, Pop, Take, CheckDeps,
        Attempt, TryOnce, GiveUp, Notify, shared
  <2>3. QED
    BY <1>1, <1>3, <2>2 DEF Finished
<1>4. QED
  BY <1>2, <1>3 DEF Finished

LEMMA ExitStep ==
    ASSUME SafetyInv, ExitInv, NEW w \in Worker, WorkerStep(w) \/ SpuriousWake(w)
    PROVE  ExitInv'
<1> USE DEF At, Goto
<1>1. phase = "running" /\ phase' = "running" /\ Nodes' = Nodes
  BY DEF WorkerStep, SpuriousWake, Sleep, Exit, Pop, Take, CheckDeps, CommitSkipped,
         Attempt, TryOnce, GiveUp, CommitCompleted, CommitFailed, FailThen, Notify,
         config, Nodes
<1>2. pc \in [Worker -> Positions] /\ 1 \in Worker
  BY SchedulerAssumption DEF SafetyInv, TypeOK, Worker
<1>3. \A v \in Worker : pc[v] # "none" => pc'[v] # "none"
  BY <1>2
  DEF WorkerStep, SpuriousWake, Sleep, Exit, Pop, Take, CheckDeps, CommitSkipped,
      Attempt, TryOnce, GiveUp, CommitCompleted, CommitFailed, FailThen, Notify, Woken
<1>4. ASSUME NEW v \in Worker, pc'[v] = "exited"
      PROVE  Finished'
  <2>1. CASE pc[v] = "exited"
    BY <2>1, FinishedStable DEF ExitInv
  <2>2. CASE pc[v] # "exited"
    <3>1. \/ Exit(w)
          \/ CommitFailed(w) /\ stop_requested'
      BY <2>2, <1>4, <1>2
      DEF WorkerStep, SpuriousWake, Sleep, Pop, Take, CheckDeps, CommitSkipped,
          Attempt, TryOnce, GiveUp, CommitCompleted, CommitFailed, FailThen, Notify,
          Woken
    <3>2. QED
      BY <3>1, FinishedStable DEF Exit, Finished
  <2>3. QED
    BY <2>1, <2>2
<1>5. QED
  BY <1>1, <1>2, <1>3, <1>4 DEF ExitInv

(* Sleep requires that there is nothing to do; every step that gives the   *)
(* sleepers something to do wakes them or leaves its worker about to.      *)
LEMMA WakeStep ==
    ASSUME SafetyInv, WakeInv, NEW w \in Worker, WorkerStep(w) \/ SpuriousWake(w)
    PROVE  WakeInv'
<1> USE DEF At, Goto
<1>1. phase = "running" /\ Size' = Size
  BY DEF WorkerStep, SpuriousWake, Sleep, Exit, Pop, Take, CheckDeps, CommitSkipped,
         Attempt, TryOnce, GiveUp, CommitCompleted, CommitFailed, FailThen, Notify,
         config, Size
<1>2. pc \in [Worker -> Positions]
  BY DEF SafetyInv, TypeOK
<1>3. SUFFICES ASSUME NEW s \in Worker, pc'[s] = "asleep"
               PROVE  /\ Finished' => \E v \in Worker : pc'[v] = "notifying"
                      /\ ready_queue' # <<>> => \E v \in Worker :
                            pc'[v] \in {"wait", "notifying"} \cup Holding
  BY DEF WakeInv
<1>4. CASE Sleep(w)
  BY <1>4, <1>1 DEF Sleep, WaitIsOver, Finished, shared
<1>5. CASE CommitSkipped(w) \/ Notify(w)
  BY <1>5, <1>2, <1>3 DEF CommitSkipped, Notify, Woken
<1>6. CASE CommitCompleted(w) \/ CommitFailed(w)
  BY <1>6, <1>2, <1>3 DEF CommitCompleted, CommitFailed, FailThen, Woken
<1>7. CASE \/ SpuriousWake(w) \/ Exit(w) \/ Pop(w) \/ CheckDeps(w)
           \/ Attempt(w) \/ GiveUp(w)
  <2>1. /\ pc[s] = "asleep"
        /\ Finished' = Finished
        /\ ready_queue' # <<>> => ready_queue # <<>>
        /\ \A v \in Worker : pc[v] = "notifying" => pc'[v] = "notifying"
        /\ \A v \in Worker \ {w} : pc'[v] = pc[v]
    BY <1>7, <1>1, <1>2, <1>3
    DEF SpuriousWake, Exit, Pop, Take, CheckDeps, Attempt, TryOnce, GiveUp,
        Finished, shared
  <2>2. Finished' => \E v \in Worker : pc'[v] = "notifying"
    BY <2>1, <1>1 DEF WakeInv
  <2>3. ASSUME ready_queue' # <<>>
        PROVE  \E v \in Worker : pc'[v] \in {"wait", "notifying"} \cup Holding
    <3>1. CASE Exit(w)
      BY <3>1, <2>1, <2>2 DEF Exit
    <3>2. CASE ~Exit(w)
      <4>1. PICK v \in Worker : pc[v] \in {"wait", "notifying"} \cup Holding
        BY <2>1, <2>3, <1>1 DEF WakeInv
      <4>2. w = v => pc'[w] \in {"wait", "notifying"} \cup Holding
        BY <4>1, <3>2, <1>7, <1>2
        DEF SpuriousWake, Pop, Take, CheckDeps, Attempt, TryOnce, GiveUp, Holding
      <4>3. QED
        BY <4>1, <4>2, <2>1
    <3>3. QED
      BY <3>1, <3>2
  <2>4. QED
    BY <2>2, <2>3
<1>8. QED
  BY <1>4, <1>5, <1>6, <1>7 DEF WorkerStep

(* Steps between two commits: only the owner's retry loop touches the      *)
(* attempts of a node.                                                     *)
LEMMA AttemptsQuietStep ==
    ASSUME SafetyInv, AttemptsInv, NEW w \in Worker,
           \/ Sleep(w) \/ SpuriousWake(w) \/ Exit(w) \/ Notify(w)
           \/ Pop(w) \/ CheckDeps(w) \/ Attempt(w) \/ GiveUp(w)
    PROVE  AttemptsInv'
<1> USE DEF At, Goto
<1>1. /\ pc \in [Worker -> Positions] /\ attempts \in [Id -> Nat]
      /\ max_attempts \in [Id -> Int]
      /\ node_id \in [Worker -> Id \cup {NoNode}]
  BY DEF SafetyInv, TypeOK
<1>2. phase = "running" /\ max_attempts' = max_attempts /\ results_map' = results_map
  BY DEF Sleep, SpuriousWake, Exit, Notify, Pop, Take, CheckDeps, Attempt, TryOnce,
         GiveUp, config, shared
<1>3. \A v \in Worker : Running(v) => Running(v)' /\ node_id'[v] = node_id[v]
  BY <1>1
  DEF Sleep, SpuriousWake, Exit, Notify, Pop, Take, CheckDeps, Attempt, TryOnce,
      GiveUp, Woken, Running
<1>4. CASE Attempt(w)
  <2> DEFINE n == node_id[w]
  <2>1. /\ pc[w] = "executing" /\ node_id' = node_id
        /\ attempts' = [attempts EXCEPT ![n] = @ + 1]
        /\ attempts[n] < max_attempts[n]
        /\ \A v \in Worker \ {w} : pc'[v] = pc[v]
        /\ pc'[w] \in {"executing", "succeeded"}
    BY <1>4, <1>1 DEF Attempt, TryOnce
  <2>2. /\ n \in Id /\ results_map[n] = "None"
        /\ \A v \in Worker \ {w} : n \notin Held(v)
    BY <2>1, <1>2, HolderFacts DEF Holding
  <2>3. /\ attempts'[n] = attempts[n] + 1 /\ attempts[n] \in Nat
        /\ \A m \in Id : m # n => attempts'[m] = attempts[m]
    BY <2>1, <2>2, <1>1
  <2>4. ASSUME NEW m \in Id, attempts'[m] > 0
        PROVE  /\ attempts'[m] <= max_attempts'[m]
               /\ \/ results_map'[m] \in {"Completed", "Failed"}
                  \/ \E v \in Worker : Running(v)' /\ node_id'[v] = m
    <3>1. CASE m = n
      <4>1. attempts'[n] <= max_attempts[n]
        BY <2>1, <2>2, <2>3, <1>1
      <4>2. Running(w)' /\ node_id'[w] = n
        BY <2>1 DEF Running
      <4>3. QED
        BY <3>1, <4>1, <4>2, <1>2
    <3>2. CASE m # n
      BY <3>2, <2>4, <2>3, <1>2, <1>3 DEF AttemptsInv
    <3>3. QED
      BY <3>1, <3>2
  <2>5. ASSUME NEW v \in Worker
        PROVE  /\ pc'[v] = "succeeded" => attempts'[node_id'[v]] > 0
               /\ pc'[v] = "failing" =>
                     attempts'[node_id'[v]] >= max_attempts'[node_id'[v]]
    <3>1. CASE v = w
      BY <3>1, <2>1, <2>3
    <3>2. CASE v # w
      <4>1. pc[v] \in Holding => node_id[v] \in Id /\ node_id[v] # n
        BY <3>2, <2>2, <1>2, HolderFacts DEF Held
      <4>2. QED
        BY <4>1, <3>2, <2>1, <2>3, <1>2 DEF AttemptsInv, Holding
    <3>3. QED
      BY <3>1, <3>2
  <2>6. ASSUME NEW m \in Id
        PROVE  /\ results_map'[m] = "Completed" => attempts'[m] > 0
               /\ results_map'[m] = "Failed" => attempts'[m] >= max_attempts'[m]
    BY <2>2, <2>3, <1>2 DEF AttemptsInv
  <2>7. QED
    BY <2>4, <2>5, <2>6 DEF AttemptsInv
<1>5. CASE ~Attempt(w)
  <2>1. attempts' = attempts
    BY <1>5
    DEF Sleep, SpuriousWake, Exit, Notify, Pop, Take, CheckDeps, GiveUp
  <2>2. \A n \in Id : attempts'[n] > 0 =>
          /\ attempts'[n] <= max_attempts'[n]
          /\ \/ results_map'[n] \in {"Completed", "Failed"}
             \/ \E v \in Worker : Running(v)' /\ node_id'[v] = n
    BY <2>1, <1>2, <1>3 DEF AttemptsInv
  <2>3. ASSUME NEW v \in Worker, pc'[v] \in {"succeeded", "failing"}
        PROVE  /\ node_id'[v] = node_id[v]
               /\ \/ pc'[v] = pc[v]
                  \/ /\ pc'[v] = "failing"
                     /\ attempts[node_id[v]] >= max_attempts[node_id[v]]
    BY <2>3, <1>5, <1>1
    DEF Sleep, SpuriousWake, Exit, Notify, Pop, Take, CheckDeps, GiveUp, Woken
  <2>4. QED
    BY <2>1, <2>2, <2>3, <1>2 DEF AttemptsInv
<1>6. QED
  BY <1>4, <1>5

(* A commit settles a node of its own; for a skipped one no call was made. *)
LEMMA AttemptsCommitStep ==
    ASSUME SafetyInv, AttemptsInv, NEW w \in Worker,
           CommitSkipped(w) \/ CommitCompleted(w) \/ CommitFailed(w)
    PROVE  AttemptsInv'
<1> USE DEF At, Goto
<1> DEFINE n == node_id[w]
<1>1. /\ pc \in [Worker -> Positions] /\ attempts \in [Id -> Nat]
      /\ max_attempts \in [Id -> Int]
      /\ results_map \in [Id -> Settled \cup {"None"}]
  BY DEF SafetyInv, TypeOK
<1>2. PICK s \in Settled :
        /\ results_map' = [results_map EXCEPT ![n] = s]
        /\ s = "Completed" <=> pc[w] = "succeeded"
        /\ s = "Failed" <=> pc[w] = "failing"
        /\ s = "Skipped" <=> pc[w] = "skipping"
  BY DEF CommitSkipped, CommitCompleted, CommitFailed, FailThen, Settled
<1>3. /\ phase = "running" /\ max_attempts' = max_attempts
      /\ node_id' = node_id /\ attempts' = attempts
      /\ pc[w] \in Holding
      /\ \A v \in Worker \ {w} : pc'[v] = pc[v] \/ (pc[v] = "asleep" /\ pc'[v] = "wait")
      /\ pc'[w] \in {"wait", "notifying", "exited"}
  BY <1>1
  DEF CommitSkipped, CommitCompleted, CommitFailed, FailThen, Woken, config, Holding
<1>4. /\ n \in Id /\ results_map[n] = "None"
      /\ \A v \in Worker \ {w} : n \notin Held(v)
  BY <1>3, HolderFacts
<1>5. \A m \in Id : results_map'[m] = IF m = n THEN s ELSE results_map[m]
  BY <1>1, <1>2
<1>6. pc[w] = "skipping" => ~(attempts[n] > 0)
  <2>1. SUFFICES ASSUME pc[w] = "skipping", attempts[n] > 0 PROVE FALSE
    OBVIOUS
  <2>2. PICK v \in Worker : Running(v) /\ node_id[v] = n
    BY <2>1, <1>4 DEF AttemptsInv
  <2>3. v # w /\ n \in Held(v)
    BY <2>1, <2>2 DEF Running, Held, Holding
  <2>4. QED
    BY <2>3, <1>4
<1>7. ASSUME NEW m \in Id, attempts'[m] > 0
      PROVE  /\ attempts'[m] <= max_attempts'[m]
             /\ \/ results_map'[m] \in {"Completed", "Failed"}
                \/ \E v \in Worker : Running(v)' /\ node_id'[v] = m
  <2>1. attempts[m] <= max_attempts[m]
    BY <1>3, <1>7 DEF AttemptsInv
  <2>2. CASE m = n
    <3>1. s # "Skipped"
      BY <2>2, <1>2, <1>3, <1>6, <1>7
    <3>2. QED
      BY <2>1, <2>2, <3>1, <1>3, <1>5 DEF Settled
  <2>3. CASE m # n /\ results_map[m] \in {"Completed", "Failed"}
    BY <2>1, <2>3, <1>3, <1>5
  <2>4. CASE m # n /\ results_map[m] \notin {"Completed", "Failed"}
    <3>1. PICK v \in Worker : Running(v) /\ node_id[v] = m
      BY <2>4, <1>3, <1>7 DEF AttemptsInv
    <3>2. Running(v)' /\ node_id'[v] = m
      BY <3>1, <2>4, <1>3 DEF Running
    <3>3. QED
      BY <2>1, <3>2, <1>3
  <2>5. QED
    BY <2>2, <2>3, <2>4
<1>8. ASSUME NEW v \in Worker
      PROVE  /\ pc'[v] = "succeeded" => attempts'[node_id'[v]] > 0
             /\ pc'[v] = "failing" =>
                   attempts'[node_id'[v]] >= max_attempts'[node_id'[v]]
  BY <1>3 DEF AttemptsInv
<1>9. ASSUME NEW m \in Id
      PROVE  /\ results_map'[m] = "Completed" => attempts'[m] > 0
             /\ results_map'[m] = "Failed" => attempts'[m] >= max_attempts'[m]
  BY <1>2, <1>3, <1>5 DEF AttemptsInv
<1>10. QED
  BY <1>7, <1>8, <1>9 DEF AttemptsInv

LEMMA JoinOutcome ==
    ASSUME OutcomeInv, Join
    PROVE  AttemptsInv' /\ ExitInv' /\ DoneInv' /\ WakeInv'
<1> USE DEF OutcomeInv, Join, config, shared
<1>1. AttemptsInv' /\ ExitInv' /\ WakeInv'
  BY DEF AttemptsInv, ExitInv, WakeInv, Running, Nodes, Size, Finished
<1>2. Nodes' = Nodes
  BY DEF Nodes
<1>3. \A n \in Id : report'[n] =
         IF n \notin Nodes THEN "None"
         ELSE IF results_map[n] = "None" THEN "Skipped" ELSE results_map[n]
  OBVIOUS
<1>4. DoneInv'
  BY <1>2, <1>3 DEF DoneInv
<1>5. QED
  BY <1>1, <1>4
-----------------------------------------------------------------------------
(* The inductive invariant of the outcome: calls stay within the retry     *)
(* limit, workers leave only when the work is over, and nobody sleeps      *)
(* through the end.                                                        *)
THEOREM OutcomeInvariant == Spec => []OutcomeInv
<1>1. Init => OutcomeInv
  <2>1. Init => phase = "building"
    BY DEF Init
  <2>2. QED
    BY <2>1, InitSafety, NotStartedOutcome DEF OutcomeInv
<1>2. OutcomeInv /\ SafetyInv' /\ [Next]_vars => OutcomeInv'
  <2> SUFFICES ASSUME OutcomeInv, SafetyInv', [Next]_vars PROVE OutcomeInv'
    OBVIOUS
  <2> USE DEF OutcomeInv
  <2>1. CASE Reject \/ \E n \in Id, D \in SUBSET Id, k \in Attempts : AddNode(n, D, k)
    <3>1. phase' \in {"building", "rejected"}
      BY <2>1 DEF AddNode, Reject
    <3>2. /\ \A w \in Worker : pc'[w] = "none"
          /\ \A n \in Id : results_map'[n] = "None" /\ attempts'[n] = 0
      BY <3>1 DEF SafetyInv, NotStarted
    <3>3. QED
      BY <3>1, <3>2 DEF AttemptsInv, ExitInv, DoneInv, WakeInv
  <2>2. CASE Launch
    BY <2>2, LaunchOutcome
  <2>3. ASSUME NEW w \in Worker, WorkerStep(w) \/ SpuriousWake(w)
        PROVE  OutcomeInv'
    <3>1. ExitInv' /\ WakeInv'
      BY <2>3, ExitStep, WakeStep
    <3>2. AttemptsInv'
      BY <2>3, AttemptsQuietStep, AttemptsCommitStep DEF WorkerStep
    <3>3. phase' = "running"
      BY <2>3
      DEF WorkerStep, SpuriousWake, Sleep, Exit, Pop, Take, CheckDeps, CommitSkipped,
          Attempt, TryOnce, GiveUp, CommitCompleted, CommitFailed, FailThen, Notify, At
    <3>4. QED
      BY <3>1, <3>2, <3>3 DEF DoneInv
  <2>4. CASE Join
    BY <2>4, JoinOutcome
  <2>5. CASE UNCHANGED vars
    BY <2>5
    DEF vars, config, shared, outcome, AttemptsInv, ExitInv, DoneInv, WakeInv, Running,
        Nodes, Size, Finished
  <2>6. QED
    BY <2>1, <2>2, <2>3, <2>4, <2>5 DEF Next
<1>3. QED
  BY <1>1, <1>2, SchedulerInvariant, PTL DEF Spec

(* When the call has returned, either every declared node has a result or  *)
(* a failure stopped a FailFast execution.                                 *)
LEMMA AllSettledOrStopped ==
    ASSUME OutcomeInv, phase \in {"running", "done"},
           \A w \in Worker : pc[w] \in {"none", "exited"}
    PROVE  \/ \A n \in Nodes : results_map[n] # "None"
           \/ stop_requested
<1> USE DEF OutcomeInv
<1>1. 1 \in Worker
  BY SchedulerAssumption DEF Worker
<1>2. CASE Nodes = {}
  BY <1>2
<1>3. CASE Nodes # {}
  <2>1. Finished
    BY <1>1, <1>3 DEF ExitInv
  <2>2. QED
    BY <2>1, CountFacts DEF Finished
<1>4. QED
  BY <1>2, <1>3

(* What execute() returns is sound: success means that every node          *)
(* completed, every result is explained by the dependencies, a node is     *)
(* left unscheduled only by FailFast, and no node is called more often     *)
(* than max_attempts allows, whatever the workers' interleaving.           *)
THEOREM SoundReport == Spec => []ReportIsSound
<1>1. OutcomeInv => ReportIsSound
  <2> SUFFICES ASSUME OutcomeInv PROVE ReportIsSound
    OBVIOUS
  <2> USE DEF OutcomeInv
  <2>1. /\ results_map \in [Id -> Settled \cup {"None"}]
        /\ attempts \in [Id -> Nat] /\ deps \in [Id -> SUBSET Id]
    BY DEF SafetyInv, TypeOK
  <2>2. ASSUME NEW n \in Id
        PROVE  /\ attempts[n] > 0 => attempts[n] <= max_attempts[n]
               /\ results_map[n] = "Completed" => attempts[n] > 0
               /\ results_map[n] = "Failed" => attempts[n] >= max_attempts[n]
               /\ results_map[n] = "Skipped" => attempts[n] = 0
    <3>1. ASSUME results_map[n] = "Skipped", attempts[n] > 0 PROVE FALSE
      <4>1. PICK w \in Worker : Running(w) /\ node_id[w] = n
        BY <3>1 DEF AttemptsInv
      <4>2. n \in Held(w)
        BY <4>1 DEF Running, Held, Holding
      <4>3. results_map[n] = "None"
        BY <4>2 DEF SafetyInv, OneOwner
      <4>4. QED
        BY <4>3, <3>1
    <3>2. attempts[n] \in Nat
      BY <2>1
    <3>3. results_map[n] = "Skipped" => attempts[n] = 0
      BY <3>1, <3>2
    <3>4. QED
      BY <3>3 DEF AttemptsInv
  <2>3. ASSUME phase = "done"
        PROVE  /\ success <=> \A n \in Nodes : report[n] = "Completed"
               /\ \A n \in Nodes :
                    /\ report[n] \in Settled
                    /\ report[n] \in {"Completed", "Failed"} =>
                          \A d \in deps[n] : report[d] = "Completed"
                    /\ report[n] = "Skipped" =>
                          \/ \E d \in deps[n] : report[d] \in {"Failed", "Skipped"}
                          \/ mode = "FailFast" /\ \E d \in Nodes : report[d] = "Failed"
    <3>1. /\ Nodes \subseteq Id
          /\ \A n \in Id : results_map[n] # "None" => n \in Nodes
      BY <2>3, CountFacts
    <3>2. \/ \A n \in Nodes : results_map[n] # "None"
          \/ mode = "FailFast" /\ \E n \in Nodes : results_map[n] = "Failed"
      <4>1. \A w \in Worker : pc[w] \in {"none", "exited"}
        BY <2>3 DEF DoneInv
      <4>2. \/ \A n \in Nodes : results_map[n] # "None"
            \/ stop_requested
        BY <2>3, <4>1, AllSettledOrStopped
      <4>3. QED
        BY <4>2, <3>1 DEF SafetyInv, FailedInv
    <3>3. \A n \in Nodes : report[n] =
             IF results_map[n] = "None" THEN "Skipped" ELSE results_map[n]
      BY <2>3, <3>1 DEF DoneInv
    <3>4. /\ success <=> failed_nodes = {}
          /\ failed_nodes = {n \in Id : results_map[n] \in {"Failed", "Skipped"}}
      BY <2>3 DEF DoneInv, SafetyInv, FailedInv
    <3>5. \A n \in Nodes : results_map[n] \in Settled \cup {"None"}
      BY <2>1, <3>1
    <3>6. success <=> \A n \in Nodes : report[n] = "Completed"
      BY <3>1, <3>2, <3>3, <3>4, <3>5 DEF Settled
    <3>7. \A n \in Nodes : \A d \in deps[n] : d \in Nodes
      BY <2>3 DEF SafetyInv, GraphInv, Closed, Nodes
    <3>8. ASSUME NEW n \in Nodes, report[n] \in {"Completed", "Failed"},
                 NEW d \in deps[n]
          PROVE  report[d] = "Completed"
      <4>1. results_map[n] \in {"Completed", "Failed"}
        BY <3>3, <3>8
      <4>2. results_map[d] = "Completed"
        BY <4>1, <3>1 DEF SafetyInv, ExplainedInv
      <4>3. QED
        BY <4>2, <3>3, <3>7
    <3>9. ASSUME NEW n \in Nodes, report[n] = "Skipped"
          PROVE  \/ \E d \in deps[n] : report[d] \in {"Failed", "Skipped"}
                 \/ mode = "FailFast" /\ \E d \in Nodes : report[d] = "Failed"
      <4>1. CASE results_map[n] = "None"
        <5>1. PICK d \in Nodes : mode = "FailFast" /\ results_map[d] = "Failed"
          BY <4>1, <3>2
        <5>2. report[d] = "Failed"
          BY <5>1, <3>3
        <5>3. QED
          BY <5>1, <5>2
      <4>2. CASE results_map[n] # "None"
        <5>1. results_map[n] = "Skipped"
          BY <4>2, <3>3, <3>9
        <5>2. PICK d \in deps[n] : results_map[d] \in {"Failed", "Skipped"}
          BY <5>1, <3>1 DEF SafetyInv, ExplainedInv
        <5>3. report[d] = results_map[d]
          BY <5>2, <3>3, <3>7
        <5>4. QED
          BY <5>2, <5>3
      <4>3. QED
        BY <4>1, <4>2
    <3>10. \A n \in Nodes : report[n] \in Settled
      BY <3>3, <3>5 DEF Settled
    <3>11. QED
      BY <3>6, <3>8, <3>9, <3>10
  <2>4. QED
    BY <2>2, <2>3 DEF ReportIsSound
<1>2. QED
  BY <1>1, OutcomeInvariant, PTL

(* The condition variable never loses a wakeup: while a worker sleeps      *)
(* there is nothing to do, or another worker is on its way to notify_all   *)
(* or to the queue.                                                        *)
THEOREM WakeupsArrive == Spec => []NoLostWakeup
<1>1. OutcomeInv => NoLostWakeup
  BY DEF OutcomeInv, WakeInv, NoLostWakeup, WaitIsOver
<1>2. QED
  BY <1>1, OutcomeInvariant, PTL
-----------------------------------------------------------------------------
(* The initial states of the execution are initial states of the contract. *)
LEMMA ContractInit == Init => Contract!Init
<1> SUFFICES ASSUME Init PROVE Contract!Init
  OBVIOUS
<1>1. /\ order \in Seq(Id) /\ deps \in [Id -> SUBSET Id]
      /\ mode \in {"FailFast", "FailGraceful", "ContinueOnError"}
  BY InitSafety DEF SafetyInv, TypeOK, AllModes
<1>2. phase = "building" /\ success = FALSE
  BY DEF Init
<1>3. \A n \in Id : StatusOf(n) = "Pending"
  BY DEF Init, StatusOf, Running
<1>4. QED
  BY <1>1, <1>2, <1>3 DEF Contract!Init

(* Before and during the launch every node is pending. *)
LEMMA ContractBuild ==
    ASSUME SafetyInv, SafetyInv',
           \/ \E n \in Id, D \in SUBSET Id, k \in Attempts : AddNode(n, D, k)
           \/ Reject \/ Launch
    PROVE  Contract!Build \/ Contract!Call
<1>1. phase = "building" /\ mode' = mode /\ success = FALSE /\ success' = FALSE
  BY DEF AddNode, Reject, Launch, config, outcome, SafetyInv, NotStarted
<1>2. /\ \A n \in Id : results_map[n] = "None" /\ results_map'[n] = "None"
      /\ \A w \in Worker : pc[w] = "none" /\ pc'[w] \in {"none", "wait"}
      /\ phase' # "done"
  BY <1>1 DEF AddNode, Reject, Launch, shared, SafetyInv, NotStarted
<1>3. \A n \in Id : StatusOf(n) = "Pending" /\ StatusOf(n)' = "Pending"
  BY <1>1, <1>2 DEF StatusOf, Running
<1>4. CASE \E n \in Id, D \in SUBSET Id, k \in Attempts : AddNode(n, D, k)
  <2>1. order' \in Seq(Id) /\ deps' \in [Id -> SUBSET Id] /\ phase' = phase
    BY <1>4 DEF AddNode, SafetyInv, TypeOK
  <2>2. QED
    BY <2>1, <1>1, <1>3 DEF Contract!Build
<1>5. CASE Reject \/ Launch
  <2>1. /\ order' = order /\ deps' = deps
        /\ phase' = IF IsDag(order, deps) THEN "running" ELSE "rejected"
    BY <1>5 DEF Reject, Launch, config
  <2>2. IsDag(order, deps) <=> Contract!IsDag(order, deps)
    BY DEF IsDag, Distinct, Closed, Acyclic, Declared, Members,
           Contract!IsDag, Contract!Distinct, Contract!Closed, Contract!Acyclic,
           Contract!Declared, Contract!Members
  <2>3. QED
    BY <2>1, <2>2, <1>1, <1>3 DEF Contract!Call
<1>6. QED
  BY <1>4, <1>5

(* Which nodes run: those a worker has decided to execute and not yet      *)
(* committed.                                                              *)
LEMMA StatusFacts ==
    ASSUME SafetyInv, phase = "running", NEW w \in Worker, pc[w] \in Holding
    PROVE  StatusOf(node_id[w]) = IF Running(w) THEN "Running" ELSE "Pending"
<1>1. /\ results_map[node_id[w]] = "None"
      /\ \A v \in Worker \ {w} : node_id[w] \notin Held(v)
  BY HolderFacts
<1>2. \A v \in Worker \ {w} : ~(Running(v) /\ node_id[v] = node_id[w])
  BY <1>1 DEF Held, Running, Holding
<1>3. QED
  BY <1>1, <1>2 DEF StatusOf

(* The steps that no caller sees. *)
LEMMA ContractStutter ==
    ASSUME SafetyInv, NEW w \in Worker,
           \/ Sleep(w) \/ SpuriousWake(w) \/ Exit(w) \/ Notify(w) \/ Pop(w)
           \/ Attempt(w) \/ GiveUp(w)
           \/ CheckDeps(w) /\ pc'[w] = "skipping"
    PROVE  UNCHANGED Contract!vars
<1> USE DEF At, Goto
<1>1. pc \in [Worker -> Positions] /\ node_id \in [Worker -> Id \cup {NoNode}]
  BY DEF SafetyInv, TypeOK
<1>2. /\ UNCHANGED <<config, results_map, outcome, phase>> /\ phase = "running"
  BY DEF Sleep, SpuriousWake, Exit, Notify, Pop, Take, CheckDeps, Attempt, TryOnce,
         GiveUp, shared
<1>3. \A v \in Worker : /\ Running(v)' <=> Running(v)
                        /\ Running(v) => node_id'[v] = node_id[v]
  BY <1>1
  DEF Sleep, SpuriousWake, Exit, Notify, Pop, Take, CheckDeps, Attempt, TryOnce,
      GiveUp, Woken, Running
<1>4. \A n \in Id : StatusOf(n)' = StatusOf(n)
  BY <1>2, <1>3 DEF StatusOf
<1>5. QED
  BY <1>2, <1>4 DEF Contract!vars, config, outcome

(* The dependency test that lets a node run is the contract's Start. *)
LEMMA ContractStart ==
    ASSUME SafetyInv, SafetyInv', NEW w \in Worker, CheckDeps(w), pc'[w] # "skipping"
    PROVE  Contract!Start(node_id[w])
<1> DEFINE n == node_id[w]
<1>1. /\ pc \in [Worker -> Positions] /\ pc[w] = "popped" /\ pc[w] \in Holding
      /\ pc' = [pc EXCEPT ![w] = "executing"] /\ phase = "running"
      /\ UNCHANGED <<config, phase, results_map, outcome, node_id>>
  BY DEF CheckDeps, At, Goto, SafetyInv, TypeOK, Holding, shared
<1>2. n \in Nodes /\ n \in Id /\ deps[n] \subseteq Id
  BY <1>1, HolderFacts DEF SafetyInv, TypeOK
<1>3. StatusOf(n) = "Pending"
  BY <1>1, StatusFacts DEF Running
<1>4. \A d \in deps[n] : StatusOf(d) = "Completed"
  <2>1. \A d \in deps[n] : results_map[d] = "Completed"
    BY <1>1 DEF SafetyInv, RunsAfterDependencies, config
  <2>2. QED
    BY <2>1, <1>1 DEF StatusOf
<1>5. \A m \in Id : StatusOf(m)' = IF m = n THEN "Running" ELSE StatusOf(m)
  <2>1. results_map[n] = "None"
    BY <1>1, HolderFacts
  <2>2. \A v \in Worker : Running(v)' <=> v = w \/ Running(v)
    BY <1>1 DEF Running
  <2>3. QED
    BY <2>1, <2>2, <1>1 DEF StatusOf, Running
<1>6. n \in Contract!Declared(order)
  BY <1>2 DEF Nodes, Declared, Members, Contract!Declared, Contract!Members
<1>7. QED
  BY <1>1, <1>2, <1>3, <1>4, <1>5, <1>6
  DEF Contract!Start, Contract!Become, config, outcome

(* Every commit settles one node of the contract. *)
LEMMA ContractCommit ==
    ASSUME SafetyInv, NEW w \in Worker,
           CommitSkipped(w) \/ CommitCompleted(w) \/ CommitFailed(w)
    PROVE  Contract!Finish(node_id[w]) \/ Contract!Skip(node_id[w])
<1> USE DEF At, Goto
<1> DEFINE n == node_id[w]
<1>1. /\ pc \in [Worker -> Positions] /\ phase = "running" /\ pc[w] \in Holding
      /\ results_map \in [Id -> Settled \cup {"None"}]
      /\ UNCHANGED <<config, phase, node_id, outcome>>
  BY DEF CommitSkipped, CommitCompleted, CommitFailed, FailThen, SafetyInv, TypeOK,
         Holding
<1>2. PICK s \in Settled :
        /\ results_map' = [results_map EXCEPT ![n] = s]
        /\ s \in {"Completed", "Failed"} <=> Running(w)
        /\ s = "Skipped" <=> pc[w] = "skipping"
  BY DEF CommitSkipped, CommitCompleted, CommitFailed, FailThen, Settled, Running
<1>3. /\ \A v \in Worker \ {w} : Running(v)' <=> Running(v)
      /\ ~Running(w)'
  BY <1>1
  DEF CommitSkipped, CommitCompleted, CommitFailed, FailThen, Woken, Running
<1>4. n \in Nodes /\ n \in Id
  BY <1>1, HolderFacts
<1>5. StatusOf(n) = IF Running(w) THEN "Running" ELSE "Pending"
  BY <1>1, StatusFacts
<1>6. \A m \in Id : StatusOf(m)' = IF m = n THEN s ELSE StatusOf(m)
  <2>1. \A m \in Id : results_map'[m] = IF m = n THEN s ELSE results_map[m]
    BY <1>1, <1>2
  <2>2. ASSUME NEW m \in Id, m # n
        PROVE  (\E v \in Worker : Running(v) /\ node_id[v] = m)'
                 <=> \E v \in Worker : Running(v) /\ node_id[v] = m
    BY <2>2, <1>1, <1>3
  <2>3. QED
    BY <2>1, <2>2, <1>1 DEF StatusOf, Settled
<1>7. n \in Contract!Declared(order)
  BY <1>4 DEF Nodes, Declared, Members, Contract!Declared, Contract!Members
<1>8. Contract!Become(n, s)
  BY <1>1, <1>6, <1>7 DEF Contract!Become, config, outcome
<1>9. CASE Running(w)
  BY <1>2, <1>4, <1>5, <1>8, <1>9 DEF Contract!Finish
<1>10. CASE ~Running(w)
  <2>1. s = "Skipped" /\ pc[w] = "skipping"
    BY <1>2, <1>10 DEF Settled
  <2>2. PICK d \in deps[n] : results_map[d] \in {"Failed", "Skipped"}
    BY <2>1 DEF SafetyInv, ExplainedInv
  <2>3. d \in Id /\ StatusOf(d) \in {"Failed", "Skipped"}
    BY <2>2, <1>1, <1>4 DEF StatusOf, SafetyInv, TypeOK
  <2>4. QED
    BY <2>1, <2>2, <2>3, <1>4, <1>5, <1>8, <1>10 DEF Contract!Skip
<1>11. QED
  BY <1>9, <1>10

(* Joining the workers is the contract's Return. *)
LEMMA ContractReturn ==
    ASSUME OutcomeInv, Join
    PROVE  Contract!Return
<1> USE DEF OutcomeInv
<1>1. /\ phase = "running" /\ phase' = "done" /\ UNCHANGED <<order, deps, mode>>
      /\ UNCHANGED <<results_map, failed_nodes>>
      /\ \A w \in Worker : pc[w] \in {"none", "exited"}
      /\ success' = (failed_nodes = {})
      /\ results_map \in [Id -> Settled \cup {"None"}]
  BY DEF Join, config, shared, SafetyInv, TypeOK
<1>2. \A n \in Id : StatusOf(n) = IF results_map[n] = "None" THEN "Pending"
                                                             ELSE results_map[n]
  BY <1>1 DEF StatusOf, Running
<1>3. /\ Contract!Declared(order) = Nodes
      /\ Nodes \subseteq Id
      /\ \A n \in Id : results_map[n] # "None" => n \in Nodes
  BY <1>1, CountFacts
  DEF Nodes, Declared, Members, Contract!Declared, Contract!Members
<1>4. \A n \in Id : report'[n] =
         IF n \notin Nodes THEN "None"
         ELSE IF results_map[n] = "None" THEN "Skipped" ELSE results_map[n]
  BY DEF Join
<1>5. \A n \in Id : StatusOf(n)' =
         IF n \in Nodes /\ StatusOf(n) = "Pending" THEN "Skipped" ELSE StatusOf(n)
  BY <1>1, <1>2, <1>3, <1>4 DEF StatusOf, Settled
<1>6. \/ \A n \in Nodes : results_map[n] # "None"
      \/ mode = "FailFast" /\ \E n \in Nodes : results_map[n] = "Failed"
  BY <1>1, <1>3, AllSettledOrStopped DEF SafetyInv, FailedInv
<1>7. \/ \A n \in Nodes : StatusOf(n) # "Pending"
      \/ mode = "FailFast" /\ \E n \in Nodes : StatusOf(n) = "Failed"
  BY <1>1, <1>2, <1>3, <1>6 DEF Settled
<1>8. \A n \in Nodes : StatusOf(n) # "Running"
  BY <1>1, <1>2, <1>3 DEF Settled
<1>9. success' = (\A n \in Nodes : StatusOf(n) = "Completed")
  <2>1. failed_nodes = {n \in Id : results_map[n] \in {"Failed", "Skipped"}}
    BY DEF SafetyInv, FailedInv
  <2>2. (failed_nodes = {}) <=> \A n \in Nodes : StatusOf(n) = "Completed"
    BY <2>1, <1>1, <1>2, <1>3, <1>6 DEF Settled
  <2>3. QED
    BY <2>2, <1>1
<1>10. QED
  BY <1>1, <1>3, <1>5, <1>7, <1>8, <1>9 DEF Contract!Return

(* execute() implements the thread-free contract DagExecution: whatever    *)
(* the interleaving of the workers, its results come about by starting,    *)
(* settling and skipping single nodes in an order the graph allows.        *)
THEOREM SchedulerImplementsContract == Spec => ImplementsContract
<1>1. OutcomeInv /\ SafetyInv' /\ [Next]_vars => [Contract!Next]_(Contract!vars)
  <2> SUFFICES ASSUME OutcomeInv, SafetyInv', [Next]_vars
               PROVE  [Contract!Next]_(Contract!vars)
    OBVIOUS
  <2>1. SafetyInv
    BY DEF OutcomeInv
  <2>2. CASE \/ \E n \in Id, D \in SUBSET Id, k \in Attempts : AddNode(n, D, k)
             \/ Reject \/ Launch
    BY <2>1, <2>2, ContractBuild DEF Contract!Next
  <2>3. ASSUME NEW w \in Worker, WorkerStep(w) \/ SpuriousWake(w)
        PROVE  [Contract!Next]_(Contract!vars)
    <3>1. CASE CommitSkipped(w) \/ CommitCompleted(w) \/ CommitFailed(w)
      <4>1. node_id[w] \in Id
        BY <2>1, <3>1, HolderFacts
        DEF CommitSkipped, CommitCompleted, CommitFailed, FailThen, At, Holding
      <4>2. QED
        BY <2>1, <3>1, <4>1, ContractCommit DEF Contract!Next
    <3>2. CASE CheckDeps(w) /\ pc'[w] # "skipping"
      <4>1. node_id[w] \in Id
        BY <2>1, <3>2, HolderFacts DEF CheckDeps, At, Holding
      <4>2. QED
        BY <2>1, <3>2, <4>1, ContractStart DEF Contract!Next
    <3>3. CASE \/ Sleep(w) \/ SpuriousWake(w) \/ Exit(w) \/ Notify(w) \/ Pop(w)
               \/ Attempt(w) \/ GiveUp(w)
               \/ CheckDeps(w) /\ pc'[w] = "skipping"
      BY <2>1, <3>3, ContractStutter
    <3>4. QED
      BY <2>3, <3>1, <3>2, <3>3 DEF WorkerStep
  <2>4. CASE Join
    BY <2>4, ContractReturn DEF Contract!Next
  <2>5. CASE UNCHANGED vars
    <3>1. \A n \in Id : StatusOf(n)' = StatusOf(n)
      BY <2>5 DEF vars, config, shared, outcome, StatusOf, Running
    <3>2. QED
      BY <2>5, <3>1 DEF vars, config, outcome, Contract!vars
  <2>6. QED
    BY <2>2, <2>3, <2>4, <2>5 DEF Next
<1>2. QED
  BY <1>1, ContractInit, OutcomeInvariant, SchedulerInvariant, PTL
  DEF Spec, ImplementsContract, Contract!Spec
=============================================================================
