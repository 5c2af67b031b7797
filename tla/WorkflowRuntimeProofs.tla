----------------------- MODULE WorkflowRuntimeProofs -----------------------
(***************************************************************************)
(* Proofs about WorkflowRuntime, for every finite set of names, every      *)
(* declaration over it (with repeated, unknown and circular names) and     *)
(* every way its agents may end.                                           *)
(***************************************************************************)
EXTENDS WorkflowRuntime, DagProofs

AfterLists == UNION {[1 .. k -> Id] : k \in 0 .. MaxAfter}

(* The declaration. *)
DeclaredInv ==
    /\ order \in Seq(Id)
    /\ after \in Seq(AfterLists)
    /\ Len(after) = Len(order)

Done == Members(sorted_nodes)

(* The positions of the i-th after list at which a node is not yet done. *)
Missing(i, done) == {k \in DOMAIN after[i] : after[i][k] \notin done}

(* When no name is repeated: the count of a node is what it waits for; a   *)
(* node is in ready, or done, just when it waits for nothing; and what is  *)
(* done stands behind everything it depends on.                            *)
CountInv ==
    /\ \A i \in DOMAIN order : order[i] \notin Done =>
          remaining_dependencies[order[i]] = Cardinality(Missing(i, Done))
    /\ \A n \in Members(ready) : deps[n] \subseteq Done
    /\ \A n \in Nodes \ Done : deps[n] \subseteq Done => n \in Members(ready)
    /\ \A i \in DOMAIN sorted_nodes :
          deps[sorted_nodes[i]] \subseteq {sorted_nodes[j] : j \in 1 .. i - 1}

SortInv ==
    /\ remaining_dependencies \in [Id -> 0 .. MaxAfter]
    /\ ready \in Seq(Id) /\ Members(ready) \subseteq Nodes
    /\ sorted_nodes \in Seq(Id) /\ Distinct(sorted_nodes) /\ Done \subseteq Nodes
    /\ phase \in {"declaring", "sorting", "running", "returned"}
    /\ phase = "declaring" => sorted_nodes = <<>>
    /\ IF phase = "sorting" THEN order # <<>> ELSE ready = <<>>
    /\ phase # "declaring" /\ Distinct(order) => CountInv

Failures == Terminal \cup {"Skipped"}

(* The node loop has settled a prefix of the sorted nodes, and holds the   *)
(* next one at most.                                                       *)
LoopInv ==
    /\ node_status \in [Id -> Results]
    /\ execution_order \in Seq(Id)
    /\ Len(execution_order) <= Len(sorted_nodes)
    /\ \A i \in DOMAIN execution_order : execution_order[i] = sorted_nodes[i]
    /\ \A n \in Id : node_status[n] # "None" <=> n \in Members(execution_order)
    /\ failed_nodes = {n \in Id : node_status[n] \in Failures}
    /\ node_outputs \subseteq Id
    /\ \A n \in Members(execution_order) :
          node_status[n] = "Skipped" <=> deps[n] \cap failed_nodes # {}
    /\ phase # "running" => current = {}
    /\ current # {} => /\ Len(execution_order) < Len(sorted_nodes)
                       /\ current = {sorted_nodes[Len(execution_order) + 1]}
                       /\ deps[sorted_nodes[Len(execution_order) + 1]] \cap failed_nodes = {}

(* The status tells what has happened. *)
StatusInv ==
    /\ status \in {"Completed", "NodeFailed", "DependencyFailed", "EvalError"}
    /\ output \in BOOLEAN
    /\ output => phase = "returned" /\ status = "Completed"
    /\ phase \in {"declaring", "sorting"} => status = "Completed" /\ execution_order = <<>>
    /\ phase = "running" => /\ order # <<>> /\ Len(sorted_nodes) = Len(order)
                            /\ status # "DependencyFailed"
    /\ status = "Completed" => failed_nodes = {}
    /\ status = "NodeFailed" /\ order # <<>> => \E n \in Nodes : node_status[n] \in Terminal
    /\ phase = "returned" /\ order # <<>> =>
          IF Len(sorted_nodes) = Len(order)
            THEN status # "DependencyFailed" /\ Len(execution_order) = Len(sorted_nodes)
            ELSE status = "DependencyFailed" /\ execution_order = <<>>

WorkflowInv == DeclaredInv /\ SortInv /\ LoopInv /\ StatusInv
-----------------------------------------------------------------------------
(* The lists of a declaration. *)
LEMMA AfterFacts ==
    ASSUME DeclaredInv
    PROVE  /\ Len(order) \in Nat /\ DOMAIN order = 1 .. Len(order)
           /\ DOMAIN after = DOMAIN order
           /\ \A i \in DOMAIN order :
                 /\ order[i] \in Id
                 /\ Len(after[i]) \in 0 .. MaxAfter
                 /\ DOMAIN after[i] = 1 .. Len(after[i])
                 /\ Members(after[i]) \subseteq Id
                 /\ after[i] = <<>> <=> Len(after[i]) = 0
           /\ deps \in [Id -> SUBSET Id]
           /\ Nodes \subseteq Id
<1>1. /\ Len(order) \in Nat /\ DOMAIN order = 1 .. Len(order)
      /\ DOMAIN after = DOMAIN order
      /\ \A i \in 1 .. Len(order) : order[i] \in Id /\ after[i] \in AfterLists
  BY LenProperties, ElementOfSeq DEF DeclaredInv
<1>2. ASSUME NEW list \in AfterLists
      PROVE  /\ Len(list) \in 0 .. MaxAfter
             /\ DOMAIN list = 1 .. Len(list)
             /\ Members(list) \subseteq Id
             /\ list = <<>> <=> Len(list) = 0
  <2>1. PICK k \in 0 .. MaxAfter : list \in [1 .. k -> Id]
    BY WorkflowAssumption DEF AfterLists
  <2>2. list \in Seq(Id) /\ Len(list) = k
    BY <2>1, WorkflowAssumption
  <2>3. Members(list) \subseteq Id /\ DOMAIN list = 1 .. Len(list)
    BY <2>1, <2>2 DEF Members
  <2>4. list = <<>> <=> Len(list) = 0
    BY <2>2, EmptySeq
  <2>5. QED
    BY <2>1, <2>2, <2>3, <2>4
<1>3. deps \in [Id -> SUBSET Id]
  BY <1>1, <1>2 DEF deps
<1>4. QED
  BY <1>1, <1>2, <1>3 DEF Nodes, Declared, Members

LEMMA DepsOfEntry ==
    ASSUME DeclaredInv, Distinct(order), NEW i \in DOMAIN order
    PROVE  deps[order[i]] = Members(after[i])
<1>1. {j \in DOMAIN order : order[j] = order[i]} = {i}
  BY DEF Distinct
<1>2. order[i] \in Id
  BY AfterFacts
<1>3. QED
  BY <1>1, <1>2 DEF deps

(* Without repeated names, an entry is counted from its own list only. *)
LEMMA OccurrencesCounted ==
    ASSUME DeclaredInv, Distinct(order), NEW i \in DOMAIN order,
           NEW d, NEW l \in i .. Len(order)
    PROVE  /\ IsFiniteSet({k \in DOMAIN after[i] : after[i][k] = d})
           /\ Occurrences(order[i], d, l) = Cardinality({k \in DOMAIN after[i] : after[i][k] = d})
<1> DEFINE K == {k \in DOMAIN after[i] : after[i][k] = d}
           P == {p \in (1 .. l) \X (1 .. MaxAfter) :
                    order[p[1]] = order[i] /\ p[2] \in DOMAIN after[p[1]] /\ after[p[1]][p[2]] = d}
<1>1. /\ Len(order) \in Nat /\ DOMAIN order = 1 .. Len(order)
      /\ Len(after[i]) \in 0 .. MaxAfter /\ DOMAIN after[i] = 1 .. Len(after[i])
      /\ MaxAfter \in Nat /\ Len(after[i]) \in Nat
  BY AfterFacts, WorkflowAssumption
<1>2. IsFiniteSet(K)
  <2>1. Len(after[i]) \in Nat
    BY <1>1
  <2>2. IsFiniteSet(1 .. Len(after[i]))
    BY <2>1, FS_Interval
  <2>3. QED
    BY <1>1, <2>2, FS_Subset
<1>3. P = {i} \X K
  <2>1. ASSUME NEW j \in 1 .. l, order[j] = order[i] PROVE j = i
    BY <2>1, <1>1 DEF Distinct
  <2>2. i \in 1 .. l /\ K \subseteq 1 .. MaxAfter
    BY <1>1
  <2>3. QED
    BY <2>1, <2>2
<1>4. IsFiniteSet({i}) /\ Cardinality({i}) = 1 /\ Cardinality(K) \in Nat
  BY <1>2, FS_Singleton, FS_CardinalityType
<1>5. Cardinality({i} \X K) = Cardinality({i}) * Cardinality(K)
  <2> HIDE DEF K
  <2>1. QED
    BY <1>2, <1>4, FS_Product
<1>6. Occurrences(order[i], d, l) = Cardinality(P)
  BY DEF Occurrences
<1> HIDE DEF K, P
<1>7. Occurrences(order[i], d, l) = Cardinality(K)
  BY <1>3, <1>4, <1>5, <1>6
<1>8. QED
  BY <1>2, <1>7 DEF K

(* Taking d from a count that is what an entry waits for leaves what it    *)
(* waits for then.                                                         *)
LEMMA DecrementedIsMissing ==
    ASSUME DeclaredInv, Distinct(order), NEW i \in DOMAIN order,
           NEW done, NEW d, d \notin done, NEW l \in i .. Len(order),
           remaining_dependencies[order[i]] = Cardinality(Missing(i, done))
    PROVE  /\ Decremented(order[i], d, l) = Cardinality(Missing(i, done \cup {d}))
           /\ d \notin Members(after[i]) => Missing(i, done \cup {d}) = Missing(i, done)
           /\ Cardinality(Missing(i, done \cup {d})) = 0 <=>
                 Members(after[i]) \subseteq done \cup {d}
<1> DEFINE K == {k \in DOMAIN after[i] : after[i][k] = d}
           M == Missing(i, done)
<1>1. IsFiniteSet(K) /\ Occurrences(order[i], d, l) = Cardinality(K)
  BY OccurrencesCounted
<1>2. IsFiniteSet(M)
  <2>1. Len(after[i]) \in Nat /\ DOMAIN after[i] = 1 .. Len(after[i])
    BY AfterFacts, WorkflowAssumption
  <2>2. IsFiniteSet(1 .. Len(after[i]))
    BY <2>1, FS_Interval
  <2>3. QED
    BY <2>1, <2>2, FS_Subset DEF Missing
<1>3. Missing(i, done \cup {d}) = M \ K /\ M \cap K = K
  BY DEF Missing
<1>4. IsFiniteSet(M \ K) /\ Cardinality(M \ K) = Cardinality(M) - Cardinality(M \cap K)
  <2> HIDE DEF M, K
  <2>1. QED
    BY <1>2, FS_Difference
<1>5. Cardinality(M) \in Nat /\ Cardinality(K) \in Nat /\ Cardinality(M \ K) \in Nat
  <2> HIDE DEF M, K
  <2>1. QED
    BY <1>1, <1>2, <1>4, FS_CardinalityType
<1>6. Cardinality(M \ K) = 0 <=> M \ K = {}
  <2> HIDE DEF M, K
  <2>1. QED
    BY <1>4, FS_EmptySet
<1>7. M \ K = {} <=> Members(after[i]) \subseteq done \cup {d}
  BY DEF Missing, Members
<1>8. d \notin Members(after[i]) => M \ K = M
  BY DEF Members
<1>9. Decremented(order[i], d, l) = Cardinality(M \ K)
  <2>1. remaining_dependencies[order[i]] = Cardinality(M)
    OBVIOUS
  <2> HIDE DEF M, K
  <2>2. Cardinality(M \ K) = Cardinality(M) - Cardinality(K)
    BY <1>3, <1>4
  <2>3. Decremented(order[i], d, l) =
            IF Cardinality(M) > Cardinality(K) THEN Cardinality(M) - Cardinality(K) ELSE 0
    BY <2>1, <1>1, Zenon DEF Decremented
  <2>4. QED
    BY <2>2, <2>3, <1>5
<1> HIDE DEF K
<1>10. QED
  BY <1>3, <1>6, <1>7, <1>8, <1>9
-----------------------------------------------------------------------------
(* Init. *)
LEMMA InitInv == WorkflowInit => WorkflowInv
<1> SUFFICES ASSUME WorkflowInit PROVE WorkflowInv
  OBVIOUS
<1>1. DeclaredInv
  BY EmptySeq DEF WorkflowInit, DeclaredInv
<1>2. Members(<<>>) = {} /\ Distinct(<<>>) /\ Len(<<>>) = 0 /\ DOMAIN <<>> = {}
  BY DEF Members, Distinct
<1>3. SortInv
  BY <1>2, WorkflowAssumption, EmptySeq DEF WorkflowInit, SortInv, Done
<1>4. LoopInv
  BY <1>2, EmptySeq DEF WorkflowInit, LoopInv, Results, Terminal, Failures
<1>5. StatusInv
  BY DEF WorkflowInit, StatusInv
<1>6. QED
  BY <1>1, <1>3, <1>4, <1>5 DEF WorkflowInv

(* As long as the node loop has not begun, its variables are right. *)
LEMMA IdleLoop ==
    ASSUME LoopInv, execution_order = <<>>, current = {}, UNCHANGED progress,
           sorted_nodes' \in Seq(Id)
    PROVE  LoopInv'
<1>1. Members(<<>>) = {} /\ Len(<<>>) = 0 /\ DOMAIN <<>> = {} /\ Len(sorted_nodes') \in Nat
  BY LenProperties DEF Members
<1>2. /\ node_status' = node_status /\ execution_order' = <<>> /\ current' = {}
      /\ failed_nodes' = failed_nodes /\ node_outputs' = node_outputs
  BY DEF progress
<1>3. Members(execution_order') = {} /\ Members(execution_order) = {}
  BY <1>1, <1>2
<1>4. Len(execution_order') <= Len(sorted_nodes')
  BY <1>1, <1>2
<1>5. QED
  BY <1>1, <1>2, <1>3, <1>4 DEF LoopInv

LEMMA DeclareInv ==
    ASSUME WorkflowInv, NEW n \in Id, NEW k \in 0 .. MaxAfter, NEW list \in [1 .. k -> Id],
           Declare(n, list)
    PROVE  WorkflowInv'
<1> USE DEF WorkflowInv
<1>1. list \in AfterLists
  BY DEF AfterLists
<1>2. DeclaredInv' /\ Members(order') = Members(order) \cup {n}
  <2>1. /\ order' \in Seq(Id) /\ Len(order') = Len(order) + 1
        /\ Members(order') = Members(order) \cup {n}
    BY AppendMembers DEF Declare, DeclaredInv
  <2>2. after' \in Seq(AfterLists) /\ Len(after') = Len(after) + 1
    BY <1>1, AppendProperties DEF Declare, DeclaredInv
  <2>3. QED
    BY <2>1, <2>2 DEF DeclaredInv
<1>3. SortInv'
  BY <1>2 DEF Declare, SortInv, sorting, Done, Nodes, Declared
<1>4. LoopInv'
  <2>1. execution_order = <<>> /\ current = {} /\ UNCHANGED progress /\ sorted_nodes' \in Seq(Id)
    BY <1>3 DEF Declare, LoopInv, StatusInv, SortInv
  <2>2. QED
    BY <2>1, IdleLoop
<1>5. StatusInv'
  BY DEF Declare, StatusInv, progress
<1>6. QED
  BY <1>2, <1>3, <1>4, <1>5

(* run() returns without a workflow, or with an empty one. *)
LEMMA EmptyInv ==
    ASSUME WorkflowInv, NotFound \/ EmptyWorkflow
    PROVE  WorkflowInv'
<1> USE DEF WorkflowInv
<1>1. /\ UNCHANGED <<declared, sorting, progress>> /\ order = <<>> /\ phase = "declaring"
      /\ phase' = "returned"
  BY DEF NotFound, EmptyWorkflow
<1>2. DeclaredInv' /\ order' = <<>>
  BY <1>1 DEF DeclaredInv, declared
<1>3. Members(<<>>) = {} /\ DOMAIN <<>> = {}
  BY DEF Members
<1>4. /\ remaining_dependencies' = remaining_dependencies /\ ready' = <<>>
      /\ sorted_nodes' = <<>> /\ ready = <<>> /\ sorted_nodes = <<>>
  BY <1>1 DEF sorting, SortInv
<1>5. CountInv'
  BY <1>2, <1>3, <1>4 DEF CountInv, Nodes, Declared
<1>6. SortInv'
  BY <1>1, <1>2, <1>3, <1>4, <1>5 DEF SortInv, Done, Nodes, Declared
<1>7. LoopInv'
  <2>1. execution_order = <<>> /\ current = {} /\ UNCHANGED progress /\ sorted_nodes' \in Seq(Id)
    BY <1>1, <1>6 DEF LoopInv, StatusInv, SortInv
  <2>2. QED
    BY <2>1, IdleLoop
<1>8. StatusInv'
  <2>1. failed_nodes' = failed_nodes /\ failed_nodes = {}
    BY <1>1 DEF progress, StatusInv
  <2>2. CASE NotFound
    BY <1>1, <1>2, <2>1, <2>2 DEF NotFound, StatusInv
  <2>3. CASE EmptyWorkflow
    <3>1. status = "Completed" /\ output \in BOOLEAN
      BY <1>1 DEF StatusInv
    <3>2. /\ status' \in {"Completed", "EvalError"} /\ output' \in BOOLEAN
          /\ output' => status' = "Completed"
      <4>1. CASE UNCHANGED <<status, output>>
        BY <4>1, <3>1
      <4>2. CASE status' = "EvalError" /\ UNCHANGED output
        BY <4>2, <1>1 DEF StatusInv
      <4>3. CASE output' = TRUE /\ UNCHANGED status
        BY <4>3, <3>1
      <4>4. QED
        BY <2>3, <4>1, <4>2, <4>3 DEF EmptyWorkflow, EvalReturn
    <3>3. QED
      BY <1>1, <1>2, <2>1, <3>2 DEF StatusInv
  <2>4. QED
    BY <2>2, <2>3
<1>9. QED
  BY <1>2, <1>6, <1>7, <1>8

(* The counts and the roots at the start of the sort. *)
LEMMA BeginSortInv ==
    ASSUME WorkflowInv, BeginSort
    PROVE  WorkflowInv'
<1> USE DEF WorkflowInv
<1>1. /\ UNCHANGED <<declared, sorted_nodes, status, progress, output>>
      /\ phase = "declaring" /\ phase' = "sorting" /\ order # <<>>
      /\ order' = order /\ after' = after
  BY DEF BeginSort, declared
<1>2. DeclaredInv' /\ deps' = deps /\ Nodes' = Nodes
  BY <1>1 DEF DeclaredInv, deps, Nodes
<1> DEFINE roots == {i \in DOMAIN order : after[i] = <<>>}
           entry(n) == CHOOSE i \in DOMAIN order : /\ order[i] = n
                                                  /\ \A j \in 1 .. i - 1 : order[j] # n
<1>3. ready' \in Seq(Id) /\ Members(ready') = {order[i] : i \in roots}
  <2>1. order \in Seq(Id) /\ roots \in SUBSET DOMAIN order /\ ready' = Picked(order, roots)
    BY DEF BeginSort, DeclaredInv
  <2> HIDE DEF roots
  <2>2. QED
    BY <2>1, PickedFacts
<1>4. ASSUME NEW n \in Nodes
      PROVE  entry(n) \in DOMAIN order /\ order[entry(n)] = n
  <2>1. Len(order) \in Nat /\ DOMAIN order = 1 .. Len(order)
    BY AfterFacts
  <2> DEFINE A == {i \in DOMAIN order : order[i] = n}
  <2>2. A \in SUBSET Nat /\ A # {}
    BY <2>1 DEF Nodes, Declared, Members
  <2>3. PICK x \in A : \A y \in A : x <= y
    <3> HIDE DEF A
    <3>1. QED
      BY <2>2, LeastNumber
  <2>4. x \in DOMAIN order /\ order[x] = n /\ \A j \in 1 .. x - 1 : order[j] # n
    <3>1. ASSUME NEW j \in 1 .. x - 1, order[j] = n PROVE FALSE
      <4>1. j \in A /\ ~(x <= j)
        BY <2>1, <3>1
      <4>2. QED
        BY <2>3, <4>1
    <3>2. QED
      BY <3>1
  <2>5. QED
    BY <2>4
<1>5. remaining_dependencies' =
        [n \in Id |-> IF n \in Nodes THEN Len(after[entry(n)]) ELSE 0]
  BY DEF BeginSort
<1> HIDE DEF entry
<1>6. remaining_dependencies' \in [Id -> 0 .. MaxAfter]
  BY <1>4, <1>5, AfterFacts, WorkflowAssumption
<1>7. sorted_nodes' = <<>> /\ Members(<<>>) = {} /\ DOMAIN <<>> = {}
  BY <1>1 DEF SortInv, Members
<1>8. Done' = {}
  BY <1>7 DEF Done
<1>9. ASSUME Distinct(order) PROVE CountInv'
  <2>1. ASSUME NEW i \in DOMAIN order
        PROVE  remaining_dependencies'[order[i]] = Cardinality(Missing(i, {}))
    <3>1. order[i] \in Nodes /\ order[i] \in Id
      BY AfterFacts DEF Nodes, Declared, Members
    <3>2. entry(order[i]) = i
      BY <1>4, <1>9, <3>1 DEF Distinct
    <3>3. Missing(i, {}) = 1 .. Len(after[i]) /\ Len(after[i]) \in Nat
      BY AfterFacts, WorkflowAssumption DEF Missing
    <3>4. Cardinality(1 .. Len(after[i])) = Len(after[i])
      BY <3>3, FS_Interval
    <3>5. QED
      BY <1>5, <3>1, <3>2, <3>3, <3>4
  <2>2. \A i \in DOMAIN order' : order'[i] \notin Done' =>
            remaining_dependencies'[order'[i]] = Cardinality(Missing(i, Done)')
    BY <1>1, <1>8, <2>1 DEF Missing
  <2>3. ASSUME NEW i \in DOMAIN order PROVE deps[order[i]] = {} <=> i \in roots
    <3>1. deps[order[i]] = Members(after[i])
      BY <1>9, DepsOfEntry
    <3>2. Members(after[i]) = {} <=> Len(after[i]) = 0
      <4>1. Len(after[i]) \in Nat /\ DOMAIN after[i] = 1 .. Len(after[i])
        BY AfterFacts, WorkflowAssumption
      <4>2. ASSUME Len(after[i]) # 0 PROVE 1 \in DOMAIN after[i]
        BY <4>1, <4>2
      <4>3. ASSUME Len(after[i]) = 0 PROVE DOMAIN after[i] = {}
        BY <4>1, <4>3
      <4>4. QED
        BY <4>2, <4>3 DEF Members
    <3>3. QED
      BY <3>1, <3>2, AfterFacts
  <2>4. \A n \in Members(ready') : deps'[n] \subseteq Done'
    BY <1>2, <1>3, <2>3
  <2>5. \A n \in Nodes' \ Done' : deps'[n] \subseteq Done' => n \in Members(ready')
    BY <1>2, <1>3, <1>8, <2>3 DEF Nodes, Declared, Members
  <2>6. QED
    BY <1>7, <2>2, <2>4, <2>5 DEF CountInv
<1>10. Members(ready') \subseteq Nodes'
  BY <1>2, <1>3 DEF Nodes, Declared, Members
<1>11. SortInv'
  <2>1. sorted_nodes' \in Seq(Id) /\ Distinct(sorted_nodes')
    BY <1>1 DEF SortInv
  <2>2. Done' \subseteq Nodes'
    BY <1>8
  <2>3. Distinct(order') => CountInv'
    BY <1>1, <1>9
  <2>4. QED
    BY <1>1, <1>3, <1>6, <1>10, <2>1, <2>2, <2>3 DEF SortInv
<1>12. LoopInv'
  <2>1. execution_order = <<>> /\ current = {} /\ UNCHANGED progress /\ sorted_nodes' \in Seq(Id)
    BY <1>1, <1>11 DEF LoopInv, StatusInv, SortInv
  <2>2. QED
    BY <2>1, IdleLoop
<1>13. StatusInv'
  BY <1>1 DEF StatusInv, progress
<1>14. QED
  BY <1>2, <1>11, <1>12, <1>13

(* One node sorted: the counts of the others stay what they wait for, and  *)
(* those that wait for nothing any more are behind the rest of ready.      *)
LEMMA SortStepInv ==
    ASSUME WorkflowInv, SortStep
    PROVE  WorkflowInv'
<1> USE DEF WorkflowInv
<1> DEFINE d == Head(ready)
           open == {i \in DOMAIN order : Decremented(order[i], d, i) = 0}
           joins == {i \in open : order[i] \notin Done \cup {d} /\ d \in Members(after[i])}
<1>1. /\ UNCHANGED <<declared, phase, status, progress, output>>
      /\ phase = "sorting" /\ ready # <<>> /\ d \notin Done
      /\ order' = order /\ after' = after
      /\ sorted_nodes' = Append(sorted_nodes, d)
      /\ remaining_dependencies' =
            [n \in Id |-> IF n \in Nodes \ (Done \cup {d})
                            THEN Decremented(n, d, Len(order)) ELSE remaining_dependencies[n]]
      /\ ready' = Tail(ready) \o Picked(order, joins)
  BY DEF SortStep, SortNode, declared, Done
<1>2. DeclaredInv' /\ deps' = deps /\ Nodes' = Nodes
  BY <1>1 DEF DeclaredInv, deps, Nodes
<1>3. /\ d \in Id /\ d \in Members(ready) /\ d \in Nodes
      /\ Tail(ready) \in Seq(Id)
      /\ Members(Tail(ready)) \subseteq Members(ready)
      /\ Members(ready) \subseteq Members(Tail(ready)) \cup {d}
  BY <1>1, TailAnyMembers DEF SortInv
<1> HIDE DEF d
<1>4. /\ ready' \in Seq(Id)
      /\ Members(ready') = Members(Tail(ready)) \cup {order[i] : i \in joins}
  <2>1. order \in Seq(Id) /\ joins \in SUBSET DOMAIN order
    BY DEF DeclaredInv
  <2> HIDE DEF joins
  <2>2. Picked(order, joins) \in Seq(Id) /\ Members(Picked(order, joins)) = {order[i] : i \in joins}
    BY <2>1, PickedFacts
  <2> DEFINE p == Picked(order, joins)
             t == Tail(ready)
  <2>3. p \in Seq(Id) /\ t \in Seq(Id) /\ ready' = t \o p
    BY <1>1, <1>3, <2>2
  <2> HIDE DEF p, t
  <2>4. t \o p \in Seq(Id) /\ Members(t \o p) = Members(t) \cup Members(p)
    BY <2>3, ConcatAnyMembers
  <2>5. QED
    BY <2>2, <2>3, <2>4 DEF p, t
<1>5. /\ sorted_nodes' \in Seq(Id) /\ Len(sorted_nodes') = Len(sorted_nodes) + 1
      /\ DOMAIN sorted_nodes' = 1 .. Len(sorted_nodes) + 1
      /\ \A i \in 1 .. Len(sorted_nodes) : sorted_nodes'[i] = sorted_nodes[i]
      /\ sorted_nodes'[Len(sorted_nodes) + 1] = d
      /\ Done' = Done \cup {d} /\ Distinct(sorted_nodes')
  BY <1>1, <1>3, AppendMembers DEF SortInv, Done
<1>6. remaining_dependencies' \in [Id -> 0 .. MaxAfter]
  <2> SUFFICES ASSUME NEW n \in Id PROVE Decremented(n, d, Len(order)) \in 0 .. MaxAfter
    BY <1>1 DEF SortInv
  <2>1. Len(order) \in Nat /\ MaxAfter \in Nat
    BY AfterFacts, WorkflowAssumption
  <2>2. IsFiniteSet((1 .. Len(order)) \X (1 .. MaxAfter))
    <3>1. IsFiniteSet(1 .. Len(order)) /\ IsFiniteSet(1 .. MaxAfter)
      BY <2>1, FS_Interval
    <3>2. QED
      BY <3>1, FS_Product
  <2>3. Occurrences(n, d, Len(order)) \in Nat
    <3> DEFINE O == {p \in (1 .. Len(order)) \X (1 .. MaxAfter) :
                        order[p[1]] = n /\ p[2] \in DOMAIN after[p[1]] /\ after[p[1]][p[2]] = d}
    <3>1. IsFiniteSet(O)
      BY <2>2, FS_Subset
    <3>2. Cardinality(O) \in Nat
      BY <3>1, FS_CardinalityType
    <3>3. QED
      BY <3>2 DEF Occurrences
  <2>4. remaining_dependencies[n] \in 0 .. MaxAfter
    BY DEF SortInv
  <2>5. QED
    BY <2>1, <2>3, <2>4 DEF Decremented
<1>7. ASSUME Distinct(order) PROVE CountInv'
  <2>1. CountInv
    BY <1>1, <1>7 DEF SortInv
  <2>2. ASSUME NEW i \in DOMAIN order, order[i] \notin Done \cup {d}, NEW l \in i .. Len(order)
        PROVE  /\ order[i] \in Nodes /\ order[i] \in Id
               /\ deps[order[i]] = Members(after[i])
               /\ Decremented(order[i], d, l) = Cardinality(Missing(i, Done \cup {d}))
               /\ Cardinality(Missing(i, Done \cup {d})) = 0 <=> deps[order[i]] \subseteq Done \cup {d}
    <3>1. remaining_dependencies[order[i]] = Cardinality(Missing(i, Done))
      BY <2>1, <2>2 DEF CountInv
    <3>2. deps[order[i]] = Members(after[i])
      BY <1>7, DepsOfEntry
    <3>3. order[i] \in Nodes /\ order[i] \in Id
      BY AfterFacts DEF Nodes, Declared, Members
    <3>4. /\ Decremented(order[i], d, l) = Cardinality(Missing(i, Done \cup {d}))
          /\ Cardinality(Missing(i, Done \cup {d})) = 0 <=> Members(after[i]) \subseteq Done \cup {d}
      <4>1. DeclaredInv /\ d \notin Done
        BY <1>1
      <4> HIDE DEF WorkflowInv
      <4>2. QED
        BY <1>7, <3>1, <4>1, DecrementedIsMissing
    <3>5. QED
      BY <3>2, <3>3, <3>4
  <2>3. ASSUME NEW i \in DOMAIN order PROVE i \in i .. Len(order) /\ Len(order) \in i .. Len(order)
    BY AfterFacts
  <2>4. \A i \in DOMAIN order' : order'[i] \notin Done' =>
            remaining_dependencies'[order'[i]] = Cardinality(Missing(i, Done)')
    <3> SUFFICES ASSUME NEW i \in DOMAIN order, order[i] \notin Done \cup {d}
                 PROVE  remaining_dependencies'[order[i]] = Cardinality(Missing(i, Done \cup {d}))
      BY <1>1, <1>5 DEF Missing
    <3>1. QED
      BY <1>1, <2>2, <2>3
  <2>5. \A n \in Members(ready') : deps'[n] \subseteq Done'
    <3> SUFFICES ASSUME NEW n \in Members(ready') PROVE deps[n] \subseteq Done \cup {d}
      BY <1>2, <1>5
    <3>1. CASE n \in Members(Tail(ready))
      BY <3>1, <1>3, <2>1 DEF CountInv
    <3>2. CASE n \in {order[i] : i \in joins}
      BY <3>2, <2>2, <2>3
    <3>3. QED
      BY <3>1, <3>2, <1>4
  <2>6. \A n \in Nodes' \ Done' : deps'[n] \subseteq Done' => n \in Members(ready')
    <3> SUFFICES ASSUME NEW n \in Nodes, n \notin Done \cup {d}, deps[n] \subseteq Done \cup {d}
                 PROVE  n \in Members(ready')
      BY <1>2, <1>5
    <3>1. PICK i \in DOMAIN order : order[i] = n
      BY DEF Nodes, Declared, Members
    <3>2. CASE d \in Members(after[i])
      <4>1. i \in joins
        BY <3>1, <3>2, <2>2, <2>3
      <4> HIDE DEF joins
      <4>2. QED
        BY <3>1, <4>1, <1>4
    <3>3. CASE d \notin Members(after[i])
      <4>1. deps[n] \subseteq Done
        BY <3>1, <3>3, <2>2, <2>3
      <4>2. n \in Members(ready)
        BY <4>1, <2>1 DEF CountInv
      <4>3. QED
        BY <4>2, <1>3, <1>4
    <3>4. QED
      BY <3>2, <3>3
  <2>7. ASSUME NEW i \in DOMAIN sorted_nodes'
        PROVE  deps'[sorted_nodes'[i]] \subseteq {sorted_nodes'[j] : j \in 1 .. i - 1}
    <3>1. Len(sorted_nodes) \in Nat /\ DOMAIN sorted_nodes = 1 .. Len(sorted_nodes)
      BY LenProperties DEF SortInv
    <3>2. \A j \in 1 .. i - 1 : sorted_nodes'[j] = sorted_nodes[j]
      BY <1>5, <3>1
    <3>3. {sorted_nodes'[j] : j \in 1 .. i - 1} = {sorted_nodes[j] : j \in 1 .. i - 1}
      BY <3>2
    <3>4. CASE i \in 1 .. Len(sorted_nodes)
      <4>1. deps[sorted_nodes[i]] \subseteq {sorted_nodes[j] : j \in 1 .. i - 1}
        BY <2>1, <3>1, <3>4 DEF CountInv
      <4>2. QED
        BY <1>2, <1>5, <3>3, <3>4, <4>1
    <3>5. CASE i = Len(sorted_nodes) + 1
      <4>1. deps[d] \subseteq Done
        BY <1>3, <2>1 DEF CountInv
      <4>2. Done = {sorted_nodes[j] : j \in 1 .. i - 1}
        BY <3>1, <3>5 DEF Done, Members
      <4>3. QED
        BY <1>2, <1>5, <3>3, <3>5, <4>1, <4>2
    <3>6. QED
      BY <1>5, <3>1, <3>4, <3>5
  <2>8. QED
    BY <2>4, <2>5, <2>6, <2>7 DEF CountInv
<1>8. Members(ready') \subseteq Nodes'
  <2>1. Members(ready) \subseteq Nodes /\ {order[i] : i \in joins} \subseteq Nodes
    BY DEF SortInv, Nodes, Declared, Members
  <2>2. QED
    BY <1>2, <1>3, <1>4, <2>1
<1>9. SortInv'
  <2>1. Done' \subseteq Nodes' /\ (Distinct(order') => CountInv')
    BY <1>1, <1>2, <1>3, <1>5, <1>7 DEF SortInv
  <2>2. QED
    BY <1>1, <1>4, <1>5, <1>6, <1>8, <2>1 DEF SortInv
<1>10. LoopInv'
  <2>1. execution_order = <<>> /\ current = {} /\ UNCHANGED progress /\ sorted_nodes' \in Seq(Id)
    BY <1>1, <1>9 DEF LoopInv, StatusInv, SortInv
  <2>2. QED
    BY <2>1, IdleLoop
<1>11. StatusInv'
  BY <1>1 DEF StatusInv, progress
<1>12. QED
  BY <1>2, <1>9, <1>10, <1>11

LEMMA SortAgainInv ==
    ASSUME WorkflowInv, SortAgain
    PROVE  WorkflowInv'
<1> USE DEF WorkflowInv
<1>1. /\ UNCHANGED <<declared, phase, remaining_dependencies, sorted_nodes, status,
                     progress, output>>
      /\ phase = "sorting" /\ ready # <<>> /\ Head(ready) \in Done
      /\ order' = order /\ after' = after /\ ready' = Tail(ready)
  BY DEF SortAgain, declared, Done
<1>2. DeclaredInv' /\ deps' = deps /\ Nodes' = Nodes /\ Done' = Done
  BY <1>1 DEF DeclaredInv, deps, Nodes, Done
<1>3. /\ ready' \in Seq(Id)
      /\ Members(ready') \subseteq Members(ready)
      /\ Members(ready) \subseteq Members(ready') \cup {Head(ready)}
  BY <1>1, TailAnyMembers DEF SortInv
<1>4. ASSUME CountInv PROVE CountInv'
  BY <1>1, <1>2, <1>3, <1>4 DEF CountInv, Missing
<1>5. SortInv'
  BY <1>1, <1>2, <1>3, <1>4 DEF SortInv
<1>6. LoopInv'
  <2>1. execution_order = <<>> /\ current = {} /\ UNCHANGED progress /\ sorted_nodes' \in Seq(Id)
    BY <1>1, <1>5 DEF LoopInv, StatusInv, SortInv
  <2>2. QED
    BY <2>1, IdleLoop
<1>7. StatusInv'
  BY <1>1 DEF StatusInv, progress
<1>8. QED
  BY <1>2, <1>5, <1>6, <1>7
-----------------------------------------------------------------------------
(* A sort that lists every entry shows that the declaration is a DAG. *)
LEMMA SortComplete ==
    ASSUME WorkflowInv, phase # "declaring", Len(sorted_nodes) = Len(order)
    PROVE  /\ IsDag(order, deps) /\ Done = Nodes /\ CountInv
           /\ Len(sorted_nodes) \in Nat /\ DOMAIN sorted_nodes = 1 .. Len(sorted_nodes)
<1>1. /\ sorted_nodes \in Seq(Id) /\ order \in Seq(Id) /\ Distinct(sorted_nodes)
      /\ Members(sorted_nodes) \subseteq Members(order)
  BY DEF WorkflowInv, SortInv, DeclaredInv, Done, Nodes, Declared
<1>2. Distinct(order) /\ Members(sorted_nodes) = Members(order)
  BY <1>1, Pigeonhole
<1>3. CountInv /\ Done = Nodes
  BY <1>2 DEF WorkflowInv, SortInv, Done, Nodes, Declared
<1>4. Len(sorted_nodes) \in Nat /\ DOMAIN sorted_nodes = 1 .. Len(sorted_nodes)
  BY <1>1, LenProperties
<1>5. Closed(order, deps)
  <2> SUFFICES ASSUME NEW n \in Nodes PROVE deps[n] \subseteq Nodes
    BY DEF Closed, Nodes
  <2>1. PICK i \in DOMAIN sorted_nodes : sorted_nodes[i] = n
    BY <1>3 DEF Done, Members
  <2>2. deps[n] \subseteq {sorted_nodes[j] : j \in 1 .. i - 1}
    BY <2>1, <1>3 DEF CountInv
  <2>3. {sorted_nodes[j] : j \in 1 .. i - 1} \subseteq Done
    BY <1>4 DEF Done, Members
  <2>4. QED
    BY <2>2, <2>3, <1>3
<1>6. Acyclic(order, deps)
  <2> SUFFICES ASSUME NEW S \in SUBSET Nodes, S # {} PROVE \E n \in S : deps[n] \cap S = {}
    BY DEF Acyclic, Nodes
  <2> DEFINE A == {i \in DOMAIN sorted_nodes : sorted_nodes[i] \in S}
  <2>1. A \in SUBSET Nat /\ A # {}
    BY <1>3, <1>4 DEF Done, Members
  <2>2. PICK i \in A : \A j \in A : i <= j
    <3> HIDE DEF A
    <3>1. QED
      BY <2>1, LeastNumber
  <2>3. deps[sorted_nodes[i]] \subseteq {sorted_nodes[j] : j \in 1 .. i - 1}
    BY <1>3 DEF CountInv
  <2>4. ASSUME NEW j \in 1 .. i - 1 PROVE sorted_nodes[j] \notin S
    <3>1. j \in DOMAIN sorted_nodes /\ ~(i <= j)
      BY <1>4
    <3>2. QED
      BY <3>1, <2>2
  <2>5. sorted_nodes[i] \in S /\ deps[sorted_nodes[i]] \cap S = {}
    BY <2>3, <2>4
  <2>6. QED
    BY <2>5
<1>7. QED
  BY <1>2, <1>3, <1>4, <1>5, <1>6 DEF IsDag

(* A sort that runs dry before is stuck on a set of nodes that wait for    *)
(* one another, for a name that is not declared, or is fooled by a         *)
(* repeated name.                                                          *)
LEMMA SortStuck ==
    ASSUME WorkflowInv, phase # "declaring", ready = <<>>, Len(sorted_nodes) # Len(order)
    PROVE  ~IsDag(order, deps)
<1> SUFFICES ASSUME IsDag(order, deps) PROVE FALSE
  OBVIOUS
<1>1. /\ sorted_nodes \in Seq(Id) /\ order \in Seq(Id) /\ Distinct(sorted_nodes)
      /\ Members(sorted_nodes) \subseteq Members(order)
  BY DEF WorkflowInv, SortInv, DeclaredInv, Done, Nodes, Declared
<1>2. Done # Nodes /\ Done \subseteq Nodes
  BY <1>1, Pigeonhole DEF IsDag, Done, Nodes, Declared
<1>3. CountInv
  BY DEF WorkflowInv, SortInv, IsDag
<1>4. PICK n \in Nodes \ Done : deps[n] \cap (Nodes \ Done) = {}
  <2>1. Nodes \ Done # {} /\ Nodes \ Done \in SUBSET Nodes
    BY <1>2
  <2>2. QED
    BY <2>1 DEF IsDag, Acyclic, Nodes
<1>5. deps[n] \subseteq Done
  BY <1>4 DEF IsDag, Closed, Nodes
<1>6. n \in Members(ready)
  BY <1>3, <1>4, <1>5 DEF CountInv
<1>7. QED
  BY <1>6 DEF Members

(* The end of the sort. *)
LEMMA EndOfSortInv ==
    ASSUME WorkflowInv, CycleFound \/ Sorted
    PROVE  WorkflowInv'
<1> USE DEF WorkflowInv
<1>1. /\ UNCHANGED <<declared, sorting, progress, output>>
      /\ phase = "sorting" /\ ready = <<>> /\ phase' \in {"running", "returned"}
      /\ order' = order /\ after' = after
      /\ sorted_nodes' = sorted_nodes /\ ready' = ready
      /\ remaining_dependencies' = remaining_dependencies
  BY DEF CycleFound, Sorted, declared, sorting
<1>2. DeclaredInv' /\ deps' = deps /\ Nodes' = Nodes /\ Done' = Done
  BY <1>1 DEF DeclaredInv, deps, Nodes, Done
<1>3. ASSUME CountInv PROVE CountInv'
  BY <1>1, <1>2, <1>3 DEF CountInv, Missing
<1>4. SortInv'
  BY <1>1, <1>2, <1>3 DEF SortInv
<1>5. LoopInv'
  <2>1. execution_order = <<>> /\ current = {} /\ UNCHANGED progress /\ sorted_nodes' \in Seq(Id)
    BY <1>1, <1>4 DEF LoopInv, StatusInv, SortInv
  <2>2. QED
    BY <2>1, IdleLoop
<1>6. /\ status = "Completed" /\ execution_order = <<>> /\ execution_order' = <<>>
      /\ failed_nodes' = {} /\ output = FALSE /\ output' = FALSE
  BY <1>1 DEF StatusInv, progress
<1>7. StatusInv'
  <2>1. CASE CycleFound
    BY <1>1, <1>6, <2>1 DEF CycleFound, StatusInv
  <2>2. CASE Sorted
    <3>1. order # <<>>
      BY <1>1 DEF SortInv
    <3>2. QED
      BY <1>1, <1>6, <2>2, <3>1 DEF Sorted, StatusInv
  <2>3. QED
    BY <2>1, <2>2
<1>8. QED
  BY <1>2, <1>4, <1>5, <1>7
-----------------------------------------------------------------------------
(* The node loop leaves the sort alone. *)
LEMMA SortKept ==
    ASSUME WorkflowInv, phase = "running", UNCHANGED <<declared, sorting>>,
           phase' \in {"running", "returned"}
    PROVE  /\ DeclaredInv' /\ SortInv' /\ deps' = deps /\ Nodes' = Nodes /\ order' = order
           /\ sorted_nodes' = sorted_nodes
<1> USE DEF WorkflowInv
<1>1. /\ order' = order /\ after' = after /\ sorted_nodes' = sorted_nodes /\ ready' = ready
      /\ remaining_dependencies' = remaining_dependencies
  BY DEF declared, sorting
<1>2. DeclaredInv' /\ deps' = deps /\ Nodes' = Nodes /\ Done' = Done
  BY <1>1 DEF DeclaredInv, deps, Nodes, Done
<1>3. ASSUME CountInv PROVE CountInv'
  BY <1>1, <1>2, <1>3 DEF CountInv, Missing
<1>4. SortInv'
  BY <1>1, <1>2, <1>3 DEF SortInv
<1>5. QED
  BY <1>1, <1>2, <1>4

(* Where the loop stands: everything its node depends on is settled. *)
LEMMA LoopFacts ==
    ASSUME WorkflowInv, phase = "running", Len(execution_order) < Len(sorted_nodes),
           NEW n, n = sorted_nodes[Len(execution_order) + 1]
    PROVE  /\ n \in Nodes /\ n \in Id /\ n \notin Members(execution_order)
           /\ deps[n] \subseteq Members(execution_order)
           /\ \A m \in Members(execution_order) : n \notin deps[m]
           /\ Members(execution_order) \subseteq Nodes
           /\ Len(execution_order) \in Nat
           /\ DOMAIN execution_order = 1 .. Len(execution_order)
           /\ execution_order \in Seq(Id)
<1> USE DEF WorkflowInv
<1>1. /\ Done = Nodes /\ CountInv /\ Distinct(sorted_nodes)
      /\ Len(sorted_nodes) \in Nat /\ DOMAIN sorted_nodes = 1 .. Len(sorted_nodes)
      /\ Nodes \subseteq Id
  BY SortComplete, AfterFacts DEF StatusInv, SortInv
<1>2. /\ Len(execution_order) \in Nat /\ DOMAIN execution_order = 1 .. Len(execution_order)
      /\ execution_order \in Seq(Id)
      /\ \A i \in DOMAIN execution_order : execution_order[i] = sorted_nodes[i]
  BY LenProperties DEF LoopInv
<1> DEFINE p == Len(execution_order) + 1
<1>3. p \in DOMAIN sorted_nodes /\ n = sorted_nodes[p] /\ 1 .. p - 1 = DOMAIN execution_order
  BY <1>1, <1>2
<1>4. Members(execution_order) = {sorted_nodes[j] : j \in 1 .. p - 1}
  BY <1>2, <1>3 DEF Members
<1>5. n \in Done /\ Members(execution_order) \subseteq Done
  BY <1>1, <1>2, <1>3, <1>4 DEF Done, Members
<1>6. ASSUME NEW j \in DOMAIN sorted_nodes, j < p PROVE sorted_nodes[j] # n
  BY <1>1, <1>3, <1>6 DEF Distinct
<1>7. n \notin Members(execution_order)
  BY <1>1, <1>2, <1>3, <1>4, <1>6
<1>8. deps[n] \subseteq Members(execution_order)
  BY <1>1, <1>3, <1>4 DEF CountInv
<1>9. ASSUME NEW i \in 1 .. p - 1 PROVE n \notin deps[sorted_nodes[i]]
  <2>1. i \in DOMAIN sorted_nodes /\ i < p
    BY <1>1, <1>2, <1>3
  <2>2. deps[sorted_nodes[i]] \subseteq {sorted_nodes[j] : j \in 1 .. i - 1}
    BY <2>1, <1>1 DEF CountInv
  <2>3. ASSUME NEW j \in 1 .. i - 1 PROVE sorted_nodes[j] # n
    <3>1. j \in DOMAIN sorted_nodes /\ j < p
      BY <2>1, <1>1, <1>2
    <3>2. QED
      BY <3>1, <1>6
  <2>4. QED
    BY <2>2, <2>3
<1>10. QED
  BY <1>1, <1>2, <1>4, <1>5, <1>7, <1>8, <1>9

(* A node is settled one way or another. *)
LEMMA SettleInv ==
    ASSUME WorkflowInv, phase = "running", UNCHANGED <<declared, phase, sorting>>,
           Len(execution_order) < Len(sorted_nodes),
           NEW n, n = sorted_nodes[Len(execution_order) + 1],
           NEW s \in Results \ {"None"},
           s = "Skipped" <=> deps[n] \cap failed_nodes # {},
           Report(n, s),
           failed_nodes' = IF s \in Failures THEN failed_nodes \cup {n} ELSE failed_nodes,
           node_outputs' \in {node_outputs, node_outputs \cup {n}}
    PROVE  DeclaredInv' /\ SortInv' /\ LoopInv'
<1> USE DEF WorkflowInv
<1>1. /\ DeclaredInv' /\ SortInv' /\ deps' = deps /\ Nodes' = Nodes /\ sorted_nodes' = sorted_nodes
  BY SortKept
<1>2. /\ n \in Nodes /\ n \in Id /\ n \notin Members(execution_order)
      /\ deps[n] \subseteq Members(execution_order)
      /\ \A m \in Members(execution_order) : n \notin deps[m]
      /\ Len(execution_order) \in Nat /\ DOMAIN execution_order = 1 .. Len(execution_order)
      /\ execution_order \in Seq(Id)
  BY LoopFacts
<1>3. /\ execution_order' = Append(execution_order, n)
      /\ node_status' = [node_status EXCEPT ![n] = s]
      /\ current' = {}
  BY DEF Report
<1>4. /\ execution_order' \in Seq(Id)
      /\ Len(execution_order') = Len(execution_order) + 1
      /\ DOMAIN execution_order' = 1 .. Len(execution_order) + 1
      /\ \A i \in 1 .. Len(execution_order) : execution_order'[i] = execution_order[i]
      /\ execution_order'[Len(execution_order) + 1] = n
      /\ Members(execution_order') = Members(execution_order) \cup {n}
  BY <1>2, <1>3, AppendMembers
<1>5. Len(execution_order') <= Len(sorted_nodes')
  <2>1. Len(sorted_nodes) \in Nat
    BY LenProperties DEF SortInv
  <2>2. QED
    BY <1>1, <1>2, <1>4, <2>1
<1>6. \A i \in DOMAIN execution_order' : execution_order'[i] = sorted_nodes'[i]
  BY <1>1, <1>2, <1>4 DEF LoopInv
<1>7. /\ node_status' \in [Id -> Results]
      /\ node_status'[n] = s
      /\ \A m \in Id \ {n} : node_status'[m] = node_status[m]
  BY <1>2, <1>3 DEF LoopInv
<1>8. \A m \in Id : node_status'[m] # "None" <=> m \in Members(execution_order')
  BY <1>2, <1>4, <1>7 DEF LoopInv
<1>9. failed_nodes' = {m \in Id : node_status'[m] \in Failures}
  <2>1. node_status[n] = "None" /\ "None" \notin Failures
    BY <1>2 DEF LoopInv, Failures, Terminal
  <2>2. failed_nodes = {m \in Id : node_status[m] \in Failures}
    BY DEF LoopInv
  <2>3. QED
    BY <1>2, <1>7, <2>1, <2>2
<1>10. node_outputs' \subseteq Id
  BY <1>2 DEF LoopInv
<1>11. \A m \in Members(execution_order') :
          node_status'[m] = "Skipped" <=> deps'[m] \cap failed_nodes' # {}
  <2> SUFFICES ASSUME NEW m \in Members(execution_order) \cup {n}
               PROVE  node_status'[m] = "Skipped" <=> deps[m] \cap failed_nodes' # {}
    BY <1>1, <1>4
  <2>1. n \notin deps[m]
    BY <1>2
  <2>2. deps[m] \cap failed_nodes' = deps[m] \cap failed_nodes
    BY <2>1
  <2>3. CASE m = n
    BY <2>2, <2>3, <1>7
  <2>4. CASE m # n
    <3>1. m \in Id /\ m \in Members(execution_order)
      BY <2>4, <1>2 DEF Members
    <3>2. node_status'[m] = node_status[m]
      BY <2>4, <3>1, <1>7
    <3>3. QED
      BY <2>2, <3>1, <3>2 DEF LoopInv
  <2>5. QED
    BY <2>3, <2>4
<1>12. LoopInv'
  BY <1>3, <1>4, <1>5, <1>6, <1>7, <1>8, <1>9, <1>10, <1>11 DEF LoopInv
<1>13. QED
  BY <1>1, <1>12

(* The node the loop holds is the one it stands at. *)
LEMMA HeldNode ==
    ASSUME WorkflowInv, NEW n \in current
    PROVE  /\ phase = "running" /\ Len(execution_order) < Len(sorted_nodes)
           /\ n = sorted_nodes[Len(execution_order) + 1] /\ deps[n] \cap failed_nodes = {}
BY DEF WorkflowInv, LoopInv

(* What a step of the node loop must do to the status. *)
LEMMA RunningStatus ==
    ASSUME WorkflowInv, phase = "running", UNCHANGED <<declared, phase, sorting, output>>,
           status' \in {"Completed", "NodeFailed", "EvalError"},
           status' = "Completed" => failed_nodes' = {},
           status' = "NodeFailed" => \E n \in Nodes : node_status'[n] \in Terminal
    PROVE  StatusInv'
<1>1. /\ order' = order /\ sorted_nodes' = sorted_nodes /\ phase' = "running"
      /\ output' = FALSE /\ Nodes' = Nodes
  BY DEF WorkflowInv, StatusInv, declared, sorting, Nodes
<1>2. QED
  BY <1>1 DEF WorkflowInv, StatusInv

(* A node that ended badly keeps its verdict when another one is settled. *)
LEMMA VerdictKept ==
    ASSUME WorkflowInv, phase = "running", Len(execution_order) < Len(sorted_nodes),
           NEW n, n = sorted_nodes[Len(execution_order) + 1], NEW s, Report(n, s),
           status = "NodeFailed"
    PROVE  \E m \in Nodes : node_status'[m] \in Terminal
<1>1. PICK m \in Nodes : node_status[m] \in Terminal
  BY DEF WorkflowInv, StatusInv
<1>2. n \in Id /\ node_status[n] = "None" /\ node_status \in [Id -> Results] /\ Nodes \subseteq Id
  BY LoopFacts, AfterFacts DEF WorkflowInv, LoopInv
<1>3. m # n
  BY <1>1, <1>2 DEF Terminal
<1>4. node_status'[m] = node_status[m]
  BY <1>2, <1>3 DEF Report
<1>5. QED
  BY <1>1, <1>4

LEMMA SkipInv ==
    ASSUME WorkflowInv, NEW n \in Id, Skip(n)
    PROVE  WorkflowInv'
<1>1. /\ phase = "running" /\ Len(execution_order) < Len(sorted_nodes)
      /\ n = sorted_nodes[Len(execution_order) + 1]
      /\ deps[n] \cap failed_nodes # {} /\ Report(n, "Skipped")
      /\ failed_nodes' = failed_nodes \cup {n} /\ node_outputs' = node_outputs
      /\ UNCHANGED <<declared, phase, sorting, output>>
  BY DEF Skip, At, Fail
<1>2. "Skipped" \in Results \ {"None"} /\ "Skipped" \in Failures
  BY DEF Results, Failures
<1>3. DeclaredInv' /\ SortInv' /\ LoopInv'
  BY <1>1, <1>2, SettleInv
<1>4. status' = status /\ status \in {"NodeFailed", "EvalError"}
  BY <1>1 DEF Skip, Worsen, WorkflowInv, StatusInv
<1>5. status' = "NodeFailed" => \E m \in Nodes : node_status'[m] \in Terminal
  BY <1>1, <1>4, VerdictKept
<1>6. StatusInv'
  BY <1>1, <1>4, <1>5, RunningStatus
<1>7. QED
  BY <1>3, <1>6 DEF WorkflowInv

LEMMA TakeUpInv ==
    ASSUME WorkflowInv, NEW n \in Id, TakeUp(n)
    PROVE  WorkflowInv'
<1>1. /\ phase = "running" /\ phase' = "running" /\ Len(execution_order) < Len(sorted_nodes)
      /\ n = sorted_nodes[Len(execution_order) + 1]
      /\ deps[n] \cap failed_nodes = {} /\ current' = {n}
      /\ UNCHANGED <<declared, phase, sorting, output>>
      /\ UNCHANGED <<status, node_status, execution_order, failed_nodes, node_outputs>>
  BY DEF TakeUp, At
<1>2. DeclaredInv' /\ SortInv' /\ deps' = deps /\ sorted_nodes' = sorted_nodes
  BY <1>1, SortKept
<1>3. LoopInv'
  BY <1>1, <1>2 DEF WorkflowInv, LoopInv
<1>4. /\ status' \in {"Completed", "NodeFailed", "EvalError"}
      /\ status' = "Completed" => failed_nodes' = {}
      /\ status' = "NodeFailed" => \E m \in Nodes : node_status'[m] \in Terminal
  BY <1>1 DEF WorkflowInv, StatusInv
<1>5. StatusInv'
  BY <1>1, <1>4, RunningStatus
<1>6. QED
  BY <1>2, <1>3, <1>5 DEF WorkflowInv

(* The input, the agent or the agent's run fails the node that is held. *)
LEMMA FailureInv ==
    ASSUME WorkflowInv, NEW n \in Id,
           InputFails(n) \/ AgentMissing(n) \/ (\E s \in Terminal : AgentFails(n, s))
    PROVE  WorkflowInv'
<1>1. PICK s \in Terminal : /\ n \in current /\ Fail(n, s)
                            /\ UNCHANGED <<declared, phase, sorting, node_outputs, output>>
                            /\ status' \in {"EvalError", "NodeFailed", status}
                            /\ status' # "Completed"
  <2>1. CASE InputFails(n)
    BY <2>1 DEF InputFails, Terminal
  <2>2. CASE AgentMissing(n)
    BY <2>2 DEF AgentMissing, Terminal
  <2>3. CASE \E s \in Terminal : AgentFails(n, s)
    BY <2>3 DEF AgentFails, Worsen
  <2>4. QED
    BY <2>1, <2>2, <2>3
<1>2. /\ phase = "running" /\ Len(execution_order) < Len(sorted_nodes)
      /\ n = sorted_nodes[Len(execution_order) + 1] /\ deps[n] \cap failed_nodes = {}
  BY <1>1, HeldNode
<1>3. s \in Results \ {"None"} /\ s \in Failures /\ s # "Skipped"
  BY DEF Results, Failures, Terminal
<1>4. /\ Report(n, s) /\ failed_nodes' = failed_nodes \cup {n} /\ node_outputs' = node_outputs
      /\ UNCHANGED <<declared, phase, sorting, output>>
  BY <1>1 DEF Fail
<1>5. DeclaredInv' /\ SortInv' /\ LoopInv'
  BY <1>2, <1>3, <1>4, SettleInv
<1>6. n \in Nodes /\ node_status'[n] = s
  BY <1>2, <1>4, LoopFacts DEF Report, WorkflowInv, LoopInv
<1>7. status' \in {"NodeFailed", "EvalError"}
  BY <1>1, <1>2 DEF WorkflowInv, StatusInv
<1>8. StatusInv'
  BY <1>2, <1>4, <1>6, <1>7, RunningStatus
<1>9. QED
  BY <1>5, <1>8 DEF WorkflowInv

LEMMA CompletesInv ==
    ASSUME WorkflowInv, NEW n \in Id, AgentCompletes(n)
    PROVE  WorkflowInv'
<1>1. /\ n \in current /\ Report(n, "Completed") /\ failed_nodes' = failed_nodes
      /\ node_outputs' \in {node_outputs, node_outputs \cup {n}} /\ status' = status
      /\ UNCHANGED <<declared, phase, sorting, output>>
  BY DEF AgentCompletes
<1>2. /\ phase = "running" /\ Len(execution_order) < Len(sorted_nodes)
      /\ n = sorted_nodes[Len(execution_order) + 1] /\ deps[n] \cap failed_nodes = {}
  BY <1>1, HeldNode
<1>3. "Completed" \in Results \ {"None"} /\ "Completed" \notin Failures
  BY DEF Results, Failures, Terminal
<1>4. DeclaredInv' /\ SortInv' /\ LoopInv'
  BY <1>1, <1>2, <1>3, SettleInv
<1>5. status' = "NodeFailed" => \E m \in Nodes : node_status'[m] \in Terminal
  BY <1>1, <1>2, VerdictKept
<1>6. /\ status' \in {"Completed", "NodeFailed", "EvalError"}
      /\ status' = "Completed" => failed_nodes' = {}
  BY <1>1, <1>2 DEF WorkflowInv, StatusInv
<1>7. StatusInv'
  BY <1>1, <1>2, <1>5, <1>6, RunningStatus
<1>8. QED
  BY <1>4, <1>7 DEF WorkflowInv

LEMMA FinishInv ==
    ASSUME WorkflowInv, Finish
    PROVE  WorkflowInv'
<1>1. /\ phase = "running" /\ phase' = "returned" /\ UNCHANGED <<declared, sorting, progress>>
      /\ Len(execution_order) = Len(sorted_nodes)
  BY DEF Finish
<1>2. /\ DeclaredInv' /\ SortInv' /\ deps' = deps /\ Nodes' = Nodes /\ order' = order
      /\ sorted_nodes' = sorted_nodes
  BY <1>1, SortKept
<1>3. /\ node_status' = node_status /\ execution_order' = execution_order /\ current' = current
      /\ failed_nodes' = failed_nodes /\ node_outputs' = node_outputs
  BY <1>1 DEF progress
<1>4. current = {}
  <2>1. Len(sorted_nodes) \in Nat
    BY LenProperties DEF WorkflowInv, SortInv
  <2>2. QED
    BY <2>1, <1>1 DEF WorkflowInv, LoopInv
<1>5. LoopInv'
  BY <1>2, <1>3, <1>4 DEF WorkflowInv, LoopInv
<1>6. /\ status' \in {"Completed", "NodeFailed", "EvalError"} /\ output' \in BOOLEAN
      /\ output' => status' = "Completed"
      /\ status' = "Completed" => status = "Completed"
      /\ status' = "NodeFailed" => status = "NodeFailed"
  <2>1. output = FALSE /\ status \in {"Completed", "NodeFailed", "EvalError"}
    BY <1>1 DEF WorkflowInv, StatusInv
  <2>2. CASE UNCHANGED <<status, output>>
    BY <2>1, <2>2
  <2>3. CASE status' = "EvalError" /\ UNCHANGED output
    BY <2>1, <2>3
  <2>4. CASE status = "Completed" /\ output' = TRUE /\ UNCHANGED status
    BY <2>4
  <2>5. QED
    BY <2>2, <2>3, <2>4 DEF Finish, EvalReturn
<1>7. StatusInv'
  BY <1>1, <1>2, <1>3, <1>6 DEF WorkflowInv, StatusInv
<1>8. QED
  BY <1>2, <1>5, <1>7 DEF WorkflowInv

(* A step that changes nothing. *)
LEMMA IdleInv ==
    ASSUME WorkflowInv, UNCHANGED workflowVars
    PROVE  WorkflowInv'
<1>1. /\ order' = order /\ after' = after /\ sorted_nodes' = sorted_nodes /\ ready' = ready
      /\ remaining_dependencies' = remaining_dependencies /\ phase' = phase
      /\ status' = status /\ output' = output
      /\ node_status' = node_status /\ execution_order' = execution_order /\ current' = current
      /\ failed_nodes' = failed_nodes /\ node_outputs' = node_outputs
  BY DEF workflowVars, declared, sorting, progress
<1>2. DeclaredInv' /\ deps' = deps /\ Nodes' = Nodes /\ Done' = Done
  BY <1>1 DEF WorkflowInv, DeclaredInv, deps, Nodes, Done
<1>3. ASSUME CountInv PROVE CountInv'
  BY <1>1, <1>2, <1>3 DEF CountInv, Missing
<1>4. SortInv'
  BY <1>1, <1>2, <1>3 DEF WorkflowInv, SortInv
<1>5. LoopInv'
  BY <1>1, <1>2 DEF WorkflowInv, LoopInv
<1>6. StatusInv'
  BY <1>1, <1>2 DEF WorkflowInv, StatusInv
<1>7. QED
  BY <1>2, <1>4, <1>5, <1>6 DEF WorkflowInv
-----------------------------------------------------------------------------
(* The inductive invariant of WorkflowRuntime::run: the counts of the sort *)
(* are what the nodes wait for, the loop has settled a prefix of the order *)
(* and the status tells what became of it.                                 *)
THEOREM WorkflowInvariant == WorkflowSpec => []WorkflowInv
<1>1. WorkflowInv /\ [WorkflowNext]_workflowVars => WorkflowInv'
  <2> SUFFICES ASSUME WorkflowInv, [WorkflowNext]_workflowVars PROVE WorkflowInv'
    OBVIOUS
  <2>1. CASE \E n \in Id : \E k \in 0 .. MaxAfter : \E list \in [1 .. k -> Id] : Declare(n, list)
    BY <2>1, DeclareInv
  <2>2. CASE NotFound \/ EmptyWorkflow
    BY <2>2, EmptyInv
  <2>3. CASE BeginSort
    BY <2>3, BeginSortInv
  <2>4. CASE SortStep
    BY <2>4, SortStepInv
  <2>5. CASE SortAgain
    BY <2>5, SortAgainInv
  <2>6. CASE CycleFound \/ Sorted
    BY <2>6, EndOfSortInv
  <2>7. CASE Finish
    BY <2>7, FinishInv
  <2>8. ASSUME NEW n \in Id, Skip(n) PROVE WorkflowInv'
    BY <2>8, SkipInv
  <2>9. ASSUME NEW n \in Id, TakeUp(n) PROVE WorkflowInv'
    BY <2>9, TakeUpInv
  <2>10. ASSUME NEW n \in Id,
                InputFails(n) \/ AgentMissing(n) \/ (\E s \in Terminal : AgentFails(n, s))
         PROVE  WorkflowInv'
    BY <2>10, FailureInv
  <2>11. ASSUME NEW n \in Id, AgentCompletes(n) PROVE WorkflowInv'
    BY <2>11, CompletesInv
  <2>12. CASE UNCHANGED workflowVars
    BY <2>12, IdleInv
  <2>13. QED
    BY <2>1, <2>2, <2>3, <2>4, <2>5, <2>6, <2>7, <2>8, <2>9, <2>10, <2>11, <2>12, Zenon DEF WorkflowNext
<1>2. QED
  BY <1>1, InitInv, PTL DEF WorkflowSpec

(* A loop that has come to its end has settled every node. *)
LEMMA LoopComplete ==
    ASSUME WorkflowInv, phase # "declaring", Len(sorted_nodes) = Len(order),
           Len(execution_order) = Len(sorted_nodes)
    PROVE  Members(execution_order) = Nodes
<1>1. Done = Nodes /\ Len(sorted_nodes) \in Nat /\ DOMAIN sorted_nodes = 1 .. Len(sorted_nodes)
  BY SortComplete
<1>2. /\ DOMAIN execution_order = 1 .. Len(execution_order)
      /\ \A i \in DOMAIN execution_order : execution_order[i] = sorted_nodes[i]
  BY LenProperties DEF WorkflowInv, LoopInv
<1>3. QED
  BY <1>1, <1>2 DEF Done, Members

LEMMA WorkflowTypes == WorkflowInv => WorkflowTypeOK
<1> SUFFICES ASSUME WorkflowInv PROVE WorkflowTypeOK
  OBVIOUS
<1>1. order \in Seq(Id) /\ sorted_nodes \in Seq(Id) /\ ready \in Seq(Id)
  BY DEF WorkflowInv, DeclaredInv, SortInv
<1>2. Len(sorted_nodes) <= Len(order)
  <2>1. Distinct(sorted_nodes) /\ Members(sorted_nodes) \subseteq Members(order)
    BY DEF WorkflowInv, SortInv, Done, Nodes, Declared
  <2>2. QED
    BY <1>1, <2>1, Pigeonhole
<1>3. failed_nodes \subseteq Id
  BY DEF WorkflowInv, LoopInv
<1>4. QED
  BY <1>1, <1>2, <1>3 DEF WorkflowTypeOK, WorkflowInv, SortInv, LoopInv, StatusInv

(* The result of run() says what happened to the declaration it was given: *)
(* the sort accepts exactly the schedulable ones, the status and the node  *)
(* reports agree, and failures are passed on over any distance.            *)
THEOREM SoundVerdict == WorkflowSpec => []VerdictIsSound
<1>1. WorkflowInv => VerdictIsSound
  <2> SUFFICES ASSUME WorkflowInv PROVE VerdictIsSound
    OBVIOUS
  <2>1. WorkflowTypeOK
    BY WorkflowTypes
  <2>2. phase = "running" => IsDag(order, deps)
    BY SortComplete DEF WorkflowInv, StatusInv
  <2>3. ASSUME phase = "returned", order # <<>>
        PROVE  /\ Len(sorted_nodes) = Len(order) <=> IsDag(order, deps)
               /\ output => status = "Completed"
               /\ status = "Completed" => \A n \in Nodes : node_status[n] = "Completed"
               /\ status = "NodeFailed" => \E n \in Nodes : node_status[n] \in Terminal
               /\ status = "DependencyFailed" <=> ~IsDag(order, deps)
               /\ status # "DependencyFailed" => Members(execution_order) = Nodes
    <3>1. Len(sorted_nodes) = Len(order) <=> IsDag(order, deps)
      <4>1. ready = <<>> /\ phase # "declaring"
        BY <2>3 DEF WorkflowInv, SortInv
      <4>2. QED
        BY <4>1, SortComplete, SortStuck
    <3>2. /\ output => status = "Completed"
          /\ status = "NodeFailed" => \E n \in Nodes : node_status[n] \in Terminal
          /\ status = "DependencyFailed" <=> Len(sorted_nodes) # Len(order)
          /\ status # "DependencyFailed" => /\ Len(sorted_nodes) = Len(order)
                                            /\ Len(execution_order) = Len(sorted_nodes)
          /\ status = "Completed" => failed_nodes = {}
      BY <2>3 DEF WorkflowInv, StatusInv
    <3>3. status # "DependencyFailed" => Members(execution_order) = Nodes
      BY <2>3, <3>2, LoopComplete
    <3>4. ASSUME status = "Completed", NEW n \in Nodes PROVE node_status[n] = "Completed"
      <4>1. n \in Members(execution_order) /\ failed_nodes = {} /\ n \in Id
        BY <3>2, <3>3, <3>4, AfterFacts DEF WorkflowInv
      <4>2. node_status[n] \in Results /\ node_status[n] # "None" /\ node_status[n] \notin Failures
        BY <4>1 DEF WorkflowInv, LoopInv
      <4>3. QED
        BY <4>2 DEF Results, Failures
    <3>5. QED
      BY <3>1, <3>2, <3>3, <3>4
  <2>4. ASSUME NEW n \in Members(execution_order)
        PROVE  node_status[n] = "Skipped" <=>
                   \E d \in deps[n] : node_status[d] \in Terminal \cup {"Skipped"}
    <3>1. n \in Id /\ deps[n] \subseteq Id
      <4>1. execution_order \in Seq(Id) /\ deps \in [Id -> SUBSET Id]
        BY AfterFacts DEF WorkflowInv, LoopInv
      <4>2. n \in Id
        BY <4>1 DEF Members
      <4>3. QED
        BY <4>1, <4>2
    <3>2. failed_nodes = {m \in Id : node_status[m] \in Terminal \cup {"Skipped"}}
      BY DEF WorkflowInv, LoopInv, Failures
    <3>3. node_status[n] = "Skipped" <=> deps[n] \cap failed_nodes # {}
      BY DEF WorkflowInv, LoopInv
    <3>4. QED
      BY <3>1, <3>2, <3>3
  <2>5. QED
    BY <2>1, <2>2, <2>3, <2>4 DEF VerdictIsSound
<1>2. QED
  BY <1>1, WorkflowInvariant, PTL
-----------------------------------------------------------------------------
(* The states the contract sees. *)
LEMMA ContractStatusIs ==
    ASSUME node_status \in [Id -> Results], NEW n \in Id
    PROVE  /\ ContractStatus = [m \in Id |-> ContractStatus[m]]
           /\ n \in current => ContractStatus[n] = "Running"
           /\ n \notin current =>
                 /\ node_status[n] = "None" => ContractStatus[n] = "Pending"
                 /\ node_status[n] \in Terminal => ContractStatus[n] = "Failed"
                 /\ node_status[n] \in {"Completed", "Skipped"} =>
                       ContractStatus[n] = node_status[n]
BY DEF ContractStatus, Results, Terminal

(* Until the nodes run, the contract sees a graph that is being built. *)
LEMMA ContractBuilding ==
    ASSUME WorkflowInv, phase \in {"declaring", "sorting"}
    PROVE  /\ ContractCall = "building" /\ ContractVerdict = FALSE
           /\ \A n \in Id : node_status[n] = "None"
           /\ current = {}
<1>1. execution_order = <<>>
  BY DEF WorkflowInv, StatusInv
<1>2. Members(<<>>) = {}
  BY DEF Members
<1>3. QED
  BY <1>1, <1>2 DEF WorkflowInv, LoopInv, ContractCall, ContractVerdict

LEMMA DepsType == DeclaredInv => order \in Seq(Id) /\ deps \in [Id -> SUBSET Id]
BY AfterFacts DEF DeclaredInv

LEMMA DepsTypeNext == (DeclaredInv => order \in Seq(Id) /\ deps \in [Id -> SUBSET Id])'
BY DepsType, PTL

LEMMA ContractDag ==
    /\ IsDag(order, deps) <=> Contract!IsDag(order, deps)
    /\ Contract!Declared(order) = Nodes
BY DEF IsDag, Distinct, Closed, Acyclic, Declared, Members, Nodes,
       Contract!IsDag, Contract!Distinct, Contract!Closed, Contract!Acyclic,
       Contract!Declared, Contract!Members

LEMMA RuntimeContractInit == WorkflowInit => Contract!Init
<1> SUFFICES ASSUME WorkflowInit PROVE Contract!Init
  OBVIOUS
<1>1. WorkflowInv
  BY InitInv
<1>2. order \in Seq(Id) /\ deps \in [Id -> SUBSET Id]
  BY <1>1, DepsType DEF WorkflowInv
<1>3. ContractCall = "building" /\ ContractVerdict = FALSE
  BY <1>1, ContractBuilding DEF WorkflowInit
<1>4. ContractStatus = [n \in Id |-> "Pending"]
  BY DEF WorkflowInit, ContractStatus
<1>5. QED
  BY <1>2, <1>3, <1>4 DEF Contract!Init

(* Declaring a node builds the graph. *)
LEMMA ContractDeclare ==
    ASSUME WorkflowInv, WorkflowInv', NEW n \in Id, NEW list, Declare(n, list)
    PROVE  Contract!Build
<1>1. phase = "declaring" /\ phase' = phase /\ node_status' = node_status /\ current' = current
  BY DEF Declare, progress
<1>2. ContractCall = "building" /\ ContractVerdict = FALSE
  BY <1>1, ContractBuilding
<1>3. ContractCall' = "building" /\ ContractVerdict' = FALSE
  BY <1>1 DEF ContractCall, ContractVerdict
<1>4. ContractStatus' = ContractStatus
  BY <1>1 DEF ContractStatus
<1>5. order' \in Seq(Id) /\ deps' \in [Id -> SUBSET Id]
  BY DepsTypeNext DEF WorkflowInv
<1>6. QED
  BY <1>2, <1>3, <1>4, <1>5 DEF Contract!Build

(* An empty workflow, and the steps of the sort, are hidden. *)
LEMMA ContractHidden ==
    ASSUME WorkflowInv, WorkflowInv', UNCHANGED <<declared, progress>>,
           \/ NotFound \/ EmptyWorkflow \/ BeginSort \/ SortStep \/ SortAgain
    PROVE  UNCHANGED Contract!vars
<1>1. /\ phase \in {"declaring", "sorting"}
      /\ phase' = "sorting" \/ (order' = <<>> /\ phase' = "returned")
  BY DEF NotFound, EmptyWorkflow, BeginSort, SortStep, SortAgain, SortNode, declared
<1>2. ContractCall = "building" /\ ContractVerdict = FALSE
  BY <1>1, ContractBuilding
<1>3. ContractCall' = "building" /\ ContractVerdict' = FALSE
  BY <1>1 DEF ContractCall, ContractVerdict
<1>4. order' = order /\ deps' = deps /\ ContractStatus' = ContractStatus
  BY DEF declared, progress, deps, ContractStatus
<1>5. QED
  BY <1>2, <1>3, <1>4 DEF Contract!vars

(* The end of the sort is the call, which accepts or rejects the graph. *)
LEMMA ContractCalled ==
    ASSUME WorkflowInv, WorkflowInv', CycleFound \/ Sorted
    PROVE  Contract!Call
<1>1. /\ phase = "sorting" /\ ready = <<>> /\ order' = order /\ after' = after
      /\ sorted_nodes' = sorted_nodes /\ UNCHANGED progress
  BY DEF CycleFound, Sorted, declared, sorting
<1>2. /\ ContractCall = "building" /\ ContractVerdict = FALSE
      /\ \A n \in Id : node_status[n] = "None"
  BY <1>1, ContractBuilding
<1>3. order # <<>>
  BY <1>1 DEF WorkflowInv, SortInv
<1>4. deps' = deps /\ ContractStatus' = ContractStatus
  BY <1>1 DEF progress, deps, ContractStatus
<1>5. ContractCall' = IF Contract!IsDag(order, deps) THEN "running" ELSE "rejected"
  <2>1. CASE CycleFound
    <3>1. ~IsDag(order, deps)
      BY <1>1, <2>1, SortStuck DEF CycleFound
    <3>2. ContractCall' = "rejected"
      BY <1>1, <1>3, <2>1 DEF CycleFound, ContractCall
    <3>3. QED
      BY <3>1, <3>2, ContractDag
  <2>2. CASE Sorted
    <3>1. IsDag(order, deps)
      BY <1>1, <2>2, SortComplete DEF Sorted
    <3>2. ContractCall' = "running"
      BY <1>1, <2>2 DEF Sorted, ContractCall
    <3>3. QED
      BY <3>1, <3>2, ContractDag
  <2>3. QED
    BY <2>1, <2>2
<1>6. ContractVerdict' = FALSE
  <2>1. PICK n \in Nodes : n \in Id
    <3>1. order \in Seq(Id) /\ Len(order) \in Nat /\ DOMAIN order = 1 .. Len(order)
      BY LenProperties DEF WorkflowInv, DeclaredInv
    <3>2. 1 \in DOMAIN order
      BY <1>3, <3>1, EmptySeq
    <3>3. QED
      BY <3>1, <3>2 DEF Nodes, Declared, Members
  <2>2. node_status'[n] = "None" /\ n \in Nodes'
    BY <1>1, <1>2, <2>1 DEF progress, Nodes
  <2>3. QED
    BY <2>2 DEF ContractVerdict
<1>7. QED
  BY <1>1, <1>2, <1>4, <1>5, <1>6 DEF Contract!Call

(* Where the loop stands, in the contract's terms. *)
LEMMA ContractRunning ==
    ASSUME WorkflowInv, phase = "running", Len(execution_order) < Len(sorted_nodes),
           NEW n, n = sorted_nodes[Len(execution_order) + 1],
           UNCHANGED <<declared, phase, sorting>>
    PROVE  /\ n \in Id /\ n \in Contract!Declared(order)
           /\ node_status \in [Id -> Results] /\ node_status[n] = "None"
           /\ \A d \in deps[n] : d \in Id /\ d # n /\ node_status[d] # "None"
           /\ ContractCall = "running" /\ ContractVerdict = FALSE
           /\ ContractCall' = "running" /\ ContractVerdict' = FALSE
           /\ order' = order /\ deps' = deps
<1>1. /\ n \in Nodes /\ n \in Id /\ n \notin Members(execution_order)
      /\ deps[n] \subseteq Members(execution_order)
      /\ execution_order \in Seq(Id)
  BY LoopFacts
<1>2. n \in Contract!Declared(order)
  BY <1>1, ContractDag
<1>3. Members(execution_order) \subseteq Id
  BY <1>1 DEF Members
<1>4. node_status \in [Id -> Results] /\ node_status[n] = "None"
  BY <1>1 DEF WorkflowInv, LoopInv
<1>5. \A d \in deps[n] : d \in Id /\ d # n /\ node_status[d] # "None"
  BY <1>1, <1>3 DEF WorkflowInv, LoopInv
<1>6. /\ ContractCall = "running" /\ ContractVerdict = FALSE
      /\ ContractCall' = "running" /\ ContractVerdict' = FALSE
  BY DEF ContractCall, ContractVerdict
<1>7. order' = order /\ deps' = deps
  BY DEF declared, deps
<1>8. QED
  BY <1>1, <1>2, <1>4, <1>5, <1>6, <1>7

(* Settling a node changes its status and no other's. *)
LEMMA ContractSettled ==
    ASSUME WorkflowInv, NEW n \in Id, current \subseteq {n},
           NEW s \in Results \ {"None"}, Report(n, s)
    PROVE  ContractStatus' =
               [ContractStatus EXCEPT ![n] = IF s \in Terminal THEN "Failed" ELSE s]
<1>1. /\ node_status' = [node_status EXCEPT ![n] = s] /\ current' = {}
      /\ node_status \in [Id -> Results]
  BY DEF Report, WorkflowInv, LoopInv
<1>2. ASSUME NEW m \in Id
      PROVE  ContractStatus'[m] = IF m = n THEN (IF s \in Terminal THEN "Failed" ELSE s)
                                  ELSE ContractStatus[m]
  BY <1>1 DEF ContractStatus
<1>3. /\ ContractStatus' = [m \in Id |-> ContractStatus'[m]]
      /\ ContractStatus = [m \in Id |-> ContractStatus[m]]
  BY DEF ContractStatus
<1>4. QED
  BY <1>2, <1>3

LEMMA ContractSkip ==
    ASSUME WorkflowInv, NEW n \in Id, Skip(n)
    PROVE  Contract!Skip(n)
<1>1. /\ phase = "running" /\ Len(execution_order) < Len(sorted_nodes) /\ current = {}
      /\ n = sorted_nodes[Len(execution_order) + 1] /\ UNCHANGED <<declared, phase, sorting>>
      /\ deps[n] \cap failed_nodes # {} /\ Report(n, "Skipped")
  BY DEF Skip, At, Fail
<1>2. /\ n \in Id /\ n \in Contract!Declared(order)
      /\ node_status \in [Id -> Results] /\ node_status[n] = "None"
      /\ ContractCall = "running" /\ ContractVerdict = FALSE
      /\ ContractCall' = "running" /\ ContractVerdict' = FALSE
      /\ order' = order /\ deps' = deps
  BY <1>1, ContractRunning
<1>3. ContractStatus[n] = "Pending"
  BY <1>1, <1>2, ContractStatusIs
<1>4. PICK d \in deps[n] : d \in Id /\ node_status[d] \in Terminal \cup {"Skipped"}
  BY <1>1 DEF WorkflowInv, LoopInv, Failures
<1>5. ContractStatus[d] \in {"Failed", "Skipped"}
  BY <1>1, <1>2, <1>4, ContractStatusIs
<1>6. ContractStatus' = [ContractStatus EXCEPT ![n] = "Skipped"]
  <2>1. "Skipped" \in Results \ {"None"} /\ "Skipped" \notin Terminal
    BY DEF Results, Terminal
  <2>2. QED
    BY <1>1, <2>1, ContractSettled
<1>7. QED
  BY <1>2, <1>3, <1>4, <1>5, <1>6 DEF Contract!Skip, Contract!Become

LEMMA RuntimeContractStart ==
    ASSUME WorkflowInv, NEW n \in Id, TakeUp(n)
    PROVE  Contract!Start(n)
<1>1. /\ phase = "running" /\ Len(execution_order) < Len(sorted_nodes) /\ current = {}
      /\ n = sorted_nodes[Len(execution_order) + 1] /\ UNCHANGED <<declared, phase, sorting>>
      /\ deps[n] \cap failed_nodes = {} /\ current' = {n} /\ node_status' = node_status
  BY DEF TakeUp, At
<1>2. /\ n \in Id /\ n \in Contract!Declared(order)
      /\ node_status \in [Id -> Results] /\ node_status[n] = "None"
      /\ \A d \in deps[n] : d \in Id /\ d # n /\ node_status[d] # "None"
      /\ ContractCall = "running" /\ ContractVerdict = FALSE
      /\ ContractCall' = "running" /\ ContractVerdict' = FALSE
      /\ order' = order /\ deps' = deps
  BY <1>1, ContractRunning
<1>3. ContractStatus[n] = "Pending"
  BY <1>1, <1>2, ContractStatusIs
<1>4. ASSUME NEW d \in deps[n] PROVE ContractStatus[d] = "Completed"
  <2>1. /\ d \in Id /\ node_status[d] \in Results /\ node_status[d] # "None"
        /\ node_status[d] \notin Terminal \cup {"Skipped"}
    BY <1>1, <1>2 DEF WorkflowInv, LoopInv, Failures
  <2>2. node_status[d] = "Completed"
    BY <2>1 DEF Results
  <2>3. QED
    BY <1>1, <1>2, <2>1, <2>2, ContractStatusIs
<1>5. ContractStatus' = [ContractStatus EXCEPT ![n] = "Running"]
  <2>1. ASSUME NEW m \in Id
        PROVE  ContractStatus'[m] = IF m = n THEN "Running" ELSE ContractStatus[m]
    BY <1>1 DEF ContractStatus
  <2>2. /\ ContractStatus' = [m \in Id |-> ContractStatus'[m]]
        /\ ContractStatus = [m \in Id |-> ContractStatus[m]]
    BY DEF ContractStatus
  <2>3. QED
    BY <2>1, <2>2
<1>6. QED
  BY <1>2, <1>3, <1>4, <1>5 DEF Contract!Start, Contract!Become

(* However the node that is held ends. *)
LEMMA ContractEnds ==
    ASSUME WorkflowInv, NEW n \in Id,
           \/ InputFails(n) \/ AgentMissing(n) \/ AgentCompletes(n)
           \/ \E s \in Terminal : AgentFails(n, s)
    PROVE  Contract!Finish(n)
<1>1. PICK s \in Terminal \cup {"Completed"} :
          n \in current /\ Report(n, s) /\ UNCHANGED <<declared, phase, sorting>>
  <2>1. CASE InputFails(n) \/ AgentMissing(n)
    BY <2>1 DEF InputFails, AgentMissing, Fail, Terminal
  <2>2. CASE AgentCompletes(n)
    BY <2>2 DEF AgentCompletes
  <2>3. CASE \E s \in Terminal : AgentFails(n, s)
    BY <2>3 DEF AgentFails, Fail
  <2>4. QED
    BY <2>1, <2>2, <2>3
<1>2. /\ phase = "running" /\ Len(execution_order) < Len(sorted_nodes)
      /\ n = sorted_nodes[Len(execution_order) + 1]
  BY <1>1, HeldNode
<1>3. /\ n \in Contract!Declared(order) /\ node_status \in [Id -> Results]
      /\ ContractCall = "running" /\ ContractVerdict = FALSE
      /\ ContractCall' = "running" /\ ContractVerdict' = FALSE
      /\ order' = order /\ deps' = deps
  BY <1>1, <1>2, ContractRunning
<1>4. ContractStatus[n] = "Running"
  BY <1>1, <1>3, ContractStatusIs
<1>5. s \in Results \ {"None"} /\ "Completed" \notin Terminal
  BY DEF Results, Terminal
<1>6. current \subseteq {n}
  BY <1>1, <1>2 DEF WorkflowInv, LoopInv
<1>7. ContractStatus' = [ContractStatus EXCEPT ![n] = IF s \in Terminal THEN "Failed" ELSE s]
  BY <1>1, <1>5, <1>6, ContractSettled
<1>8. CASE s \in Terminal
  <2>1. ContractStatus' = [ContractStatus EXCEPT ![n] = "Failed"]
    BY <1>7, <1>8
  <2>2. QED
    BY <1>3, <1>4, <2>1 DEF Contract!Finish, Contract!Become
<1>9. CASE s = "Completed"
  <2>1. ContractStatus' = [ContractStatus EXCEPT ![n] = "Completed"]
    BY <1>5, <1>7, <1>9
  <2>2. QED
    BY <1>3, <1>4, <2>1 DEF Contract!Finish, Contract!Become
<1>10. QED
  BY <1>8, <1>9

LEMMA RuntimeContractReturn ==
    ASSUME WorkflowInv, Finish
    PROVE  Contract!Return
<1>1. /\ phase = "running" /\ phase' = "returned" /\ UNCHANGED <<declared, sorting, progress>>
      /\ Len(execution_order) = Len(sorted_nodes) /\ Len(sorted_nodes) = Len(order)
      /\ order # <<>>
  BY DEF Finish, WorkflowInv, StatusInv
<1>2. /\ order' = order /\ deps' = deps /\ Nodes' = Nodes /\ sorted_nodes' = sorted_nodes
      /\ node_status' = node_status /\ ContractStatus' = ContractStatus
  BY <1>1 DEF declared, sorting, progress, deps, Nodes, ContractStatus
<1>3. Members(execution_order) = Nodes /\ Nodes \subseteq Id
  BY <1>1, LoopComplete, AfterFacts DEF WorkflowInv
<1>4. current = {}
  <2>1. Len(sorted_nodes) \in Nat
    BY LenProperties DEF WorkflowInv, SortInv
  <2>2. QED
    BY <2>1, <1>1 DEF WorkflowInv, LoopInv
<1>5. /\ node_status \in [Id -> Results]
      /\ \A n \in Nodes : node_status[n] # "None"
  BY <1>3 DEF WorkflowInv, LoopInv
<1>6. ASSUME NEW n \in Nodes
      PROVE  /\ ContractStatus[n] \notin {"Running", "Pending"}
             /\ ContractStatus[n] = "Completed" <=> node_status[n] = "Completed"
  BY <1>3, <1>4, <1>5 DEF ContractStatus, Results, Terminal
<1>7. ContractStatus' = [n \in Id |-> IF n \in Nodes /\ ContractStatus[n] = "Pending"
                                         THEN "Skipped" ELSE ContractStatus[n]]
  <2>1. ContractStatus = [n \in Id |-> ContractStatus[n]]
    BY DEF ContractStatus
  <2>2. QED
    BY <1>2, <1>6, <2>1
<1>8. ContractCall = "running" /\ ContractCall' = "done"
  BY <1>1, <1>2 DEF ContractCall
<1>9. ContractVerdict' = (\A n \in Nodes : ContractStatus[n] = "Completed")
  BY <1>1, <1>2, <1>6 DEF ContractVerdict
<1>10. Contract!Declared(order) = Nodes
  BY ContractDag
<1>11. QED
  BY <1>2, <1>6, <1>7, <1>8, <1>9, <1>10 DEF Contract!Return

(* WorkflowRuntime::run, which sorts by counting and runs one node after   *)
(* the other, does what DagExecution allows: it rejects what is not a DAG, *)
(* starts a node after its dependencies completed, skips one just after a  *)
(* failure, and returns when nothing is left.                              *)
THEOREM RuntimeImplementsContract == WorkflowSpec => ImplementsContract
<1>1. WorkflowInv /\ WorkflowInv' /\ [WorkflowNext]_workflowVars => [Contract!Next]_(Contract!vars)
  <2> SUFFICES ASSUME WorkflowInv, WorkflowInv', [WorkflowNext]_workflowVars
               PROVE  [Contract!Next]_(Contract!vars)
    OBVIOUS
  <2>1. CASE \E n \in Id : \E k \in 0 .. MaxAfter : \E list \in [1 .. k -> Id] : Declare(n, list)
    BY <2>1, ContractDeclare DEF Contract!Next
  <2>2. CASE \/ NotFound \/ EmptyWorkflow \/ BeginSort \/ SortStep \/ SortAgain
    <3>1. UNCHANGED <<declared, progress>>
      BY <2>2 DEF NotFound, EmptyWorkflow, BeginSort, SortStep, SortNode, SortAgain
    <3>2. QED
      BY <2>2, <3>1, ContractHidden
  <2>3. CASE CycleFound \/ Sorted
    BY <2>3, ContractCalled DEF Contract!Next
  <2>4. CASE Finish
    BY <2>4, RuntimeContractReturn DEF Contract!Next
  <2>5. ASSUME NEW n \in Id, Skip(n) PROVE Contract!Next
    BY <2>5, ContractSkip DEF Contract!Next
  <2>6. ASSUME NEW n \in Id, TakeUp(n) PROVE Contract!Next
    BY <2>6, RuntimeContractStart DEF Contract!Next
  <2>7. ASSUME NEW n \in Id, \/ InputFails(n) \/ AgentMissing(n) \/ AgentCompletes(n)
                             \/ \E s \in Terminal : AgentFails(n, s)
        PROVE  Contract!Next
    BY <2>7, ContractEnds DEF Contract!Next
  <2>8. CASE UNCHANGED workflowVars
    <3>1. /\ UNCHANGED <<order, after, phase, sorted_nodes, node_status, current>>
          /\ deps' = deps /\ Nodes' = Nodes
      BY <2>8 DEF workflowVars, declared, sorting, progress, deps, Nodes
    <3>2. /\ ContractCall' = ContractCall /\ ContractVerdict' = ContractVerdict
          /\ ContractStatus' = ContractStatus
      BY <3>1 DEF ContractCall, ContractVerdict, ContractStatus
    <3>3. QED
      BY <3>1, <3>2 DEF Contract!vars
  <2>9. QED
    BY <2>1, <2>2, <2>3, <2>4, <2>5, <2>6, <2>7, <2>8, Zenon DEF WorkflowNext
<1>2. QED
  BY <1>1, RuntimeContractInit, WorkflowInvariant, PTL DEF WorkflowSpec, ImplementsContract, Contract!Spec
=============================================================================
