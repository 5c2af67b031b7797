------------------------ MODULE MCParallelScheduler -------------------------
(***************************************************************************)
(* Safety instance of ParallelScheduler: identifiers and nothing else are  *)
(* interchangeable.  The validation that precedes a run is checked on the  *)
(* same bounds.                                                            *)
(*                                                                         *)
(* ParallelScheduler::validate_dag(): Kahn's algorithm over nodes_, the    *)
(* declarations in the order add_node() was called.  It answers before a   *)
(* worker thread is started, so what it accepts is what the workers of     *)
(* module ParallelScheduler rely on.                                       *)
(*                                                                         *)
(* in_degree and adjacency are maps keyed by identifier: two declarations  *)
(* of one identifier share an entry and their dependencies add up, with    *)
(* multiplicity.                                                           *)
(***************************************************************************)
EXTENDS ParallelScheduler, TLC

IdSymmetry == Permutations(Id)
-----------------------------------------------------------------------------
(* Lists of up to two names: enough to repeat one. *)
Declaration == [id : Id, dependencies : UNION {[1 .. k -> Id] : k \in 0 .. 2}]

Ids(nodes) == [i \in DOMAIN nodes |-> nodes[i].id]

(* How often n is listed in adjacency[d]. *)
Edges(nodes, d, n) ==
    Cardinality({<<i, j>> \in (DOMAIN nodes) \X (1 .. 2) :
        /\ nodes[i].id = n /\ j \in DOMAIN nodes[i].dependencies
        /\ nodes[i].dependencies[j] = d})

(* The map the first loop builds: an entry per declared identifier. *)
InDegrees(nodes) ==
    [n \in Declared(Ids(nodes)) |->
        Cardinality({<<i, j>> \in (DOMAIN nodes) \X (1 .. 2) :
            nodes[i].id = n /\ j \in DOMAIN nodes[i].dependencies})]

(* The main loop.  The queue is seeded in the unspecified order of an      *)
(* unordered_map, so any waiting identifier may be at its front; the       *)
(* result is the set of the values visited may end with.  A neighbour is   *)
(* pushed at the decrement that reaches zero.                              *)
RECURSIVE Visit(_, _, _, _)
Visit(nodes, degree, queue, visited) ==
    IF queue = {} THEN {visited}
    ELSE UNION {
        LET left == [n \in DOMAIN degree |-> degree[n] - Edges(nodes, current, n)]
            pushed == {n \in DOMAIN degree : Edges(nodes, current, n) > 0 /\ left[n] = 0}
        IN  Visit(nodes, left, (queue \ {current}) \cup pushed, visited + 1)
        : current \in queue}

Visited(nodes) ==
    LET degree == InDegrees(nodes)
    IN  Visit(nodes, degree, {n \in DOMAIN degree : degree[n] = 0}, 0)

(* Slip: the count is compared with the number of map entries. *)
VerdictsByEntries(nodes) ==
    {visited = Cardinality(DOMAIN InDegrees(nodes)) : visited \in Visited(nodes)}

(* The answers the call may give: visited == nodes_.size(). *)
Verdicts(nodes) == {visited = Len(nodes) : visited \in Visited(nodes)}
-----------------------------------------------------------------------------
(* validate_dag() accepts exactly the declaration lists whose every node   *)
(* the workers can complete: distinct identifiers, no undeclared           *)
(* dependency, no cycle.  It does so in whatever order the hash map seeds  *)
(* its queue.  Stated of the empty scheduler, for every list add_node()    *)
(* may give it.                                                            *)
VerdictIsExact ==
    order = <<>> => \A k \in 0 .. MaxNodes : \A nodes \in [1 .. k -> Declaration] :
        LET all == [n \in Id |-> UNION {Members(nodes[i].dependencies) :
                                          i \in {j \in 1 .. k : nodes[j].id = n}}]
        IN  Verdicts(nodes) = {IsDag(Ids(nodes), all)}
=============================================================================
