-------------------------------- MODULE Dag --------------------------------
(***************************************************************************)
(* Dependency graphs as the runtime engine keeps them: a list of node      *)
(* declarations (DagNode in runtime/engine/parallel_scheduler.hpp), each   *)
(* with an identifier and the identifiers it depends on.  A declaration    *)
(* list is the pair of a sequence of identifiers, in declaration order,    *)
(* and a function from identifiers to sets of identifiers.  A dependency   *)
(* may name an identifier that was never declared.                         *)
(***************************************************************************)
EXTENDS Integers, Sequences, FiniteSets

(* The elements of a sequence, and of a declaration list. *)
Members(s) == {s[i] : i \in DOMAIN s}

Declared(order) == Members(order)

(* No identifier is declared twice. *)
Distinct(order) ==
    \A i, j \in DOMAIN order : order[i] = order[j] => i = j

(* The sequences that list a finite set, each element once. *)
Listings(S) ==
    {q \in [1 .. Cardinality(S) -> S] : Distinct(q) /\ Members(q) = S}

(* q lists its elements in the order of the declaration list. *)
InOrder(q, order) ==
    \A i, j \in DOMAIN q : i < j =>
        \A k, l \in DOMAIN order :
            order[k] = q[i] /\ order[l] = q[j] => k < l

(* The entries of s at the positions in T, in the order of s. *)
Increasing(q) == \A i, j \in DOMAIN q : i < j => q[i] < q[j]

Ascending(T) == CHOOSE q \in [1 .. Cardinality(T) -> T] : Increasing(q)

Picked(s, T) == [k \in 1 .. Cardinality(T) |-> s[Ascending(T)[k]]]

(* Every dependency of a declared node is declared. *)
Closed(order, deps) ==
    \A n \in Declared(order) : deps[n] \subseteq Declared(order)

(* No set of declared nodes is stuck: each nonempty one has a member all   *)
(* of whose dependencies lie outside of it.                                *)
Acyclic(order, deps) ==
    \A S \in SUBSET Declared(order) :
        S # {} => \E n \in S : deps[n] \cap S = {}

(* What a declaration list must be for every node to be schedulable. *)
IsDag(order, deps) ==
    /\ Distinct(order)
    /\ Closed(order, deps)
    /\ Acyclic(order, deps)
=============================================================================
