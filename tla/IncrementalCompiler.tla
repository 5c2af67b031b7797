------------------------ MODULE IncrementalCompiler ------------------------
(***************************************************************************)
(* The incremental compiler: a dependency graph, a cache of compiled       *)
(* modules, and compile_changed(), which compiles what a change affects in *)
(* dependency order.  It reads a file twice, once for its hash and once to *)
(* compile it, and the file may be edited at any moment.  Only that file   *)
(* is read: parse_file() does not follow imports.  The hash of a text is   *)
(* the text.  An entry's IR is not looked at, its signature_fingerprint    *)
(* goes into a statistic only, and the counters of IncrementalStats follow *)
(* from the results: these are left out.                                   *)
(***************************************************************************)
EXTENDS Integers, Sequences, SequencesExt

CONSTANTS
    Modules,    \* the module paths, numbers in the order of their names
    Outside,    \* paths the graph does not have, which may be imported
    Sources,    \* the texts that compile
    Broken,     \* a text that does not compile, or no file
    MaxEdits    \* bound: edits of a file

VARIABLES
    graph,      \* the import lists of the modules, as they were added
    file,       \* the text of each module
    edits,
    cache,      \* per module: the hash its IR was stored under
    changed,    \* the changed paths of the call in progress
    todo,       \* the rest of it, in order; its head is under way
    hash,       \* the hash just read for the head, none yet or none any more
    results,    \* what the call reports
    calling

vars == <<graph, file, edits, cache, changed, todo, hash, results, calling>>
call == <<changed, todo, hash, results, calling>>

(* A module's imports; where in the list a path outside the graph stands   *)
(* makes no difference, topological_order() passes over it.                *)
ImportLists(m) ==
    {inside \o outside : inside  \in UNION {SetToSeqs(S) : S \in SUBSET (Modules \ {m})},
                         outside \in UNION {SetToSeqs(S) : S \in SUBSET Outside}}

Init ==
    /\ graph \in [Modules -> UNION {ImportLists(m) : m \in Modules}]
    /\ \A m \in Modules : graph[m] \in ImportLists(m)
    /\ file = [m \in Modules |-> CHOOSE t \in Sources : TRUE]
    /\ edits = 0
    /\ cache = <<>>
    /\ changed = {}
    /\ todo = <<>>
    /\ hash = {}
    /\ results = <<>>
    /\ calling = FALSE

Imports(m) == ToSet(graph[m])

(* dependents_of() *)
DependentsOf(m) == {n \in Modules : m \in Imports(n)}

(* Slip: only the modules that import a changed one themselves. *)
DirectDependents(paths) == paths \cup UNION {DependentsOf(m) : m \in paths}

(* transitive_dependents(), of every changed path *)
Affected(paths) ==
    LET reach[n \in 0..Cardinality(Modules)] ==
            IF n = 0 THEN paths
            ELSE reach[n - 1] \cup UNION {DependentsOf(m) : m \in reach[n - 1]}
    IN  reach[Cardinality(Modules)]

(* The search of topological_order() from one module: it gives up at the   *)
(* first module it meets on its own path, and leaves that path in_stack,   *)
(* so that a later search which meets it gives up as well.                 *)
RECURSIVE Search(_, _), SearchAll(_, _)
Search(m, s) ==
    IF m \in s.in_stack THEN [s EXCEPT !.ok = FALSE]
    ELSE IF m \in s.visited THEN s
    ELSE LET inside == SelectSeq(graph[m], LAMBDA p : p \in Modules)
             below  == SearchAll(inside, [s EXCEPT !.in_stack = @ \cup {m},
                                                 !.visited = @ \cup {m}])
         IN  IF below.ok
             THEN [below EXCEPT !.in_stack = @ \ {m}, !.result = Append(@, m)]
             ELSE below
SearchAll(ms, s) ==
    IF ms = <<>> \/ ~s.ok THEN s ELSE SearchAll(Tail(ms), Search(Head(ms), s))

(* topological_order(): a search from every module not yet visited, in the *)
(* order of the names.                                                     *)
TopologicalOrder ==
    LET from[k \in 0..Cardinality(Modules)] ==
            IF k = 0 THEN [visited |-> {}, in_stack |-> {}, result |-> <<>>, ok |-> TRUE]
            ELSE Search(k, [from[k - 1] EXCEPT !.ok = TRUE])
    IN  from[Cardinality(Modules)].result
-----------------------------------------------------------------------------
(* The file of a module is saved with another text. *)
Edit(m, t) ==
    /\ edits < MaxEdits
    /\ t # file[m]
    /\ file' = [file EXCEPT ![m] = t]
    /\ edits' = edits + 1
    /\ UNCHANGED <<graph, cache, call>>

(* compile_changed(): the affected modules, in topological order; a path   *)
(* that is not in that order, the graph not having it or the search giving *)
(* up before it, is dropped.                                               *)
CompileChanged(paths) ==
    /\ ~calling
    /\ calling' = TRUE
    /\ changed' = paths
    /\ todo' = SelectSeq(TopologicalOrder, LAMBDA m : m \in Affected(paths))
    /\ hash' = {}
    /\ results' = <<>>
    /\ UNCHANGED <<graph, file, edits, cache>>

Report(m, status) == results' = Append(results, [module |-> m, status |-> status])

(* lookup(): the cached entry bears the hash of the text in the file. *)
Hit(m) == m \in DOMAIN cache /\ cache[m] = file[m]

(* compute_content_hash() and the lookup: a hit needs no compilation. *)
ReadHash ==
    LET m == Head(todo)
    IN  /\ todo # <<>> /\ hash = {}
        /\ IF Hit(m)
           THEN /\ todo' = Tail(todo)
                /\ Report(m, "UpToDate")
                /\ UNCHANGED hash
           ELSE /\ hash' = {file[m]}
                /\ UNCHANGED <<todo, results>>
        /\ UNCHANGED <<graph, file, edits, cache, changed, calling>>

(* Slip: a failure leaves the entry of an earlier text. *)
KeptOnFailure(m) == cache

(* store() and invalidate() *)
Stored(m, h) == [n \in DOMAIN cache \cup {m} |-> IF n = m THEN h ELSE cache[n]]
Invalidated(m) == [n \in DOMAIN cache \ {m} |-> cache[n]]

(* parse_file() and the phases after it; the entry is stored under the     *)
(* hash read before, and a failure removes the module's entry.             *)
Compile ==
    LET m == Head(todo)
    IN  /\ todo # <<>>
        /\ todo' = Tail(todo)
        /\ hash' = {}
        /\ \E h \in hash :
              IF file[m] = Broken
              THEN cache' = Invalidated(m) /\ Report(m, "Failed")
              ELSE cache' = Stored(m, h) /\ Report(m, "Recompiled")
        /\ UNCHANGED <<graph, file, edits, changed, calling>>

Return ==
    /\ calling /\ todo = <<>>
    /\ calling' = FALSE
    /\ changed' = {}
    /\ results' = <<>>
    /\ UNCHANGED <<graph, file, edits, cache, todo, hash>>

Next ==
    \/ \E m \in Modules, t \in Sources \cup {Broken} : Edit(m, t)
    \/ \E paths \in SUBSET (Modules \cup Outside) : CompileChanged(paths)
    \/ ReadHash
    \/ Compile
    \/ Return

Spec == Init /\ [][Next]_vars
-----------------------------------------------------------------------------
(* Some order has every module after the ones it imports. *)
Acyclic ==
    \E order \in SetToSeqs(Modules) : \A i, j \in DOMAIN order :
        order[j] \in Imports(order[i]) => j < i

(* In a graph without cycles compile_changed() reports on every changed    *)
(* module, on every module that depends on a changed path, however         *)
(* indirectly, and on no other, each once and after the modules it         *)
(* imports.  What it has reported, the cache bears out: a module has an    *)
(* entry unless it failed, through all edits of its file before, during    *)
(* and after the compilation.                                              *)
ResultsAreComplete ==
    LET order == [i \in DOMAIN results |-> results[i].module] \o todo
        all   == ToSet(order)
    IN  calling /\ Acyclic =>
            /\ changed \cap Modules \subseteq all
            /\ \A p \in all \cup changed : DependentsOf(p) \subseteq all
            /\ \A m \in all \ changed : Imports(m) \cap (all \cup changed) # {}
            /\ \A i, j \in DOMAIN order :
                   /\ order[i] = order[j] => i = j
                   /\ order[j] \in Imports(order[i]) => j < i
            /\ \A r \in ToSet(results) :
                   r.status = "Failed" <=> r.module \notin DOMAIN cache

(* "failures are not cached as up-to-date" (incremental.cpp 80, a test): a *)
(* text that does not compile is never found in the cache.  An edit        *)
(* between the two reads stores what compiles under the hash of what does  *)
(* not.                                                                    *)
FailuresAreNotUpToDate == \A m \in Modules : file[m] = Broken => ~Hit(m)
=============================================================================
