---------------------------- MODULE MCComponents ----------------------------
(***************************************************************************)
(* The components that run alone against their surroundings: the chain of  *)
(* persistence and provider artifacts, the pipeline that makes artifacts   *)
(* on demand, the language server, the incremental compiler, the language  *)
(* model provider and the secrets.  They share no state, so a behaviour    *)
(* picks one of them; the others stay as they were constructed.            *)
(***************************************************************************)
EXTENDS ProviderChain, LanguageServer, SecretRotation, LlmProvider

CONSTANTS
    n1, n2, n3, MaxFailures,                         \* the chain's nodes; the pipeline's
    Modules, Outside, Sources, Broken, MaxEdits   \* the incremental compiler's

(* Three nodes: a prefix can be empty, inner, or all but the last node. *)
MCOrder == <<n1, n2, n3>>

(* Every file that is near imports the far ones. *)
MCImports == [u \in Uris |-> IF u \in Far THEN {} ELSE Far]

(* A fallback that is tried, and one that is not. *)
MCFallbacks ==
    {[name |-> 1, priority |-> 2, status |-> "Degraded"],
     [name |-> 2, priority |-> 5, status |-> "Unavailable"]}

(* A budget that can be met, and one that validate_config() refuses. *)
MCBudgets ==
    [fits |-> [prompt |-> 3, response |-> 2, total |-> 6],
     over |-> [prompt |-> 5, response |-> 2, total |-> 6]]

(* A direct call, and two nodes of a workflow. *)
MCContexts ==
    {[workflow |-> "<direct>", node |-> {}],
     [workflow |-> "w", node |-> {"n1"}], [workflow |-> "w", node |-> {"n2"}]}

(* A user prompt to truncate, and a system prompt that takes all there is. *)
MCPrompts == {[system |-> 5, user |-> 20], [system |-> 12, user |-> 1]}

ASSUME ComponentsAssumption ==
    /\ MaxFailures \in Nat
    /\ ServerAssumption /\ Far \subseteq Uris
    /\ Modules = 1..Cardinality(Modules)
    /\ Outside \cap Modules = {} /\ Broken \notin Sources
    /\ SecretsAssumption /\ Width > 1 /\ Retries \subseteq 0..(Width - 1)

VARIABLES
    part,      \* the component this behaviour is about
    request, entries, stack, builds, failing,
    graph, file, edits, compiled, changed, queue, hash, results, calling

Pipeline    == INSTANCE ArtifactPipeline WITH failed <- failing
Incremental == INSTANCE IncrementalCompiler WITH cache <- compiled, todo <- queue

pipeline    == <<request, entries, stack, builds, failing>>
incremental == <<graph, file, edits, compiled, changed, queue, hash, results, calling>>
chain       == vars
all         == <<part, chain, pipeline, server, incremental, llm, secrets>>

(* Bound: one module at most imports from outside the graph. *)
OneBorder == \A m, n \in Modules : m # n => Incremental!Imports(m) \cap Outside = {}
                                        \/ Incremental!Imports(n) \cap Outside = {}

(* A component that is not looked at starts in one of its initial states. *)
ComponentsInit ==
    /\ part \in {"chain", "pipeline", "server", "incremental", "llm", "secrets"}
    /\ IF part = "chain" THEN Start
       ELSE stage = "idle" /\ art = <<>> /\ run = <<>> /\ cause = {} /\ opted = FALSE /\ files = {}
    /\ Pipeline!Init /\ (part # "pipeline" => request = "Plan")
    /\ ServerInit /\ (part # "server" => disk = [u \in Uris |-> CHOOSE t \in Texts : TRUE])
    /\ IF part = "incremental" THEN Incremental!Init /\ OneBorder
       ELSE /\ graph = <<>> /\ file = <<>> /\ edits = 0 /\ compiled = <<>> /\ changed = {}
            /\ queue = <<>> /\ hash = {} /\ results = <<>> /\ calling = FALSE
    /\ LlmInit
    /\ part # "llm" => settings = [tools |-> FALSE, stream |-> FALSE, max_retries |-> 0,
                                   max_tool_rounds |-> 0]
    /\ RotationInit

ComponentsNext ==
    /\ UNCHANGED part
    /\ \/ part = "chain" /\ Next /\ UNCHANGED <<pipeline, server, incremental, llm, secrets>>
       \/ part = "pipeline" /\ Pipeline!Next
             /\ UNCHANGED <<chain, server, incremental, llm, secrets>>
       \/ part = "server" /\ ServerNext
             /\ UNCHANGED <<chain, pipeline, incremental, llm, secrets>>
       \/ part = "incremental" /\ Incremental!Next
             /\ UNCHANGED <<chain, pipeline, server, llm, secrets>>
       \/ part = "llm" /\ LlmNext
             /\ UNCHANGED <<chain, pipeline, server, incremental, secrets>>
       \/ part = "secrets" /\ RotationNext
             /\ UNCHANGED <<chain, pipeline, server, incremental, llm>>

ComponentsSpec == ComponentsInit /\ [][ComponentsNext]_all
-----------------------------------------------------------------------------
(* Whatever kind is emitted and whichever builders fail, the result is     *)
(* right: see EmitIsSound of ArtifactPipeline.                             *)
EmitIsSound == Pipeline!EmitIsSound

(* compile_changed() reports on every module a change affects, and on no   *)
(* other, each after the ones it imports, and the cache bears it out.      *)
ResultsAreComplete == Incremental!ResultsAreComplete
=============================================================================
