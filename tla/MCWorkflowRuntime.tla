------------------------- MODULE MCWorkflowRuntime -------------------------
(***************************************************************************)
(* Two parts of runtime/engine that one thread executes: the workflow      *)
(* runtime, and the checkpoints of agents.  They share no state, so a      *)
(* behaviour picks one of them; the other stays as it was constructed.     *)
(***************************************************************************)
EXTENDS WorkflowRuntime, DistributedCheckpoint

VARIABLE part      \* "workflow" or "checkpoints"

all == <<part, workflowVars, vars>>

EngineInit ==
    /\ part \in {"workflow", "checkpoints"}
    /\ WorkflowInit
    /\ Init
    /\ part = "workflow" => strategy = "Retry"

EngineNext ==
    /\ UNCHANGED part
    /\ \/ part = "workflow" /\ WorkflowNext /\ UNCHANGED vars
       \/ part = "checkpoints" /\ Next /\ UNCHANGED workflowVars

(* A call of checkpoint() is in progress only in behaviours about it. *)
EngineSpec == EngineInit /\ [][EngineNext]_all /\ WF_vars(Step)
=============================================================================
