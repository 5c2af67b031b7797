----------------------------- MODULE MCThreads ------------------------------
(***************************************************************************)
(* The parts of runtime/engine that several threads execute at once: the   *)
(* parallel scheduler, and the capability calls that threads make.  They   *)
(* share no state, so a behaviour picks one of them; the other stays as it *)
(* was constructed.                                                        *)
(***************************************************************************)
EXTENDS ParallelScheduler, CapabilityCalls

VARIABLE part      \* "scheduler" or "calls"

all == <<part, vars, callsVars>>

(* One configuration stands for all where it is not looked at. *)
EngineInit ==
    /\ part \in {"scheduler", "calls"}
    /\ Init
    /\ CallsInit
    /\ part = "calls" => thread_count = 1 /\ mode = CHOOSE k \in Modes : TRUE
    /\ part = "scheduler" =>
          /\ up
          /\ \A b \in Bindings : /\ enabled[b]
                                 /\ \A t \in Thresholds : threshold[b] <= t
                                 /\ \A r \in Retries : max_retries[b] <= r

EngineNext ==
    /\ UNCHANGED part
    /\ \/ part = "scheduler" /\ Next /\ UNCHANGED callsVars
       \/ part = "calls" /\ CallsNext /\ UNCHANGED vars

(* The fairness of both.  A scheduler that was never called has no step to *)
(* take and a call that was never made neither; nobody has to call a       *)
(* capability in a behaviour about the scheduler.                          *)
EngineSpec ==
    /\ EngineInit
    /\ [][EngineNext]_all
    /\ Fairness
    /\ FairCalls
    /\ \A c \in Callers, b \in Bindings :
          SF_callsVars(part = "calls" /\ InvokeAdmitted(c, b))
=============================================================================
