---------------------------- MODULE AgentRuntime ----------------------------
(***************************************************************************)
(* AgentRuntime (runtime/engine/agent_runtime.cpp): the state machine of   *)
(* one agent.  Each iteration of run_from_state's loop checks the quotas,  *)
(* finds the handler of the current state, executes it and acts on what    *)
(* came out.  An iteration is one action, named for how it ends; nothing   *)
(* else reads the result before the call returns.                          *)
(*                                                                         *)
(* The agent and its flow are the ones the caller hands over, validated by *)
(* the compiler or not; Accepted is the compiler's verdict on them         *)
(* (compiler/semantics/validate.cpp).                                      *)
(***************************************************************************)
EXTENDS FlowControl

CONSTANTS Agents,      \* agent declarations explored
          Bodies,      \* handler bodies explored
          Limits,      \* values of max_state_transitions explored
          NoLimit,     \* std::nullopt
          Garbled,     \* a quota value from_chars rejects
          MaxItems,    \* bound: quota items of one name in the declaration
          VisitLimit   \* visits of one state before InfiniteLoop: 100

AgentType == [states : SUBSET Names, initial : Names, final_states : SUBSET Names,
              transitions : SUBSET (Names \X Names)]

ASSUME AgentAssumption ==
    /\ Agents \subseteq AgentType
    /\ IsFiniteSet(Names)
    /\ Limits \subseteq Nat
    /\ MaxItems \in Nat
    /\ NoLimit \notin Nat
    /\ Garbled \notin Nat
    /\ VisitLimit \in Nat \ {0}

VARIABLES
    agent, flow,         \* agent_ and flow_ (NoBlock: no handler)
    limit,               \* quota_.max_state_transitions
    timed,               \* quota_.max_execution_time is set
    late,                \* the clock has passed it
    start_state,         \* argument of run_from_state
    status, current_state, visited_states, state_transitions, output,
    diagnostic,          \* the kind of the last error reported
    visit_counts

given  == <<agent, flow, limit, timed, start_state>>
result == <<status, current_state, visited_states, state_transitions, output,
            diagnostic>>
vars   == <<given, late, result, visit_counts>>

Terminal == {"Completed", "Failed", "QuotaExceeded", "InvalidTransition",
             "InfiniteLoop"}
-----------------------------------------------------------------------------
(* is_final_state *)
IsFinal(s) == s \in agent.final_states

(* Slip: transitions taken for two-way. *)
TargetsBothWays(s) ==
    {t \in Names : {<<s, t>>, <<t, s>>} \cap agent.transitions # {}}

(* The states is_valid_transition admits from s. *)
Targets(s) == {t \in Names : <<s, t>> \in agent.transitions}

(* parse_quota: the last item whose value parses. *)
ParseQuota(items) ==
    LET parsed == {i \in DOMAIN items : items[i] # Garbled}
    IN  IF parsed = {} THEN NoLimit
        ELSE items[CHOOSE i \in parsed : \A j \in parsed : j <= i]

(* The constructor: an explicit quota goes before the declared one. *)
Merge(explicit, declared) == IF explicit # NoLimit THEN explicit ELSE declared

Init ==
    /\ agent \in Agents
    /\ flow \in [Names -> Bodies \cup {NoBlock}]
    /\ limit = NoLimit
    /\ timed = FALSE
    /\ late = FALSE
    /\ start_state \in Names
    /\ status = "Unbuilt"
    /\ current_state = start_state
    /\ visited_states = {}
    /\ state_transitions = 0
    /\ output = FALSE
    /\ diagnostic = "none"
    /\ visit_counts = [s \in Names |-> 0]

(* The constructor's quota merge. *)
Construct ==
    /\ status = "Unbuilt"
    /\ \E explicit \in Limits \cup {NoLimit},
          items \in BoundedSeq(Limits \cup {Garbled}, MaxItems) :
          limit' = Merge(explicit, ParseQuota(items))
    /\ timed' \in BOOLEAN
    /\ status' = "Idle"
    /\ UNCHANGED <<agent, flow, late, start_state, current_state, visited_states,
                   state_transitions, output, diagnostic, visit_counts>>

(* run_from_state up to its loop.  The clock starts here, and may be past  *)
(* the limit whenever it is looked at.                                     *)
Start ==
    /\ status = "Idle"
    /\ status' = "Running"
    /\ visited_states' = {start_state}
    /\ visit_counts' = [visit_counts EXCEPT ![start_state] = 1]
    /\ late' \in {FALSE, timed}
    /\ UNCHANGED <<given, current_state, state_transitions, output, diagnostic>>
-----------------------------------------------------------------------------
OverQuota == limit # NoLimit /\ state_transitions >= limit

(* The loop's break: status and what was reported. *)
Finish(verdict, report) ==
    /\ status' = verdict
    /\ diagnostic' = report
    /\ UNCHANGED <<given, late, current_state, visited_states,
                   state_transitions, visit_counts>>

QuotaReached ==
    /\ status = "Running"
    /\ OverQuota
    /\ Finish("QuotaExceeded", "transitions")
    /\ UNCHANGED output

TimeReached ==
    /\ status = "Running"
    /\ ~OverQuota
    /\ late
    /\ Finish("QuotaExceeded", "time")
    /\ UNCHANGED output

(* The quotas admit another handler. *)
Admitted ==
    /\ status = "Running"
    /\ ~OverQuota
    /\ ~late

NoHandler ==
    /\ Admitted
    /\ flow[current_state] = NoBlock
    /\ Finish("Failed", "no handler")
    /\ UNCHANGED output

(* exec_block may end the current handler with the given outcome. *)
Executed(outcome) ==
    /\ Admitted
    /\ flow[current_state] # NoBlock
    /\ outcome \in Outcomes(flow[current_state])

HandlerError ==
    /\ Executed(EvalError)
    /\ Finish("Failed", "evaluation")
    /\ UNCHANGED output

HandlerAssert ==
    /\ Executed(AssertFailed)
    /\ Finish("Failed", "assertion")
    /\ UNCHANGED output

(* A handler that ends without goto or return. *)
FallThrough ==
    /\ Executed(Continue)
    /\ IF IsFinal(current_state)
         THEN Finish("Completed", "none")
         ELSE Finish("Failed", "fell through")
    /\ UNCHANGED output

HandlerReturn ==
    /\ Executed(Returned)
    /\ IF IsFinal(current_state)
         THEN Finish("Completed", "none") /\ output' = TRUE
         ELSE Finish("Failed", "bad return") /\ UNCHANGED output

BadGoto(t) ==
    /\ Executed(GotoState(t))
    /\ t \notin Targets(current_state)
    /\ Finish("InvalidTransition", "bad transition")
    /\ UNCHANGED output

(* A legal goto moves on, and ends the run when the state it enters has    *)
(* now been entered more than VisitLimit times.                            *)
MoveTo(t, counts) ==
    /\ Executed(GotoState(t))
    /\ t \in Targets(current_state)
    /\ state_transitions' = state_transitions + 1
    /\ current_state' = t
    /\ visited_states' = visited_states \cup {t}
    /\ visit_counts' = counts
    /\ IF counts[t] > VisitLimit
         THEN status' = "InfiniteLoop" /\ diagnostic' = "loop"
         ELSE UNCHANGED <<status, diagnostic>>
    /\ late' \in {late, timed}
    /\ UNCHANGED <<given, output>>

(* Slip: neither the transition nor the visit is counted. *)
GotoUncounted(t) ==
    /\ Executed(GotoState(t))
    /\ t \in Targets(current_state)
    /\ current_state' = t
    /\ visited_states' = visited_states \cup {t}
    /\ UNCHANGED <<given, late, status, state_transitions, output, diagnostic,
                   visit_counts>>

Goto(t) == MoveTo(t, [visit_counts EXCEPT ![t] = @ + 1])

Next ==
    \/ Construct \/ Start
    \/ QuotaReached \/ TimeReached \/ NoHandler
    \/ HandlerError \/ HandlerAssert \/ FallThrough \/ HandlerReturn
    \/ \E t \in Names : BadGoto(t) \/ Goto(t)

(* A thread runs the call: it takes every next step. *)
Spec == Init /\ [][Next]_vars /\ WF_vars(Next)
-----------------------------------------------------------------------------
(* check_agents: the state names are declared, a final state has no way    *)
(* out and every state can be reached from the initial one.                *)
Reachable ==
    {s \in Names :
        \A S \in SUBSET Names :
            agent.initial \in S /\ (\A x \in S : Targets(x) \subseteq S) => s \in S}

AgentAccepted ==
    /\ agent.initial \in agent.states
    /\ agent.final_states \subseteq agent.states
    /\ \A t \in agent.transitions :
          /\ t[1] \in agent.states \ agent.final_states
          /\ t[2] \in agent.states
    /\ agent.states \subseteq Reachable

(* check_flows: declared states have a handler, others have none, and each *)
(* handler is accepted.                                                    *)
FlowAccepted ==
    \A s \in Names :
        IF s \in agent.states
          THEN flow[s] # NoBlock /\ HandlerAccepted(flow[s], Targets(s), IsFinal(s))
          ELSE flow[s] = NoBlock

Accepted == AgentAccepted /\ FlowAccepted
-----------------------------------------------------------------------------
TypeOK ==
    /\ agent \in Agents
    /\ flow \in [Names -> Bodies \cup {NoBlock}]
    /\ limit \in Limits \cup {NoLimit}
    /\ timed \in BOOLEAN /\ late \in BOOLEAN
    /\ start_state \in Names
    /\ status \in Terminal \cup {"Unbuilt", "Idle", "Running"}
    /\ current_state \in Names
    /\ visited_states \subseteq Names
    /\ state_transitions \in Nat
    /\ output \in BOOLEAN
    /\ visit_counts \in [Names -> 0 .. VisitLimit + 1]

(* One pair for every time a state was entered. *)
Visits(counts) == {v \in Names \X (1 .. VisitLimit + 1) : v[2] <= counts[v[1]]}

(* visited_states holds the states that were counted. *)
VisitedAreCounted == visited_states = {s \in Names : visit_counts[s] > 0}

(* No part of it that holds the start is cut off from the rest. *)
PathIsDeclared ==
    \A S \in SUBSET visited_states :
        start_state \in S =>
            \/ S = visited_states
            \/ \E s \in S, t \in visited_states \ S : <<s, t>> \in agent.transitions

CountsAgree ==
    status \notin {"Unbuilt", "Idle"} =>
        /\ Cardinality(Visits(visit_counts)) = state_transitions + 1
        /\ \A s \in Names :
              visit_counts[s] > VisitLimit => status = "InfiniteLoop" /\ s = current_state
        /\ state_transitions <= VisitLimit * Cardinality(Names)

QuotaIsKept ==
    limit # NoLimit =>
        /\ state_transitions <= limit
        /\ diagnostic = "transitions" => state_transitions = limit
        /\ status = "Completed" => state_transitions < limit

(* An execution is accounted for.  The path it took is one the declaration *)
(* allows: visited_states is closed under "has a declared predecessor      *)
(* among them" back to the start, and holds exactly the states that were   *)
(* counted.  The transition counter and the per-state counters agree, and  *)
(* only the state whose count stopped the run is counted past the limit.   *)
(* max_state_transitions is never exceeded, is reached exactly when it is  *)
(* the reason to stop, and a run that completes has used less than all of  *)
(* it: the check comes before the handler of the state just entered.       *)
RunIsAccounted ==
    TypeOK /\ VisitedAreCounted /\ PathIsDeclared /\ CountsAgree /\ QuotaIsKept

(* A program the compiler accepts meets none of the runtime's own error    *)
(* exits: no missing handler, no illegal goto, no return or fall-through   *)
(* in the wrong place; and it completes with an output.                    *)
AcceptedRunsClean ==
    Accepted /\ start_state \in agent.states =>
        /\ diagnostic \notin {"no handler", "fell through", "bad transition", "bad return"}
        /\ status = "Completed" => output

(* What the first rests on: nothing is counted before the run starts, the  *)
(* states it starts from and has come to are counted, and a run that goes  *)
(* on has reported nothing.                                                *)
RunInv ==
    /\ RunIsAccounted
    /\ status \in {"Unbuilt", "Idle"} =>
          /\ current_state = start_state /\ state_transitions = 0
          /\ \A s \in Names : visit_counts[s] = 0
    /\ status \notin {"Unbuilt", "Idle"} =>
          {start_state, current_state} \subseteq visited_states
    /\ status \notin Terminal => diagnostic = "none"

(* And the second: a program that is accepted stays in declared states. *)
CleanInv ==
    /\ AcceptedRunsClean
    /\ Accepted /\ start_state \in agent.states => current_state \in agent.states

(* The analysis of the handlers in use is exact for the executor: what     *)
(* the second takes from the compiler.                                     *)
AnalysisIsExact ==
    \A body \in Bodies, targets \in SUBSET Names, final \in BOOLEAN :
        ExactFor(body, targets, final)

(* Every run ends, however its gotos circle: by returning, by failing, or  *)
(* because a quota or the visit limit stops it.                            *)
Terminates == <>(status \in Terminal)
=============================================================================
