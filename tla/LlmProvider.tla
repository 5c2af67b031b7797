---------------------------- MODULE LlmProvider ----------------------------
(***************************************************************************)
(* LLMCapabilityProvider: one call of a capability becomes one or several  *)
(* chat requests.  The prompt is fitted to the capability's token budget;  *)
(* a request goes to the primary provider and then to the fallbacks, each  *)
(* tried max_retries + 1 times; with tools registered the model may ask    *)
(* for tool calls, whose results are sent back in a further round.  Every  *)
(* answered request is charged to its workflow and node.  How the response *)
(* cache stores and evicts is the module ResponseCache.                    *)
(***************************************************************************)
EXTENDS Integers, FiniteSets, SequencesExt

CONSTANTS
    Fallbacks,       \* config_.fallback_providers: [name, priority, status]
    Budgets,         \* capability -> its effective [prompt, response, total] limits
    Undeclared,      \* a capability the program does not declare
    Contexts,        \* invocation contexts: [workflow, node], node a set
    Prompts,         \* prompts as built: characters of the [system, user] message
    Usages,          \* tokens a response may report; 0: no usage field
    RetryLimits, RoundLimits,   \* values of config_.max_retries and max_tool_rounds
    MaxTools,        \* tool calls in one answer, at most
    MaxCalls         \* calls in a behaviour (a bound of the model)

ASSUME LlmAssumption ==
    /\ IsFiniteSet(Fallbacks)
    /\ \A p \in Fallbacks : p.name # 0
    /\ Undeclared \notin DOMAIN Budgets
    /\ \A c \in DOMAIN Budgets : Budgets[c] \in [prompt : Nat, response : Nat, total : Nat]
    /\ Contexts # {} /\ Prompts # {}
    /\ Prompts \subseteq [system : Nat, user : Nat]
    /\ Usages \subseteq Nat
    /\ RetryLimits \subseteq Nat /\ RoundLimits \subseteq Nat /\ 0 \in RoundLimits
    /\ MaxTools \in Nat /\ MaxCalls \in Nat

VARIABLES
    settings,        \* config_ and tools_: [tools, stream, max_retries, max_tool_rounds]
    at,              \* where invoke_with_context stands
    call,            \* [capability, context, prompt] of the current call
    candidate, attempt, round_attempts,   \* chat_with_provider_fallback
    total, round, conversation, pending,   \* the tool rounds
    health,          \* provider_health_events_ of this call
    workflow_totals, node_totals,   \* tokens charged so far
    cached,          \* prompts whose answer is in the response cache
    result,          \* what the last call returned
    calls,           \* calls made
    sent, vain,      \* requests of this call; those since the last one answered
    billed           \* tokens reported by all answers, by context

llm == <<settings, at, call, candidate, attempt, round_attempts, total, round,
         conversation, pending, health, workflow_totals, node_totals, cached,
         result, calls, sent, vain, billed>>

Workflows == {c.workflow : c \in Contexts}
Nodes     == {c \in Contexts : c.node # {}}

(* TokenCounter::estimate: four characters a token, rounded up. *)
Estimate(characters) == (characters + 3) \div 4

(* validate_config() of the capability's effective budget. *)
BudgetIsValid(b) ==
    /\ b.prompt > 0 /\ b.response > 0 /\ b.total > 0
    /\ b.prompt + b.response <= b.total

(* The user prompt cut to what the system prompt leaves of the budget. *)
Fitted(b, p) ==
    LET room == b.prompt - Estimate(p.system)
    IN  IF Estimate(p.user) <= room THEN p ELSE [p EXCEPT !.user = room * 4]

(* The order in which providers are tried; 1000 stands for INT_MAX, above  *)
(* every priority that is configured.                                      *)
Primary == [name |-> 0, priority |-> 1000, status |-> "Available"]

Precedes(l, r) ==
    IF l.priority # r.priority THEN l.priority > r.priority
    ELSE IF l.status # r.status THEN l.status = "Available"
    ELSE l.name < r.name

Usable == {p \in Fallbacks \cup {Primary} : p.status # "Unavailable"}

(* The i-th candidate is the one that i - 1 others precede. *)
Candidates ==
    [i \in 1 .. Cardinality(Usable) |->
        CHOOSE p \in Usable : Cardinality({q \in Usable : Precedes(q, p)}) = i - 1]

LlmInit ==
    /\ settings \in [tools : BOOLEAN, stream : BOOLEAN, max_retries : RetryLimits,
                     max_tool_rounds : RoundLimits]
    /\ IF settings.tools THEN ~settings.stream ELSE settings.max_tool_rounds = 0  \* not read otherwise
    /\ at = "idle" /\ calls = 0
    /\ call = [capability |-> Undeclared, context |-> CHOOSE c \in Contexts : TRUE,
               prompt |-> CHOOSE p \in Prompts : TRUE]
    /\ candidate = 1 /\ attempt = 1 /\ round_attempts = 0 /\ total = 0 /\ round = 0
    /\ conversation = <<>> /\ pending = <<>> /\ health = <<>>
    /\ workflow_totals = [w \in Workflows |-> 0]
    /\ node_totals = [c \in Nodes |-> 0]
    /\ cached = {}
    /\ result = [status |-> "None", attempts |-> 0]
    /\ sent = 0 /\ vain = 0
    /\ billed = [c \in Contexts |-> 0]

Return(status, made) ==
    /\ at' = "idle"
    /\ result' = [status |-> status, attempts |-> made]
-----------------------------------------------------------------------------
Invoked(c, context, p) ==
    /\ at = "idle" /\ calls < MaxCalls
    /\ calls' = calls + 1
    /\ call' = [capability |-> c, context |-> context, prompt |-> p]
    /\ candidate' = 1 /\ attempt' = 1 /\ round_attempts' = 0 /\ total' = 0 /\ round' = 0
    /\ conversation' = <<>> /\ pending' = <<>> /\ health' = <<>>
    /\ sent' = 0 /\ vain' = 0
    /\ UNCHANGED <<settings, workflow_totals, node_totals, cached, billed>>

(* The capability is not declared. *)
InvokeUnknown(context, p) ==
    Invoked(Undeclared, context, p) /\ Return("Error", 0)

(* The budget is not valid, or the system prompt alone exhausts it. *)
InvokeRejected(c, context, p) ==
    /\ ~BudgetIsValid(Budgets[c]) \/ Estimate(p.system) >= Budgets[c].prompt
    /\ Invoked(c, context, p)
    /\ Return("Error", 0)

(* A cached body that does not parse is a miss: the provider goes on as    *)
(* without a cache (ResponseCache has what becomes of the entries).        *)
InvokeAccepted(c, context, p) ==
    LET prompt == Fitted(Budgets[c], p)
        hit    == ~settings.tools /\ <<c, prompt>> \in cached
    IN  /\ BudgetIsValid(Budgets[c]) /\ Estimate(p.system) < Budgets[c].prompt
        /\ Invoked(c, context, prompt)
        /\ IF hit THEN Return("Success", 0)
           ELSE at' = (IF settings.tools THEN "round" ELSE "send") /\ UNCHANGED result

Requests == <<candidate, attempt, round_attempts>>
Ledger   == <<workflow_totals, node_totals, billed>>
Talk     == <<round, conversation, pending>>
Rest     == <<settings, call, calls>>

(* The head of the loop over tool rounds. *)
BeginRound ==
    /\ at = "round"
    /\ IF round < settings.max_tool_rounds
       THEN /\ at' = "send"
            /\ candidate' = 1 /\ attempt' = 1 /\ round_attempts' = 0
            /\ UNCHANGED result
       ELSE Return("Error", total) /\ UNCHANGED Requests
    /\ UNCHANGED <<Rest, Ledger, Talk, total, health, cached, sent, vain>>

(* A request fails: it is repeated, or the candidate is given up for the   *)
(* next one.                                                               *)
Retry ==
    /\ attempt <= settings.max_retries
    /\ attempt' = attempt + 1
    /\ round_attempts' = round_attempts + 1
    /\ UNCHANGED <<candidate, health, total, at, result>>

(* Slip: the count of requests starts afresh with the next candidate. *)
NextProviderAfresh ==
    /\ attempt > settings.max_retries /\ candidate < Len(Candidates)
    /\ candidate' = candidate + 1 /\ attempt' = 1 /\ round_attempts' = 0
    /\ health' = Append(health, [kind |-> "Degraded", after |-> round_attempts + 1])
    /\ UNCHANGED <<total, at, result>>

NextProvider ==
    /\ attempt > settings.max_retries /\ candidate < Len(Candidates)
    /\ candidate' = candidate + 1 /\ attempt' = 1
    /\ round_attempts' = round_attempts + 1
    /\ health' = Append(health, [kind |-> "Degraded", after |-> round_attempts + 1])
    /\ UNCHANGED <<total, at, result>>

FallbackExhausted ==
    /\ attempt > settings.max_retries /\ candidate = Len(Candidates)
    /\ round_attempts' = round_attempts + 1
    /\ total' = total + round_attempts'
    /\ health' = health \o <<[kind |-> "Degraded", after |-> round_attempts'],
                             [kind |-> "Exhausted", after |-> round_attempts']>>
    /\ Return(IF settings.max_retries > 0 THEN "RetryExhausted" ELSE "Error", total')
    /\ UNCHANGED <<candidate, attempt>>

SendFails ==
    /\ at = "send"
    /\ Retry \/ NextProvider \/ FallbackExhausted
    /\ sent' = sent + 1 /\ vain' = vain + 1
    /\ UNCHANGED <<Rest, Ledger, Talk, cached>>

(* record_token_usage_event: the body is charged before it is looked at.   *)
(* The body of a streamed response is no JSON document: nothing is found.  *)
(* A workflow and a node budget are configured, without which the code     *)
(* keeps no totals.                                                        *)
RecordUsage(tokens) ==
    LET c == call.context
    IN  /\ billed' = [billed EXCEPT ![c] = @ + tokens]
        /\ workflow_totals' = [workflow_totals EXCEPT ![c.workflow] = @ + tokens]
        /\ node_totals' = [n \in Nodes |-> node_totals[n] + (IF n = c THEN tokens ELSE 0)]

SendSucceeds(tokens) ==
    /\ at = "send"
    /\ settings.stream => tokens = 0
    /\ at' = "answer"
    /\ round_attempts' = round_attempts + 1
    /\ total' = total + round_attempts'
    /\ sent' = sent + 1 /\ vain' = 0
    /\ RecordUsage(tokens)
    /\ health' = IF candidate = 1 THEN health
                 ELSE Append(health, [kind |-> "Selected", after |-> round_attempts'])
    /\ UNCHANGED <<Rest, Talk, candidate, attempt, cached, result>>

(* The answer is interrupted, empty or not of the return type; no other    *)
(* provider is asked.                                                      *)
AnswerRefused ==
    /\ at = "answer"
    /\ Return("Error", total)
    /\ UNCHANGED <<Rest, Requests, Ledger, Talk, total, health, cached, sent, vain>>

(* Only an answer obtained without tools is cached. *)
AnswerAccepted ==
    /\ at = "answer"
    /\ Return("Success", total)
    /\ cached' = IF settings.tools THEN cached ELSE cached \cup {<<call.capability, call.prompt>>}
    /\ UNCHANGED <<Rest, Requests, Ledger, Talk, total, health, sent, vain>>

(* The model asks for tools: n of them, in the order of its message. *)
AnswerCallsTools(n) ==
    LET ids == [i \in 1..n |-> <<round, i>>]
    IN  /\ at = "answer" /\ settings.tools
        /\ at' = "tool"
        /\ conversation' = Append(conversation, [role |-> "assistant", ids |-> ids])
        /\ pending' = ids
        /\ UNCHANGED <<Rest, Requests, Ledger, total, round, health, cached, result, sent, vain>>

AfterTool ==
    /\ pending' = Tail(pending)
    /\ IF Tail(pending) = <<>> THEN at' = "round" /\ round' = round + 1
       ELSE UNCHANGED <<at, round>>
    /\ UNCHANGED <<Rest, Requests, Ledger, total, health, cached, result, sent, vain>>

(* The executor's result carries the identifier of the call it answers;    *)
(* the code appends what it is given, unchecked.                           *)
ToolSucceeds ==
    /\ at = "tool"
    /\ conversation' = Append(conversation, [role |-> "tool", ids |-> <<Head(pending)>>])
    /\ AfterTool

(* Slip: a tool that fails is passed over. *)
ToolPassedOver ==
    at = "tool" /\ UNCHANGED conversation /\ AfterTool

ToolFails ==
    /\ at = "tool"
    /\ Return("Error", total)
    /\ UNCHANGED <<Rest, Requests, Ledger, Talk, total, health, cached, sent, vain>>

LlmNext ==
    \/ \E context \in Contexts, p \in Prompts :
          \/ InvokeUnknown(context, p)
          \/ \E c \in DOMAIN Budgets : InvokeRejected(c, context, p) \/ InvokeAccepted(c, context, p)
    \/ BeginRound
    \/ SendFails
    \/ \E tokens \in Usages : SendSucceeds(tokens)
    \/ AnswerRefused \/ AnswerAccepted
    \/ \E n \in 1..MaxTools : AnswerCallsTools(n)
    \/ ToolSucceeds \/ ToolFails

LlmSpec == LlmInit /\ [][LlmNext]_llm
-----------------------------------------------------------------------------
(* The tokens charged to the contexts of a workflow, one by one. *)
Charged(w) == UNION {{c} \X (1 .. billed[c]) : c \in {x \in Contexts : x.workflow = w}}

(* What a call reports is what it did: its attempts are the requests sent  *)
(* over all rounds, providers and retries; it is exhausted exactly when    *)
(* the last round tried every provider in vain, each max_retries + 1       *)
(* times; its first prompt fitted the budget; and the totals of workflows  *)
(* and nodes hold what every answered request reported, refused answers    *)
(* and rounds of calls that failed later included.                         *)
CallIsAccounted ==
    /\ at = "idle" => result.attempts = sent
    /\ health # <<>> /\ Last(health).kind = "Exhausted" <=> at = "idle" /\ vain > 0
    /\ at = "idle" /\ vain > 0 =>
          /\ vain = Len(Candidates) * (settings.max_retries + 1)
          /\ Last(health).after = vain
    /\ at # "idle" =>
          LET b == Budgets[call.capability]
          IN  Estimate(call.prompt.system) + Estimate(call.prompt.user) + b.response <= b.total
    /\ \A w \in Workflows : workflow_totals[w] = Cardinality(Charged(w))
    /\ \A n \in Nodes : node_totals[n] = billed[n]

(* The messages of a conversation in which the model asked for tools. *)
Asking(talk) == {i \in DOMAIN talk : talk[i].role = "assistant"}

(* It asked n times; each message is followed by the results of exactly    *)
(* the calls it names, in their order; and there are no other results.     *)
Complete(talk, n) ==
    /\ Cardinality(Asking(talk)) = n
    /\ \A i \in Asking(talk) : \A k \in DOMAIN talk[i].ids :
          /\ i + k \in DOMAIN talk
          /\ talk[i + k] = [role |-> "tool", ids |-> <<talk[i].ids[k]>>]
    /\ \A j \in DOMAIN talk \ Asking(talk) :
          \E i \in Asking(talk) : j - i \in DOMAIN talk[i].ids

(* Whenever a request is sent, each message in which the model asked for   *)
(* tools is followed by the results of exactly those calls, in their       *)
(* order, and the rounds are counted.                                      *)
ToolsAreAnswered == at = "send" => Complete(conversation, round)
=============================================================================
