-------------------------- MODULE CapabilityCalls --------------------------
(***************************************************************************)
(* CapabilityRegistry::invoke on wire capabilities, from several threads:  *)
(* the circuit breaker and the retry loop of capability_bridge.cpp around  *)
(* the handler of wire_capability.cpp, which leases a slot of the global   *)
(* ConnectionPool for each attempt.                                        *)
(*                                                                         *)
(* The breaker's operations and the pool's are critical sections of their  *)
(* own, so calls interleave between them.  Time is what the clock says     *)
(* about one breaker: whether its recovery window has passed.              *)
(***************************************************************************)
EXTENDS Integers, FiniteSets

CONSTANTS Callers,          \* threads that invoke capabilities
          Bindings,         \* registered capabilities, each with its host
          NoBinding,        \* a caller outside of invoke
          Thresholds,       \* values of failure_threshold explored
          Retries,          \* values of max_retries explored
          MaxConnections, MaxPerHost

ASSUME CallsAssumption ==
    /\ IsFiniteSet(Callers)
    /\ NoBinding \notin Bindings
    /\ Thresholds \subseteq Nat \ {0}
    /\ Retries \subseteq Nat
    /\ MaxConnections \in Nat /\ MaxPerHost \in Nat

VARIABLES
    threshold, max_retries, enabled,    \* CapabilityBinding's configuration
    state_, failure_count, elapsed,     \* CircuitBreakerState of each binding
    up,                                 \* the remote services answer
    place, binding, attempt, handled,   \* each call; handler calls it made
    status, attempt_count,              \* CapabilityCallResult of the last call
    hosts_, active_count, idle, total_active, held, fresh, started

settings  == <<threshold, max_retries, enabled>>
breaker   == <<state_, failure_count, elapsed>>
call      == <<place, binding, attempt, handled>>
answer    == <<status, attempt_count>>
pool      == <<hosts_, active_count, idle, total_active, held, fresh, started>>
callsVars == <<settings, breaker, up, call, answer, pool>>

Pool == INSTANCE ConnectionPool
            WITH Clients <- Callers, Hosts <- Bindings, NoHost <- NoBinding

MaxAttempts(b) == max_retries[b] + 1

CallsInit ==
    /\ threshold \in [Bindings -> Thresholds]
    /\ max_retries \in [Bindings -> Retries]
    /\ enabled \in [Bindings -> BOOLEAN]
    /\ state_ = [b \in Bindings |-> "Closed"]
    /\ failure_count = [b \in Bindings |-> 0]
    /\ elapsed = [b \in Bindings |-> FALSE]
    /\ up \in BOOLEAN
    /\ place = [c \in Callers |-> "idle"]
    /\ binding = [c \in Callers |-> NoBinding]
    /\ attempt = [c \in Callers |-> 0]
    /\ handled = [c \in Callers |-> 0]
    /\ status = [c \in Callers |-> "none"]
    /\ attempt_count = [c \in Callers |-> 0]
    /\ Pool!Init
-----------------------------------------------------------------------------
(* Slip: an open circuit never looks at the clock. *)
CurrentStateStuck(b) == state_[b]

(* current_state(): what it answers, and what it leaves in state_. *)
CurrentState(b) ==
    CASE state_[b] = "Closed" -> "Closed"
      [] state_[b] # "Closed" /\ elapsed[b] -> "HalfOpen"
      [] OTHER -> "Open"

LookAt(b) == state_' = [state_ EXCEPT ![b] = IF CurrentState(b) = "Open" THEN @
                                              ELSE CurrentState(b)]

RecordSuccess(b) ==
    IF enabled[b]
      THEN /\ failure_count' = [failure_count EXCEPT ![b] = 0]
           /\ state_' = [state_ EXCEPT ![b] = "Closed"]
           /\ UNCHANGED elapsed
      ELSE UNCHANGED breaker

(* Slip: the circuit opens one failure after the threshold. *)
RecordFailureLate(b) ==
    IF enabled[b]
      THEN IF failure_count[b] >= threshold[b]
             THEN /\ state_' = [state_ EXCEPT ![b] = "Open"]
                  /\ elapsed' = [elapsed EXCEPT ![b] = FALSE]
                  /\ UNCHANGED failure_count
             ELSE /\ failure_count' = [failure_count EXCEPT ![b] = @ + 1]
                  /\ UNCHANGED <<state_, elapsed>>
      ELSE UNCHANGED breaker

(* The count goes no further than the threshold here: it is compared with  *)
(* it and set to zero, so that a larger number makes no difference.        *)
RecordFailure(b) ==
    IF enabled[b]
      THEN IF failure_count[b] + 1 >= threshold[b]
             THEN /\ failure_count' = [failure_count EXCEPT ![b] = threshold[b]]
                  /\ state_' = [state_ EXCEPT ![b] = "Open"]
                  /\ elapsed' = [elapsed EXCEPT ![b] = FALSE]
             ELSE /\ failure_count' = [failure_count EXCEPT ![b] = @ + 1]
                  /\ UNCHANGED <<state_, elapsed>>
      ELSE UNCHANGED breaker

MoveCall(c, position) == place' = [place EXCEPT ![c] = position]

(* invoke returns. *)
Return(c, verdict, n) ==
    /\ MoveCall(c, "idle")
    /\ binding' = [binding EXCEPT ![c] = NoBinding]
    /\ status' = [status EXCEPT ![c] = verdict]
    /\ attempt_count' = [attempt_count EXCEPT ![c] = n]
    /\ UNCHANGED attempt

(* invoke returns without having called the handler. *)
TurnAway(c, verdict) ==
    /\ place[c] = "idle"
    /\ Return(c, verdict, 0)
    /\ handled' = [handled EXCEPT ![c] = 0]
    /\ UNCHANGED <<settings, breaker, up, pool>>
-----------------------------------------------------------------------------
(* A name nobody registered. *)
InvokeUnknown(c) == TurnAway(c, "Error")

InvokeShed(c, b) ==
    /\ enabled[b] /\ CurrentState(b) = "Open"
    /\ TurnAway(c, "CircuitOpen")

InvokeAdmitted(c, b) ==
    /\ place[c] = "idle"
    /\ IF enabled[b] THEN CurrentState(b) # "Open" /\ LookAt(b) ELSE UNCHANGED state_
    /\ MoveCall(c, "attempt")
    /\ binding' = [binding EXCEPT ![c] = b]
    /\ attempt' = [attempt EXCEPT ![c] = 1]
    /\ handled' = [handled EXCEPT ![c] = 0]
    /\ UNCHANGED <<settings, failure_count, elapsed, up, answer, pool>>

CountHandled(c) == handled' = [handled EXCEPT ![c] = @ + 1]

(* The handler gets a slot and sends its request. *)
Dial(c) ==
    /\ place[c] = "attempt"
    /\ Pool!Acquire(c, binding[c])
    /\ MoveCall(c, "calling")
    /\ CountHandled(c)
    /\ UNCHANGED <<settings, breaker, up, binding, attempt, answer>>

(* The handler finds the pool exhausted. *)
DialRefused(c) ==
    /\ place[c] = "attempt"
    /\ Pool!Refuse(c, binding[c])
    /\ MoveCall(c, "unsuccessful")
    /\ CountHandled(c)
    /\ UNCHANGED <<settings, breaker, up, binding, attempt, answer>>

(* Slip: a failed request keeps its slot. *)
HandlerLeaks(c) ==
    /\ place[c] = "calling"
    /\ IF up THEN Pool!RecordEnd(fresh[c]) ELSE UNCHANGED <<hosts_, active_count, idle, total_active>>
    /\ fresh' = [fresh EXCEPT ![c] = NoBinding]
    /\ MoveCall(c, IF up THEN "successful" ELSE "unsuccessful")
    /\ UNCHANGED <<settings, breaker, up, binding, attempt, handled, answer, held, started>>

(* The handler returns: its lease goes with it.  A request that is up is   *)
(* answered well; a wrong credential, a timeout, an error status and an    *)
(* answer off the schema are all an unsuccessful attempt.                  *)
HandlerReturns(c) ==
    /\ place[c] = "calling"
    /\ Pool!RecordEnd(fresh[c])
    /\ fresh' = [fresh EXCEPT ![c] = NoBinding]
    /\ MoveCall(c, IF up THEN "successful" ELSE "unsuccessful")
    /\ UNCHANGED <<settings, breaker, up, binding, attempt, handled, answer, held, started>>

Succeed(c) ==
    /\ place[c] = "successful"
    /\ RecordSuccess(binding[c])
    /\ Return(c, "Success", attempt[c])
    /\ UNCHANGED <<settings, up, handled, pool>>

Retry(c) ==
    /\ place[c] = "unsuccessful"
    /\ attempt[c] < MaxAttempts(binding[c])
    /\ attempt' = [attempt EXCEPT ![c] = @ + 1]
    /\ MoveCall(c, "attempt")
    /\ UNCHANGED <<settings, breaker, up, binding, handled, answer, pool>>

(* A plain failure keeps the handler's own status (Error or Timeout). *)
GiveUpCall(c) ==
    /\ place[c] = "unsuccessful"
    /\ attempt[c] >= MaxAttempts(binding[c])
    /\ RecordFailure(binding[c])
    /\ Return(c, IF max_retries[binding[c]] > 0 THEN "RetryExhausted" ELSE "Error",
              attempt[c])
    /\ UNCHANGED <<settings, up, handled, pool>>

(* The recovery window of an open circuit passes. *)
WindowElapses(b) ==
    /\ state_[b] # "Closed"
    /\ ~elapsed[b]
    /\ elapsed' = [elapsed EXCEPT ![b] = TRUE]
    /\ UNCHANGED <<settings, state_, failure_count, up, call, answer, pool>>

ServiceChanges ==
    /\ up' = ~up
    /\ UNCHANGED <<settings, breaker, call, answer, pool>>

Invoke(c) ==
    \/ InvokeUnknown(c)
    \/ \E b \in Bindings : InvokeShed(c, b) \/ InvokeAdmitted(c, b)

Proceed(c) ==
    Dial(c) \/ DialRefused(c) \/ HandlerReturns(c) \/ Succeed(c) \/ Retry(c) \/ GiveUpCall(c)

CallsNext ==
    \/ \E c \in Callers : Invoke(c) \/ Proceed(c)
    \/ \E b \in Bindings : WindowElapses(b)
    \/ ServiceChanges

(* Threads run and clocks advance. *)
FairCalls ==
    /\ \A c \in Callers : WF_callsVars(Proceed(c))
    /\ \A b \in Bindings : WF_callsVars(WindowElapses(b))

(* Every capability keeps being called. *)
CallersComeBack == \A c \in Callers, b \in Bindings : SF_callsVars(InvokeAdmitted(c, b))

CallsSpec == CallsInit /\ [][CallsNext]_callsVars /\ FairCalls /\ CallersComeBack
-----------------------------------------------------------------------------
CallsTypeOK ==
    /\ threshold \in [Bindings -> Nat \ {0}]
    /\ max_retries \in [Bindings -> Nat]
    /\ state_ \in [Bindings -> {"Closed", "Open", "HalfOpen"}]
    /\ failure_count \in [Bindings -> Nat]
    /\ elapsed \in [Bindings -> BOOLEAN]
    /\ place \in [Callers -> {"idle", "attempt", "calling", "successful", "unsuccessful"}]
    /\ binding \in [Callers -> Bindings \cup {NoBinding}]
    /\ \A c \in Callers : place[c] = "idle" <=> binding[c] = NoBinding
    /\ attempt \in [Callers -> Nat]
    /\ handled \in [Callers -> Nat]
    /\ attempt_count \in [Callers -> Nat]
    /\ DOMAIN status = Callers
    /\ Pool!TypeOK

(* However failures, late successes and probes of several threads mix, a   *)
(* circuit lets every call pass just while fewer failures than the         *)
(* threshold followed the last success: a failure in the half-open state   *)
(* opens the circuit again at once.                                        *)
BreakerIsExact ==
    \A b \in Bindings : state_[b] = "Closed" <=> failure_count[b] < threshold[b]

(* One call: how far it is, and what it owns of the pool. *)
CallIsTrue(c) ==
    /\ place[c] # "idle" =>
          /\ attempt[c] \in 1 .. MaxAttempts(binding[c])
          /\ handled[c] = IF place[c] = "attempt" THEN attempt[c] - 1 ELSE attempt[c]
    /\ place[c] = "idle" /\ status[c] # "none" =>
          /\ attempt_count[c] = handled[c]
          /\ status[c] = "CircuitOpen" => attempt_count[c] = 0
          /\ status[c] = "Success" => attempt_count[c] > 0
          /\ status[c] = "RetryExhausted" =>
                \E b \in Bindings : max_retries[b] > 0 /\ attempt_count[c] = MaxAttempts(b)
    /\ fresh[c] = IF place[c] = "calling" THEN binding[c] ELSE NoBinding
    /\ held[c] = NoBinding

(* The requests under way, in all and to one host. *)
InFlight == {c \in Callers : place[c] = "calling"}
InFlightTo(b) == {c \in Callers : place[c] = "calling" /\ binding[c] = b}

PoolCountsCalls ==
    /\ started = {}
    /\ total_active = Cardinality(InFlight)
    /\ total_active <= MaxConnections
    /\ \A b \in Bindings :
          /\ active_count[b] = Cardinality(InFlightTo(b))
          /\ active_count[b] <= MaxPerHost
          /\ active_count[b] > 0 => b \in hosts_

(* The result tells how often the handler really ran: not at all when the  *)
(* circuit was open or the name unknown, at most max_retries + 1 times,    *)
(* and exactly that often when the retries were exhausted.  Every early    *)
(* return of the handler gives its slot back: the pool counts the requests *)
(* in flight, per host and in all, and nothing more, and both stay within  *)
(* the limits.                                                             *)
AttemptsAreTrue ==
    /\ CallsTypeOK
    /\ \A c \in Callers : CallIsTrue(c)
    /\ PoolCountsCalls

(* A circuit does not stay open on a service that answers again: once the  *)
(* services are up for good, every circuit closes for good, provided the   *)
(* pool stops refusing.  A refusal counts as a failure of the service; see *)
(* the README.                                                             *)
CircuitsRecover ==
    <>[]up /\ <>[][\A c \in Callers : ~DialRefused(c)]_callsVars =>
        <>[](\A b \in Bindings : state_[b] = "Closed")
=============================================================================
