----------------------- MODULE CapabilityCallsProofs -----------------------
(***************************************************************************)
(* Proofs about CapabilityCalls, for every number of threads, every set of *)
(* capabilities with their thresholds and retries, and every pool limit.   *)
(***************************************************************************)
EXTENDS CapabilityCalls, TLAPS, FiniteSetTheorems

(* A circuit is closed exactly while fewer failures than its threshold     *)
(* followed the last success, however the calls of several threads mix:    *)
(* no interleaving of record_success(), record_failure() and               *)
(* current_state() leaves the flag and the counter in disagreement.        *)
THEOREM ExactBreaker == CallsSpec => []BreakerIsExact
<1> DEFINE Inv == /\ threshold \in [Bindings -> Nat \ {0}]
                  /\ failure_count \in [Bindings -> Nat]
                  /\ DOMAIN state_ = Bindings
                  /\ BreakerIsExact
<1>1. CallsInit => Inv
  <2> SUFFICES ASSUME CallsInit PROVE Inv
    OBVIOUS
  <2>1. /\ threshold \in [Bindings -> Thresholds]
        /\ state_ = [b \in Bindings |-> "Closed"]
        /\ failure_count = [b \in Bindings |-> 0]
    BY DEF CallsInit
  <2>2. threshold \in [Bindings -> Nat \ {0}] /\ failure_count \in [Bindings -> Nat]
    BY <2>1, CallsAssumption
  <2>3. \A b \in Bindings : state_[b] = "Closed" /\ failure_count[b] < threshold[b]
    BY <2>1, <2>2
  <2>4. QED
    BY <2>1, <2>2, <2>3 DEF BreakerIsExact
<1>2. Inv /\ [CallsNext]_callsVars => Inv'
  <2> SUFFICES ASSUME Inv, [CallsNext]_callsVars PROVE Inv'
    OBVIOUS
  <2> USE DEF BreakerIsExact
  <2>1. ASSUME NEW b, RecordSuccess(b), threshold' = threshold PROVE Inv'
    BY <2>1 DEF RecordSuccess, breaker
  <2>2. ASSUME NEW b, RecordFailure(b), threshold' = threshold PROVE Inv'
    BY <2>2 DEF RecordFailure, breaker
  <2>3. ASSUME UNCHANGED <<threshold, failure_count>>, NEW b \in Bindings,
               UNCHANGED state_ \/ LookAt(b)
        PROVE  Inv'
    BY <2>3 DEF LookAt, CurrentState
  <2>4. ASSUME NEW c \in Callers, Invoke(c) \/ Proceed(c)
        PROVE  Inv'
    <3>1. CASE InvokeUnknown(c)
      BY <3>1 DEF InvokeUnknown, TurnAway, settings, breaker
    <3>2. ASSUME NEW b \in Bindings, InvokeShed(c, b) \/ InvokeAdmitted(c, b)
          PROVE  Inv'
      BY <3>2, <2>3 DEF InvokeShed, TurnAway, InvokeAdmitted, settings, breaker
    <3>3. CASE Dial(c) \/ DialRefused(c) \/ HandlerReturns(c) \/ Retry(c)
      BY <3>3 DEF Dial, DialRefused, HandlerReturns, Retry, settings, breaker
    <3>4. CASE Succeed(c)
      BY <3>4, <2>1 DEF Succeed, settings
    <3>5. CASE GiveUpCall(c)
      BY <3>5, <2>2 DEF GiveUpCall, settings
    <3>6. QED
      BY <2>4, <3>1, <3>2, <3>3, <3>4, <3>5 DEF Invoke, Proceed
  <2>5. CASE ServiceChanges \/ UNCHANGED callsVars \/ \E b \in Bindings : WindowElapses(b)
    BY <2>5 DEF ServiceChanges, WindowElapses, callsVars, settings, breaker
  <2>6. QED
    BY <2>4, <2>5 DEF CallsNext
<1>3. QED
  BY <1>1, <1>2, PTL DEF CallsSpec
-----------------------------------------------------------------------------
LEMMA InitCalls == CallsInit => AttemptsAreTrue
<1> SUFFICES ASSUME CallsInit PROVE AttemptsAreTrue
  OBVIOUS
<1>1. /\ threshold \in [Bindings -> Thresholds] /\ max_retries \in [Bindings -> Retries]
      /\ state_ = [b \in Bindings |-> "Closed"]
      /\ failure_count = [b \in Bindings |-> 0]
      /\ place = [c \in Callers |-> "idle"] /\ binding = [c \in Callers |-> NoBinding]
      /\ attempt = [c \in Callers |-> 0] /\ handled = [c \in Callers |-> 0]
      /\ status = [c \in Callers |-> "none"] /\ attempt_count = [c \in Callers |-> 0]
      /\ hosts_ = {} /\ active_count = [b \in Bindings |-> 0] /\ idle = {}
      /\ total_active = 0 /\ held = [c \in Callers |-> NoBinding]
      /\ fresh = [c \in Callers |-> NoBinding] /\ started = {}
  BY DEF CallsInit, Pool!Init
<1>2. elapsed \in [Bindings -> BOOLEAN]
  BY Zenon DEF CallsInit
<1>3. Pool!TypeOK
  BY <1>1 DEF Pool!TypeOK
<1>4. CallsTypeOK
  <2>1. threshold \in [Bindings -> Nat \ {0}] /\ max_retries \in [Bindings -> Nat]
    BY <1>1, CallsAssumption
  <2>2. QED
    BY <2>1, <1>1, <1>2, <1>3 DEF CallsTypeOK
<1>5. \A c \in Callers : CallIsTrue(c)
  BY <1>1 DEF CallIsTrue
<1>6. InFlight = {} /\ \A b \in Bindings : InFlightTo(b) = {}
  BY <1>1 DEF InFlight, InFlightTo
<1>7. PoolCountsCalls
  BY <1>1, <1>6, FS_EmptySet, CallsAssumption DEF PoolCountsCalls
<1>8. QED
  BY <1>4, <1>5, <1>7 DEF AttemptsAreTrue

(* Putting one caller in or taking it out of a set of callers. *)
LEMMA CallersRecount ==
    ASSUME NEW A \in SUBSET Callers, NEW c \in Callers
    PROVE  /\ Cardinality(A) \in Nat
           /\ c \notin A => Cardinality(A \cup {c}) = Cardinality(A) + 1
           /\ c \in A => Cardinality(A) > 0 /\ Cardinality(A \ {c}) = Cardinality(A) - 1
<1>1. IsFiniteSet(A) /\ Cardinality(A) \in Nat
  BY CallsAssumption, FS_Subset, FS_CardinalityType
<1>2. c \in A => Cardinality(A) # 0
  BY <1>1, FS_EmptySet
<1>3. c \notin A => Cardinality(A \cup {c}) = Cardinality(A) + 1
  BY <1>1, FS_AddElement
<1>4. c \in A => Cardinality(A \ {c}) = Cardinality(A) - 1
  BY <1>1, FS_RemoveElement
<1>5. QED
  BY <1>1, <1>2, <1>3, <1>4

(* The handler gets a slot. *)
LEMMA DialCalls ==
    ASSUME AttemptsAreTrue, NEW c \in Callers, Dial(c)
    PROVE  AttemptsAreTrue'
<1> DEFINE b == binding[c]
<1>1. CallsTypeOK /\ PoolCountsCalls /\ \A d \in Callers : CallIsTrue(d)
  BY DEF AttemptsAreTrue
<1>2. /\ place[c] = "attempt" /\ place' = [place EXCEPT ![c] = "calling"]
      /\ handled' = [handled EXCEPT ![c] = @ + 1]
      /\ UNCHANGED <<settings, breaker, up, binding, attempt, answer, held, started>>
      /\ fresh' = [fresh EXCEPT ![c] = b]
      /\ total_active < MaxConnections /\ active_count[b] < MaxPerHost
      /\ hosts_' = hosts_ \cup {b} /\ idle' = idle \ {b}
      /\ active_count' = [active_count EXCEPT ![b] = @ + 1]
      /\ total_active' = total_active + 1
  BY DEF Dial, MoveCall, CountHandled, Pool!Acquire, Pool!HasRoom, Pool!CountIn
<1>3. b \in Bindings /\ b # NoBinding
  BY <1>1, <1>2, CallsAssumption DEF CallsTypeOK
<1>4. CallsTypeOK'
  <2>1. Pool!TypeOK'
    BY <1>1, <1>2, <1>3 DEF CallsTypeOK, Pool!TypeOK
  <2>2. /\ place' \in [Callers -> {"idle", "attempt", "calling", "successful", "unsuccessful"}]
        /\ handled' \in [Callers -> Nat]
        /\ \A d \in Callers : place'[d] = "idle" <=> binding'[d] = NoBinding
    BY <1>1, <1>2, <1>3 DEF CallsTypeOK
  <2>3. QED
    BY <1>1, <1>2, <2>1, <2>2 DEF CallsTypeOK, settings, breaker, answer
<1>5. ASSUME NEW d \in Callers PROVE CallIsTrue(d)'
  <2>1. CASE d = c
    <3>1. /\ attempt[c] \in Nat /\ handled[c] \in Nat
          /\ attempt[c] \in 1 .. MaxAttempts(b) /\ handled[c] = attempt[c] - 1
          /\ held[c] = NoBinding
      BY <1>1, <1>2 DEF CallIsTrue, CallsTypeOK
    <3>2. /\ place'[c] = "calling" /\ handled'[c] = handled[c] + 1 /\ fresh'[c] = b
          /\ attempt'[c] = attempt[c] /\ binding'[c] = b /\ held'[c] = held[c]
          /\ MaxAttempts(b)' = MaxAttempts(b)
      BY <1>1, <1>2 DEF CallsTypeOK, Pool!TypeOK, MaxAttempts, settings
    <3>3. QED
      BY <2>1, <3>1, <3>2 DEF CallIsTrue, MaxAttempts
  <2>2. CASE d # c
    BY <2>2, <1>1, <1>2 DEF CallIsTrue, CallsTypeOK, MaxAttempts, settings, answer
  <2>3. QED
    BY <2>1, <2>2
<1>6. /\ c \notin InFlight /\ InFlight' = InFlight \cup {c}
      /\ c \notin InFlightTo(b) /\ InFlightTo(b)' = InFlightTo(b) \cup {c}
      /\ \A k \in Bindings : k # b => InFlightTo(k)' = InFlightTo(k)
      /\ InFlight \in SUBSET Callers /\ \A k : InFlightTo(k) \in SUBSET Callers
  BY <1>1, <1>2 DEF InFlight, InFlightTo, CallsTypeOK
<1>7. /\ Cardinality(InFlight') = Cardinality(InFlight) + 1
      /\ Cardinality(InFlightTo(b)') = Cardinality(InFlightTo(b)) + 1
  BY <1>6, CallersRecount
<1>8. PoolCountsCalls'
  <2>1. started' = {} /\ total_active' = Cardinality(InFlight') /\ total_active' <= MaxConnections
    BY <1>1, <1>2, <1>7, CallsAssumption DEF PoolCountsCalls, CallsTypeOK, Pool!TypeOK
  <2>2. ASSUME NEW k \in Bindings
        PROVE  /\ active_count'[k] = Cardinality(InFlightTo(k)')
               /\ active_count'[k] <= MaxPerHost
               /\ active_count'[k] > 0 => k \in hosts_'
    <3>1. active_count[k] \in Nat /\ MaxPerHost \in Nat
      BY <1>1, CallsAssumption DEF CallsTypeOK, Pool!TypeOK
    <3>2. active_count'[k] = IF k = b THEN active_count[k] + 1 ELSE active_count[k]
      BY <1>1, <1>2 DEF CallsTypeOK, Pool!TypeOK
    <3>3. /\ active_count[k] = Cardinality(InFlightTo(k)) /\ active_count[k] <= MaxPerHost
          /\ active_count[k] > 0 => k \in hosts_
      BY <1>1 DEF PoolCountsCalls
    <3>4. /\ active_count[b] < MaxPerHost /\ hosts_' = hosts_ \cup {b}
      BY <1>2
    <3>5. CASE k = b
      <4>1. InFlightTo(k)' = InFlightTo(b)' /\ InFlightTo(k) = InFlightTo(b)
        BY <3>5, <1>2 DEF InFlightTo
      <4>2. QED
        BY <3>1, <3>2, <3>3, <3>4, <3>5, <4>1, <1>7
    <3>6. CASE k # b
      BY <3>2, <3>3, <3>4, <3>6, <1>6
    <3>7. QED
      BY <3>5, <3>6
  <2>3. QED
    BY <2>1, <2>2 DEF PoolCountsCalls
<1>9. QED
  BY <1>4, <1>5, <1>8 DEF AttemptsAreTrue

(* The handler returns, with or without success. *)
LEMMA HandlerReturnsCalls ==
    ASSUME AttemptsAreTrue, NEW c \in Callers, HandlerReturns(c)
    PROVE  AttemptsAreTrue'
<1> DEFINE b == binding[c]
<1>1. CallsTypeOK /\ PoolCountsCalls /\ \A d \in Callers : CallIsTrue(d)
  BY DEF AttemptsAreTrue
<1>2. /\ place[c] = "calling" /\ fresh[c] = b
      /\ place'[c] \in {"successful", "unsuccessful"}
      /\ \A d \in Callers \ {c} : place'[d] = place[d]
      /\ place' \in [Callers -> {"idle", "attempt", "calling", "successful", "unsuccessful"}]
      /\ UNCHANGED <<settings, breaker, up, binding, attempt, handled, answer, held, started>>
      /\ fresh' = [fresh EXCEPT ![c] = NoBinding]
      /\ Pool!RecordEnd(b)
  BY <1>1 DEF HandlerReturns, MoveCall, CallIsTrue, CallsTypeOK
<1>3. b \in Bindings /\ b # NoBinding
  BY <1>1, <1>2, CallsAssumption DEF CallsTypeOK
<1>4. /\ c \in InFlight /\ InFlight' = InFlight \ {c}
      /\ c \in InFlightTo(b) /\ InFlightTo(b)' = InFlightTo(b) \ {c}
      /\ \A k \in Bindings : k # b => InFlightTo(k)' = InFlightTo(k)
      /\ InFlight \in SUBSET Callers /\ \A k : InFlightTo(k) \in SUBSET Callers
  BY <1>2 DEF InFlight, InFlightTo
<1>5. /\ Cardinality(InFlight') = Cardinality(InFlight) - 1 /\ Cardinality(InFlight) > 0
      /\ Cardinality(InFlightTo(b)') = Cardinality(InFlightTo(b)) - 1
      /\ Cardinality(InFlightTo(b)) > 0
  BY <1>4, CallersRecount
<1>6. /\ hosts_' = hosts_ /\ idle' = idle \ {b}
      /\ active_count' = [active_count EXCEPT ![b] = @ - 1]
      /\ total_active' = total_active - 1
      /\ total_active > 0 /\ active_count[b] > 0
  BY <1>1, <1>2, <1>3, <1>5 DEF PoolCountsCalls, Pool!RecordEnd
<1>7. CallsTypeOK'
  <2>1. Pool!TypeOK'
    BY <1>1, <1>2, <1>3, <1>6 DEF CallsTypeOK, Pool!TypeOK
  <2>2. \A d \in Callers : place'[d] = "idle" <=> binding'[d] = NoBinding
    BY <1>1, <1>2 DEF CallsTypeOK
  <2>3. QED
    BY <1>1, <1>2, <2>1, <2>2 DEF CallsTypeOK, settings, breaker, answer
<1>8. ASSUME NEW d \in Callers PROVE CallIsTrue(d)'
  <2>1. CASE d = c
    BY <2>1, <1>1, <1>2 DEF CallIsTrue, CallsTypeOK, Pool!TypeOK, MaxAttempts, settings, answer
  <2>2. CASE d # c
    BY <2>2, <1>1, <1>2 DEF CallIsTrue, CallsTypeOK, MaxAttempts, settings, answer
  <2>3. QED
    BY <2>1, <2>2
<1>9. PoolCountsCalls'
  <2>1. started' = {} /\ total_active' = Cardinality(InFlight') /\ total_active' <= MaxConnections
    BY <1>1, <1>2, <1>5, <1>6, CallsAssumption DEF PoolCountsCalls, CallsTypeOK, Pool!TypeOK
  <2>2. ASSUME NEW k \in Bindings
        PROVE  /\ active_count'[k] = Cardinality(InFlightTo(k)')
               /\ active_count'[k] <= MaxPerHost
               /\ active_count'[k] > 0 => k \in hosts_'
    <3>1. active_count[k] \in Nat /\ MaxPerHost \in Nat
      BY <1>1, CallsAssumption DEF CallsTypeOK, Pool!TypeOK
    <3>2. active_count'[k] = IF k = b THEN active_count[k] - 1 ELSE active_count[k]
      BY <1>1, <1>6 DEF CallsTypeOK, Pool!TypeOK
    <3>3. /\ active_count[k] = Cardinality(InFlightTo(k)) /\ active_count[k] <= MaxPerHost
          /\ active_count[k] > 0 => k \in hosts_
      BY <1>1 DEF PoolCountsCalls
    <3>4. CASE k = b
      <4>1. active_count'[k] = active_count[k] - 1
        BY <3>2, <3>4
      <4>2. InFlightTo(k)' = InFlightTo(b)' /\ InFlightTo(k) = InFlightTo(b)
        BY <1>2, <3>4 DEF InFlightTo
      <4>3. active_count'[k] = Cardinality(InFlightTo(k)')
        BY <4>1, <4>2, <3>3, <1>5
      <4>4. active_count'[k] <= MaxPerHost /\ active_count[k] > 0
        BY <4>1, <3>1, <3>3, <3>4, <1>6
      <4>5. QED
        BY <4>3, <4>4, <3>3, <1>6
    <3>5. CASE k # b
      BY <3>2, <3>3, <3>5, <1>4, <1>6
    <3>6. QED
      BY <3>4, <3>5
  <2>3. QED
    BY <2>1, <2>2 DEF PoolCountsCalls
<1>10. QED
  BY <1>7, <1>8, <1>9 DEF AttemptsAreTrue

(* The other steps of a call start and end no request. *)
LEMMA QuietCalls ==
    ASSUME AttemptsAreTrue, CallsTypeOK', \A c \in Callers : CallIsTrue(c)',
           \A c \in Callers : /\ place'[c] = "calling" <=> place[c] = "calling"
                              /\ place[c] = "calling" => binding'[c] = binding[c],
           hosts_ \subseteq hosts_',
           UNCHANGED <<started, total_active, active_count>>
    PROVE  AttemptsAreTrue'
<1>1. InFlight' = InFlight /\ \A b : InFlightTo(b)' = InFlightTo(b)
  BY DEF InFlight, InFlightTo
<1>2. PoolCountsCalls'
  BY <1>1 DEF PoolCountsCalls, AttemptsAreTrue
<1>3. QED
  BY <1>2 DEF AttemptsAreTrue

(* invoke() is entered, or turned away before the handler is called. *)
LEMMA InvokeCalls ==
    ASSUME AttemptsAreTrue, NEW c \in Callers, Invoke(c)
    PROVE  AttemptsAreTrue'
<1>1. CallsTypeOK /\ PoolCountsCalls /\ \A d \in Callers : CallIsTrue(d)
  BY DEF AttemptsAreTrue
<1>2. ASSUME NEW verdict \in {"Error", "CircuitOpen"}, TurnAway(c, verdict)
      PROVE  AttemptsAreTrue'
  <2>1. /\ place[c] = "idle" /\ place' = [place EXCEPT ![c] = "idle"]
        /\ binding' = [binding EXCEPT ![c] = NoBinding]
        /\ status' = [status EXCEPT ![c] = verdict]
        /\ attempt_count' = [attempt_count EXCEPT ![c] = 0] /\ attempt' = attempt
        /\ handled' = [handled EXCEPT ![c] = 0]
        /\ UNCHANGED <<settings, breaker, up, pool>>
    BY <1>2 DEF TurnAway, Return, MoveCall
  <2>2. CallsTypeOK'
    <3>1. Pool!TypeOK'
      BY <1>1, <2>1 DEF CallsTypeOK, Pool!TypeOK, pool
    <3>2. /\ binding' \in [Callers -> Bindings \cup {NoBinding}]
          /\ attempt_count' \in [Callers -> Nat] /\ handled' \in [Callers -> Nat]
          /\ DOMAIN status' = Callers
          /\ place' \in [Callers -> {"idle", "attempt", "calling", "successful", "unsuccessful"}]
          /\ \A d \in Callers : place'[d] = "idle" <=> binding'[d] = NoBinding
      BY <1>1, <2>1 DEF CallsTypeOK
    <3>3. QED
      BY <1>1, <2>1, <3>1, <3>2 DEF CallsTypeOK, settings, breaker
  <2>3. ASSUME NEW d \in Callers PROVE CallIsTrue(d)'
    <3>1. CASE d = c
      BY <3>1, <1>1, <2>1 DEF CallIsTrue, CallsTypeOK, pool
    <3>2. CASE d # c
      BY <3>2, <1>1, <2>1 DEF CallIsTrue, CallsTypeOK, MaxAttempts, settings, pool
    <3>3. QED
      BY <3>1, <3>2
  <2>4. \A d \in Callers : /\ place'[d] = "calling" <=> place[d] = "calling"
                           /\ place[d] = "calling" => binding'[d] = binding[d]
    BY <1>1, <2>1 DEF CallsTypeOK
  <2>5. QED
    BY <2>1, <2>2, <2>3, <2>4, QuietCalls DEF pool
<1>3. ASSUME NEW b \in Bindings, InvokeAdmitted(c, b)
      PROVE  AttemptsAreTrue'
  <2>1. /\ place[c] = "idle" /\ place' = [place EXCEPT ![c] = "attempt"]
        /\ binding' = [binding EXCEPT ![c] = b]
        /\ attempt' = [attempt EXCEPT ![c] = 1] /\ handled' = [handled EXCEPT ![c] = 0]
        /\ UNCHANGED <<settings, failure_count, elapsed, up, answer, pool>>
        /\ b # NoBinding
    BY <1>3, CallsAssumption DEF InvokeAdmitted, MoveCall
  <2>2. state_' \in [Bindings -> {"Closed", "Open", "HalfOpen"}]
    <3>1. CurrentState(b) \in {"Closed", "Open", "HalfOpen"}
      BY DEF CurrentState
    <3>2. QED
      BY <1>1, <1>3, <3>1 DEF InvokeAdmitted, LookAt, CallsTypeOK
  <2>3. CallsTypeOK'
    <3>1. Pool!TypeOK'
      BY <1>1, <2>1 DEF CallsTypeOK, Pool!TypeOK, pool
    <3>2. /\ binding' \in [Callers -> Bindings \cup {NoBinding}]
          /\ attempt' \in [Callers -> Nat] /\ handled' \in [Callers -> Nat]
          /\ place' \in [Callers -> {"idle", "attempt", "calling", "successful", "unsuccessful"}]
          /\ \A d \in Callers : place'[d] = "idle" <=> binding'[d] = NoBinding
      BY <1>1, <2>1 DEF CallsTypeOK
    <3>3. QED
      BY <1>1, <2>1, <2>2, <3>1, <3>2 DEF CallsTypeOK, settings, answer
  <2>4. ASSUME NEW d \in Callers PROVE CallIsTrue(d)'
    <3>1. CASE d = c
      <4>1. /\ place'[c] = "attempt" /\ binding'[c] = b /\ attempt'[c] = 1 /\ handled'[c] = 0
            /\ fresh'[c] = NoBinding /\ held'[c] = NoBinding
        BY <1>1, <2>1 DEF CallIsTrue, CallsTypeOK, pool
      <4>2. 1 <= MaxAttempts(b)' /\ MaxAttempts(b)' \in Nat
        BY <2>3 DEF CallsTypeOK, MaxAttempts
      <4>3. QED
        BY <3>1, <4>1, <4>2 DEF CallIsTrue, MaxAttempts
    <3>2. CASE d # c
      BY <3>2, <1>1, <2>1 DEF CallIsTrue, CallsTypeOK, MaxAttempts, settings, pool, answer
    <3>3. QED
      BY <3>1, <3>2
  <2>5. \A d \in Callers : /\ place'[d] = "calling" <=> place[d] = "calling"
                           /\ place[d] = "calling" => binding'[d] = binding[d]
    BY <1>1, <2>1 DEF CallsTypeOK
  <2>6. QED
    BY <2>1, <2>3, <2>4, <2>5, QuietCalls DEF pool
<1>4. QED
  BY <1>2, <1>3 DEF Invoke, InvokeUnknown, InvokeShed

(* A refused attempt and a retry stay inside of invoke(). *)
LEMMA RetryCalls ==
    ASSUME AttemptsAreTrue, NEW c \in Callers, DialRefused(c) \/ Retry(c)
    PROVE  AttemptsAreTrue'
<1>1. CallsTypeOK /\ PoolCountsCalls /\ \A d \in Callers : CallIsTrue(d)
  BY DEF AttemptsAreTrue
<1>2. /\ place[c] \in {"attempt", "unsuccessful"} /\ place'[c] \in {"attempt", "unsuccessful"}
      /\ place[c] # place'[c]
      /\ \A d \in Callers \ {c} : place'[d] = place[d]
      /\ place' \in [Callers -> {"idle", "attempt", "calling", "successful", "unsuccessful"}]
      /\ UNCHANGED <<settings, breaker, up, binding, answer>>
      /\ UNCHANGED <<active_count, total_active, held, fresh, started>>
  BY <1>1 DEF DialRefused, Retry, MoveCall, Pool!Refuse, pool, CallsTypeOK
<1>3. binding[c] \in Bindings
  BY <1>1, <1>2 DEF CallsTypeOK
<1>4. hosts_ \subseteq hosts_' /\ hosts_' \subseteq Bindings /\ idle' \subseteq hosts_'
  BY <1>1, <1>3 DEF DialRefused, Retry, Pool!Refuse, pool, CallsTypeOK, Pool!TypeOK
<1>5. /\ attempt' \in [Callers -> Nat] /\ handled' \in [Callers -> Nat]
      /\ \A d \in Callers \ {c} : attempt'[d] = attempt[d] /\ handled'[d] = handled[d]
      /\ attempt'[c] \in 1 .. MaxAttempts(binding[c])
      /\ handled'[c] = IF place'[c] = "attempt" THEN attempt'[c] - 1 ELSE attempt'[c]
  <2>1. /\ attempt \in [Callers -> Nat] /\ handled \in [Callers -> Nat]
        /\ attempt[c] \in 1 .. MaxAttempts(binding[c]) /\ MaxAttempts(binding[c]) \in Nat
        /\ handled[c] = IF place[c] = "attempt" THEN attempt[c] - 1 ELSE attempt[c]
    BY <1>1, <1>2, <1>3 DEF CallsTypeOK, CallIsTrue, MaxAttempts
  <2>2. CASE DialRefused(c)
    <3>1. /\ place[c] = "attempt" /\ place'[c] = "unsuccessful" /\ attempt' = attempt
          /\ handled' = [handled EXCEPT ![c] = @ + 1]
      BY <1>1, <1>2, <2>2 DEF DialRefused, CountHandled
    <3>2. QED
      BY <2>1, <3>1
  <2>3. CASE Retry(c)
    <3>1. /\ place[c] = "unsuccessful" /\ place'[c] = "attempt" /\ handled' = handled
          /\ attempt' = [attempt EXCEPT ![c] = @ + 1]
          /\ attempt[c] < MaxAttempts(binding[c])
      BY <1>1, <1>2, <2>3 DEF Retry
    <3>2. QED
      BY <2>1, <3>1
  <2>4. QED
    BY <2>2, <2>3
<1>6. CallsTypeOK'
  <2>1. Pool!TypeOK'
    BY <1>1, <1>2, <1>4 DEF CallsTypeOK, Pool!TypeOK
  <2>2. \A d \in Callers : place'[d] = "idle" <=> binding'[d] = NoBinding
    BY <1>1, <1>2 DEF CallsTypeOK
  <2>3. QED
    BY <1>1, <1>2, <1>5, <2>1, <2>2 DEF CallsTypeOK, settings, breaker, answer
<1>7. ASSUME NEW d \in Callers PROVE CallIsTrue(d)'
  <2>1. \A b : MaxAttempts(b)' = MaxAttempts(b)
    BY <1>2 DEF MaxAttempts, settings
  <2>2. CASE d = c
    BY <2>1, <2>2, <1>1, <1>2, <1>5 DEF CallIsTrue
  <2>3. CASE d # c
    BY <2>3, <1>1, <1>2, <1>5 DEF CallIsTrue, MaxAttempts, settings, answer
  <2>4. QED
    BY <2>2, <2>3
<1>8. \A d \in Callers : /\ place'[d] = "calling" <=> place[d] = "calling"
                         /\ place[d] = "calling" => binding'[d] = binding[d]
  BY <1>2
<1>9. QED
  BY <1>2, <1>4, <1>6, <1>7, <1>8, QuietCalls

(* invoke() returns after the last attempt. *)
LEMMA ReturnCalls ==
    ASSUME AttemptsAreTrue, NEW c \in Callers, Succeed(c) \/ GiveUpCall(c)
    PROVE  AttemptsAreTrue'
<1>1. CallsTypeOK /\ PoolCountsCalls /\ \A d \in Callers : CallIsTrue(d)
  BY DEF AttemptsAreTrue
<1>2. PICK verdict \in {"Success", "RetryExhausted", "Error"} :
         /\ Return(c, verdict, attempt[c])
         /\ verdict = "RetryExhausted" =>
              max_retries[binding[c]] > 0 /\ attempt[c] >= MaxAttempts(binding[c])
  BY DEF Succeed, GiveUpCall
<1>3. /\ place[c] \in {"successful", "unsuccessful"} /\ place' = [place EXCEPT ![c] = "idle"]
      /\ binding' = [binding EXCEPT ![c] = NoBinding]
      /\ status' = [status EXCEPT ![c] = verdict]
      /\ attempt_count' = [attempt_count EXCEPT ![c] = attempt[c]] /\ attempt' = attempt
      /\ UNCHANGED <<settings, up, handled, pool>>
  BY <1>2 DEF Succeed, GiveUpCall, Return, MoveCall
<1>4. binding[c] \in Bindings
  BY <1>1, <1>3 DEF CallsTypeOK
<1>5. /\ state_' \in [Bindings -> {"Closed", "Open", "HalfOpen"}]
      /\ failure_count' \in [Bindings -> Nat]
      /\ elapsed' \in [Bindings -> BOOLEAN]
  <2>1. /\ state_ \in [Bindings -> {"Closed", "Open", "HalfOpen"}]
        /\ failure_count \in [Bindings -> Nat] /\ threshold \in [Bindings -> Nat \ {0}]
    BY <1>1 DEF CallsTypeOK
  <2>2. RecordSuccess(binding[c]) \/ RecordFailure(binding[c])
    BY DEF Succeed, GiveUpCall
  <2>3. /\ state_' \in [Bindings -> {"Closed", "Open", "HalfOpen"}]
        /\ failure_count' \in [Bindings -> Nat]
    BY <2>1, <2>2, <1>4 DEF RecordSuccess, RecordFailure, breaker
  <2>4. elapsed \in [Bindings -> BOOLEAN]
    BY <1>1 DEF CallsTypeOK
  <2>5. elapsed' = elapsed \/ elapsed' = [elapsed EXCEPT ![binding[c]] = FALSE]
    BY <2>2 DEF RecordSuccess, RecordFailure, breaker
  <2>6. elapsed' \in [Bindings -> BOOLEAN]
    BY <2>4, <2>5
  <2>7. QED
    BY <2>3, <2>6
<1>6. CallsTypeOK'
  <2>1. Pool!TypeOK'
    BY <1>1, <1>3 DEF CallsTypeOK, Pool!TypeOK, pool
  <2>2. /\ binding' \in [Callers -> Bindings \cup {NoBinding}]
        /\ attempt_count' \in [Callers -> Nat] /\ DOMAIN status' = Callers
        /\ place' \in [Callers -> {"idle", "attempt", "calling", "successful", "unsuccessful"}]
        /\ \A d \in Callers : place'[d] = "idle" <=> binding'[d] = NoBinding
    BY <1>1, <1>3 DEF CallsTypeOK
  <2>3. QED
    BY <1>1, <1>3, <1>5, <2>1, <2>2 DEF CallsTypeOK, settings
<1>7. ASSUME NEW d \in Callers PROVE CallIsTrue(d)'
  <2>1. CASE d = c
    <3>1. /\ attempt[c] \in 1 .. MaxAttempts(binding[c]) /\ handled[c] = attempt[c]
          /\ MaxAttempts(binding[c]) \in Nat
          /\ fresh[c] = NoBinding /\ held[c] = NoBinding
      BY <1>1, <1>3, <1>4 DEF CallIsTrue, CallsTypeOK, MaxAttempts
    <3>2. /\ place'[c] = "idle" /\ status'[c] = verdict /\ attempt_count'[c] = attempt[c]
          /\ handled'[c] = handled[c] /\ fresh'[c] = fresh[c] /\ held'[c] = held[c]
          /\ max_retries' = max_retries
      BY <1>1, <1>3 DEF CallsTypeOK, pool, settings
    <3>3. verdict = "RetryExhausted" =>
             \E b \in Bindings : max_retries'[b] > 0 /\ attempt_count'[c] = MaxAttempts(b)'
      BY <1>2, <1>4, <3>1, <3>2 DEF MaxAttempts
    <3>4. QED
      BY <2>1, <3>1, <3>2, <3>3 DEF CallIsTrue
  <2>2. CASE d # c
    BY <2>2, <1>1, <1>3 DEF CallIsTrue, CallsTypeOK, MaxAttempts, settings, pool
  <2>3. QED
    BY <2>1, <2>2
<1>8. \A d \in Callers : /\ place'[d] = "calling" <=> place[d] = "calling"
                         /\ place[d] = "calling" => binding'[d] = binding[d]
  BY <1>1, <1>3 DEF CallsTypeOK
<1>9. QED
  BY <1>3, <1>6, <1>7, <1>8, QuietCalls DEF pool

(* The steps of the clock and of the services. *)
LEMMA EnvironmentCalls ==
    ASSUME AttemptsAreTrue,
           UNCHANGED callsVars \/ ServiceChanges \/ \E b \in Bindings : WindowElapses(b)
    PROVE  AttemptsAreTrue'
<1>1. CallsTypeOK /\ \A c \in Callers : CallIsTrue(c)
  BY DEF AttemptsAreTrue
<1>2. UNCHANGED <<settings, state_, failure_count, call, answer, pool>>
  BY DEF callsVars, ServiceChanges, WindowElapses, breaker
<1>3. elapsed' \in [Bindings -> BOOLEAN]
  <2>1. elapsed \in [Bindings -> BOOLEAN]
    BY <1>1 DEF CallsTypeOK
  <2>2. elapsed' = elapsed \/ \E b \in Bindings : elapsed' = [elapsed EXCEPT ![b] = TRUE]
    BY DEF callsVars, ServiceChanges, WindowElapses, breaker
  <2>3. QED
    BY <2>1, <2>2
<1>4. CallsTypeOK'
  <2>1. Pool!TypeOK'
    BY <1>1, <1>2 DEF CallsTypeOK, Pool!TypeOK, pool
  <2>2. QED
    BY <1>1, <1>2, <1>3, <2>1 DEF CallsTypeOK, settings, call, answer
<1>5. \A c \in Callers : CallIsTrue(c)'
  BY <1>1, <1>2 DEF CallIsTrue, MaxAttempts, settings, call, answer, pool
<1>6. QED
  BY <1>2, <1>4, <1>5, QuietCalls DEF call, pool

(* Across all interleavings of the callers the reported attempts are the   *)
(* handler calls that were made, the retry limit holds, and the connection *)
(* pool counts exactly the requests in flight, within its limits.          *)
THEOREM TrueAttempts == CallsSpec => []AttemptsAreTrue
<1>1. AttemptsAreTrue /\ [CallsNext]_callsVars => AttemptsAreTrue'
  BY InvokeCalls, DialCalls, HandlerReturnsCalls, RetryCalls, ReturnCalls, EnvironmentCalls
  DEF CallsNext, Proceed
<1>2. QED
  BY <1>1, InitCalls, PTL DEF CallsSpec
=============================================================================
