------------------------- MODULE AgentRuntimeProofs -------------------------
(***************************************************************************)
(* Proofs about AgentRuntime, for every finite set of state names, every   *)
(* agent and flow over it, every quota and every visit limit.              *)
(***************************************************************************)
EXTENDS AgentRuntime, TLAPS, FiniteSetTheorems, WellFoundedInduction

(* A set of positions has a last one. *)
LEMMA LastPosition ==
    ASSUME NEW n \in Nat, NEW A \in SUBSET (1 .. n), A # {}
    PROVE  (CHOOSE i \in A : \A j \in A : j <= i) \in A
<1> DEFINE B == {m \in Nat : \E i \in A : m = n - i}
<1>1. B \subseteq Nat
  OBVIOUS
<1>2. B # {}
  <2>1. PICK i \in A : TRUE
    OBVIOUS
  <2>2. n - i \in Nat /\ n - i \in B
    BY <2>1
  <2>3. QED
    BY <2>2
<1>3. PICK x \in B : \A y \in B : ~(<<y, x>> \in OpToRel(<, Nat))
  <2> HIDE DEF B
  <2>1. QED
    BY <1>1, <1>2, NatLessThanWellFounded, WFMin
<1>4. PICK i \in A : x = n - i
  OBVIOUS
<1>5. ASSUME NEW j \in A PROVE j <= i
  <2>1. n - j \in Nat /\ n - j \in B /\ x \in Nat
    OBVIOUS
  <2>2. ASSUME n - j < x PROVE <<n - j, x>> \in OpToRel(<, Nat)
    <3>1. <<n - j, x>> \in Nat \X Nat /\ <<n - j, x>>[1] = n - j /\ <<n - j, x>>[2] = x
      BY <2>1
    <3>2. QED
      BY <2>2, <3>1, Zenon DEF OpToRel
  <2>3. ~(n - j < x)
    BY <1>3, <2>1, <2>2, Zenon
  <2>4. QED
    BY <1>4, <2>1, <2>3
<1>6. QED
  BY <1>5

(* The quota of the declaration is one of its items, or none. *)
LEMMA ParsedQuota ==
    ASSUME NEW items \in BoundedSeq(Limits \cup {Garbled}, MaxItems)
    PROVE  ParseQuota(items) \in Limits \cup {NoLimit}
<1> DEFINE parsed == {i \in DOMAIN items : items[i] # Garbled}
           last == CHOOSE i \in parsed : \A j \in parsed : j <= i
<1>1. PICK n \in Nat : items \in [1 .. n -> Limits \cup {Garbled}]
  BY AgentAssumption DEF BoundedSeq, SeqOf
<1>2. CASE parsed = {}
  BY <1>2 DEF ParseQuota
<1>3. CASE parsed # {}
  <2>1. last \in parsed
    <3>1. parsed \in SUBSET (1 .. n)
      BY <1>1
    <3> HIDE DEF parsed
    <3>2. QED
      BY <1>3, <3>1, LastPosition
  <2>2. ParseQuota(items) = items[last]
    BY <1>3 DEF ParseQuota
  <2>3. QED
    BY <1>1, <2>1, <2>2
<1>4. QED
  BY <1>2, <1>3

(* The visits are finitely many, and one more when a state is entered. *)
LEMMA VisitsFinite ==
    ASSUME NEW counts
    PROVE  IsFiniteSet(Visits(counts)) /\ Cardinality(Visits(counts)) \in Nat
<1>1. IsFiniteSet(1 .. VisitLimit + 1)
  BY FS_Interval, AgentAssumption
<1>2. IsFiniteSet(Names \X (1 .. VisitLimit + 1))
  BY <1>1, FS_Product, AgentAssumption
<1>3. Visits(counts) \subseteq Names \X (1 .. VisitLimit + 1)
  BY DEF Visits
<1>4. QED
  BY <1>2, <1>3, FS_Subset, FS_CardinalityType

LEMMA OneMoreVisit ==
    ASSUME NEW counts \in [Names -> 0 .. VisitLimit], NEW t \in Names
    PROVE  LET more == [counts EXCEPT ![t] = @ + 1]
           IN  /\ more \in [Names -> 0 .. VisitLimit + 1]
               /\ Cardinality(Visits(more)) = Cardinality(Visits(counts)) + 1
<1> DEFINE more == [counts EXCEPT ![t] = @ + 1]
           v == <<t, counts[t] + 1>>
<1>1. /\ VisitLimit \in Nat /\ counts[t] \in 0 .. VisitLimit
      /\ more \in [Names -> 0 .. VisitLimit + 1]
      /\ \A s \in Names : more[s] = IF s = t THEN counts[s] + 1 ELSE counts[s]
  BY AgentAssumption
<1>2. Visits(more) = Visits(counts) \cup {v}
  <2>1. ASSUME NEW u \in Visits(more) PROVE u \in Visits(counts) \cup {v}
    <3>1. /\ u \in Names \X (1 .. VisitLimit + 1) /\ u = <<u[1], u[2]>>
          /\ u[1] \in Names /\ u[2] \in 1 .. VisitLimit + 1 /\ u[2] <= more[u[1]]
      BY DEF Visits
    <3>2. CASE u[2] <= counts[u[1]]
      BY <3>1, <3>2 DEF Visits
    <3>3. CASE ~(u[2] <= counts[u[1]])
      <4>1. u[1] = t /\ u[2] = counts[t] + 1
        BY <1>1, <3>1, <3>3
      <4>2. QED
        BY <3>1, <4>1
    <3>4. QED
      BY <3>2, <3>3
  <2>2. ASSUME NEW u \in Visits(counts) PROVE u \in Visits(more)
    <3>1. /\ u \in Names \X (1 .. VisitLimit + 1)
          /\ u[1] \in Names /\ u[2] \in 1 .. VisitLimit + 1 /\ u[2] <= counts[u[1]]
      BY DEF Visits
    <3>2. u[2] <= more[u[1]]
      BY <1>1, <3>1
    <3>3. QED
      BY <3>1, <3>2 DEF Visits
  <2>3. v \in Visits(more)
    BY <1>1 DEF Visits
  <2>4. QED
    BY <2>1, <2>2, <2>3
<1>3. v \notin Visits(counts)
  BY <1>1 DEF Visits
<1>4. QED
  BY <1>1, <1>2, <1>3, VisitsFinite, FS_AddElement

(* When at most one state was entered once too often, the visits are no    *)
(* more than the limit allows the states together, and one.                *)
LEMMA VisitBound ==
    ASSUME NEW counts \in [Names -> 0 .. VisitLimit + 1], NEW c,
           \A s \in Names : counts[s] > VisitLimit => s = c
    PROVE  Cardinality(Visits(counts)) <= VisitLimit * Cardinality(Names) + 1
<1> DEFINE P == Names \X (1 .. VisitLimit)
           v == <<c, VisitLimit + 1>>
<1>1. VisitLimit \in Nat /\ IsFiniteSet(Names) /\ Cardinality(Names) \in Nat
  BY AgentAssumption, FS_CardinalityType
<1>2. IsFiniteSet(1 .. VisitLimit) /\ Cardinality(1 .. VisitLimit) = VisitLimit
  BY <1>1, FS_Interval, AgentAssumption
<1>3. IsFiniteSet(P) /\ Cardinality(P) = VisitLimit * Cardinality(Names)
  <2>1. IsFiniteSet(P) /\ Cardinality(P) = Cardinality(Names) * Cardinality(1 .. VisitLimit)
    BY <1>1, <1>2, FS_Product
  <2>2. Cardinality(Names) * VisitLimit = VisitLimit * Cardinality(Names)
    BY <1>1
  <2>3. QED
    BY <1>2, <2>1, <2>2
<1>4. /\ IsFiniteSet(P \cup {v}) /\ Cardinality(P \cup {v}) \in Nat
      /\ Cardinality(P \cup {v}) <= Cardinality(P) + 1 /\ Cardinality(P) \in Nat
  <2> HIDE DEF P, v
  <2>1. Cardinality(P) \in Nat
    BY <1>3, FS_CardinalityType
  <2>2. /\ IsFiniteSet(P \cup {v})
        /\ Cardinality(P \cup {v}) = IF v \in P THEN Cardinality(P) ELSE Cardinality(P) + 1
    BY <1>3, FS_AddElement
  <2>3. QED
    BY <2>1, <2>2
<1>5. Visits(counts) \subseteq P \cup {v}
  <2>1. ASSUME NEW u \in Visits(counts), u[2] > VisitLimit PROVE u = v
    <3>1. /\ u = <<u[1], u[2]>> /\ u[1] \in Names /\ u[2] \in 1 .. VisitLimit + 1
          /\ u[2] <= counts[u[1]] /\ counts[u[1]] \in 0 .. VisitLimit + 1
      BY DEF Visits
    <3>2. u[2] = VisitLimit + 1 /\ counts[u[1]] > VisitLimit
      BY <1>1, <2>1, <3>1
    <3>3. QED
      BY <3>1, <3>2
  <2>2. ASSUME NEW u \in Visits(counts), ~(u[2] > VisitLimit) PROVE u \in P
    BY <1>1, <2>2 DEF Visits
  <2>3. QED
    BY <2>1, <2>2
<1>6. Cardinality(Visits(counts)) <= Cardinality(P \cup {v})
  BY <1>4, <1>5, FS_Subset
<1>7. QED
  BY <1>3, <1>4, <1>6, VisitsFinite

LEMMA RunInvInit ==
    ASSUME Init
    PROVE  RunInv
<1>1. /\ agent \in Agents /\ flow \in [Names -> Bodies \cup {NoBlock}]
      /\ limit = NoLimit /\ start_state \in Names /\ current_state = start_state
      /\ status = "Unbuilt" /\ visited_states = {} /\ state_transitions = 0
      /\ diagnostic = "none" /\ visit_counts = [s \in Names |-> 0]
  BY DEF Init
<1>2. timed \in BOOLEAN /\ late \in BOOLEAN /\ output \in BOOLEAN
  BY Zenon DEF Init
<1>3. visit_counts \in [Names -> 0 .. VisitLimit + 1] /\ \A s \in Names : visit_counts[s] = 0
  BY <1>1, AgentAssumption
<1>4. TypeOK
  BY <1>1, <1>2, <1>3 DEF TypeOK
<1>5. VisitedAreCounted /\ PathIsDeclared /\ CountsAgree /\ QuotaIsKept
  BY <1>1, <1>3 DEF VisitedAreCounted, PathIsDeclared, CountsAgree, QuotaIsKept
<1>6. QED
  BY <1>1, <1>3, <1>4, <1>5 DEF RunInv, RunIsAccounted, Terminal

LEMMA ConstructRun ==
    ASSUME RunInv, Construct
    PROVE  RunInv'
<1>1. /\ TypeOK /\ VisitedAreCounted /\ PathIsDeclared /\ state_transitions = 0
      /\ \A s \in Names : visit_counts[s] = 0
      /\ diagnostic = "none" /\ current_state = start_state
  BY DEF RunInv, RunIsAccounted, Construct, Terminal
<1>2. /\ status' = "Idle" /\ timed' \in BOOLEAN
      /\ UNCHANGED <<agent, flow, late, start_state, current_state, visited_states,
                     state_transitions, output, diagnostic, visit_counts>>
  BY DEF Construct
<1>3. limit' \in Limits \cup {NoLimit}
  <2>1. PICK explicit \in Limits \cup {NoLimit},
             items \in BoundedSeq(Limits \cup {Garbled}, MaxItems) :
             limit' = Merge(explicit, ParseQuota(items))
    BY DEF Construct
  <2>2. ParseQuota(items) \in Limits \cup {NoLimit}
    BY ParsedQuota
  <2>3. QED
    BY <2>1, <2>2 DEF Merge
<1>4. TypeOK'
  BY <1>1, <1>2, <1>3 DEF TypeOK
<1>5. VisitedAreCounted' /\ PathIsDeclared'
  BY <1>1, <1>2 DEF VisitedAreCounted, PathIsDeclared
<1>6. CountsAgree' /\ QuotaIsKept'
  BY <1>1, <1>2, <1>3, AgentAssumption DEF CountsAgree, QuotaIsKept
<1>7. QED
  BY <1>1, <1>2, <1>4, <1>5, <1>6 DEF RunInv, RunIsAccounted

LEMMA StartRun ==
    ASSUME RunInv, Start
    PROVE  RunInv'
<1>1. /\ TypeOK /\ QuotaIsKept /\ state_transitions = 0
      /\ \A s \in Names : visit_counts[s] = 0
      /\ diagnostic = "none" /\ current_state = start_state
  BY DEF RunInv, RunIsAccounted, Start, Terminal
<1>2. /\ status' = "Running" /\ visited_states' = {start_state}
      /\ visit_counts' = [visit_counts EXCEPT ![start_state] = 1]
      /\ UNCHANGED <<agent, flow, limit, timed, start_state, current_state,
                     state_transitions, output, diagnostic>>
  BY DEF Start, given
<1>3. late' \in BOOLEAN
  BY <1>1, Zenon DEF Start, TypeOK
<1>4. /\ start_state \in Names /\ VisitLimit \in Nat \ {0}
      /\ visit_counts \in [Names -> 0 .. VisitLimit] /\ visit_counts[start_state] = 0
      /\ visit_counts' = [visit_counts EXCEPT ![start_state] = @ + 1]
      /\ \A s \in Names : visit_counts'[s] = IF s = start_state THEN 1 ELSE 0
  <2>1. visit_counts \in [Names -> 0 .. VisitLimit + 1] /\ start_state \in Names
    BY <1>1 DEF TypeOK
  <2>2. visit_counts \in [Names -> 0 .. VisitLimit]
    BY <1>1, <2>1, AgentAssumption
  <2>3. \A s \in Names : visit_counts'[s] = IF s = start_state THEN 1 ELSE 0
    BY <1>1, <1>2, <2>1
  <2>4. visit_counts[start_state] + 1 = 1
    BY <1>1, <2>1
  <2>5. QED
    BY <1>1, <1>2, <2>1, <2>2, <2>3, <2>4, AgentAssumption
<1>5. /\ visit_counts' \in [Names -> 0 .. VisitLimit + 1]
      /\ Cardinality(Visits(visit_counts')) = Cardinality(Visits(visit_counts)) + 1
  BY <1>4, OneMoreVisit
<1>6. Cardinality(Visits(visit_counts)) = 0
  <2>1. Visits(visit_counts) = {}
    BY <1>1, AgentAssumption DEF Visits
  <2>2. QED
    BY <2>1, FS_EmptySet
<1>7. TypeOK'
  BY <1>1, <1>2, <1>3, <1>5 DEF TypeOK
<1>8. VisitedAreCounted' /\ PathIsDeclared'
  BY <1>2, <1>4 DEF VisitedAreCounted, PathIsDeclared
<1>9. CountsAgree'
  <2>1. VisitLimit * Cardinality(Names) \in Nat
    BY AgentAssumption, FS_CardinalityType
  <2>2. QED
    BY <1>1, <1>2, <1>4, <1>5, <1>6, <2>1 DEF CountsAgree
<1>10. QuotaIsKept'
  BY <1>1, <1>2 DEF QuotaIsKept
<1>11. QED
  BY <1>1, <1>2, <1>7, <1>8, <1>9, <1>10 DEF RunInv, RunIsAccounted, Terminal

(* The run ends in the state it is in. *)
LEMMA EndRun ==
    ASSUME RunInv, status = "Running",
           NEW verdict \in {"Completed", "Failed", "QuotaExceeded", "InvalidTransition"},
           NEW report, Finish(verdict, report), output' \in BOOLEAN,
           limit # NoLimit => /\ report = "transitions" => state_transitions = limit
                              /\ verdict = "Completed" => state_transitions < limit
    PROVE  RunInv'
<1>1. /\ TypeOK /\ VisitedAreCounted /\ PathIsDeclared /\ CountsAgree /\ QuotaIsKept
      /\ {start_state, current_state} \subseteq visited_states
  BY DEF RunInv, RunIsAccounted
<1>2. /\ status' = verdict /\ diagnostic' = report
      /\ UNCHANGED <<agent, flow, limit, timed, start_state, late, current_state,
                     visited_states, state_transitions, visit_counts>>
  BY DEF Finish, given
<1>3. TypeOK'
  BY <1>1, <1>2 DEF TypeOK, Terminal
<1>4. VisitedAreCounted' /\ PathIsDeclared' /\ CountsAgree' /\ QuotaIsKept'
  BY <1>1, <1>2 DEF VisitedAreCounted, PathIsDeclared, CountsAgree, QuotaIsKept
<1>5. QED
  BY <1>1, <1>2, <1>3, <1>4 DEF RunInv, RunIsAccounted, Terminal

(* A goto that the declaration allows. *)
LEMMA GotoRun ==
    ASSUME RunInv, NEW t \in Names, Goto(t)
    PROVE  RunInv'
<1>1. /\ TypeOK /\ VisitedAreCounted /\ PathIsDeclared /\ CountsAgree /\ QuotaIsKept
      /\ {start_state, current_state} \subseteq visited_states
      /\ status = "Running" /\ diagnostic = "none"
  BY DEF RunInv, RunIsAccounted, Goto, MoveTo, Executed, Admitted, Terminal
<1>2. /\ ~OverQuota /\ <<current_state, t>> \in agent.transitions
      /\ state_transitions' = state_transitions + 1 /\ current_state' = t
      /\ visited_states' = visited_states \cup {t}
      /\ visit_counts' = [visit_counts EXCEPT ![t] = @ + 1]
      /\ UNCHANGED <<agent, flow, limit, timed, start_state, output>>
  BY DEF Goto, MoveTo, Executed, Admitted, Targets, given
<1>3. IF visit_counts'[t] > VisitLimit
        THEN status' = "InfiniteLoop" /\ diagnostic' = "loop"
        ELSE status' = status /\ diagnostic' = diagnostic
  BY <1>2 DEF Goto, MoveTo
<1>4. late' \in BOOLEAN
  BY <1>1, Zenon DEF Goto, MoveTo, TypeOK
<1>5. /\ VisitLimit \in Nat /\ visit_counts \in [Names -> 0 .. VisitLimit]
      /\ \A s \in Names : visit_counts'[s] = IF s = t THEN visit_counts[s] + 1 ELSE visit_counts[s]
  <2>1. visit_counts \in [Names -> 0 .. VisitLimit + 1] /\ VisitLimit \in Nat
    BY <1>1, AgentAssumption DEF TypeOK
  <2>2. \A s \in Names : ~(visit_counts[s] > VisitLimit)
    BY <1>1 DEF CountsAgree
  <2>3. QED
    BY <1>2, <2>1, <2>2
<1>6. /\ visit_counts' \in [Names -> 0 .. VisitLimit + 1]
      /\ Cardinality(Visits(visit_counts')) = Cardinality(Visits(visit_counts)) + 1
  BY <1>2, <1>5, OneMoreVisit
<1>7. TypeOK'
  BY <1>1, <1>2, <1>3, <1>4, <1>6 DEF TypeOK, Terminal
<1>8. VisitedAreCounted'
  BY <1>1, <1>2, <1>5 DEF VisitedAreCounted
<1>9. PathIsDeclared'
  <2>1. SUFFICES ASSUME NEW S \in SUBSET (visited_states \cup {t}), start_state \in S,
                        S # visited_states \cup {t}
                 PROVE  \E s \in S, u \in (visited_states \cup {t}) \ S :
                           <<s, u>> \in agent.transitions
    BY <1>2 DEF PathIsDeclared
  <2>2. CASE S \cap visited_states = visited_states
    <3>1. current_state \in S /\ t \notin S
      BY <1>1, <2>1, <2>2
    <3>2. QED
      BY <1>2, <3>1
  <2>3. CASE S \cap visited_states # visited_states
    <3>1. /\ S \cap visited_states \in SUBSET visited_states
          /\ start_state \in S \cap visited_states
      BY <1>1, <2>1
    <3>2. PICK s \in S \cap visited_states, u \in visited_states \ (S \cap visited_states) :
             <<s, u>> \in agent.transitions
      BY <1>1, <2>3, <3>1 DEF PathIsDeclared
    <3>3. s \in S /\ u \in (visited_states \cup {t}) \ S
      BY <3>2
    <3>4. QED
      BY <3>2, <3>3
  <2>4. QED
    BY <2>2, <2>3
<1>10. CountsAgree'
  <2>1. \A s \in Names : visit_counts'[s] > VisitLimit => s = t
    BY <1>5
  <2>2. Cardinality(Visits(visit_counts')) <= VisitLimit * Cardinality(Names) + 1
    BY <1>6, <2>1, VisitBound
  <2>3. /\ Cardinality(Visits(visit_counts')) = state_transitions' + 1
        /\ state_transitions' \in Nat
    BY <1>1, <1>2, <1>6 DEF CountsAgree, TypeOK
  <2>4. VisitLimit * Cardinality(Names) \in Nat
    BY AgentAssumption, FS_CardinalityType
  <2>5. state_transitions' <= VisitLimit * Cardinality(Names)
    BY <2>2, <2>3, <2>4
  <2>6. \A s \in Names :
           visit_counts'[s] > VisitLimit => status' = "InfiniteLoop" /\ s = current_state'
    BY <1>2, <1>3, <2>1
  <2>7. QED
    BY <2>3, <2>5, <2>6 DEF CountsAgree
<1>11. QuotaIsKept'
  <2>1. limit # NoLimit => limit \in Nat /\ state_transitions \in Nat /\ state_transitions < limit
    BY <1>1, <1>2, AgentAssumption DEF OverQuota, TypeOK
  <2>2. diagnostic' # "transitions" /\ status' # "Completed"
    BY <1>1, <1>3
  <2>3. QED
    BY <1>2, <2>1, <2>2 DEF QuotaIsKept
<1>12. /\ {start_state', current_state'} \subseteq visited_states'
       /\ status' \in {"Running", "InfiniteLoop"}
       /\ status' \notin Terminal => diagnostic' = "none"
  BY <1>1, <1>2, <1>3 DEF Terminal
<1>13. QED
  BY <1>7, <1>8, <1>9, <1>10, <1>11, <1>12 DEF RunInv, RunIsAccounted

(* The ends of a run, one by one. *)
LEMMA RunInvNext ==
    ASSUME RunInv, [Next]_vars
    PROVE  RunInv'
<1>1. /\ TypeOK /\ QuotaIsKept
      /\ limit # NoLimit => limit \in Nat /\ state_transitions \in Nat
  BY AgentAssumption DEF RunInv, RunIsAccounted, TypeOK
<1>2. output \in BOOLEAN
  BY <1>1 DEF TypeOK
<1>3. CASE Construct \/ Start
  BY <1>3, ConstructRun, StartRun
<1>4. CASE QuotaReached
  <2>1. /\ status = "Running" /\ (limit # NoLimit => state_transitions = limit)
        /\ Finish("QuotaExceeded", "transitions") /\ output' = output
    BY <1>1, <1>4 DEF QuotaReached, OverQuota, QuotaIsKept
  <2>2. QED
    BY <1>2, <2>1, EndRun
<1>5. CASE TimeReached
  <2>1. status = "Running" /\ Finish("QuotaExceeded", "time") /\ output' = output
    BY <1>5 DEF TimeReached
  <2>2. QED
    BY <1>2, <2>1, EndRun
<1>6. ASSUME Admitted
      PROVE  status = "Running" /\ (limit # NoLimit => state_transitions < limit)
  BY <1>1, <1>6 DEF Admitted, OverQuota
<1>7. ASSUME Admitted, NEW verdict \in {"Completed", "Failed", "InvalidTransition"},
             NEW report \in {"none", "no handler", "evaluation", "assertion", "fell through",
                             "bad return", "bad transition"},
             Finish(verdict, report), output' \in BOOLEAN
      PROVE  RunInv'
  <2>1. status = "Running"
    BY <1>7 DEF Admitted
  <2>2. limit # NoLimit => /\ report = "transitions" => state_transitions = limit
                           /\ verdict = "Completed" => state_transitions < limit
    BY <1>6, <1>7, <2>1
  <2>3. QED
    BY <1>7, <2>1, <2>2, EndRun
<1>8. CASE NoHandler
  BY <1>2, <1>7, <1>8 DEF NoHandler
<1>9. CASE HandlerError
  BY <1>2, <1>7, <1>9 DEF HandlerError, Executed
<1>10. CASE HandlerAssert
  BY <1>2, <1>7, <1>10 DEF HandlerAssert, Executed
<1>11. CASE FallThrough
  BY <1>2, <1>7, <1>11 DEF FallThrough, Executed
<1>12. CASE HandlerReturn
  <2>1. output' \in BOOLEAN
    BY <1>2, <1>12, Zenon DEF HandlerReturn
  <2>2. QED
    BY <1>7, <1>12, <2>1 DEF HandlerReturn, Executed
<1>13. ASSUME NEW t \in Names, BadGoto(t) PROVE RunInv'
  BY <1>2, <1>7, <1>13 DEF BadGoto, Executed
<1>14. ASSUME NEW t \in Names, Goto(t) PROVE RunInv'
  BY <1>14, GotoRun
<1>15. CASE UNCHANGED vars
  BY <1>15 DEF vars, given, result, RunInv, RunIsAccounted, TypeOK, VisitedAreCounted,
               PathIsDeclared, CountsAgree, QuotaIsKept
<1>16. QED
  BY <1>3, <1>4, <1>5, <1>8, <1>9, <1>10, <1>11, <1>12, <1>13, <1>14, <1>15 DEF Next

(* An execution is accounted for: the path taken is a declared one, the    *)
(* counters agree with each other and stay below the visit limit, and the  *)
(* transition quota is kept to the step (agent_runtime.cpp,                *)
(* run_from_state).                                                        *)
THEOREM AccountedRun == Spec => []RunIsAccounted
<1>1. Init => RunInv
  BY RunInvInit
<1>2. RunInv /\ [Next]_vars => RunInv'
  BY RunInvNext
<1>3. RunInv => RunIsAccounted
  BY DEF RunInv
<1>4. QED
  BY <1>1, <1>2, <1>3, PTL DEF Spec

(* The verdict of the compiler does not change during a run. *)
LEMMA AcceptedStays ==
    ASSUME UNCHANGED <<agent, flow>>
    PROVE  Accepted' <=> Accepted
BY DEF Accepted, AgentAccepted, FlowAccepted, Reachable, Targets, IsFinal

(* A handler that is accepted does not fall through, goes only where it    *)
(* may, and returns only from a final state.                               *)
LEMMA AcceptedHandler ==
    ASSUME NEW body, NEW targets, NEW final \in BOOLEAN,
           ExactFor(body, targets, final), HandlerAccepted(body, targets, final)
    PROVE  /\ Continue \notin Outcomes(body)
           /\ \A t \in Names : GotoState(t) \in Outcomes(body) => t \in targets
           /\ Returned \in Outcomes(body) => final
BY Zenon DEF ExactFor, HandlerAccepted, Gotos

(* What that means for the handler an accepted run is about to execute. *)
LEMMA AcceptedOutcomes ==
    ASSUME AnalysisIsExact, TypeOK, Accepted, current_state \in agent.states
    PROVE  /\ flow[current_state] # NoBlock
           /\ Continue \notin Outcomes(flow[current_state])
           /\ \A t \in Names : GotoState(t) \in Outcomes(flow[current_state]) =>
                 t \in Targets(current_state)
           /\ Returned \in Outcomes(flow[current_state]) => IsFinal(current_state)
<1> DEFINE s == current_state
<1>1. s \in Names /\ flow[s] \in Bodies \cup {NoBlock}
  BY DEF TypeOK
<1>2. flow[s] # NoBlock /\ HandlerAccepted(flow[s], Targets(s), IsFinal(s))
  BY <1>1, Zenon DEF Accepted, FlowAccepted
<1>3. flow[s] \in Bodies /\ Targets(s) \in SUBSET Names
  BY <1>1, <1>2 DEF Targets
<1>4. IsFinal(s) \in BOOLEAN
  BY SMT DEF IsFinal
<1>5. ExactFor(flow[s], Targets(s), IsFinal(s))
  BY <1>3, <1>4, Zenon DEF AnalysisIsExact
<1>6. QED
  BY <1>2, <1>4, <1>5, AcceptedHandler, Zenon

LEMMA CleanInit ==
    ASSUME Init
    PROVE  CleanInv
BY DEF Init, CleanInv, AcceptedRunsClean

(* An accepted program meets none of the runtime's own error exits.       *)
LEMMA CleanNext ==
    ASSUME AnalysisIsExact, RunInv, CleanInv, [Next]_vars
    PROVE  CleanInv'
<1>1. UNCHANGED <<agent, flow, start_state>>
  BY DEF Next, vars, given, Construct, Start, QuotaReached, TimeReached, NoHandler, HandlerError,
         HandlerAssert, FallThrough, HandlerReturn, BadGoto, Goto, MoveTo, Finish
<1>2. Accepted' <=> Accepted
  BY <1>1, AcceptedStays
<1>3. SUFFICES ASSUME Accepted, start_state \in agent.states
               PROVE  /\ diagnostic' \notin {"no handler", "fell through", "bad transition",
                                             "bad return"}
                      /\ status' = "Completed" => output'
                      /\ current_state' \in agent.states
  BY <1>1, <1>2 DEF CleanInv, AcceptedRunsClean
<1>4. /\ TypeOK /\ current_state \in agent.states
      /\ diagnostic \notin {"no handler", "fell through", "bad transition", "bad return"}
      /\ status = "Completed" => output
      /\ status \notin Terminal => diagnostic = "none"
  BY <1>3 DEF CleanInv, AcceptedRunsClean, RunInv, RunIsAccounted
<1>5. /\ flow[current_state] # NoBlock
      /\ Continue \notin Outcomes(flow[current_state])
      /\ \A t \in Names : GotoState(t) \in Outcomes(flow[current_state]) =>
            t \in Targets(current_state)
      /\ Returned \in Outcomes(flow[current_state]) => IsFinal(current_state)
  BY <1>3, <1>4, AcceptedOutcomes
<1>6. CASE Construct \/ Start
  BY <1>4, <1>6 DEF Construct, Start
<1>7. CASE QuotaReached \/ TimeReached
  BY <1>4, <1>7 DEF QuotaReached, TimeReached, Finish
<1>8. CASE NoHandler
  BY <1>5, <1>8 DEF NoHandler
<1>9. CASE HandlerError \/ HandlerAssert
  BY <1>4, <1>9 DEF HandlerError, HandlerAssert, Finish
<1>10. CASE FallThrough
  BY <1>5, <1>10 DEF FallThrough, Executed
<1>11. CASE HandlerReturn
  <2>1. /\ IsFinal(current_state)
        /\ Finish("Completed", "none") /\ output' = TRUE
    BY <1>5, <1>11, Zenon DEF HandlerReturn, Executed
  <2>2. diagnostic' = "none" /\ current_state' = current_state
    BY <2>1 DEF Finish
  <2>3. QED
    BY <1>4, <2>1, <2>2
<1>12. ASSUME NEW t \in Names, BadGoto(t) PROVE FALSE
  BY <1>5, <1>12 DEF BadGoto, Executed
<1>13. ASSUME NEW t \in Names, Goto(t)
       PROVE  /\ diagnostic' \notin {"no handler", "fell through", "bad transition",
                                     "bad return"}
              /\ status' = "Completed" => output'
              /\ current_state' \in agent.states
  <2>1. /\ current_state' = t /\ <<current_state, t>> \in agent.transitions
        /\ status = "Running" /\ status' \in {status, "InfiniteLoop"}
        /\ diagnostic' \in {diagnostic, "loop"}
    BY <1>13 DEF Goto, MoveTo, Executed, Admitted, Targets
  <2>2. <<current_state, t>>[2] \in agent.states
    BY <1>3, <2>1, Zenon DEF Accepted, AgentAccepted
  <2>3. QED
    BY <1>4, <2>1, <2>2
<1>14. CASE UNCHANGED vars
  BY <1>4, <1>14 DEF vars, result
<1>15. QED
  BY <1>6, <1>7, <1>8, <1>9, <1>10, <1>11, <1>12, <1>13, <1>14 DEF Next

(* A program the compiler accepts, by an analysis that is exact for its    *)
(* handlers, meets none of the runtime's own error exits, and completes    *)
(* with an output (validate.cpp and agent_runtime.cpp).                    *)
THEOREM AcceptedProgramsRunClean ==
    ASSUME AnalysisIsExact
    PROVE  Spec => []AcceptedRunsClean
<1>1. Init => RunInv /\ CleanInv
  BY RunInvInit, CleanInit
<1>2. RunInv /\ CleanInv /\ [Next]_vars => RunInv' /\ CleanInv'
  BY RunInvNext, CleanNext
<1>3. CleanInv => AcceptedRunsClean
  BY DEF CleanInv
<1>4. QED
  BY <1>1, <1>2, <1>3, PTL DEF Spec
=============================================================================
