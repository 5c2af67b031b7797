-------------------------- MODULE ResourcesProofs --------------------------
(***************************************************************************)
(* Proofs about the three resource managers: ConnectionPool, for every set *)
(* of clients and hosts and every pair of limits; ThreadPool, for every    *)
(* number of workers, tasks and threads that shut the pool down; and       *)
(* ResponseCache, for every finite set of keys, capacity and TTL.          *)
(***************************************************************************)
EXTENDS ConnectionPool, ThreadPool, ResponseCache, DagProofs
-----------------------------------------------------------------------------
(*                            ConnectionPool                               *)

(* 1 when x is h, 0 otherwise. *)
Is(x, h) == IF x = h THEN 1 ELSE 0

(* Putting one client in or taking it out of a set of clients. *)
LEMMA Recount ==
    ASSUME NEW A \in SUBSET Clients, NEW B \in SUBSET Clients, NEW c \in Clients,
           \A k \in Clients \ {c} : k \in A <=> k \in B
    PROVE  /\ Cardinality(A) \in Nat
           /\ Cardinality(B) \in Nat
           /\ Cardinality(B) = Cardinality(A) + (IF c \in B THEN 1 ELSE 0)
                                              - (IF c \in A THEN 1 ELSE 0)
<1>1. IsFiniteSet(A) /\ IsFiniteSet(B) /\ Cardinality(A) \in Nat /\ Cardinality(B) \in Nat
  BY PoolAssumption, FS_Subset, FS_CardinalityType
<1>2. CASE c \in B
  <2>1. B = A \cup {c}
    BY <1>2
  <2>2. QED
    BY <1>1, <1>2, <2>1, FS_AddElement
<1>3. CASE c \notin B
  <2>1. B = A \ {c}
    BY <1>3
  <2>2. QED
    BY <1>1, <1>3, <2>1, FS_RemoveElement
<1>4. QED
  BY <1>2, <1>3

(* How the counts move when one client's held lease changes, *)
LEMMA HeldRecount ==
    ASSUME held \in [Clients -> Hosts \cup {NoHost}],
           NEW c \in Clients, NEW y \in Hosts \cup {NoHost},
           held' = [held EXCEPT ![c] = y], NEW h
    PROVE  /\ Cardinality(HeldOn(h)') = Cardinality(HeldOn(h)) + Is(y, h) - Is(held[c], h)
           /\ Cardinality((Clients \ HeldOn(h))')
                = Cardinality(Clients \ HeldOn(h)) + Is(held[c], h) - Is(y, h)
<1>1. /\ HeldOn(h) \in SUBSET Clients /\ HeldOn(h)' \in SUBSET Clients
      /\ \A k \in Clients \ {c} : k \in HeldOn(h) <=> k \in HeldOn(h)'
      /\ c \in HeldOn(h) <=> held[c] = h
      /\ c \in HeldOn(h)' <=> y = h
  BY DEF HeldOn
<1>2. /\ Clients \ HeldOn(h) \in SUBSET Clients /\ (Clients \ HeldOn(h))' \in SUBSET Clients
      /\ \A k \in Clients \ {c} : k \in Clients \ HeldOn(h) <=> k \in (Clients \ HeldOn(h))'
      /\ c \in Clients \ HeldOn(h) <=> held[c] # h
      /\ c \in (Clients \ HeldOn(h))' <=> y # h
  BY <1>1
<1>3. Cardinality(HeldOn(h)') = Cardinality(HeldOn(h)) + Is(y, h) - Is(held[c], h)
  BY <1>1, Recount DEF Is
<1>4. Cardinality((Clients \ HeldOn(h))')
        = Cardinality(Clients \ HeldOn(h)) + Is(held[c], h) - Is(y, h)
  BY <1>2, Recount DEF Is
<1>5. QED
  BY <1>3, <1>4

(* and its fresh one. *)
LEMMA FreshRecount ==
    ASSUME fresh \in [Clients -> Hosts \cup {NoHost}],
           NEW c \in Clients, NEW y \in Hosts \cup {NoHost},
           fresh' = [fresh EXCEPT ![c] = y], NEW h
    PROVE  /\ Cardinality(FreshOn(h)') = Cardinality(FreshOn(h)) + Is(y, h) - Is(fresh[c], h)
           /\ Cardinality((Clients \ FreshOn(h))')
                = Cardinality(Clients \ FreshOn(h)) + Is(fresh[c], h) - Is(y, h)
<1>1. /\ FreshOn(h) \in SUBSET Clients /\ FreshOn(h)' \in SUBSET Clients
      /\ \A k \in Clients \ {c} : k \in FreshOn(h) <=> k \in FreshOn(h)'
      /\ c \in FreshOn(h) <=> fresh[c] = h
      /\ c \in FreshOn(h)' <=> y = h
  BY DEF FreshOn
<1>2. /\ Clients \ FreshOn(h) \in SUBSET Clients /\ (Clients \ FreshOn(h))' \in SUBSET Clients
      /\ \A k \in Clients \ {c} : k \in Clients \ FreshOn(h) <=> k \in (Clients \ FreshOn(h))'
      /\ c \in Clients \ FreshOn(h) <=> fresh[c] # h
      /\ c \in (Clients \ FreshOn(h))' <=> y # h
  BY <1>1
<1>3. Cardinality(FreshOn(h)') = Cardinality(FreshOn(h)) + Is(y, h) - Is(fresh[c], h)
  BY <1>1, Recount DEF Is
<1>4. Cardinality((Clients \ FreshOn(h))')
        = Cardinality(Clients \ FreshOn(h)) + Is(fresh[c], h) - Is(y, h)
  BY <1>2, Recount DEF Is
<1>5. QED
  BY <1>3, <1>4

(* All the counts are natural numbers, now and after any step. *)
LEMMA CountTypes ==
    ASSUME started \subseteq Clients \X Hosts
    PROVE  /\ \A h : Cardinality(HeldOn(h)) \in Nat /\ Cardinality(FreshOn(h)) \in Nat
           /\ \A h : LeasesOn(h) \in Nat /\ RawOn(h) \in Nat
           /\ Cardinality(Clients \ HeldOn(NoHost)) \in Nat
           /\ Cardinality(Clients \ FreshOn(NoHost)) \in Nat
           /\ Leases \in Nat
           /\ IsFiniteSet(started) /\ Cardinality(started) \in Nat
<1>1. \A S \in SUBSET Clients : Cardinality(S) \in Nat
  BY PoolAssumption, FS_Subset, FS_CardinalityType
<1>2. IsFiniteSet(started) /\ Cardinality(started) \in Nat
  BY PoolAssumption, FS_Product, FS_Subset, FS_CardinalityType
<1>3. \A h : HeldOn(h) \in SUBSET Clients /\ FreshOn(h) \in SUBSET Clients
  BY DEF HeldOn, FreshOn
<1>4. \A h : Cardinality(HeldOn(h)) \in Nat /\ Cardinality(FreshOn(h)) \in Nat
  BY <1>1, <1>3
<1>5. \A h : RawOn(h) \in Nat
  <2> TAKE h
  <2>1. {c \in Clients : <<c, h>> \in started} \in SUBSET Clients
    OBVIOUS
  <2>2. QED
    BY <2>1, <1>1 DEF RawOn
<1>6. /\ Cardinality(Clients \ HeldOn(NoHost)) \in Nat
      /\ Cardinality(Clients \ FreshOn(NoHost)) \in Nat
  BY <1>1, <1>3
<1>7. \A h : LeasesOn(h) \in Nat
  BY <1>4 DEF LeasesOn
<1>8. Leases \in Nat
  BY <1>6 DEF Leases
<1>9. QED
  BY <1>2, <1>4, <1>5, <1>6, <1>7, <1>8
-----------------------------------------------------------------------------
(* What an invariant state gives the steps. *)
LEMMA PoolFacts ==
    ASSUME SlotsAreExact
    PROVE  /\ TypeOK
           /\ \A h \in Hosts : active_count[h] \in Nat
           /\ \A h \in Hosts : LeasesOn(h) \in Nat /\ RawOn(h) \in Nat
           /\ \A h \in Hosts : active_count[h] = LeasesOn(h) + RawOn(h)
           /\ Leases \in Nat /\ total_active \in Nat /\ Cardinality(started) \in Nat
           /\ total_active = Leases + Cardinality(started)
<1>1. TypeOK
  BY DEF SlotsAreExact
<1>2. /\ \A h \in Hosts : LeasesOn(h) \in Nat /\ RawOn(h) \in Nat
      /\ Leases \in Nat /\ Cardinality(started) \in Nat
  BY <1>1, CountTypes DEF TypeOK
<1>3. /\ \A h \in Hosts : active_count[h] = LeasesOn(h) + RawOn(h)
      /\ total_active = Leases + Cardinality(started)
  BY DEF SlotsAreExact
<1>4. (\A h \in Hosts : active_count[h] \in Nat) /\ total_active \in Nat
  BY <1>1 DEF TypeOK
<1>5. QED
  BY <1>1, <1>2, <1>3, <1>4

(* What a client owns is counted, so the end of a connection always finds  *)
(* an entry with a positive counter.                                       *)
LEMMA EndTakesEffect ==
    ASSUME SlotsAreExact, NEW h \in Hosts, RecordEnd(h), NEW c \in Clients,
           held[c] = h \/ <<c, h>> \in started
    PROVE  /\ active_count[h] > 0
           /\ active_count' = [active_count EXCEPT ![h] = @ - 1]
           /\ idle' = idle \ {h}
           /\ total_active' = total_active - 1
           /\ hosts_' = hosts_
<1>1. \A S \in SUBSET Clients : S # {} => Cardinality(S) # 0
  BY PoolAssumption, FS_Subset, FS_EmptySet
<1>2. Cardinality(HeldOn(h)) # 0 \/ RawOn(h) # 0
  <2>1. HeldOn(h) \in SUBSET Clients /\ {k \in Clients : <<k, h>> \in started} \in SUBSET Clients
    BY DEF HeldOn
  <2>2. HeldOn(h) # {} \/ {k \in Clients : <<k, h>> \in started} # {}
    BY DEF HeldOn
  <2>3. QED
    BY <1>1, <2>1, <2>2 DEF RawOn
<1>3. LeasesOn(h) + RawOn(h) > 0
  <2>1. started \subseteq Clients \X Hosts
    BY PoolFacts DEF TypeOK
  <2>2. /\ Cardinality(HeldOn(h)) \in Nat /\ Cardinality(FreshOn(h)) \in Nat
        /\ RawOn(h) \in Nat
    BY <2>1, CountTypes
  <2>3. QED
    BY <1>2, <2>2 DEF LeasesOn
<1>4. active_count[h] > 0 /\ h \in hosts_
  BY <1>3, PoolFacts DEF SlotsAreExact
<1>5. QED
  BY <1>4 DEF RecordEnd

(* The invariant from the changes of the counts: every counter moves with  *)
(* what it counts, and new leases are within the limits.                   *)
LEMMA CountsMoveTogether ==
    ASSUME SlotsAreExact,
           hosts_' \subseteq Hosts, idle' \subseteq hosts_',
           active_count' \in [Hosts -> Int], total_active' \in Int,
           held' \in [Clients -> Hosts \cup {NoHost}],
           fresh' \in [Clients -> Hosts \cup {NoHost}],
           started' \subseteq Clients \X Hosts,
           \A h \in Hosts :
              /\ active_count'[h] - active_count[h]
                   = (LeasesOn(h)' - LeasesOn(h)) + (RawOn(h)' - RawOn(h))
              /\ LeasesOn(h)' <= LeasesOn(h) \/ LeasesOn(h)' <= MaxPerHost
              /\ active_count'[h] > 0 => h \in hosts_',
           total_active' - total_active
             = (Leases' - Leases) + (Cardinality(started') - Cardinality(started)),
           Leases' <= Leases \/ Leases' <= MaxConnections
    PROVE  SlotsAreExact'
<1>1. MaxPerHost \in Nat /\ MaxConnections \in Nat
  BY PoolAssumption
<1>2. /\ \A S \in SUBSET Clients : Cardinality(S) \in Nat
      /\ \A S \in SUBSET (Clients \X Hosts) : Cardinality(S) \in Nat
  BY PoolAssumption, FS_Product, FS_Subset, FS_CardinalityType
<1>3. /\ \A h \in Hosts : LeasesOn(h)' \in Nat /\ RawOn(h)' \in Nat
      /\ Leases' \in Nat /\ Cardinality(started') \in Nat
  <2>1. \A h : HeldOn(h)' \in SUBSET Clients /\ FreshOn(h)' \in SUBSET Clients
    BY DEF HeldOn, FreshOn
  <2>2. /\ \A h : Cardinality(HeldOn(h)') \in Nat /\ Cardinality(FreshOn(h)') \in Nat
        /\ Cardinality(Clients \ HeldOn(NoHost)') \in Nat
        /\ Cardinality(Clients \ FreshOn(NoHost)') \in Nat
        /\ Cardinality(started') \in Nat
    BY <1>2, <2>1
  <2>3. ASSUME NEW h \in Hosts PROVE RawOn(h)' \in Nat
    <3>1. {c \in Clients : <<c, h>> \in started'} \in SUBSET Clients
      OBVIOUS
    <3>2. QED
      BY <3>1, <1>2 DEF RawOn
  <2>4. \A h \in Hosts : LeasesOn(h)' \in Nat
    BY <2>2 DEF LeasesOn
  <2>5. Leases' \in Nat
    BY <2>2 DEF Leases
  <2>6. QED
    BY <2>2, <2>3, <2>4, <2>5
<1>4. /\ \A h \in Hosts : LeasesOn(h) <= MaxPerHost
      /\ Leases <= MaxConnections
  BY DEF SlotsAreExact
<1>5. ASSUME NEW h \in Hosts
      PROVE  /\ active_count'[h] = LeasesOn(h)' + RawOn(h)'
             /\ active_count'[h] \in Nat
             /\ LeasesOn(h)' <= MaxPerHost
  <2>1. /\ active_count[h] = LeasesOn(h) + RawOn(h) /\ active_count'[h] \in Int
        /\ LeasesOn(h) \in Nat /\ RawOn(h) \in Nat /\ LeasesOn(h) <= MaxPerHost
        /\ LeasesOn(h)' \in Nat /\ RawOn(h)' \in Nat
    BY <1>3, <1>4, PoolFacts
  <2>2. QED
    BY <2>1, <1>1
<1>6. /\ total_active' = Leases' + Cardinality(started')
      /\ Leases' <= MaxConnections /\ total_active' \in Nat
  <2>1. /\ total_active = Leases + Cardinality(started) /\ total_active \in Nat
        /\ Leases \in Nat /\ Cardinality(started) \in Nat
    BY PoolFacts
  <2>2. QED
    BY <2>1, <1>1, <1>3, <1>4
<1>7. TypeOK'
  BY <1>5, <1>6 DEF TypeOK
<1>8. QED
  BY <1>5, <1>6, <1>7 DEF SlotsAreExact
-----------------------------------------------------------------------------
LEMMA InitPool == Init => SlotsAreExact
<1> SUFFICES ASSUME Init PROVE SlotsAreExact
  OBVIOUS
<1>1. TypeOK
  BY DEF Init, TypeOK
<1>2. /\ \A h \in Hosts : HeldOn(h) = {} /\ FreshOn(h) = {}
      /\ Clients \ HeldOn(NoHost) = {} /\ Clients \ FreshOn(NoHost) = {}
  BY PoolAssumption DEF Init, HeldOn, FreshOn
<1>3. \A h \in Hosts : LeasesOn(h) = 0
  BY <1>2, FS_EmptySet DEF LeasesOn
<1>4. Leases = 0 /\ Cardinality(started) = 0
  BY <1>2, FS_EmptySet DEF Leases, Init
<1>5. ASSUME NEW h \in Hosts PROVE RawOn(h) = 0
  <2>1. {c \in Clients : <<c, h>> \in started} = {}
    BY DEF Init
  <2>2. QED
    BY <2>1, FS_EmptySet DEF RawOn
<1>6. QED
  BY <1>1, <1>3, <1>4, <1>5, PoolAssumption DEF Init, SlotsAreExact

(* How the leases are counted when client c's two become x and y. *)
LEMMA LeaseChange ==
    ASSUME TypeOK, NEW c \in Clients,
           NEW x \in Hosts \cup {NoHost}, NEW y \in Hosts \cup {NoHost},
           held' = [held EXCEPT ![c] = x], fresh' = [fresh EXCEPT ![c] = y]
    PROVE  /\ \A h \in Hosts : LeasesOn(h)' = LeasesOn(h) + (Is(x, h) + Is(y, h))
                                    - (Is(held[c], h) + Is(fresh[c], h))
           /\ Leases' = Leases + (Is(held[c], NoHost) + Is(fresh[c], NoHost))
                               - (Is(x, NoHost) + Is(y, NoHost))
<1>1. /\ held \in [Clients -> Hosts \cup {NoHost}] /\ fresh \in [Clients -> Hosts \cup {NoHost}]
      /\ started \subseteq Clients \X Hosts
  BY DEF TypeOK
<1>2. \A u, h : Is(u, h) \in Int
  BY DEF Is
<1>3. ASSUME NEW h
      PROVE  LeasesOn(h)' = LeasesOn(h) + (Is(x, h) + Is(y, h))
                                    - (Is(held[c], h) + Is(fresh[c], h))
  <2>1. /\ Cardinality(HeldOn(h)') = Cardinality(HeldOn(h)) + Is(x, h) - Is(held[c], h)
        /\ Cardinality(FreshOn(h)') = Cardinality(FreshOn(h)) + Is(y, h) - Is(fresh[c], h)
    BY <1>1, HeldRecount, FreshRecount
  <2>2. Cardinality(HeldOn(h)) \in Nat /\ Cardinality(FreshOn(h)) \in Nat
    BY <1>1, CountTypes
  <2>3. QED
    BY <2>1, <2>2, <1>2 DEF LeasesOn
<1>4. Leases' = Leases + (Is(held[c], NoHost) + Is(fresh[c], NoHost))
                               - (Is(x, NoHost) + Is(y, NoHost))
  <2>1. /\ Cardinality((Clients \ HeldOn(NoHost))')
             = Cardinality(Clients \ HeldOn(NoHost)) + Is(held[c], NoHost) - Is(x, NoHost)
        /\ Cardinality((Clients \ FreshOn(NoHost))')
             = Cardinality(Clients \ FreshOn(NoHost)) + Is(fresh[c], NoHost) - Is(y, NoHost)
    BY <1>1, HeldRecount, FreshRecount
  <2>2. /\ Cardinality(Clients \ HeldOn(NoHost)) \in Nat
        /\ Cardinality(Clients \ FreshOn(NoHost)) \in Nat
    BY <1>1, CountTypes
  <2>3. QED
    BY <2>1, <2>2, <1>2 DEF Leases
<1>5. QED
  BY <1>3, <1>4

LEMMA AcquirePool ==
    ASSUME SlotsAreExact, NEW c \in Clients, NEW h \in Hosts, Acquire(c, h)
    PROVE  SlotsAreExact'
<1>1. /\ TypeOK /\ h # NoHost /\ fresh[c] = NoHost
      /\ total_active < MaxConnections /\ active_count[h] < MaxPerHost
      /\ hosts_' = hosts_ \cup {h} /\ idle' = idle \ {h}
      /\ active_count' = [active_count EXCEPT ![h] = @ + 1]
      /\ total_active' = total_active + 1
      /\ fresh' = [fresh EXCEPT ![c] = h]
      /\ held' = held /\ started' = started
  BY PoolFacts, PoolAssumption DEF Acquire, HasRoom, CountIn
<1>2. /\ TypeOK /\ held[c] \in Hosts \cup {NoHost} /\ h \in Hosts \cup {NoHost}
      /\ held' = [held EXCEPT ![c] = held[c]] /\ fresh' = [fresh EXCEPT ![c] = h]
  BY <1>1 DEF TypeOK
<1>3. /\ \A k \in Hosts : LeasesOn(k)' = LeasesOn(k) + Is(h, k)
      /\ Leases' = Leases + 1
  <2>1. NoHost \notin Hosts /\ \A u, k : Is(u, k) \in Int
    BY PoolAssumption DEF Is
  <2>2. ASSUME NEW k \in Hosts PROVE LeasesOn(k)' = LeasesOn(k) + Is(h, k)
    <3>1. LeasesOn(k)' = LeasesOn(k) + (Is(held[c], k) + Is(h, k))
                                     - (Is(held[c], k) + Is(fresh[c], k))
      BY <1>2, LeaseChange
    <3>2. Is(fresh[c], k) = 0
      BY <1>1, <2>1 DEF Is
    <3>3. QED
      BY <3>1, <3>2, <2>1, PoolFacts
  <2>3. Leases' = Leases + 1
    <3>1. Leases' = Leases + (Is(held[c], NoHost) + Is(fresh[c], NoHost))
                           - (Is(held[c], NoHost) + Is(h, NoHost))
      BY <1>2, LeaseChange
    <3>2. Is(fresh[c], NoHost) = 1 /\ Is(h, NoHost) = 0
      BY <1>1 DEF Is
    <3>3. QED
      BY <3>1, <3>2, <2>1, PoolFacts
  <2>4. QED
    BY <2>2, <2>3
<1>4. \A k : RawOn(k)' = RawOn(k)
  BY <1>1 DEF RawOn
<1>5. ASSUME NEW k \in Hosts
      PROVE  /\ active_count'[k] - active_count[k]
                   = (LeasesOn(k)' - LeasesOn(k)) + (RawOn(k)' - RawOn(k))
             /\ LeasesOn(k)' <= LeasesOn(k) \/ LeasesOn(k)' <= MaxPerHost
             /\ active_count'[k] > 0 => k \in hosts_'
  <2>1. /\ active_count[k] \in Nat /\ LeasesOn(k) \in Nat /\ RawOn(k) \in Nat
        /\ active_count[k] = LeasesOn(k) + RawOn(k)
        /\ active_count'[k] = active_count[k] + Is(h, k)
        /\ active_count[k] > 0 => k \in hosts_
        /\ MaxPerHost \in Nat
    BY <1>1, PoolFacts, PoolAssumption DEF TypeOK, Is, SlotsAreExact
  <2>2. QED
    BY <2>1, <1>1, <1>3, <1>4 DEF Is
<1>6. Leases' <= MaxConnections /\ total_active' - total_active
             = (Leases' - Leases) + (Cardinality(started') - Cardinality(started))
  BY <1>1, <1>3, PoolFacts, PoolAssumption
<1>7. /\ active_count' \in [Hosts -> Int] /\ total_active' \in Int
      /\ fresh' \in [Clients -> Hosts \cup {NoHost}]
      /\ hosts_' \subseteq Hosts /\ idle' \subseteq hosts_'
  BY <1>1 DEF TypeOK
<1>8. QED
  BY <1>1, <1>5, <1>6, <1>7, CountsMoveTogether DEF TypeOK

(* Client c gives back its held lease and keeps y instead; what was fresh  *)
(* becomes z.  Both release() and the move assignment are of this form.    *)
LEMMA GiveBackPool ==
    ASSUME SlotsAreExact, NEW c \in Clients, held[c] # NoHost, RecordEnd(held[c]),
           NEW y \in Hosts \cup {NoHost}, NEW z \in Hosts \cup {NoHost},
           held' = [held EXCEPT ![c] = y], fresh' = [fresh EXCEPT ![c] = z],
           <<y, z>> \in {<<NoHost, fresh[c]>>, <<fresh[c], NoHost>>},
           started' = started
    PROVE  SlotsAreExact'
<1> DEFINE h == held[c]
<1>1. TypeOK /\ h \in Hosts /\ h # NoHost
  BY PoolFacts DEF TypeOK
<1>2. /\ active_count[h] > 0 /\ active_count' = [active_count EXCEPT ![h] = @ - 1]
      /\ idle' = idle \ {h} /\ total_active' = total_active - 1 /\ hosts_' = hosts_
  BY <1>1, EndTakesEffect
<1>3. /\ \A k \in Hosts : LeasesOn(k)' = LeasesOn(k) - Is(h, k)
      /\ Leases' = Leases - 1
  <2>1. NoHost \notin Hosts /\ \A u, k : Is(u, k) \in Int
    BY PoolAssumption DEF Is
  <2>2. \A k \in Hosts : Is(y, k) + Is(z, k) = Is(fresh[c], k)
    BY <2>1 DEF Is
  <2>3. Is(y, NoHost) + Is(z, NoHost) = 1 + Is(fresh[c], NoHost) /\ Is(h, NoHost) = 0
    BY <1>1 DEF Is
  <2>4. ASSUME NEW k \in Hosts PROVE LeasesOn(k)' = LeasesOn(k) - Is(h, k)
    <3>1. LeasesOn(k)' = LeasesOn(k) + (Is(y, k) + Is(z, k)) - (Is(h, k) + Is(fresh[c], k))
      BY <1>1, LeaseChange
    <3>2. QED
      BY <3>1, <2>1, <2>2, PoolFacts
  <2>5. Leases' = Leases - 1
    <3>1. Leases' = Leases + (Is(h, NoHost) + Is(fresh[c], NoHost))
                           - (Is(y, NoHost) + Is(z, NoHost))
      BY <1>1, LeaseChange
    <3>2. QED
      BY <3>1, <2>1, <2>3, PoolFacts
  <2>6. QED
    BY <2>4, <2>5
<1>4. \A k : RawOn(k)' = RawOn(k)
  BY DEF RawOn
<1>5. ASSUME NEW k \in Hosts
      PROVE  /\ active_count'[k] - active_count[k]
                   = (LeasesOn(k)' - LeasesOn(k)) + (RawOn(k)' - RawOn(k))
             /\ LeasesOn(k)' <= LeasesOn(k)
             /\ active_count'[k] > 0 => k \in hosts_'
  <2>1. /\ active_count[k] \in Nat /\ LeasesOn(k) \in Nat /\ RawOn(k) \in Nat
        /\ active_count'[k] = active_count[k] - Is(h, k)
        /\ active_count[k] > 0 => k \in hosts_
    BY <1>1, <1>2, PoolFacts DEF TypeOK, Is, SlotsAreExact
  <2>2. QED
    BY <2>1, <1>2, <1>3, <1>4 DEF Is
<1>6. Leases' <= Leases /\ total_active' - total_active
             = (Leases' - Leases) + (Cardinality(started') - Cardinality(started))
  BY <1>2, <1>3, PoolFacts
<1>7. /\ active_count' \in [Hosts -> Int] /\ total_active' \in Int
      /\ held' \in [Clients -> Hosts \cup {NoHost}]
      /\ fresh' \in [Clients -> Hosts \cup {NoHost}]
      /\ hosts_' \subseteq Hosts /\ idle' \subseteq hosts_'
      /\ started' \subseteq Clients \X Hosts
  BY <1>1, <1>2 DEF TypeOK
<1>8. QED
  BY <1>5, <1>6, <1>7, CountsMoveTogether

(* Moving a fresh lease into an empty one moves no count. *)
LEMMA LeaseMovePool ==
    ASSUME SlotsAreExact, NEW c \in Clients, held[c] = NoHost,
           held' = [held EXCEPT ![c] = fresh[c]], fresh' = [fresh EXCEPT ![c] = NoHost],
           UNCHANGED <<hosts_, active_count, idle, total_active, started>>
    PROVE  SlotsAreExact'
<1>1. /\ TypeOK /\ fresh[c] \in Hosts \cup {NoHost} /\ NoHost \in Hosts \cup {NoHost}
  BY PoolFacts DEF TypeOK
<1>2. \A u, k : Is(u, k) \in Int
  BY DEF Is
<1>3. \A k \in Hosts : LeasesOn(k)' = LeasesOn(k)
  <2> TAKE k \in Hosts
  <2>1. LeasesOn(k)' = LeasesOn(k) + (Is(fresh[c], k) + Is(NoHost, k))
                                   - (Is(held[c], k) + Is(fresh[c], k))
    BY <1>1, LeaseChange
  <2>2. QED
    BY <2>1, <1>2, PoolFacts
<1>4. Leases' = Leases
  <2>1. Leases' = Leases + (Is(held[c], NoHost) + Is(fresh[c], NoHost))
                         - (Is(fresh[c], NoHost) + Is(NoHost, NoHost))
    BY <1>1, LeaseChange
  <2>2. QED
    BY <2>1, <1>2, PoolFacts
<1>5. \A k \in Hosts : RawOn(k)' = RawOn(k)
  BY DEF RawOn
<1>6. /\ held' \in [Clients -> Hosts \cup {NoHost}]
      /\ fresh' \in [Clients -> Hosts \cup {NoHost}]
  BY <1>1 DEF TypeOK
<1>7. TypeOK'
  BY <1>1, <1>6 DEF TypeOK
<1>8. QED
  BY <1>3, <1>4, <1>5, <1>7 DEF SlotsAreExact

(* The raw interface: one connection more or less of one client. *)
LEMMA RawChange ==
    ASSUME TypeOK, NEW c \in Clients, NEW h \in Hosts
    PROVE  /\ <<c, h>> \notin started /\ started' = started \cup {<<c, h>>} =>
                /\ Cardinality(started') = Cardinality(started) + 1
                /\ \A k \in Hosts : RawOn(k)' = RawOn(k) + Is(h, k)
           /\ <<c, h>> \in started /\ started' = started \ {<<c, h>>} =>
                /\ Cardinality(started') = Cardinality(started) - 1
                /\ \A k \in Hosts : RawOn(k)' = RawOn(k) - Is(h, k)
<1> DEFINE Raw(k) == {d \in Clients : <<d, k>> \in started}
<1>1. IsFiniteSet(started) /\ Cardinality(started) \in Nat
  BY CountTypes DEF TypeOK
<1>2. \A k : RawOn(k) = Cardinality(Raw(k)) /\ RawOn(k)' = Cardinality(Raw(k)')
  BY DEF RawOn
<1>3. \A k : Raw(k) \in SUBSET Clients /\ Raw(k)' \in SUBSET Clients
  OBVIOUS
<1>4. ASSUME <<c, h>> \notin started, started' = started \cup {<<c, h>>}
      PROVE  /\ Cardinality(started') = Cardinality(started) + 1
             /\ \A k \in Hosts : RawOn(k)' = RawOn(k) + Is(h, k)
  <2>1. Cardinality(started') = Cardinality(started) + 1
    BY <1>1, <1>4, FS_AddElement
  <2>2. ASSUME NEW k \in Hosts PROVE RawOn(k)' = RawOn(k) + Is(h, k)
    <3>1. /\ \A d \in Clients \ {c} : d \in Raw(k) <=> d \in Raw(k)'
          /\ c \in Raw(k)' <=> (h = k \/ c \in Raw(k))
          /\ h = k => c \notin Raw(k)
      BY <1>4
    <3>2. /\ Cardinality(Raw(k)) \in Nat /\ Cardinality(Raw(k)') \in Nat
          /\ Cardinality(Raw(k)') = Cardinality(Raw(k)) + (IF c \in Raw(k)' THEN 1 ELSE 0)
                                                        - (IF c \in Raw(k) THEN 1 ELSE 0)
      BY <1>3, <3>1, Recount
    <3>3. QED
      BY <1>2, <3>1, <3>2 DEF Is
  <2>3. QED
    BY <2>1, <2>2
<1>5. ASSUME <<c, h>> \in started, started' = started \ {<<c, h>>}
      PROVE  /\ Cardinality(started') = Cardinality(started) - 1
             /\ \A k \in Hosts : RawOn(k)' = RawOn(k) - Is(h, k)
  <2>1. Cardinality(started') = Cardinality(started) - 1
    BY <1>1, <1>5, FS_RemoveElement
  <2>2. ASSUME NEW k \in Hosts PROVE RawOn(k)' = RawOn(k) - Is(h, k)
    <3>1. /\ \A d \in Clients \ {c} : d \in Raw(k) <=> d \in Raw(k)'
          /\ c \in Raw(k)' <=> (h # k /\ c \in Raw(k))
          /\ h = k => c \in Raw(k)
      BY <1>5
    <3>2. /\ Cardinality(Raw(k)) \in Nat /\ Cardinality(Raw(k)') \in Nat
          /\ Cardinality(Raw(k)') = Cardinality(Raw(k)) + (IF c \in Raw(k)' THEN 1 ELSE 0)
                                                        - (IF c \in Raw(k) THEN 1 ELSE 0)
      BY <1>3, <3>1, Recount
    <3>3. QED
      BY <1>2, <3>1, <3>2 DEF Is
  <2>3. QED
    BY <2>1, <2>2
<1>6. QED
  BY <1>4, <1>5

LEMMA RawPool ==
    ASSUME SlotsAreExact, NEW c \in Clients, NEW h \in Hosts, RawStart(c, h) \/ RawEnd(c, h)
    PROVE  SlotsAreExact'
<1>1. TypeOK
  BY PoolFacts
<1>2. PICK i \in {1, -1} :
        /\ active_count' \in [Hosts -> Int]
        /\ \A k \in Hosts : active_count'[k] = active_count[k] + (IF h = k THEN i ELSE 0)
        /\ total_active' = total_active + i
        /\ hosts_' \subseteq Hosts /\ idle' \subseteq hosts_'
        /\ hosts_ \subseteq hosts_'
        /\ active_count'[h] > 0 => h \in hosts_'
        /\ held' = held /\ fresh' = fresh
        /\ IF i = 1
             THEN <<c, h>> \notin started /\ started' = started \cup {<<c, h>>}
             ELSE <<c, h>> \in started /\ started' = started \ {<<c, h>>}
  <2>1. CASE RawStart(c, h)
    BY <2>1, <1>1 DEF RawStart, CountIn, TypeOK
  <2>2. CASE RawEnd(c, h)
    <3>1. /\ active_count[h] > 0 /\ hosts_' = hosts_ /\ idle' = idle \ {h}
          /\ active_count' = [active_count EXCEPT ![h] = @ - 1]
          /\ total_active' = total_active - 1
      BY <2>2, EndTakesEffect DEF RawEnd
    <3>2. /\ active_count' \in [Hosts -> Int]
          /\ \A k \in Hosts : active_count'[k] = active_count[k] + (IF h = k THEN -1 ELSE 0)
          /\ total_active' = total_active + -1
      BY <3>1, <1>1 DEF TypeOK
    <3>3. h \in hosts_ /\ hosts_ \subseteq Hosts /\ idle \subseteq hosts_
      BY <3>1, <1>1 DEF SlotsAreExact, TypeOK
    <3>4. /\ held' = held /\ fresh' = fresh
          /\ <<c, h>> \in started /\ started' = started \ {<<c, h>>}
      BY <2>2 DEF RawEnd
    <3>5. WITNESS -1 \in {1, -1}
    <3>6. (-1 = 1) = FALSE
      OBVIOUS
    <3>7. QED
      BY <3>1, <3>2, <3>3, <3>4, <3>6
  <2>3. QED
    BY <2>1, <2>2
<1>3. /\ Cardinality(started') = Cardinality(started) + i
      /\ \A k \in Hosts : RawOn(k)' = RawOn(k) + (IF h = k THEN i ELSE 0)
  BY <1>1, <1>2, RawChange, PoolFacts DEF Is
<1>4. Leases' = Leases /\ \A k \in Hosts : LeasesOn(k)' = LeasesOn(k)
  BY <1>2 DEF Leases, LeasesOn, HeldOn, FreshOn
<1>5. ASSUME NEW k \in Hosts
      PROVE  /\ active_count'[k] - active_count[k]
                   = (LeasesOn(k)' - LeasesOn(k)) + (RawOn(k)' - RawOn(k))
             /\ LeasesOn(k)' <= LeasesOn(k)
             /\ active_count'[k] > 0 => k \in hosts_'
  <2>1. /\ active_count[k] \in Nat /\ LeasesOn(k) \in Nat /\ RawOn(k) \in Nat
        /\ active_count'[k] = active_count[k] + (IF h = k THEN i ELSE 0)
        /\ active_count[k] > 0 => k \in hosts_
    BY <1>1, <1>2, PoolFacts DEF TypeOK, SlotsAreExact
  <2>2. QED
    BY <2>1, <1>2, <1>3, <1>4
<1>6. Leases' <= Leases /\ total_active' - total_active
             = (Leases' - Leases) + (Cardinality(started') - Cardinality(started))
  BY <1>2, <1>3, <1>4, PoolFacts
<1>7. /\ active_count' \in [Hosts -> Int] /\ total_active' \in Int
      /\ held' \in [Clients -> Hosts \cup {NoHost}]
      /\ fresh' \in [Clients -> Hosts \cup {NoHost}]
      /\ started' \subseteq Clients \X Hosts
  BY <1>1, <1>2 DEF TypeOK
<1>8. QED
  BY <1>2, <1>5, <1>6, <1>7, CountsMoveTogether

(* Refusals, the passing of time and evictions change no counter, and      *)
(* spare the entries in use.                                               *)
LEMMA EntriesPool ==
    ASSUME SlotsAreExact,
           hosts_' \subseteq Hosts, idle' \subseteq hosts_',
           \A h \in hosts_ : active_count[h] > 0 => h \in hosts_',
           UNCHANGED <<active_count, total_active, held, fresh, started>>
    PROVE  SlotsAreExact'
<1>1. TypeOK'
  BY PoolFacts DEF TypeOK
<1>2. Leases' = Leases /\ \A k \in Hosts : LeasesOn(k)' = LeasesOn(k) /\ RawOn(k)' = RawOn(k)
  BY DEF Leases, LeasesOn, HeldOn, FreshOn, RawOn
<1>3. QED
  BY <1>1, <1>2 DEF SlotsAreExact

(* The counters of the pool are exact in every state, for every limit: no  *)
(* sequence of moves, releases, refusals, evictions and raw use leaks a    *)
(* slot or gives one back twice, and leases never pass the limits.         *)
THEOREM ExactSlots == Spec => []SlotsAreExact
<1>1. SlotsAreExact /\ [Next]_vars => SlotsAreExact'
  <2> SUFFICES ASSUME SlotsAreExact, [Next]_vars PROVE SlotsAreExact'
    OBVIOUS
  <2>1. TypeOK
    BY PoolFacts
  <2>2. ASSUME NEW c \in Clients, NEW h \in Hosts, Acquire(c, h)
        PROVE  SlotsAreExact'
    BY <2>2, AcquirePool
  <2>3. ASSUME NEW c \in Clients, NEW h \in Hosts, Refuse(c, h)
        PROVE  SlotsAreExact'
    BY <2>1, <2>3, EntriesPool DEF Refuse, TypeOK
  <2>4. ASSUME NEW c \in Clients, NEW h \in Hosts, RawStart(c, h) \/ RawEnd(c, h)
        PROVE  SlotsAreExact'
    BY <2>4, RawPool
  <2>5. ASSUME NEW c \in Clients, MoveAssign(c)
        PROVE  SlotsAreExact'
    <3>1. fresh[c] \in Hosts \cup {NoHost}
      BY <2>1 DEF TypeOK
    <3>2. CASE held[c] = NoHost
      BY <2>5, <3>2, LeaseMovePool DEF MoveAssign
    <3>3. CASE held[c] # NoHost
      BY <2>5, <3>1, <3>3, GiveBackPool DEF MoveAssign
    <3>4. QED
      BY <3>2, <3>3
  <2>6. ASSUME NEW c \in Clients, Release(c)
        PROVE  SlotsAreExact'
    <3>1. fresh[c] \in Hosts \cup {NoHost} /\ fresh' = [fresh EXCEPT ![c] = fresh[c]]
      BY <2>1, <2>6 DEF TypeOK, Release
    <3>2. QED
      BY <2>6, <3>1, GiveBackPool DEF Release
  <2>7. ASSUME NEW h \in Hosts, GrowIdle(h)
        PROVE  SlotsAreExact'
    BY <2>1, <2>7, EntriesPool DEF GrowIdle, TypeOK
  <2>8. CASE EvictIdle
    <3>1. /\ hosts_' \subseteq hosts_ /\ idle' \subseteq hosts_'
          /\ \A h \in hosts_ : active_count[h] > 0 => h \in hosts_'
          /\ UNCHANGED <<active_count, total_active, held, fresh, started>>
      BY <2>1, <2>8 DEF EvictIdle, TypeOK
    <3>2. QED
      BY <2>1, <3>1, EntriesPool DEF TypeOK
  <2>9. CASE UNCHANGED vars
    BY <2>1, <2>9, EntriesPool DEF vars, TypeOK
  <2>10. QED
    BY <2>2, <2>3, <2>4, <2>5, <2>6, <2>7, <2>8, <2>9 DEF Next
<1>2. QED
  BY <1>1, InitPool, PTL DEF Spec
-----------------------------------------------------------------------------
(*                              ThreadPool                                 *)

(* What is in a queue after a push, *)
LEMMA PushRange ==
    ASSUME NEW S, NEW q \in Seq(S), NEW t \in S
    PROVE  Range(Append(q, t)) = Range(q) \cup {t}
<1>1. /\ Append(q, t) \in Seq(S) /\ Len(q) \in Nat /\ Len(Append(q, t)) = Len(q) + 1
      /\ \A i \in 1 .. Len(q) : Append(q, t)[i] = q[i]
      /\ Append(q, t)[Len(q) + 1] = t
  BY AppendProperties, LenProperties
<1>2. /\ Range(q) = {q[i] : i \in 1 .. Len(q)}
      /\ Range(Append(q, t)) = {Append(q, t)[i] : i \in 1 .. Len(q) + 1}
  BY <1>1, RangeEquality
<1>3. QED
  BY <1>1, <1>2

(* and after a pop of its first element, when it holds nothing twice. *)
LEMMA PopRange ==
    ASSUME NEW S, NEW q \in Seq(S), q # <<>>,
           \A i, j \in 1 .. Len(q) : q[i] = q[j] => i = j
    PROVE  /\ Range(q) = Range(Tail(q)) \cup {Head(q)}
           /\ Head(q) \notin Range(Tail(q)) /\ Head(q) \in S
           /\ Tail(q) \in Seq(S) /\ Len(Tail(q)) = Len(q) - 1
           /\ \A i, j \in 1 .. Len(Tail(q)) : Tail(q)[i] = Tail(q)[j] => i = j
<1>1. /\ Head(q) \in S /\ Tail(q) \in Seq(S) /\ Len(Tail(q)) = Len(q) - 1
      /\ \A i \in 1 .. Len(q) - 1 : Tail(q)[i] = q[i + 1]
      /\ Len(q) \in Nat \ {0} /\ Head(q) = q[1]
  BY HeadTailProperties, EmptySeq
<1>2. /\ Range(q) = {q[i] : i \in 1 .. Len(q)}
      /\ Range(Tail(q)) = {Tail(q)[i] : i \in 1 .. Len(q) - 1}
  <2>1. Range(q) = {q[i] : i \in 1 .. Len(q)}
    BY RangeEquality
  <2>2. Range(Tail(q)) = {Tail(q)[i] : i \in 1 .. Len(Tail(q))}
    <3> DEFINE r == Tail(q)
    <3>1. r \in Seq(S)
      BY <1>1
    <3> HIDE DEF r
    <3>2. Range(r) = {r[i] : i \in 1 .. Len(r)}
      BY <3>1, RangeEquality
    <3>3. QED
      BY <3>2 DEF r
  <2>3. QED
    BY <1>1, <2>1, <2>2
<1>3. Range(Tail(q)) = {q[i] : i \in 2 .. Len(q)}
  <2>1. ASSUME NEW x \in Range(Tail(q)) PROVE x \in {q[i] : i \in 2 .. Len(q)}
    BY <2>1, <1>1, <1>2
  <2>2. ASSUME NEW i \in 2 .. Len(q) PROVE q[i] \in Range(Tail(q))
    <3>1. i - 1 \in 1 .. Len(q) - 1 /\ Tail(q)[i - 1] = q[(i - 1) + 1] /\ (i - 1) + 1 = i
      BY <1>1
    <3>2. QED
      BY <3>1, <1>2
  <2>3. QED
    BY <2>1, <2>2
<1>4. Range(q) = Range(Tail(q)) \cup {Head(q)}
  BY <1>1, <1>2, <1>3
<1>5. Head(q) \notin Range(Tail(q))
  BY <1>1, <1>3
<1>6. QED
  BY <1>1, <1>4, <1>5

(* A queue that holds nothing twice is no longer than the set it draws on. *)
LEMMA QueueBound ==
    ASSUME NEW S, IsFiniteSet(S), NEW q \in Seq(S),
           \A i, j \in 1 .. Len(q) : q[i] = q[j] => i = j
    PROVE  Len(q) <= Cardinality(S)
<1>1. /\ Len(q) \in Nat /\ Cardinality(S) \in Nat
      /\ IsFiniteSet(1 .. Len(q)) /\ Cardinality(1 .. Len(q)) = Len(q)
      /\ q \in [1 .. Len(q) -> S]
  <2>1. Len(q) \in Nat /\ q \in [1 .. Len(q) -> S]
    BY LenProperties
  <2>2. Cardinality(S) \in Nat
    BY FS_CardinalityType
  <2>3. IsFiniteSet(1 .. Len(q)) /\ Cardinality(1 .. Len(q)) = Len(q)
    BY <2>1, FS_Interval
  <2>4. QED
    BY <2>1, <2>2, <2>3
<1>2. CASE Cardinality(S) < Cardinality(1 .. Len(q))
  BY <1>1, <1>2, FS_PigeonHole
<1>3. QED
  BY <1>1, <1>2

(* Pushed, elementwise. *)
LEMMA PushedIff ==
    \A t : t \in Pushed <=> t \in Range(tasks_) \/ t \in run \/ \E w \in Workers : t = task[w]
BY DEF Pushed

LEMMA DrainInit ==
    ASSUME ThreadsAssumption, ThreadsInit
    PROVE  DrainInv
<1>1. /\ tasks_ \in Seq(Tasks) /\ Len(tasks_) = 0 /\ Cardinality(Tasks) \in Nat
  BY FS_CardinalityType DEF ThreadsInit, ThreadsAssumption
<1>2. ThreadsTypeOK
  BY <1>1 DEF ThreadsInit, ThreadsAssumption, ThreadsTypeOK
<1>3. stopped_ = FALSE /\ in_time = {} /\ first = {}
  BY Zenon DEF ThreadsInit
<1>4. closer \in [Closers -> {"open", "notifying", "joining", "returned"}]
      /\ \A w \in Workers : pc[w] # "exited"
  BY DEF ThreadsInit
<1>5. \A i, j \in 1 .. Len(tasks_) : tasks_[i] = tasks_[j] => i = j
  BY <1>1
<1>6. stopped_ \in BOOLEAN /\ in_time \subseteq Tasks \cap Pushed /\ first \subseteq Closers
  BY <1>3, Zenon
<1>7. QED
  BY <1>2, <1>3, <1>4, <1>5, <1>6, Zenon DEF DrainInv

(* A step that leaves the queue, the tasks in hand and the record of what  *)
(* is done alone keeps the invariant when no worker leaves.                *)
LEMMA QuietDrain ==
    ASSUME DrainInv,
           UNCHANGED <<tasks_, stopped_, task, in_time, run, closer, first>>,
           notices' \in SUBSET Tasks,
           pc' \in [Workers -> {"wait", "asleep", "running", "exited"}],
           \A w \in Workers : /\ pc'[w] = "exited" <=> pc[w] = "exited"
                              /\ pc'[w] = "running" <=> pc[w] = "running"
    PROVE  DrainInv'
BY DEF DrainInv, ThreadsTypeOK, Pushed

LEMMA SubmitDrain ==
    ASSUME ThreadsAssumption, DrainInv, NEW t \in Tasks, Submit(t)
    PROVE  DrainInv'
<1>1. /\ tasks_ \in Seq(Tasks) /\ Len(tasks_) \in Nat
      /\ tasks_' = Append(tasks_, t) /\ t \notin Range(tasks_)
      /\ Range(tasks_) = {tasks_[i] : i \in 1 .. Len(tasks_)}
  BY LenProperties, RangeEquality DEF DrainInv, ThreadsTypeOK, Submit, Pushed
<1>2. /\ tasks_' \in Seq(Tasks) /\ Len(tasks_') = Len(tasks_) + 1
      /\ \A i \in 1 .. Len(tasks_) : tasks_'[i] = tasks_[i]
      /\ tasks_'[Len(tasks_) + 1] = t
  BY <1>1, AppendProperties
<1>3. Range(tasks_') = Range(tasks_) \cup {t}
  BY <1>1, PushRange
<1>4. \A i, j \in 1 .. Len(tasks_') : tasks_'[i] = tasks_'[j] => i = j
  BY <1>1, <1>2 DEF DrainInv
<1>5. Len(tasks_') <= Cardinality(Tasks)
  BY <1>2, <1>4, QueueBound DEF ThreadsAssumption
<1>6. ThreadsTypeOK'
  BY <1>2, <1>5 DEF DrainInv, ThreadsTypeOK, Submit
<1>7. Pushed' = Pushed \cup {t}
  BY <1>3 DEF Pushed, Submit
<1>8. in_time' \subseteq Tasks \cap Pushed'
  BY <1>7 DEF DrainInv, Submit
<1>9. \A w \in Workers : pc'[w] = "exited" => in_time' \cap Range(tasks_') = {}
  BY <1>3 DEF DrainInv, Submit
<1>10. QED
  BY <1>4, <1>6, <1>8, <1>9 DEF DrainInv, Submit

LEMMA ExitDrain ==
    ASSUME DrainInv, NEW w \in Workers, Exit(w)
    PROVE  DrainInv'
<1>1. Range(tasks_) = {}
  BY DEF Exit, Range
<1>2. QED
  BY <1>1 DEF DrainInv, ThreadsTypeOK, Exit, Pushed, rest

LEMMA TakeDrain ==
    ASSUME ThreadsAssumption, DrainInv, NEW w \in Workers, Take(w)
    PROVE  DrainInv'
<1>1. /\ tasks_ \in Seq(Tasks) /\ tasks_ # <<>> /\ tasks_' = Tail(tasks_)
      /\ \A i, j \in 1 .. Len(tasks_) : tasks_[i] = tasks_[j] => i = j
      /\ pc[w] = "wait" /\ pc' = [pc EXCEPT ![w] = "running"]
      /\ task' = [task EXCEPT ![w] = Head(tasks_)]
      /\ UNCHANGED <<stopped_, notices, run, in_time, closer, first>>
  BY DEF DrainInv, ThreadsTypeOK, Take, rest
<1>2. /\ Range(tasks_) = Range(tasks_') \cup {Head(tasks_)}
      /\ Head(tasks_) \in Tasks
      /\ tasks_' \in Seq(Tasks)
      /\ \A i, j \in 1 .. Len(tasks_') : tasks_'[i] = tasks_'[j] => i = j
  BY <1>1, PopRange
<1>3. Len(tasks_') <= Cardinality(Tasks)
  BY <1>2, QueueBound DEF ThreadsAssumption
<1>4. ThreadsTypeOK'
  BY <1>1, <1>2, <1>3 DEF ThreadsAssumption, DrainInv, ThreadsTypeOK
<1>5. task[w] = NoTask /\ task \in [Workers -> Tasks \cup {NoTask}]
  BY <1>1 DEF DrainInv, ThreadsTypeOK
<1>6. ASSUME NEW t \in in_time PROVE t \in Tasks \cap Pushed'
  <2>1. t \in Tasks /\ (t \in Range(tasks_) \/ t \in run \/ \E v \in Workers : t = task[v])
    BY PushedIff DEF DrainInv
  <2>2. ASSUME NEW v \in Workers, t = task[v] PROVE t = task'[v]
    BY <2>1, <2>2, <1>1, <1>5 DEF ThreadsAssumption
  <2>3. t = Head(tasks_) => t = task'[w]
    BY <1>1, <1>5
  <2>4. t \in Range(tasks_') \/ t \in run' \/ \E v \in Workers : t = task'[v]
    BY <2>1, <2>2, <2>3, <1>1, <1>2
  <2>5. QED
    BY <2>1, <2>4 DEF Pushed
<1>7. \A v \in Workers : pc'[v] = "exited" => in_time' \cap Range(tasks_') = {}
  BY <1>1, <1>2 DEF DrainInv, ThreadsTypeOK
<1>8. QED
  BY <1>1, <1>2, <1>4, <1>6, <1>7 DEF DrainInv, ThreadsTypeOK

LEMMA FinishDrain ==
    ASSUME ThreadsAssumption, DrainInv, NEW w \in Workers, Finish(w)
    PROVE  DrainInv'
<1>1. /\ pc[w] = "running" /\ pc' = [pc EXCEPT ![w] = "wait"]
      /\ run' = run \cup {task[w]} /\ task' = [task EXCEPT ![w] = NoTask]
      /\ UNCHANGED <<tasks_, stopped_, notices, in_time, closer, first>>
      /\ task \in [Workers -> Tasks \cup {NoTask}] /\ task[w] \in Tasks
      /\ pc \in [Workers -> {"wait", "asleep", "running", "exited"}]
  BY DEF DrainInv, ThreadsTypeOK, Finish, rest
<1>2. ThreadsTypeOK'
  BY <1>1 DEF DrainInv, ThreadsTypeOK
<1>3. ASSUME NEW t \in in_time PROVE t \in Tasks \cap Pushed'
  <2>1. t \in Tasks /\ (t \in Range(tasks_) \/ t \in run \/ \E v \in Workers : t = task[v])
    BY PushedIff DEF DrainInv
  <2>2. ASSUME NEW v \in Workers, t = task[v] PROVE t = task'[v] \/ t \in run'
    BY <2>2, <1>1
  <2>3. t \in Range(tasks_') \/ t \in run' \/ \E v \in Workers : t = task'[v]
    BY <2>1, <2>2, <1>1
  <2>4. QED
    BY <2>1, <2>3 DEF Pushed
<1>4. QED
  BY <1>1, <1>2, <1>3 DEF DrainInv

LEMMA StopDrain ==
    ASSUME DrainInv, NEW c \in Closers, Stop(c)
    PROVE  DrainInv'
BY DEF DrainInv, ThreadsTypeOK, Stop, Pushed

LEMMA JoinedDrain ==
    ASSUME DrainInv, NEW c \in Closers, Joined(c)
    PROVE  DrainInv'
BY DEF DrainInv, ThreadsTypeOK, Joined, Pushed

LEMMA NotifyAllDrain ==
    ASSUME DrainInv, NEW c \in Closers, NotifyAll(c)
    PROVE  DrainInv'
BY DEF DrainInv, ThreadsTypeOK, NotifyAll, Pushed

(* The actions of ThreadsNext, one by one. *)
LEMMA DrainNext ==
    ASSUME ThreadsAssumption, DrainInv, [ThreadsNext]_threads
    PROVE  DrainInv'
<1>1. ASSUME NEW t \in Tasks, Submit(t) PROVE DrainInv'
  BY <1>1, SubmitDrain
<1>2. ASSUME NEW t \in Tasks, NotifyOne(t) PROVE DrainInv'
  <2>1. /\ pc' \in [Workers -> {"wait", "asleep", "running", "exited"}]
        /\ \A w \in Workers : /\ pc'[w] = "exited" <=> pc[w] = "exited"
                              /\ pc'[w] = "running" <=> pc[w] = "running"
    BY <1>2 DEF NotifyOne, DrainInv, ThreadsTypeOK
  <2>2. /\ UNCHANGED <<tasks_, stopped_, task, in_time, run, closer, first>>
        /\ notices' \in SUBSET Tasks
    BY <1>2 DEF NotifyOne, DrainInv, ThreadsTypeOK, rest
  <2>3. QED
    BY <2>1, <2>2, QuietDrain
<1>3. ASSUME NEW w \in Workers, Sleep(w) \/ SpuriousWake(w) PROVE DrainInv'
  <2>1. /\ pc' \in [Workers -> {"wait", "asleep", "running", "exited"}]
        /\ \A v \in Workers : /\ pc'[v] = "exited" <=> pc[v] = "exited"
                              /\ pc'[v] = "running" <=> pc[v] = "running"
    BY <1>3 DEF Sleep, SpuriousWake, DrainInv, ThreadsTypeOK
  <2>2. /\ UNCHANGED <<tasks_, stopped_, task, in_time, run, closer, first>>
        /\ notices' \in SUBSET Tasks
    BY <1>3 DEF Sleep, SpuriousWake, DrainInv, ThreadsTypeOK, rest
  <2>3. QED
    BY <2>1, <2>2, QuietDrain
<1>4. ASSUME NEW w \in Workers, Exit(w) PROVE DrainInv'
  BY <1>4, ExitDrain
<1>5. ASSUME NEW w \in Workers, Take(w) PROVE DrainInv'
  BY <1>5, TakeDrain
<1>6. ASSUME NEW w \in Workers, Finish(w) PROVE DrainInv'
  BY <1>6, FinishDrain
<1>7. ASSUME NEW c \in Closers, Stop(c) PROVE DrainInv'
  BY <1>7, StopDrain
<1>8. ASSUME NEW c \in Closers, NotifyAll(c) PROVE DrainInv'
  BY <1>8, NotifyAllDrain
<1>9. ASSUME NEW c \in Closers, Joined(c) PROVE DrainInv'
  BY <1>9, JoinedDrain
<1>10. CASE UNCHANGED threads
  <2>1. /\ UNCHANGED <<tasks_, stopped_, task, in_time, run, closer, first>>
        /\ UNCHANGED <<notices, pc>>
    BY <1>10 DEF threads
  <2>2. QED
    BY <2>1, QuietDrain DEF DrainInv, ThreadsTypeOK
<1>11. QED
  BY <1>1, <1>2, <1>3, <1>4, <1>5, <1>6, <1>7, <1>8, <1>9, <1>10 DEF ThreadsNext, Work, Close

(* Once every worker has left, nobody holds a task. *)
LEMMA AllGone ==
    ASSUME ThreadsAssumption, DrainInv, \A w \in Workers : pc[w] = "exited"
    PROVE  in_time \subseteq run
<1>1. ASSUME NEW t \in in_time PROVE t \in run
  <2>1. t \in Tasks /\ (t \in Range(tasks_) \/ t \in run \/ \E v \in Workers : t = task[v])
    BY PushedIff DEF DrainInv
  <2>2. \A v \in Workers : task[v] = NoTask
    BY DEF DrainInv, ThreadsTypeOK
  <2>3. in_time \cap Range(tasks_) = {}
    BY DEF DrainInv, ThreadsAssumption
  <2>4. QED
    BY <2>1, <2>2, <2>3 DEF ThreadsAssumption
<1>2. QED
  BY <1>1

(* When the shutdown() that stopped the pool returns, every task that was  *)
(* submitted before it has run to its end, whatever was submitted after it *)
(* and however the workers, the notifications and a second shutdown()      *)
(* interleave (thread_pool.cpp 22-57).                                     *)
THEOREM ShutdownLeavesNothing ==
    ASSUME ThreadsAssumption
    PROVE  ThreadsSpec => []ShutdownDrains
<1>1. ThreadsInit => DrainInv
  BY DrainInit
<1>2. DrainInv /\ [ThreadsNext]_threads => DrainInv'
  BY DrainNext
<1>3. DrainInv => ShutdownDrains
  <2>1. SUFFICES ASSUME DrainInv PROVE ShutdownDrains
    OBVIOUS
  <2>2. (\A w \in Workers : pc[w] = "exited") => in_time \subseteq run
    BY <2>1, AllGone
  <2>3. QED
    BY <2>1, <2>2 DEF DrainInv, ShutdownDrains
<1>4. QED
  BY <1>1, <1>2, <1>3, PTL DEF ThreadsSpec
-----------------------------------------------------------------------------
(*                             ResponseCache                               *)

(* Entries whose timestamp tells when the service gave the response. *)
Honest == {e \in Entry : e.since = e.age}

(* A map and a list of the same keys, *)
Agree(f, order) ==
    /\ f \in [DOMAIN f -> Honest]
    /\ DOMAIN f \subseteq Keys
    /\ order \in Seq(Keys)
    /\ Distinct(order)
    /\ Members(order) = DOMAIN f

(* within the capacity; and the provider's file and answer. *)
CacheInv ==
    /\ Agree(entries, insertion_order)
    /\ Cardinality(DOMAIN entries) <= MaxEntries
    /\ file \in Seq(Keys \X Honest)
    /\ provider \in {"down", "idle", "asking", "persisting"}
    /\ asked \in Keys
    /\ \A e \in answer : e.since <= Ttl

LEMMA NothingCached ==
    /\ Agree(<<>>, <<>>)
    /\ Cardinality(DOMAIN <<>>) <= MaxEntries
<1>1. <<>> \in Seq(Honest) /\ <<>> \in Seq(Keys) /\ DOMAIN <<>> = {} /\ Len(<<>>) = 0
  BY EmptySeq
<1>2. <<>> \in [DOMAIN <<>> -> Honest]
  BY <1>1
<1>3. Distinct(<<>>) /\ Members(<<>>) = {}
  BY DEF Distinct, Members
<1>4. Cardinality({}) = 0
  BY FS_EmptySet
<1>5. QED
  BY <1>1, <1>2, <1>3, <1>4, CacheAssumption DEF Agree

(* Eviction drops the oldest keys from both, down to the capacity. *)
LEMMA KeepInv ==
    ASSUME NEW f, NEW q, Agree(f, q), Keep(f, q)
    PROVE  /\ Agree(entries', insertion_order')
           /\ Cardinality(DOMAIN entries') <= MaxEntries
<1> DEFINE excess == IF Cardinality(DOMAIN f) > MaxEntries
                       THEN Cardinality(DOMAIN f) - MaxEntries ELSE 0
           kept   == SubSeq(q, excess + 1, Len(q))
<1>1. q \in Seq(Keys) /\ Distinct(q) /\ Members(q) = DOMAIN f /\ f \in [DOMAIN f -> Honest]
  BY DEF Agree
<1>2. Len(q) \in Nat /\ DOMAIN q = 1 .. Len(q) /\ \A i \in 1 .. Len(q) : q[i] \in Keys
  BY <1>1, LenProperties, ElementOfSeq
<1>3. Cardinality(DOMAIN f) = Len(q)
  BY <1>1, MembersCount
<1>4. excess \in 0 .. Len(q) /\ Len(q) - excess <= MaxEntries
  BY <1>2, <1>3, CacheAssumption
<1>5. /\ kept \in Seq(Keys)
      /\ Len(kept) = Len(q) - excess
      /\ \A i \in 1 .. Len(q) - excess : kept[i] = q[excess + i]
  <2> HIDE DEF excess
  <2>1. excess + 1 \in Int /\ Len(q) \in Int /\ \A i \in excess + 1 .. Len(q) : q[i] \in Keys
    BY <1>2, <1>4
  <2>2. /\ kept \in Seq(Keys)
        /\ Len(kept) = IF excess + 1 <= Len(q) THEN Len(q) - (excess + 1) + 1 ELSE 0
        /\ \A i \in 1 .. Len(q) - (excess + 1) + 1 : kept[i] = q[(excess + 1) + i - 1]
    BY <2>1, SubSeqProperties
  <2> HIDE DEF kept
  <2>3. Len(kept) = Len(q) - excess
    <3>1. ASSUME NEW n \in Nat, NEW e \in 0 .. n
          PROVE  (IF e + 1 <= n THEN n - (e + 1) + 1 ELSE 0) = n - e
      OBVIOUS
    <3>2. QED
      BY <2>2, <1>2, <1>4, <3>1
  <2>4. ASSUME NEW i \in 1 .. Len(q) - excess PROVE kept[i] = q[excess + i]
    <3>1. i \in 1 .. Len(q) - (excess + 1) + 1 /\ (excess + 1) + i - 1 = excess + i
      BY <1>2, <1>4
    <3>2. QED
      BY <3>1, <2>2
  <2>5. QED
    BY <2>2, <2>3, <2>4
<1>6. entries' = Restricted(f, Members(kept)) /\ insertion_order' = kept
  BY DEF Keep
<1> HIDE DEF excess, kept
<1>7. DOMAIN kept = 1 .. Len(q) - excess
  BY <1>5, LenProperties
<1>8. Distinct(kept) /\ Members(kept) \subseteq Members(q)
  <2>1. ASSUME NEW i \in DOMAIN kept
        PROVE  excess + i \in DOMAIN q /\ kept[i] = q[excess + i]
    BY <1>2, <1>4, <1>5, <1>7
  <2>2. ASSUME NEW i \in DOMAIN kept, NEW j \in DOMAIN kept, kept[i] = kept[j] PROVE i = j
    <3>1. excess + i = excess + j
      BY <1>1, <2>1, <2>2 DEF Distinct
    <3>2. QED
      BY <3>1, <1>2, <1>4, <1>7
  <2>3. QED
    BY <2>1, <2>2 DEF Distinct, Members
<1>9. Cardinality(Members(kept)) = Len(kept)
  BY <1>5, <1>8, MembersCount
<1>10. /\ DOMAIN entries' = Members(kept) /\ entries' \in [DOMAIN entries' -> Honest]
  BY <1>1, <1>6, <1>8 DEF Restricted
<1>11. DOMAIN entries' \subseteq Keys
  BY <1>1, <1>8, <1>10 DEF Agree
<1>12. QED
  BY <1>4, <1>5, <1>6, <1>8, <1>9, <1>10, <1>11 DEF Agree

(* What is loaded agrees, whatever the file holds and however often. *)
LEMMA LoadedAgrees ==
    ASSUME NEW s \in Seq(Keys \X Honest)
    PROVE  Agree(Loaded(s), LoadedOrder(s))
<1> DEFINE F == FreshIn(s)
           dom == {s[i][1] : i \in F}
           keys == [i \in DOMAIN s |-> s[i][1]]
           firsts == {i \in F : \A j \in F : s[j][1] = s[i][1] => i <= j}
<1>1. /\ Len(s) \in Nat /\ DOMAIN s = 1 .. Len(s)
      /\ \A i \in 1 .. Len(s) : s[i] \in Keys \X Honest
  BY LenProperties, ElementOfSeq
<1>2. /\ F \in SUBSET (1 .. Len(s))
      /\ \A i \in 1 .. Len(s) : s[i][1] \in Keys /\ s[i][2] \in Honest
  BY <1>1 DEF FreshIn
<1>3. ASSUME NEW k \in dom PROVE LastOf(s, k) \in F
  <2> DEFINE A == {i \in F : s[i][1] = k}
  <2>1. A \in SUBSET (1 .. Len(s)) /\ A # {}
    BY <1>2
  <2>2. \E x \in A : \A y \in A : y <= x
    <3> HIDE DEF A
    <3>1. QED
      BY <1>1, <2>1, GreatestNumber
  <2>3. \E x \in F : s[x][1] = k /\ \A y \in F : s[y][1] = k => y <= x
    BY <2>2
  <2>4. QED
    BY <2>3 DEF LastOf
<1>4. Loaded(s) = [k \in dom |-> s[LastOf(s, k)][2]]
  BY DEF Loaded
<1>5. Loaded(s) \in [dom -> Honest] /\ DOMAIN Loaded(s) = dom /\ dom \subseteq Keys
  <2>1. \A k \in dom : s[LastOf(s, k)][2] \in Honest
    BY <1>2, <1>3
  <2>2. dom \subseteq Keys
    BY <1>2
  <2> HIDE DEF dom
  <2>3. QED
    BY <1>4, <2>1, <2>2
<1>6. keys \in Seq(Keys) /\ firsts \in SUBSET DOMAIN keys
  <2>1. keys \in [1 .. Len(s) -> Keys]
    BY <1>1, <1>2
  <2>2. firsts \in SUBSET DOMAIN keys
    BY <1>1, <1>2
  <2> HIDE DEF keys
  <2>3. QED
    BY <1>1, <2>1, <2>2, IsASeq
<1>7. \A i, j \in firsts : keys[i] = keys[j] => i = j
  BY <1>1, <1>2
<1>8. {keys[i] : i \in firsts} = dom
  <2>1. ASSUME NEW k \in dom PROVE \E i \in firsts : keys[i] = k
    <3> DEFINE A == {i \in F : s[i][1] = k}
    <3>1. A \in SUBSET Nat /\ A # {}
      BY <1>1, <1>2
    <3>2. PICK x \in A : \A y \in A : x <= y
      <4> HIDE DEF A
      <4>1. QED
        BY <3>1, LeastNumber
    <3>3. x \in firsts /\ x \in DOMAIN s /\ s[x][1] = k
      BY <3>2, <1>1, <1>2
    <3>4. QED
      BY <3>3
  <2>2. ASSUME NEW i \in firsts PROVE keys[i] \in dom
    BY <1>1, <1>2
  <2> HIDE DEF firsts, keys, dom
  <2>3. QED
    BY <2>1, <2>2
<1>9. LoadedOrder(s) = Picked(keys, firsts)
  BY DEF LoadedOrder
<1>10. LoadedOrder(s) \in Seq(Keys) /\ Distinct(LoadedOrder(s)) /\ Members(LoadedOrder(s)) = dom
  <2> HIDE DEF firsts, keys, dom
  <2>1. /\ Picked(keys, firsts) \in Seq(Keys)
        /\ Members(Picked(keys, firsts)) = {keys[i] : i \in firsts}
        /\ (\A i, j \in firsts : keys[i] = keys[j] => i = j) => Distinct(Picked(keys, firsts))
    BY <1>6, PickedFacts
  <2>2. QED
    BY <2>1, <1>7, <1>8, <1>9
<1> HIDE DEF dom
<1>11. QED
  BY <1>5, <1>10 DEF Agree

(* A key is dropped from both. *)
LEMMA DropAgrees ==
    ASSUME NEW f, NEW q, Agree(f, q), NEW k
    PROVE  /\ Agree(Restricted(f, Keys \ {k}), Without(q, k))
           /\ Cardinality(DOMAIN Restricted(f, Keys \ {k})) <= Cardinality(DOMAIN f)
<1> DEFINE T == {i \in DOMAIN q : q[i] # k}
           g == Restricted(f, Keys \ {k})
<1>1. /\ q \in Seq(Keys) /\ Distinct(q) /\ Members(q) = DOMAIN f /\ f \in [DOMAIN f -> Honest]
      /\ DOMAIN f \subseteq Keys
  BY DEF Agree
<1>2. DOMAIN g = DOMAIN f \ {k} /\ g \in [DOMAIN g -> Honest]
  BY <1>1 DEF Restricted
<1>3. {q[i] : i \in T} = DOMAIN f \ {k} /\ T \in SUBSET DOMAIN q
  BY <1>1 DEF Members
<1>4. Without(q, k) = Picked(q, T)
  BY DEF Without
<1> HIDE DEF T, g
<1>5. /\ Without(q, k) \in Seq(Keys) /\ Distinct(Without(q, k))
      /\ Members(Without(q, k)) = DOMAIN f \ {k}
  BY <1>1, <1>3, <1>4, PickedFacts
<1>6. IsFiniteSet(DOMAIN f)
  BY <1>1, CacheAssumption, FS_Subset
<1>7. DOMAIN g \subseteq DOMAIN f
  BY <1>2
<1>8. Cardinality(DOMAIN g) <= Cardinality(DOMAIN f)
  BY <1>6, <1>7, FS_Subset
<1>9. Agree(g, Without(q, k))
  BY <1>1, <1>2, <1>5 DEF Agree
<1>10. QED
  BY <1>8, <1>9 DEF g

(* A key is put into both, once. *)
LEMMA PutAgrees ==
    ASSUME NEW f, NEW q, Agree(f, q), NEW k \in Keys, NEW e \in Honest
    PROVE  Agree(With(f, k, e), IF k \in DOMAIN f THEN q ELSE Append(q, k))
<1> DEFINE g == With(f, k, e)
           r == IF k \in DOMAIN f THEN q ELSE Append(q, k)
<1>1. /\ q \in Seq(Keys) /\ Distinct(q) /\ Members(q) = DOMAIN f /\ f \in [DOMAIN f -> Honest]
      /\ DOMAIN f \subseteq Keys
  BY DEF Agree
<1>2. DOMAIN g = DOMAIN f \cup {k} /\ g \in [DOMAIN g -> Honest]
  BY <1>1 DEF With
<1>3. r \in Seq(Keys) /\ Distinct(r) /\ Members(r) = DOMAIN f \cup {k}
  <2>1. CASE k \in DOMAIN f
    BY <1>1, <2>1
  <2>2. CASE k \notin DOMAIN f
    BY <1>1, <2>2, AppendMembers
  <2>3. QED
    BY <2>1, <2>2
<1>4. DOMAIN g \subseteq Keys
  BY <1>1, <1>2
<1> HIDE DEF g, r
<1>5. Agree(g, r)
  BY <1>2, <1>3, <1>4 DEF Agree
<1>6. QED
  BY <1>5 DEF g, r

(* Time passes for an entry without making it lie. *)
LEMMA OlderIsHonest ==
    ASSUME NEW e \in Honest
    PROVE  Older(e) \in Honest
<1> DEFINE n == e.age
           m == IF n > Ttl THEN n ELSE n + 1
<1>1. /\ e \in [response : {"good", "bad"}, age : Age, since : Age]
      /\ e.since = n /\ n \in 0 .. Ttl + 1
  BY DEF Honest, Entry, Age
<1>2. m \in Age
  BY <1>1, CacheAssumption DEF Age
<1>3. Older(e) = [e EXCEPT !.age = m, !.since = m]
  BY <1>1 DEF Older
<1> HIDE DEF m, n
<1>4. /\ Older(e) \in [response : {"good", "bad"}, age : Age, since : Age]
      /\ Older(e).age = m /\ Older(e).since = m
  BY <1>1, <1>2, <1>3
<1>5. QED
  BY <1>4 DEF Honest, Entry

(* What is written can be loaded. *)
LEMMA SnapshotIsHonest ==
    ASSUME CacheInv
    PROVE  Snapshot \in Seq(Keys \X Honest)
<1> DEFINE q == insertion_order
           pairs == [i \in DOMAIN q |-> <<q[i], entries[q[i]]>>]
           T == {i \in DOMAIN q : q[i] \in DOMAIN entries /\ entries[q[i]].age <= Ttl}
<1>1. /\ q \in Seq(Keys) /\ Members(q) = DOMAIN entries /\ entries \in [DOMAIN entries -> Honest]
  BY DEF CacheInv, Agree
<1>2. Len(q) \in Nat /\ DOMAIN q = 1 .. Len(q) /\ \A i \in 1 .. Len(q) : q[i] \in Keys
  BY <1>1, LenProperties, ElementOfSeq
<1>3. \A i \in DOMAIN q : q[i] \in DOMAIN entries
  BY <1>1 DEF Members
<1>4. pairs \in [1 .. Len(q) -> Keys \X Honest]
  BY <1>1, <1>2, <1>3
<1>5. pairs \in Seq(Keys \X Honest) /\ T \in SUBSET DOMAIN pairs
  <2>1. T \in SUBSET DOMAIN pairs
    OBVIOUS
  <2> HIDE DEF pairs, T
  <2>2. QED
    BY <1>2, <1>4, <2>1, IsASeq
<1>6. Snapshot = Picked(pairs, T)
  BY DEF Snapshot
<1> HIDE DEF pairs, T
<1>7. QED
  BY <1>5, <1>6, PickedFacts
-----------------------------------------------------------------------------
LEMMA CacheInitInv == CacheInit => CacheInv
<1> SUFFICES ASSUME CacheInit PROVE CacheInv
  OBVIOUS
<1>1. Agree(entries, insertion_order) /\ Cardinality(DOMAIN entries) <= MaxEntries
  BY NothingCached DEF CacheInit
<1>2. file \in Seq(Keys \X Honest)
  <2>1. CASE file = <<>>
    BY <2>1, EmptySeq
  <2>2. ASSUME NEW k \in Keys, NEW r \in {"good", "bad"}, NEW a \in Age,
               file = << <<k, [response |-> r, age |-> a, since |-> a]>> >>
        PROVE  file \in Seq(Keys \X Honest)
    <3>1. [response |-> r, age |-> a, since |-> a] \in Honest
      BY DEF Honest, Entry
    <3>2. QED
      BY <2>2, <3>1
  <2>3. QED
    BY <2>1, <2>2 DEF CacheInit
<1>3. QED
  BY <1>1, <1>2 DEF CacheInit, CacheInv

LEMMA CacheStepInv == CacheInv /\ [CacheNext]_cacheVars => CacheInv'
<1> SUFFICES ASSUME CacheInv, [CacheNext]_cacheVars PROVE CacheInv'
  OBVIOUS
<1>1. /\ Agree(entries, insertion_order) /\ Cardinality(DOMAIN entries) <= MaxEntries
      /\ file \in Seq(Keys \X Honest) /\ asked \in Keys /\ \A e \in answer : e.since <= Ttl
  BY DEF CacheInv
<1>2. CASE StartUp
  <2>1. Agree(entries', insertion_order') /\ Cardinality(DOMAIN entries') <= MaxEntries
    <3>1. CASE readable
      <4>1. Keep(Loaded(file), LoadedOrder(file))
        BY <1>2, <3>1 DEF StartUp
      <4>2. QED
        BY <1>1, <4>1, LoadedAgrees, KeepInv
    <3>2. CASE ~readable
      BY <1>1, <1>2, <3>2 DEF StartUp, stored
    <3>3. QED
      BY <3>1, <3>2
  <2>2. file' = file /\ provider' = "idle" /\ asked' = asked /\ answer' = answer
    BY <1>2 DEF StartUp, disk
  <2>3. QED
    BY <1>1, <2>1, <2>2 DEF CacheInv
<1>3. ASSUME NEW k \in Keys, Miss(k) PROVE CacheInv'
  <2>1. /\ entries' = Restricted(entries, Keys \ {k})
        /\ insertion_order' = Without(insertion_order, k)
        /\ provider' = "asking" /\ asked' = k /\ answer' = {} /\ file' = file
    BY <1>3 DEF Miss, Ask, disk
  <2>2. /\ Agree(entries', insertion_order')
        /\ Cardinality(DOMAIN entries') <= Cardinality(DOMAIN entries)
    BY <1>1, <2>1, DropAgrees
  <2>3. Cardinality(DOMAIN entries') <= MaxEntries
    <3>1. Cardinality(DOMAIN entries) \in Nat /\ Cardinality(DOMAIN entries') \in Nat
      BY <1>1, <2>2, CacheAssumption, FS_Subset, FS_CardinalityType DEF Agree
    <3>2. QED
      BY <1>1, <2>2, <3>1, CacheAssumption
  <2>4. QED
    BY <1>1, <2>1, <2>2, <2>3 DEF CacheInv
<1>4. ASSUME NEW k \in Keys, Hit(k) PROVE CacheInv'
  <2>1. /\ k \in DOMAIN entries /\ entries[k].age <= Ttl /\ answer' = {entries[k]}
        /\ UNCHANGED <<entries, insertion_order, file, provider, asked>>
    BY <1>4 DEF Hit, disk
  <2>2. entries[k].since <= Ttl
    BY <1>1, <2>1 DEF Agree, Honest
  <2>3. QED
    BY <1>1, <2>1, <2>2 DEF CacheInv
<1>5. ASSUME NEW k \in Keys, Invalidated(k) PROVE CacheInv'
  BY <1>1, <1>5, NothingCached DEF Invalidated, Ask, disk, CacheInv
<1>6. CASE AskFails
  BY <1>1, <1>6 DEF AskFails, stored, disk, CacheInv
<1>7. CASE Store
  <2>1. [response |-> "good", age |-> 0, since |-> 0] \in Honest
    BY CacheAssumption DEF Honest, Entry, Age
  <2>2. Agree(entries', insertion_order') /\ Cardinality(DOMAIN entries') <= MaxEntries
    BY <1>1, <1>7, <2>1, PutAgrees, KeepInv DEF Store, Put
  <2>3. QED
    BY <1>1, <1>7, <2>2 DEF Store, disk, CacheInv
<1>8. CASE Persist
  <2>1. file' \in Seq(Keys \X Honest)
    BY <1>1, <1>8, SnapshotIsHonest DEF Persist, disk
  <2>2. QED
    BY <1>1, <1>8, <2>1 DEF Persist, stored, CacheInv
<1>9. CASE Crash
  BY <1>1, <1>9, NothingCached DEF Crash, CacheInv
<1>10. CASE Tick
  <2>1. /\ entries' = [k \in DOMAIN entries |-> Older(entries[k])]
        /\ file' = [i \in DOMAIN file |-> <<file[i][1], Older(file[i][2])>>]
        /\ answer' = {} /\ UNCHANGED <<insertion_order, provider, asked>>
    BY <1>10 DEF Tick
  <2>2. Agree(entries', insertion_order') /\ DOMAIN entries' = DOMAIN entries
    <3>1. \A k \in DOMAIN entries : Older(entries[k]) \in Honest
      BY <1>1, OlderIsHonest DEF Agree
    <3>2. entries' \in [DOMAIN entries -> Honest] /\ DOMAIN entries' = DOMAIN entries
      BY <2>1, <3>1
    <3>3. QED
      BY <1>1, <2>1, <3>2 DEF Agree
  <2>3. file' \in Seq(Keys \X Honest)
    <3>1. Len(file) \in Nat /\ DOMAIN file = 1 .. Len(file)
          /\ \A i \in 1 .. Len(file) : file[i] \in Keys \X Honest
      BY <1>1, LenProperties, ElementOfSeq
    <3>2. \A i \in 1 .. Len(file) : file[i][1] \in Keys /\ Older(file[i][2]) \in Honest
      BY <3>1, OlderIsHonest
    <3>3. file' \in [1 .. Len(file) -> Keys \X Honest]
      BY <2>1, <3>1, <3>2
    <3>4. QED
      BY <3>1, <3>3, IsASeq
  <2>4. QED
    BY <1>1, <2>1, <2>2, <2>3 DEF CacheInv
<1>11. CASE UNCHANGED cacheVars
  BY <1>11 DEF cacheVars, stored, disk, CacheInv
<1>12. QED
  BY <1>2, <1>3, <1>4, <1>5, <1>6, <1>7, <1>8, <1>9, <1>10, <1>11 DEF CacheNext

(* insertion_order_, which drives eviction, and entries_ hold the same     *)
(* keys through expiry, eviction, clearing, repeated puts, crashes and     *)
(* reloads, and no more of them than max_entries_.                         *)
THEOREM CacheOrderIsExact == CacheSpec => []OrderMatchesEntries
<1>1. CacheInv => OrderMatchesEntries
  <2> SUFFICES ASSUME CacheInv PROVE OrderMatchesEntries
    OBVIOUS
  <2>1. /\ insertion_order \in Seq(Keys) /\ Distinct(insertion_order)
        /\ Members(insertion_order) = DOMAIN entries /\ DOMAIN entries \subseteq Keys
        /\ Cardinality(DOMAIN entries) <= MaxEntries
        /\ \A k \in DOMAIN entries : entries[k] \in Entry
    BY DEF CacheInv, Agree, Honest
  <2>2. Len(insertion_order) <= Cardinality(Keys)
    <3>1. Cardinality(Members(insertion_order)) = Len(insertion_order)
      BY <2>1, MembersCount
    <3>2. Cardinality(DOMAIN entries) <= Cardinality(Keys)
      BY <2>1, CacheAssumption, FS_Subset
    <3>3. QED
      BY <3>1, <3>2, <2>1
  <2>3. \A i \in DOMAIN file : file[i] \in Keys \X Entry
    <3>1. \A i \in DOMAIN file : file[i] \in Keys \X Honest
      BY DEF CacheInv
    <3>2. Honest \subseteq Entry
      BY DEF Honest
    <3>3. QED
      BY <3>1, <3>2
  <2>4. QED
    BY <2>1, <2>2, <2>3 DEF OrderMatchesEntries, CacheTypeOK, CacheInv
<1>2. QED
  BY <1>1, CacheInitInv, CacheStepInv, PTL DEF CacheSpec

(* get() serves nothing that the service gave longer ago than the TTL,     *)
(* through any number of processes that wrote and loaded the snapshot.     *)
THEOREM CacheHitsAreFresh == CacheSpec => []HitsAreFresh
<1>1. CacheInv => HitsAreFresh
  BY DEF CacheInv, HitsAreFresh
<1>2. QED
  BY <1>1, CacheInitInv, CacheStepInv, PTL DEF CacheSpec
=============================================================================
