--------------------------- MODULE ConnectionPool ---------------------------
(***************************************************************************)
(* ConnectionPool (runtime/engine/connection_pool.cpp): the limiter of     *)
(* outgoing calls, shared by all threads.  Every public operation is one   *)
(* critical section.  A client owns up to two Lease objects: "held", and   *)
(* "fresh" for what try_acquire returned before it is moved into held.     *)
(* Clients of the raw interface (record_start, record_end) end only what   *)
(* they started.                                                           *)
(***************************************************************************)
EXTENDS Integers, FiniteSets

CONSTANTS Clients, Hosts,
          NoHost,           \* a Lease with no pool
          MaxConnections,   \* Config::max_connections
          MaxPerHost        \* Config::max_per_host

ASSUME PoolAssumption ==
    /\ IsFiniteSet(Clients) /\ IsFiniteSet(Hosts)
    /\ NoHost \notin Hosts
    /\ MaxConnections \in Nat
    /\ MaxPerHost \in Nat

VARIABLES hosts_,         \* hosts with an entry
          active_count,   \* HostEntry::active_count, 0 without an entry
          idle,           \* entries not used for longer than idle_timeout
          total_active,
          held, fresh,    \* each client's Lease objects
          started         \* <<client, host>>: record_start not yet ended

vars == <<hosts_, active_count, idle, total_active, held, fresh, started>>

Init ==
    /\ hosts_ = {}
    /\ active_count = [h \in Hosts |-> 0]
    /\ idle = {}
    /\ total_active = 0
    /\ held = [c \in Clients |-> NoHost]
    /\ fresh = [c \in Clients |-> NoHost]
    /\ started = {}

(* Both counters go up, and the entry is fresh. *)
CountIn(h) ==
    /\ hosts_' = hosts_ \cup {h}
    /\ active_count' = [active_count EXCEPT ![h] = @ + 1]
    /\ idle' = idle \ {h}
    /\ total_active' = total_active + 1

(* record_end: nothing happens without an entry or an active connection.   *)
RecordEnd(h) ==
    IF h \in hosts_ /\ active_count[h] > 0
      THEN /\ active_count' = [active_count EXCEPT ![h] = @ - 1]
           /\ idle' = idle \ {h}
           /\ total_active' = total_active - 1
           /\ UNCHANGED hosts_
      ELSE UNCHANGED <<hosts_, active_count, idle, total_active>>

(* The two tests of try_acquire; a host without entry has count 0. *)
HasRoom(h) == total_active < MaxConnections /\ active_count[h] < MaxPerHost

Acquire(c, h) ==
    /\ fresh[c] = NoHost
    /\ HasRoom(h)
    /\ CountIn(h)
    /\ fresh' = [fresh EXCEPT ![c] = h]
    /\ UNCHANGED <<held, started>>

(* An empty Lease.  A refusal for the host's sake has looked the entry up  *)
(* with operator[], which makes one whose last_activity is the epoch.      *)
Refuse(c, h) ==
    /\ fresh[c] = NoHost
    /\ ~HasRoom(h)
    /\ IF total_active < MaxConnections /\ h \notin hosts_
         THEN hosts_' = hosts_ \cup {h} /\ idle' = idle \cup {h}
         ELSE UNCHANGED <<hosts_, idle>>
    /\ UNCHANGED <<active_count, total_active, held, fresh, started>>

(* Slip: move assignment forgets the lease it overwrites. *)
AssignOver(c) ==
    /\ held' = [held EXCEPT ![c] = fresh[c]]
    /\ fresh' = [fresh EXCEPT ![c] = NoHost]
    /\ UNCHANGED <<hosts_, active_count, idle, total_active, started>>

(* held = std::move(fresh): what held owned is released first. *)
MoveAssign(c) ==
    /\ IF held[c] = NoHost
         THEN UNCHANGED <<hosts_, active_count, idle, total_active>>
         ELSE RecordEnd(held[c])
    /\ held' = [held EXCEPT ![c] = fresh[c]]
    /\ fresh' = [fresh EXCEPT ![c] = NoHost]
    /\ UNCHANGED started

(* release(), or the destructor of a Lease that owns a slot. *)
Release(c) ==
    /\ held[c] # NoHost
    /\ RecordEnd(held[c])
    /\ held' = [held EXCEPT ![c] = NoHost]
    /\ UNCHANGED <<fresh, started>>

(* record_start tests nothing: its callers asked can_connect before, in    *)
(* another critical section, and the answer may be out of date.            *)
RawStart(c, h) ==
    /\ <<c, h>> \notin started
    /\ CountIn(h)
    /\ started' = started \cup {<<c, h>>}
    /\ UNCHANGED <<held, fresh>>

RawEnd(c, h) ==
    /\ <<c, h>> \in started
    /\ RecordEnd(h)
    /\ started' = started \ {<<c, h>>}
    /\ UNCHANGED <<held, fresh>>

(* An entry's last use comes to lie further back than idle_timeout. *)
GrowIdle(h) ==
    /\ h \in hosts_ \ idle
    /\ idle' = idle \cup {h}
    /\ UNCHANGED <<hosts_, active_count, total_active, held, fresh, started>>

EvictIdle ==
    LET gone == {h \in idle : active_count[h] = 0}
    IN  /\ gone # {}
        /\ hosts_' = hosts_ \ gone
        /\ idle' = idle \ gone
        /\ UNCHANGED <<active_count, total_active, held, fresh, started>>

Next ==
    \/ \E c \in Clients, h \in Hosts :
          Acquire(c, h) \/ Refuse(c, h) \/ RawStart(c, h) \/ RawEnd(c, h)
    \/ \E c \in Clients : MoveAssign(c) \/ Release(c)
    \/ \E h \in Hosts : GrowIdle(h)
    \/ EvictIdle

Spec == Init /\ [][Next]_vars
-----------------------------------------------------------------------------
TypeOK ==
    /\ hosts_ \subseteq Hosts
    /\ active_count \in [Hosts -> Nat]
    /\ idle \subseteq hosts_
    /\ total_active \in Nat
    /\ held \in [Clients -> Hosts \cup {NoHost}]
    /\ fresh \in [Clients -> Hosts \cup {NoHost}]
    /\ started \subseteq Clients \X Hosts

(* The slots taken on h, by a Lease of either kind or raw, and the leases  *)
(* on all hosts.                                                           *)
HeldOn(h) == {c \in Clients : held[c] = h}
FreshOn(h) == {c \in Clients : fresh[c] = h}
LeasesOn(h) == Cardinality(HeldOn(h)) + Cardinality(FreshOn(h))

RawOn(h) == Cardinality({c \in Clients : <<c, h>> \in started})

Leases == Cardinality(Clients \ HeldOn(NoHost)) + Cardinality(Clients \ FreshOn(NoHost))

(* Through moves, releases, evictions and raw use, every host's counter is *)
(* the number of slots really taken on it, and the total is theirs:        *)
(* nothing leaks and no slot is given back twice.  Whatever raw users do,  *)
(* leases alone never pass either limit.  An entry in use is not evicted,  *)
(* so the end of a connection always finds its counter.                    *)
SlotsAreExact ==
    /\ TypeOK
    /\ \A h \in Hosts : active_count[h] = LeasesOn(h) + RawOn(h)
    /\ total_active = Leases + Cardinality(started)
    /\ \A h \in Hosts : LeasesOn(h) <= MaxPerHost
    /\ Leases <= MaxConnections
    /\ \A h \in Hosts : active_count[h] > 0 => h \in hosts_
=============================================================================
