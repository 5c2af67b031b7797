--------------------------- MODULE SecretRotation ---------------------------
(***************************************************************************)
(* Secrets: a chain that routes a key by its prefix to the environment, a  *)
(* vault or a cloud secret manager, the last two with a cache in front of  *)
(* a service reached over HTTP; SecretManager, which records accesses; and *)
(* KeyRotationManager, which refreshes the keys that have a policy.  Every *)
(* request may fail, and the service may change a secret between any two   *)
(* of them.  A secret is a version number, so newer and older are told     *)
(* apart.                                                                  *)
(***************************************************************************)
EXTENDS Integers, FiniteSets, SequencesExt

CONSTANTS
    Vaulted, Clouded, Plain, Stray,   \* keys by prefix: vault, cloud, none, unknown
    Interval,        \* policy.interval of every policy
    Retries,         \* values of policy.max_retries
    Width,           \* std::size_t counts modulo Width
    MaxVersion, MaxClock, MaxOps   \* bounds of the model

SecretsAssumption ==
    /\ Vaulted \cup Clouded \cup Plain \cup Stray # {}
    /\ Interval \in Int
    /\ Retries \subseteq Nat
    /\ Width \in Nat \ {0}

AllKeys == Vaulted \cup Clouded \cup Plain \cup Stray
Cached  == Vaulted \cup Clouded
AnyKey  == CHOOSE k \in AllKeys : TRUE

VARIABLES
    service,         \* key -> version at the service
    cache,           \* cache_ of the two providers: key -> set of versions
    authenticated,   \* authenticated_ of the vault provider
    policies,        \* policies_: key -> max_retries, for the keys with one
    last_rotation,   \* key -> set of times
    clock,
    pc, key, attempts, old, new,    \* rotate_key
    began,           \* when rotate_key read the clock
    todo, now,       \* the keys check_and_rotate has yet to visit; its time, in a set
    failed,          \* keys whose rotation failed in this check
    event,           \* the last rotation event
    audit,           \* the last entry of the access log
    ops,             \* operations begun
    floor, started   \* version current when the last good rotation, this one, began

secrets == <<service, cache, authenticated, policies, last_rotation, clock, pc,
             key, attempts, old, new, began, todo, now, failed, event, audit,
             ops, floor, started>>

RotationInit ==
    /\ service = [k \in AllKeys |-> 1]
    /\ cache = [k \in Cached |-> {}]
    /\ authenticated = FALSE
    /\ policies = << >>
    /\ last_rotation = [k \in AllKeys |-> {}]
    /\ clock = 0 /\ began = 0 /\ ops = 0
    /\ pc = "idle" /\ key = AnyKey /\ attempts = 0 /\ old = {} /\ new = {}
    /\ todo = {} /\ now = {} /\ failed = {}
    /\ event = [status |-> "Idle", attempts |-> 0, limit |-> 0, value |-> {}, since |-> 0]
    /\ audit = [kind |-> "None", success |-> FALSE]
    /\ floor = [k \in AllKeys |-> 0] /\ started = 0
-----------------------------------------------------------------------------
(* The results resolve() of the chain may have: the cached version, or what *)
(* the service answers.  An unknown prefix and a vault one is not logged in *)
(* to have nothing; the environment is read, not asked, and has every plain *)
(* key; it is the only default provider.                                    *)
Resolutions(k, kept) ==
    IF k \in Stray \/ (k \in Vaulted /\ ~authenticated) THEN {{}}
    ELSE IF k \in Plain THEN {{service[k]}}
    ELSE IF kept[k] # {} THEN {kept[k]}
    ELSE {{}, {service[k]}}

Keep(k, kept, value) ==
    IF k \in Cached /\ value # {} THEN [kept EXCEPT ![k] = value] ELSE kept

(* Slip: refresh() asks the provider without dropping what it has cached. *)
DroppedNever(k) == cache

(* What refresh() erases before it resolves the key again. *)
Dropped(k) == IF k \in Cached THEN [cache EXCEPT ![k] = {}] ELSE cache

rotation == <<pc, key, attempts, old, new, began, todo, now, failed, event, started>>
world    == <<service, clock>>
manager  == <<policies, last_rotation, floor>>

Begin == pc = "idle" /\ ops < MaxOps /\ ops' = ops + 1

(* SecretManager::get *)
Get(k) ==
    /\ Begin
    /\ \E value \in Resolutions(k, cache) :
          /\ cache' = Keep(k, cache, value)
          /\ audit' = [kind |-> "Resolve", success |-> value # {}]
    /\ UNCHANGED <<rotation, world, manager, authenticated>>

(* SecretManager::refresh logs a success whatever the provider found. *)
Refresh(k) ==
    /\ Begin
    /\ \E value \in Resolutions(k, Dropped(k)) : cache' = Keep(k, Dropped(k), value)
    /\ audit' = [kind |-> "Refresh", success |-> TRUE]
    /\ UNCHANGED <<rotation, world, manager, authenticated>>

(* VaultSecretProvider: logging in may fail, and keeps the session there is. *)
Authenticate ==
    /\ Begin
    /\ authenticated' \in {authenticated, TRUE}
    /\ UNCHANGED <<rotation, world, manager, cache, audit>>

RevokeToken ==
    /\ Begin
    /\ authenticated' = FALSE
    /\ cache' = [k \in Cached |-> IF k \in Vaulted THEN {} ELSE cache[k]]
    /\ UNCHANGED <<rotation, world, manager, audit>>

AddPolicy(k, retries) ==
    /\ Begin
    /\ policies' = [j \in DOMAIN policies \cup {k} |-> IF j = k THEN retries ELSE policies[j]]
    /\ UNCHANGED <<rotation, world, last_rotation, floor, cache, authenticated, audit>>

(* The time of the last rotation outlives the policy. *)
RemovePolicy(k) ==
    /\ Begin
    /\ policies' = [j \in DOMAIN policies \ {k} |-> policies[j]]
    /\ UNCHANGED <<rotation, world, last_rotation, floor, cache, authenticated, audit>>
-----------------------------------------------------------------------------
Due(k) == \A t \in last_rotation[k], n \in now : n - t >= Interval

(* max(1, max_retries + 1), the sum being taken modulo Width. *)
MaxAttempts(k) ==
    IF k \in DOMAIN policies THEN Max({1, (policies[k] + 1) % Width}) ELSE 1

(* The part of rotate_key() before its loop. *)
StartRotation(k) ==
    /\ key' = k /\ attempts' = 0 /\ new' = {} /\ began' = clock
    /\ started' = service[k]
    /\ old' \in Resolutions(k, cache)
    /\ cache' = Keep(k, cache, old')
    /\ pc' = "refresh"

CheckAndRotate ==
    /\ Begin
    /\ pc' = "check" /\ todo' = DOMAIN policies /\ now' = {clock} /\ failed' = {}
    /\ UNCHANGED <<key, attempts, old, new, began, event, started, world, manager, cache, authenticated, audit>>

(* The map of policies is walked in an order of its own. *)
CheckKey(k) ==
    /\ pc = "check" /\ k \in todo
    /\ todo' = todo \ {k}
    /\ IF Due(k) THEN StartRotation(k)
       ELSE UNCHANGED <<key, attempts, old, new, began, started, cache, pc>>
    /\ UNCHANGED <<now, failed, event, world, manager, authenticated, audit, ops>>

CheckDone ==
    /\ pc = "check" /\ todo = {}
    /\ pc' = "checked"
    /\ UNCHANGED <<key, attempts, old, new, began, todo, now, failed, event, started,
                   world, manager, cache, authenticated, audit, ops>>

CheckReturned ==
    /\ pc = "checked"
    /\ pc' = "idle" /\ now' = {} /\ failed' = {}
    /\ UNCHANGED <<key, attempts, old, new, began, todo, event, started,
                   world, manager, cache, authenticated, audit, ops>>

(* rotate_key() called for one key. *)
RotateKey(k) ==
    /\ Begin
    /\ StartRotation(k)
    /\ UNCHANGED <<todo, now, failed, event, world, manager, authenticated, audit>>

TryRefresh ==
    /\ pc = "refresh" /\ attempts < MaxAttempts(key)
    /\ \E value \in Resolutions(key, Dropped(key)) : cache' = Keep(key, Dropped(key), value)
    /\ attempts' = attempts + 1
    /\ pc' = "resolve"
    /\ UNCHANGED <<key, old, new, began, todo, now, failed, event, started, world, manager,
                   authenticated, audit, ops>>

TryResolve ==
    /\ pc = "resolve"
    /\ new' \in Resolutions(key, cache)
    /\ cache' = Keep(key, cache, new')
    /\ pc' = IF new' # {} \/ attempts = MaxAttempts(key) THEN "record" ELSE "refresh"
    /\ UNCHANGED <<key, attempts, old, began, todo, now, failed, event, started, world, manager,
                   authenticated, audit, ops>>

(* The event; only a rotation that obtained a value resets the interval. *)
RecordRotation ==
    /\ pc = "record"
    /\ pc' = IF now # {} THEN "check" ELSE "idle"
    /\ event' = [status |-> IF new # {} THEN "Completed" ELSE "Failed", attempts |-> attempts,
                 limit |-> MaxAttempts(key), value |-> new, since |-> started]
    /\ IF new # {}
       THEN /\ last_rotation' = [last_rotation EXCEPT ![key] = {began}]
            /\ floor' = [floor EXCEPT ![key] = started]
            /\ UNCHANGED failed
       ELSE /\ failed' = failed \cup {key}
            /\ UNCHANGED <<last_rotation, floor>>
    /\ key' = AnyKey /\ attempts' = 0 /\ old' = {} /\ new' = {} /\ began' = 0 /\ started' = 0
    /\ UNCHANGED <<todo, now, world, policies, cache, authenticated, audit, ops>>

(* The service gets a new secret, and time passes, at any moment. *)
ServiceChanges(k) ==
    /\ k \notin Stray /\ service[k] < MaxVersion
    /\ service' = [service EXCEPT ![k] = @ + 1]
    /\ UNCHANGED <<rotation, clock, manager, cache, authenticated, audit, ops>>

Tick ==
    /\ clock < MaxClock
    /\ clock' = clock + 1
    /\ UNCHANGED <<rotation, service, manager, cache, authenticated, audit, ops>>

RotationNext ==
    \/ \E k \in AllKeys :
          \/ Get(k) \/ Refresh(k) \/ RemovePolicy(k) \/ RotateKey(k) \/ CheckKey(k)
          \/ ServiceChanges(k)
          \/ \E r \in Retries : AddPolicy(k, r)
    \/ Authenticate \/ RevokeToken
    \/ CheckAndRotate \/ CheckDone \/ CheckReturned
    \/ TryRefresh \/ TryResolve \/ RecordRotation
    \/ Tick

RotationSpec == RotationInit /\ [][RotationNext]_secrets
-----------------------------------------------------------------------------
TypeOK ==
    /\ service \in [AllKeys -> Nat] /\ floor \in [AllKeys -> Nat] /\ started \in Nat
    /\ cache \in [Cached -> SUBSET Nat]
    /\ DOMAIN policies \subseteq AllKeys /\ \A k \in DOMAIN policies : policies[k] \in Retries
    /\ last_rotation \in [AllKeys -> SUBSET Int]
    /\ clock \in Int /\ began \in Int /\ now \subseteq Int
    /\ pc \in {"idle", "check", "checked", "refresh", "resolve", "record"}
    /\ key \in AllKeys /\ todo \subseteq AllKeys
    /\ attempts \in Nat /\ new \subseteq Nat

(* The check in progress has nothing left to do for this key: its rotation *)
(* failed, was made during the check, or is less than an interval old.     *)
Settled(k) ==
    k \in failed \/ \E t \in last_rotation[k], n \in now : t >= n \/ n - t < Interval

(* A rotation that says it completed served a secret the service held when *)
(* the rotation began or later, and from then on no older one is served    *)
(* from a cache; one that failed made every attempt its policy allows and  *)
(* at least one.  When check_and_rotate() returns, each key with a policy  *)
(* was rotated in the check or less than an interval before it, or is      *)
(* reported to have failed.  A vault that is logged out serves nothing it  *)
(* once cached.                                                            *)
RotationIsFresh ==
    /\ event.status = "Completed" => \A v \in event.value : v >= event.since
    /\ event.status = "Failed" => event.attempts = event.limit /\ event.attempts >= 1
    /\ \A k \in Cached : \A v \in cache[k] : v >= floor[k]
    /\ pc = "checked" => \A k \in DOMAIN policies : Settled(k)
    /\ ~authenticated => \A k \in Vaulted : cache[k] = {}

Rotating == pc \in {"refresh", "resolve", "record"}

(* Why it holds: versions only grow, so what is asked for during a         *)
(* rotation is at least as new as what was current when it began, and the  *)
(* refresh has dropped whatever was older; and the keys a check has passed *)
(* stay settled while it rotates the others.                               *)
FreshInv ==
    /\ TypeOK
    /\ RotationIsFresh
    /\ \A k \in AllKeys : floor[k] <= service[k]
    /\ \A n \in now : n <= clock
    /\ Rotating => started <= service[key] /\ \A n \in now : n <= began
    /\ pc = "resolve" => \A k \in Cached \cap {key} : \A v \in cache[k] : v >= started
    /\ pc = "record" =>
          /\ \A v \in new : v >= started
          /\ IF new = {} THEN attempts = MaxAttempts(key)
             ELSE \A k \in Cached \cap {key} : cache[k] = new
    /\ pc = "idle" => now = {}
    /\ pc = "checked" => todo = {}
    /\ pc \in {"check", "checked"} => \A k \in DOMAIN policies \ todo : Settled(k)
    /\ Rotating /\ now # {} => \A k \in DOMAIN policies \ (todo \cup {key}) : Settled(k)
=============================================================================
