--------------------------- MODULE ResponseCache ---------------------------
(***************************************************************************)
(* The LLM provider's response cache (providers/llm/response_cache.cpp)    *)
(* and its use by LLMCapabilityProvider: look a prompt up, ask the         *)
(* service on a miss, store what parsed and write the whole cache to the   *)
(* snapshot file, which a later process loads.                             *)
(*                                                                         *)
(* A timestamp is the age it gives its entry: in ticks of the clock,       *)
(* counted no further than one past the TTL.                               *)
(***************************************************************************)
EXTENDS Dag

CONSTANTS Keys,          \* key fingerprints
          MaxEntries,    \* max_entries_
          Ttl            \* ttl_, in ticks

ASSUME CacheAssumption ==
    /\ IsFiniteSet(Keys)
    /\ MaxEntries \in Nat
    /\ Ttl \in Nat

Age == 0 .. Ttl + 1

(* age is what inserted_at says; since counts from when the service gave   *)
(* the response, whatever the timestamps say.                              *)
Entry == [response : {"good", "bad"}, age : Age, since : Age]

Older(e) == [e EXCEPT !.age  = IF @ > Ttl THEN @ ELSE @ + 1,
                      !.since = IF @ > Ttl THEN @ ELSE @ + 1]

VARIABLES
    entries,           \* entries_: a function from the keys present
    insertion_order,   \* insertion_order_
    file,              \* the snapshot file: <<key, entry>> pairs
    readable,          \* whether it parses
    provider, asked,   \* "down", "idle", "persisting" or "asking" for a key
    answer             \* the entry a hit returned last, or {}

stored    == <<entries, insertion_order>>
disk      == <<file, readable>>
cacheVars == <<stored, disk, provider, asked, answer>>

Without(s, k) == Picked(s, {i \in DOMAIN s : s[i] # k})
Restricted(f, S) == [k \in DOMAIN f \cap S |-> f[k]]
With(f, k, e) == [x \in DOMAIN f \cup {k} |-> IF x = k THEN e ELSE f[x]]

(* The files a process may find: written by this cache at some time, for   *)
(* this or another program, whose types the responses need not fit.        *)
CacheInit ==
    /\ entries = <<>>
    /\ insertion_order = <<>>
    /\ file \in {<<>>} \cup
          {<< <<k, [response |-> r, age |-> a, since |-> a]>> >> :
              k \in Keys, r \in {"good", "bad"}, a \in Age}
    /\ readable \in BOOLEAN
    /\ provider = "down"
    /\ asked \in Keys
    /\ answer = {}
-----------------------------------------------------------------------------
(* evict_to_capacity_locked drops from the front of insertion_order_. *)
Keep(f, order) ==
    LET excess == IF Cardinality(DOMAIN f) > MaxEntries
                    THEN Cardinality(DOMAIN f) - MaxEntries ELSE 0
        kept   == SubSeq(order, excess + 1, Len(order))
    IN  /\ entries' = Restricted(f, Members(kept))
        /\ insertion_order' = kept

(* load_snapshot: of the entries that are fresh, the last one of a key is  *)
(* what it maps to, and the first one its place in the order.  A file has  *)
(* wall-clock times, which the code turns into ages and refuses when they  *)
(* lie in the future; with a clock that is never set back there are none.  *)
FreshIn(s) == {i \in DOMAIN s : s[i][2].age <= Ttl}

LastOf(s, k) ==
    CHOOSE i \in FreshIn(s) : /\ s[i][1] = k
                              /\ \A j \in FreshIn(s) : s[j][1] = k => j <= i

LoadedOrder(s) ==
    Picked([i \in DOMAIN s |-> s[i][1]],
           {i \in FreshIn(s) : \A j \in FreshIn(s) : s[j][1] = s[i][1] => i <= j})

(* Slip: a loaded entry counts from the load. *)
LoadedAsNew(s) ==
    [k \in {s[i][1] : i \in FreshIn(s)} |-> [s[LastOf(s, k)][2] EXCEPT !.age = 0]]

Loaded(s) == [k \in {s[i][1] : i \in FreshIn(s)} |-> s[LastOf(s, k)][2]]

(* The provider's constructor. *)
StartUp ==
    /\ provider = "down"
    /\ IF readable
         THEN Keep(Loaded(file), LoadedOrder(file))
         ELSE UNCHANGED stored
    /\ provider' = "idle"
    /\ UNCHANGED <<disk, asked, answer>>

Ask(k) == provider' = "asking" /\ asked' = k /\ answer' = {}

(* Slip: expiry takes the entry out of the map only. *)
MissKeepsOrder(k) ==
    /\ provider = "idle"
    /\ k \in DOMAIN entries => entries[k].age > Ttl
    /\ entries' = Restricted(entries, Keys \ {k})
    /\ Ask(k)
    /\ UNCHANGED <<insertion_order, disk>>

(* get: an expired entry is dropped on the way. *)
Miss(k) ==
    /\ provider = "idle"
    /\ k \in DOMAIN entries => entries[k].age > Ttl
    /\ entries' = Restricted(entries, Keys \ {k})
    /\ insertion_order' = Without(insertion_order, k)
    /\ Ask(k)
    /\ UNCHANGED disk

Hit(k) ==
    /\ provider = "idle"
    /\ k \in DOMAIN entries
    /\ entries[k].age <= Ttl
    /\ entries[k].response = "good"
    /\ answer' = {entries[k]}
    /\ UNCHANGED <<entries, insertion_order, disk, provider, asked>>

(* A hit that does not parse as the return type empties the cache and goes *)
(* on as a miss.                                                           *)
Invalidated(k) ==
    /\ provider = "idle"
    /\ k \in DOMAIN entries
    /\ entries[k].age <= Ttl
    /\ entries[k].response = "bad"
    /\ entries' = <<>>
    /\ insertion_order' = <<>>
    /\ Ask(k)
    /\ UNCHANGED disk

(* The service failed, or what it said is empty or does not parse. *)
AskFails ==
    /\ provider = "asking"
    /\ provider' = "idle"
    /\ UNCHANGED <<stored, disk, asked, answer>>

(* put of a key that may already be there. *)
Put(k, e) ==
    Keep(With(entries, k, e),
         IF k \in DOMAIN entries THEN insertion_order ELSE Append(insertion_order, k))

Store ==
    /\ provider = "asking"
    /\ Put(asked, [response |-> "good", age |-> 0, since |-> 0])
    /\ provider' = "persisting"
    /\ UNCHANGED <<disk, asked, answer>>

(* What snapshot() writes: in insertion order, without expired entries. *)
Snapshot ==
    Picked([i \in DOMAIN insertion_order |-> <<insertion_order[i], entries[insertion_order[i]]>>],
           {i \in DOMAIN insertion_order :
               /\ insertion_order[i] \in DOMAIN entries
               /\ entries[insertion_order[i]].age <= Ttl})

(* persist_response_cache_snapshot truncates the file before it writes, so *)
(* that a failing write leaves it broken; one that cannot open it leaves   *)
(* it alone.  The call succeeds all the same.                              *)
Persist ==
    /\ provider = "persisting"
    /\ \/ file' = Snapshot /\ readable' = TRUE
       \/ readable' = FALSE /\ UNCHANGED file
       \/ UNCHANGED disk
    /\ provider' = "idle"
    /\ UNCHANGED <<stored, asked, answer>>

Crash ==
    /\ provider # "down"
    /\ provider' = "down"
    /\ entries' = <<>>
    /\ insertion_order' = <<>>
    /\ answer' = {}
    /\ readable' \in IF provider = "persisting" THEN {FALSE, readable} ELSE {readable}
    /\ UNCHANGED <<file, asked>>

Tick ==
    /\ entries' = [k \in DOMAIN entries |-> Older(entries[k])]
    /\ file' = [i \in DOMAIN file |-> <<file[i][1], Older(file[i][2])>>]
    /\ answer' = {}
    /\ UNCHANGED <<insertion_order, readable, provider, asked>>

CacheNext ==
    \/ StartUp \/ AskFails \/ Store \/ Persist \/ Crash \/ Tick
    \/ \E k \in Keys : Miss(k) \/ Hit(k) \/ Invalidated(k)

CacheSpec == CacheInit /\ [][CacheNext]_cacheVars
-----------------------------------------------------------------------------
CacheTypeOK ==
    /\ DOMAIN entries \subseteq Keys
    /\ \A k \in DOMAIN entries : entries[k] \in Entry
    /\ insertion_order \in Seq(Keys)
    /\ Len(insertion_order) <= Cardinality(Keys)
    /\ \A i \in DOMAIN file : file[i] \in Keys \X Entry
    /\ provider \in {"down", "idle", "asking", "persisting"}

(* The list that drives eviction and the map agree: each key present is    *)
(* listed once, and nothing else is, through expiry, clearing, reloading   *)
(* and repeated puts; and there are never more than max_entries_ of them.  *)
OrderMatchesEntries ==
    /\ CacheTypeOK
    /\ Cardinality(DOMAIN entries) <= MaxEntries
    /\ Members(insertion_order) = DOMAIN entries
    /\ Distinct(insertion_order)

(* A response served from the cache was given by the service at most a TTL *)
(* ago, even when it went through the snapshot file of earlier processes.  *)
HitsAreFresh == \A e \in answer : e.since <= Ttl
=============================================================================
