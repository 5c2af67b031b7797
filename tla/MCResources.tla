---------------------------- MODULE MCResources ----------------------------
(***************************************************************************)
(* The three self-contained resource managers: the connection pool, the    *)
(* thread pool and the provider's response cache.  They share no state, so *)
(* a behaviour picks one of them and exercises it alone; the others stay   *)
(* as they were constructed.                                               *)
(***************************************************************************)
EXTENDS ConnectionPool, ThreadPool, ResponseCache

VARIABLE part      \* the manager this behaviour is about

ASSUME ResourcesAssumption == ThreadsAssumption

all == <<part, vars, threads, cacheVars>>

(* The cache finds a file only when it is looked at. *)
ResourcesInit ==
    /\ part \in {"connections", "threads", "cache"}
    /\ Init /\ ThreadsInit /\ CacheInit
    /\ part # "cache" => file = <<>> /\ readable /\ asked = CHOOSE k \in Keys : TRUE

ResourcesNext ==
    /\ UNCHANGED part
    /\ \/ part = "connections" /\ Next /\ UNCHANGED <<threads, cacheVars>>
       \/ part = "threads" /\ ThreadsNext /\ UNCHANGED <<vars, cacheVars>>
       \/ part = "cache" /\ CacheNext /\ UNCHANGED <<vars, threads>>

(* Threads make progress; nobody has to submit, or to shut the pool down.  *)
ResourcesSpec ==
    /\ ResourcesInit
    /\ [][ResourcesNext]_all
    /\ part = "threads" => Fairness
=============================================================================
