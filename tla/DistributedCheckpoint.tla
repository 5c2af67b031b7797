------------------------ MODULE DistributedCheckpoint ------------------------
(***************************************************************************)
(* DistributedScheduler::checkpoint and restore                            *)
(* (runtime/engine/distributed.cpp): the snapshot of an agent is put to    *)
(* the remote endpoints in order of priority and, when none of them        *)
(* confirms it, into a local file.  A request may be applied and its       *)
(* answer lost, a process may die between any two steps, and a checkpoint  *)
(* is named by agent and millisecond, so that two of them may share a      *)
(* name.                                                                   *)
(*                                                                         *)
(* The remote store is external: it keeps what is put and answers a get of *)
(* the exact name.  Millisecond stamps have the same number of digits, so  *)
(* that no complete name is the beginning of another.  Snapshots are       *)
(* opaque; what a failed or interrupted write leaves behind is Torn and    *)
(* does not deserialize.                                                   *)
(***************************************************************************)
EXTENDS Integers, Sequences, FiniteSets

CONSTANTS Agents,
          Starting(_),   \* the agents whose name starts with that of this one
          Snapshots,
          Endpoints,     \* get_sorted_endpoints, highest priority first
          Strategies,    \* the FailoverStrategy values to consider
          MaxRetries,    \* FailoverPolicy::max_retries
          MaxTime,       \* bound: milliseconds
          MaxCalls,      \* bound: calls of checkpoint
          WriteFaults,   \* may the disk refuse bytes of a file it opened?
          Nothing, Torn

ASSUME CheckpointAssumption ==
    /\ \A a \in Agents : a \in Starting(a) /\ Starting(a) \subseteq Agents
    /\ Strategies \subseteq {"Retry", "Reschedule", "Abort"}
    /\ MaxRetries \in Nat /\ MaxTime \in Nat /\ MaxCalls \in Nat
    /\ WriteFaults \in BOOLEAN
    /\ {Nothing, Torn} \cap Snapshots = {} /\ Nothing # Torn
    /\ Nothing \notin {"Stored", "Created"}
    /\ Len(Endpoints) \in Nat /\ DOMAIN Endpoints = 1 .. Len(Endpoints)

VARIABLES
    strategy,       \* FailoverPolicy::strategy
    clock,          \* system_clock, in milliseconds
    remote,         \* what each endpoint keeps under each name
    disk, temp,     \* the .snapshot and the .snapshot.tmp files
    call,           \* the call of checkpoint in progress
    given,          \* all snapshots that checkpoint was ever given for a name
    confirmed,      \* the last status reported for a name, if it was not Failed
    restored,       \* what the last restore was asked, could reach and returned
    calls

vars == <<strategy, clock, remote, disk, temp, call, given, confirmed, restored, calls>>

Names  == Agents \X (0 .. MaxTime)
Places == DOMAIN Endpoints
Stored == Snapshots \cup {Nothing}

Idle   == [step |-> "idle"]
NoRestore == [name |-> Nothing]

Init ==
    /\ strategy \in Strategies
    /\ clock = 0
    /\ remote = [e \in Places |-> [n \in Names |-> Nothing]]
    /\ disk = [n \in Names |-> Nothing]
    /\ temp = [n \in Names |-> Nothing]
    /\ call = Idle
    /\ given = [n \in Names |-> {}]
    /\ confirmed = [n \in Names |-> Nothing]
    /\ restored = NoRestore
    /\ calls = 0

Tick ==
    /\ clock < MaxTime
    /\ clock' = clock + 1
    /\ UNCHANGED <<strategy, remote, disk, temp, call, given, confirmed, restored, calls>>
-----------------------------------------------------------------------------
(* The call goes on at the given endpoint, or with the local file. *)
Onward(place) ==
    IF place \in Places THEN [call EXCEPT !.step = "put", !.place = place]
    ELSE [call EXCEPT !.step = "write"]

(* One call at a time; an empty agent_id, refused at once, is left out. *)
Checkpoint(a, s) ==
    /\ call = Idle
    /\ calls < MaxCalls
    /\ calls' = calls + 1
    /\ call' = [step |-> IF Places = {} THEN "write" ELSE "put", place |-> 1,
                retries_left |-> MaxRetries, name |-> <<a, clock>>, snapshot |-> s]
    /\ given' = [given EXCEPT ![<<a, clock>>] = @ \cup {s}]
    /\ restored' = NoRestore
    /\ UNCHANGED <<strategy, clock, remote, disk, temp, confirmed>>

Return(status) ==
    /\ call' = Idle
    /\ confirmed' = IF status = "Failed" THEN confirmed
                    ELSE [confirmed EXCEPT ![call.name] = status]

PutSucceeds ==
    /\ call.step = "put"
    /\ remote' = [remote EXCEPT ![call.place][call.name] = call.snapshot]
    /\ Return("Stored")
    /\ UNCHANGED <<strategy, clock, disk, temp, given, restored, calls>>

(* Slip: after the last endpoint comes the first again. *)
AfterFailureRoundRobin ==
    CASE strategy = "Retry" /\ call.retries_left > 0 -> [call EXCEPT !.retries_left = @ - 1]
      [] strategy = "Abort" -> [call EXCEPT !.step = "write"]
      [] OTHER -> [call EXCEPT !.place = (@ % Len(Endpoints)) + 1]

(* Where a failed request leads: retries go to the same endpoint and are   *)
(* counted over the whole call.                                            *)
AfterFailure ==
    CASE strategy = "Retry" /\ call.retries_left > 0 -> [call EXCEPT !.retries_left = @ - 1]
      [] strategy = "Abort" -> [call EXCEPT !.step = "write"]
      [] OTHER -> Onward(call.place + 1)

(* The request is refused or lost, or it is applied and its answer lost. *)
PutFails ==
    /\ call.step = "put"
    /\ remote' \in {remote, [remote EXCEPT ![call.place][call.name] = call.snapshot]}
    /\ call' = AfterFailure
    /\ UNCHANGED <<strategy, clock, disk, temp, given, confirmed, restored, calls>>
-----------------------------------------------------------------------------
(* What a finished write leaves in the file: nobody asks the stream        *)
(* whether it went well.                                                   *)
Written == {call.snapshot} \cup IF WriteFaults THEN {Torn} ELSE {}

(* Slip: the file itself is written, at once. *)
WriteTempInPlace ==
    /\ call.step = "write"
    /\ disk' = [disk EXCEPT ![call.name] = Torn]
    /\ temp' \in {[temp EXCEPT ![call.name] = w] : w \in Written}
    /\ call' = [call EXCEPT !.step = "rename"]
    /\ UNCHANGED <<strategy, clock, remote, given, confirmed, restored, calls>>

WriteTemp ==
    /\ call.step = "write"
    /\ temp' \in {[temp EXCEPT ![call.name] = w] : w \in Written}
    /\ call' = [call EXCEPT !.step = "rename"]
    /\ UNCHANGED <<strategy, clock, remote, disk, given, confirmed, restored, calls>>

Rename ==
    /\ call.step = "rename"
    /\ disk' = [disk EXCEPT ![call.name] = temp[call.name]]
    /\ temp' = [temp EXCEPT ![call.name] = Nothing]
    /\ Return("Created")
    /\ UNCHANGED <<strategy, clock, remote, given, restored, calls>>

(* No directory, no temporary file, or no rename. *)
LocalFails ==
    /\ call.step \in {"write", "rename"}
    /\ Return("Failed")
    /\ UNCHANGED <<strategy, clock, remote, disk, temp, given, restored, calls>>

(* The process dies, perhaps in the middle of a write, and is started      *)
(* again.                                                                  *)
Crash ==
    /\ call # Idle
    /\ call' = Idle
    /\ temp' \in {temp} \cup
          IF call.step = "write" THEN {[temp EXCEPT ![call.name] = Torn]} ELSE {}
    /\ UNCHANGED <<strategy, clock, remote, disk, given, confirmed, restored, calls>>
-----------------------------------------------------------------------------
(* deserialize_snapshot on a file *)
Read(content) == IF content = Torn THEN Nothing ELSE content

(* Slip: the first endpoint that answers has the last word. *)
AnswersOfReachable(name, up) == up

(* The endpoints in reach that answer a get with a snapshot. *)
Answers(name, up) == {e \in up : remote[e][name] # Nothing}

Restore(name, up) ==
    LET answers == Answers(name, up)
    IN  /\ call = Idle
        /\ restored' =
              [name |-> name, up |-> up,
               snapshot |-> IF answers # {}
                              THEN remote[CHOOSE e \in answers : \A f \in answers : e <= f][name]
                              ELSE Read(disk[name])]
        /\ UNCHANGED <<strategy, clock, remote, disk, temp, call, given, confirmed, calls>>

(* restore of a partial name: the remote store does not know it, and of    *)
(* the files that start with it the directory offers any one first,        *)
(* another agent's whose name goes on from a included.                     *)
RestorePartial(a) ==
    LET files == {n \in Names : n[1] \in Starting(a) /\ disk[n] # Nothing}
    IN  /\ call = Idle
        /\ \E n \in files :
              restored' = [name |-> n, up |-> {}, snapshot |-> Read(disk[n])]
        /\ UNCHANGED <<strategy, clock, remote, disk, temp, call, given, confirmed, calls>>

Step == PutSucceeds \/ PutFails \/ WriteTemp \/ Rename \/ LocalFails

Next ==
    \/ Tick
    \/ \E a \in Agents, s \in Snapshots : Checkpoint(a, s)
    \/ Step
    \/ Crash
    \/ \E n \in Names, up \in SUBSET Places : Restore(n, up)
    \/ \E a \in Agents : RestorePartial(a)

(* A call that runs goes on: every request has a timeout. *)
Spec == Init /\ [][Next]_vars /\ WF_vars(Step)
-----------------------------------------------------------------------------
Calls ==
    [step : {"put", "write", "rename"}, place : Places \cup {1},
     retries_left : 0 .. MaxRetries, name : Names, snapshot : Snapshots]

TypeOK ==
    /\ clock \in 0 .. MaxTime
    /\ remote \in [Places -> [Names -> Stored]]
    /\ disk \in [Names -> Stored \cup {Torn}]
    /\ temp \in [Names -> Stored \cup {Torn}]
    /\ call \in Calls \cup {Idle}
    /\ call.step = "put" => call.place \in Places
    /\ given \in [Names -> SUBSET Snapshots]
    /\ confirmed \in [Names -> {Nothing, "Stored", "Created"}]

(* What checkpoint reported as Stored or Created stays in place, whole,    *)
(* through later failures, name clashes and crashes in mid-write           *)
(* (distributed.cpp 222-225, 256-275).                                     *)
ConfirmedIsKept ==
    /\ TypeOK
    /\ \A n \in Names :
          /\ confirmed[n] = "Stored"  => \E e \in Places : remote[e][n] \in given[n]
          /\ confirmed[n] = "Created" => disk[n] \in given[n]

(* restore returns only what checkpoint was given under that name, and     *)
(* with every endpoint in reach it finds whatever was confirmed            *)
(* (278-305).                                                              *)
RestoreFinds ==
    restored # NoRestore =>
        /\ restored.snapshot \in given[restored.name] \cup {Nothing}
        /\ restored.up = Places /\ confirmed[restored.name] # Nothing =>
              restored.snapshot # Nothing

(* What the two rest on while the disk takes every byte: nothing is stored *)
(* that checkpoint was not given under that name, a call in progress       *)
(* carries what it was given and makes the last answer of restore old, and *)
(* the temporary file that is about to be renamed is the call's own.       *)
CheckpointInv ==
    /\ ConfirmedIsKept
    /\ RestoreFinds
    /\ \A n \in Names : /\ disk[n] \in given[n] \cup {Nothing}
                        /\ \A e \in Places : remote[e][n] \in given[n] \cup {Nothing}
    /\ call # Idle => call.snapshot \in given[call.name] /\ restored = NoRestore
    /\ call.step = "rename" => temp[call.name] = call.snapshot

(* Every call of checkpoint comes to an end, whatever the strategy and     *)
(* however often requests fail (219-241).                                  *)
CheckpointReturns == call # Idle ~> call = Idle
-----------------------------------------------------------------------------
(* The local file is written atomically, as the comment in checkpoint      *)
(* says: a .snapshot file is never torn (256-270).                         *)
FilesAreWhole == \A n \in Names : disk[n] # Torn
-----------------------------------------------------------------------------
(* For model checking: two agents, the name of one being the beginning of  *)
(* the other's, and two endpoints.                                         *)
StartingWith(a) == IF a = "a" THEN {"a", "ab"} ELSE {a}

TwoEndpoints == <<"primary", "secondary">>
=============================================================================
