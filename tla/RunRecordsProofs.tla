--------------------------- MODULE RunRecordsProofs ---------------------------
(***************************************************************************)
(* Proofs about what is kept of a run: DistributedCheckpoint, for every    *)
(* set of agents, snapshots and endpoints, every strategy and every number *)
(* of retries; RuntimeSession and the journal, replay view, snapshot and   *)
(* audit report made of the session, for every workflow, every list of     *)
(* capabilities and every set of mocks.                                    *)
(***************************************************************************)
EXTENDS DistributedCheckpoint, ArtifactChain, DagProofs
-----------------------------------------------------------------------------
(*                          DistributedCheckpoint                          *)

(* A set of endpoints has a first one. *)
LEMMA FirstAnswer ==
    ASSUME NEW A \in SUBSET Nat, A # {}
    PROVE  (CHOOSE e \in A : \A f \in A : e <= f) \in A
BY LeastNumber

(* Endpoints are numbered from one. *)
LEMMA PlaceFacts ==
    /\ Places \in SUBSET Nat
    /\ Places # {} => 1 \in Places
BY CheckpointAssumption DEF Places

(* A call's fields, and what the steps of a call make of them. *)
LEMMA CallFields ==
    ASSUME TypeOK, call # Idle
    PROVE  /\ call \in Calls
           /\ call.step \in {"put", "write", "rename"}
           /\ call.name \in Names /\ call.snapshot \in Snapshots
           /\ call.retries_left \in 0 .. MaxRetries
           /\ call.place \in Nat
           /\ \A s \in {"put", "write", "rename"} :
                 /\ [call EXCEPT !.step = s] \in Calls
                 /\ [call EXCEPT !.step = s].step = s
                 /\ [call EXCEPT !.step = s].name = call.name
                 /\ [call EXCEPT !.step = s].snapshot = call.snapshot
BY PlaceFacts DEF TypeOK, Calls

(* After a failed put the call retries, moves on or turns to the file. *)
LEMMA AfterFailureFields ==
    ASSUME TypeOK, call # Idle, call.step = "put"
    PROVE  /\ AfterFailure \in Calls
           /\ AfterFailure.step \in {"put", "write"}
           /\ AfterFailure.step = "put" => AfterFailure.place \in Places
           /\ AfterFailure.name = call.name /\ AfterFailure.snapshot = call.snapshot
<1>1. /\ call \in Calls /\ call.place \in Places /\ call.place \in Nat
      /\ call.retries_left \in Nat /\ MaxRetries \in Nat
      /\ call.retries_left <= MaxRetries
  BY CallFields, CheckpointAssumption DEF TypeOK
<1>2. CASE strategy = "Retry" /\ call.retries_left > 0
  <2>1. AfterFailure = [call EXCEPT !.retries_left = @ - 1]
    BY <1>2 DEF AfterFailure
  <2>2. call.retries_left - 1 \in 0 .. MaxRetries
    BY <1>1, <1>2
  <2>3. QED
    BY <1>1, <2>1, <2>2 DEF Calls
<1>3. CASE ~(strategy = "Retry" /\ call.retries_left > 0) /\ strategy = "Abort"
  <2>1. AfterFailure = [call EXCEPT !.step = "write"]
    BY <1>3 DEF AfterFailure
  <2>2. QED
    BY <1>1, <2>1 DEF Calls
<1>4. CASE ~(strategy = "Retry" /\ call.retries_left > 0) /\ strategy # "Abort"
  <2>1. AfterFailure = Onward(call.place + 1)
    BY <1>4 DEF AfterFailure
  <2>2. CASE call.place + 1 \in Places
    <3>1. AfterFailure = [call EXCEPT !.step = "put", !.place = call.place + 1]
      BY <2>1, <2>2 DEF Onward
    <3>2. QED
      BY <1>1, <2>2, <3>1 DEF Calls
  <2>3. CASE call.place + 1 \notin Places
    <3>1. AfterFailure = [call EXCEPT !.step = "write"]
      BY <2>1, <2>3 DEF Onward
    <3>2. QED
      BY <1>1, <3>1 DEF Calls
  <2>4. QED
    BY <2>2, <2>3
<1>5. QED
  BY <1>2, <1>3, <1>4

(* The checkpoint invariant holds at the start. *)
LEMMA CheckpointInvInit ==
    ASSUME Init
    PROVE  CheckpointInv
<1>1. call = Idle /\ Idle.step = "idle" /\ restored = NoRestore /\ clock \in 0 .. MaxTime
  BY CheckpointAssumption DEF Init, Idle
<1>2. /\ \A n \in Names : disk[n] = Nothing /\ confirmed[n] = Nothing
      /\ \A n \in Names : \A e \in Places : remote[e][n] = Nothing
  BY DEF Init
<1>3. TypeOK
  BY <1>1 DEF Init, TypeOK, Stored
<1>4. ConfirmedIsKept
  BY <1>2, <1>3, CheckpointAssumption DEF ConfirmedIsKept
<1>5. QED
  BY <1>1, <1>2, <1>4 DEF CheckpointInv, RestoreFinds

(* What the invariant says of the state before a step. *)
LEMMA InvFacts ==
    ASSUME CheckpointInv
    PROVE  /\ TypeOK
           /\ \A n \in Names :
                 /\ disk[n] \in given[n] \cup {Nothing}
                 /\ \A e \in Places : remote[e][n] \in given[n] \cup {Nothing}
                 /\ given[n] \in SUBSET Snapshots
                 /\ Nothing \notin given[n]
                 /\ confirmed[n] = "Stored"  => \E e \in Places : remote[e][n] \in given[n]
                 /\ confirmed[n] = "Created" => disk[n] \in given[n]
                 /\ confirmed[n] \in {Nothing, "Stored", "Created"}
BY CheckpointAssumption DEF CheckpointInv, ConfirmedIsKept, TypeOK

(* A call begins: more is given under its name, and nothing is stored. *)
LEMMA BeginInv ==
    ASSUME CheckpointInv, NEW a \in Agents, NEW s \in Snapshots, Checkpoint(a, s)
    PROVE  CheckpointInv'
<1> DEFINE n == <<a, clock>>
<1>1. /\ n \in Names /\ MaxRetries \in 0 .. MaxRetries /\ TypeOK
  BY InvFacts, CheckpointAssumption DEF TypeOK, Names
<1>2. /\ call' \in Calls /\ call'.step \in {"put", "write"}
      /\ call'.step = "put" => call'.place \in Places
      /\ call'.name = n /\ call'.snapshot = s
  BY <1>1, PlaceFacts DEF Checkpoint, Calls
<1>3. /\ given' = [given EXCEPT ![n] = @ \cup {s}] /\ given' \in [Names -> SUBSET Snapshots]
      /\ \A m \in Names : given[m] \subseteq given'[m]
      /\ s \in given'[n]
      /\ restored' = NoRestore
      /\ UNCHANGED <<strategy, clock, remote, disk, temp, confirmed>>
  BY <1>1 DEF Checkpoint, TypeOK
<1>4. TypeOK'
  BY <1>1, <1>2, <1>3 DEF TypeOK
<1>5. ConfirmedIsKept'
  BY <1>3, <1>4, InvFacts DEF ConfirmedIsKept
<1>6. QED
  BY <1>2, <1>3, <1>5, InvFacts DEF CheckpointInv, RestoreFinds

(* The request of a put was applied at the endpoint. *)
LEMMA RemoteKept ==
    ASSUME CheckpointInv, call # Idle, call.step = "put",
           remote' = [remote EXCEPT ![call.place][call.name] = call.snapshot],
           given' = given
    PROVE  /\ remote' \in [Places -> [Names -> Stored]]
           /\ call.place \in Places /\ call.name \in Names
           /\ remote'[call.place][call.name] = call.snapshot
           /\ call.snapshot \in given[call.name]
           /\ \A n \in Names : \A e \in Places :
                 /\ remote'[e][n] \in given[n] \cup {Nothing}
                 /\ remote[e][n] \in given[n] => remote'[e][n] \in given[n]
<1>1. /\ TypeOK /\ call.name \in Names /\ call.snapshot \in Snapshots /\ call.place \in Places
      /\ remote \in [Places -> [Names -> Stored]]
      /\ call.snapshot \in given[call.name]
  BY CallFields, InvFacts DEF CheckpointInv, TypeOK
<1>2. \A n \in Names : \A e \in Places :
         remote'[e][n] = IF e = call.place /\ n = call.name THEN call.snapshot ELSE remote[e][n]
  BY <1>1
<1>3. remote' \in [Places -> [Names -> Stored]]
  BY <1>1 DEF Stored
<1>4. QED
  BY <1>1, <1>2, <1>3, InvFacts

(* An endpoint that answers holds what it confirms. *)
LEMMA PutSucceedsInv ==
    ASSUME CheckpointInv, PutSucceeds
    PROVE  CheckpointInv'
<1>1. /\ call # Idle /\ call.step = "put" /\ call' = Idle /\ Idle.step = "idle"
      /\ remote' = [remote EXCEPT ![call.place][call.name] = call.snapshot]
      /\ confirmed' = [confirmed EXCEPT ![call.name] = "Stored"]
      /\ UNCHANGED <<strategy, clock, disk, temp, given, restored, calls>>
  BY DEF PutSucceeds, Return, Idle
<1>2. /\ remote' \in [Places -> [Names -> Stored]]
      /\ call.place \in Places /\ call.name \in Names
      /\ remote'[call.place][call.name] = call.snapshot
      /\ call.snapshot \in given[call.name]
      /\ \A n \in Names : \A e \in Places :
            /\ remote'[e][n] \in given[n] \cup {Nothing}
            /\ remote[e][n] \in given[n] => remote'[e][n] \in given[n]
  BY <1>1, RemoteKept
<1>3. TypeOK'
  BY <1>1, <1>2, InvFacts DEF TypeOK
<1>4. ASSUME NEW n \in Names
      PROVE  /\ confirmed'[n] = "Stored" => \E e \in Places : remote'[e][n] \in given'[n]
             /\ confirmed'[n] = "Created" => disk'[n] \in given'[n]
  BY <1>1, <1>2, InvFacts DEF TypeOK
<1>5. restored' = NoRestore
  BY <1>1 DEF CheckpointInv
<1>6. QED
  BY <1>1, <1>2, <1>3, <1>4, <1>5, InvFacts DEF CheckpointInv, ConfirmedIsKept, RestoreFinds

(* A put without an answer confirms nothing and loses nothing. *)
LEMMA PutFailsInv ==
    ASSUME CheckpointInv, PutFails
    PROVE  CheckpointInv'
<1>1. /\ call # Idle /\ call.step = "put" /\ call' = AfterFailure
      /\ \/ remote' = remote
         \/ remote' = [remote EXCEPT ![call.place][call.name] = call.snapshot]
      /\ UNCHANGED <<strategy, clock, disk, temp, given, confirmed, restored, calls>>
  BY DEF PutFails, Idle
<1>2. /\ TypeOK /\ call.snapshot \in given[call.name] /\ restored = NoRestore
      /\ call' \in Calls /\ call'.step \in {"put", "write"}
      /\ call'.step = "put" => call'.place \in Places
      /\ call'.name = call.name /\ call'.snapshot = call.snapshot
  BY <1>1, InvFacts, AfterFailureFields DEF CheckpointInv
<1>3. /\ remote' \in [Places -> [Names -> Stored]]
      /\ \A n \in Names : \A e \in Places :
            /\ remote'[e][n] \in given[n] \cup {Nothing}
            /\ remote[e][n] \in given[n] => remote'[e][n] \in given[n]
  <2>1. CASE remote' = remote
    BY <2>1, <1>2, InvFacts DEF TypeOK
  <2>2. CASE remote' = [remote EXCEPT ![call.place][call.name] = call.snapshot]
    BY <2>2, <1>1, RemoteKept
  <2>3. QED
    BY <1>1, <2>1, <2>2
<1>4. TypeOK'
  BY <1>1, <1>2, <1>3 DEF TypeOK
<1>5. ConfirmedIsKept'
  BY <1>1, <1>3, <1>4, InvFacts DEF ConfirmedIsKept
<1>6. QED
  BY <1>1, <1>2, <1>3, <1>5, InvFacts DEF CheckpointInv, RestoreFinds

(* Only the call and its temporary file move. *)
LEMMA QuietCheckpoint ==
    ASSUME CheckpointInv,
           clock' \in 0 .. MaxTime,
           UNCHANGED <<remote, disk, given, confirmed, restored>>,
           temp' \in [Names -> Stored \cup {Torn}],
           call' \in Calls \cup {Idle},
           call'.step = "put" => call'.place \in Places,
           call' # Idle => call # Idle /\ call'.name = call.name /\ call'.snapshot = call.snapshot,
           call'.step = "rename" => temp'[call'.name] = call'.snapshot
    PROVE  CheckpointInv'
<1>1. TypeOK'
  BY InvFacts DEF TypeOK
<1>2. ConfirmedIsKept'
  BY <1>1, InvFacts DEF ConfirmedIsKept
<1>3. RestoreFinds'
  BY DEF RestoreFinds, CheckpointInv
<1>4. QED
  BY <1>2, <1>3 DEF CheckpointInv

(* The temporary file is not yet the snapshot file. *)
LEMMA WriteTempInv ==
    ASSUME ~WriteFaults, CheckpointInv, WriteTemp
    PROVE  CheckpointInv'
<1>1. /\ call # Idle /\ call' = [call EXCEPT !.step = "rename"]
      /\ temp' = [temp EXCEPT ![call.name] = call.snapshot]
      /\ UNCHANGED <<clock, remote, disk, given, confirmed, restored>>
  BY DEF WriteTemp, Written, Idle
<1>2. /\ TypeOK /\ call.name \in Names /\ call.snapshot \in Snapshots
      /\ call' \in Calls /\ call'.step = "rename"
      /\ call'.name = call.name /\ call'.snapshot = call.snapshot
  BY <1>1, InvFacts, CallFields
<1>3. /\ temp' \in [Names -> Stored \cup {Torn}] /\ temp'[call'.name] = call'.snapshot
      /\ clock' \in 0 .. MaxTime
  BY <1>1, <1>2 DEF TypeOK, Stored
<1>4. QED
  BY <1>1, <1>2, <1>3, QuietCheckpoint

(* The rename puts a whole file in place. *)
LEMMA RenameInv ==
    ASSUME CheckpointInv, Rename
    PROVE  CheckpointInv'
<1>1. /\ call # Idle /\ call.step = "rename" /\ call' = Idle /\ Idle.step = "idle"
      /\ disk' = [disk EXCEPT ![call.name] = temp[call.name]]
      /\ temp' = [temp EXCEPT ![call.name] = Nothing]
      /\ confirmed' = [confirmed EXCEPT ![call.name] = "Created"]
      /\ UNCHANGED <<clock, remote, given, restored>>
  BY DEF Rename, Return, Idle
<1>2. /\ TypeOK /\ call.name \in Names /\ call.snapshot \in Snapshots
      /\ temp[call.name] = call.snapshot /\ call.snapshot \in given[call.name]
      /\ restored = NoRestore
  BY <1>1, InvFacts, CallFields DEF CheckpointInv
<1>3. \A n \in Names : disk'[n] = IF n = call.name THEN call.snapshot ELSE disk[n]
  BY <1>1, <1>2 DEF TypeOK
<1>4. TypeOK'
  BY <1>1, <1>2 DEF TypeOK, Stored
<1>5. \A n \in Names : confirmed'[n] = IF n = call.name THEN "Created" ELSE confirmed[n]
  BY <1>1, <1>2 DEF TypeOK
<1>6. ConfirmedIsKept'
  BY <1>1, <1>2, <1>3, <1>4, <1>5, InvFacts DEF ConfirmedIsKept
<1>7. QED
  BY <1>1, <1>2, <1>3, <1>6, InvFacts DEF CheckpointInv, RestoreFinds

(* A local failure leaves the snapshot file alone. *)
LEMMA LocalFailsInv ==
    ASSUME CheckpointInv, LocalFails
    PROVE  CheckpointInv'
<1>1. /\ call' = Idle /\ Idle.step = "idle"
      /\ UNCHANGED <<clock, remote, disk, temp, given, confirmed, restored>>
  BY DEF LocalFails, Return, Idle
<1>2. clock' \in 0 .. MaxTime /\ temp' \in [Names -> Stored \cup {Torn}]
  BY <1>1, InvFacts DEF TypeOK
<1>3. QED
  BY <1>1, <1>2, QuietCheckpoint

(* A crash leaves disk and endpoints as they are. *)
LEMMA CrashInv ==
    ASSUME CheckpointInv, Crash
    PROVE  CheckpointInv'
<1>1. /\ call # Idle /\ call' = Idle /\ Idle.step = "idle"
      /\ temp' = temp \/ temp' = [temp EXCEPT ![call.name] = Torn]
      /\ UNCHANGED <<clock, remote, disk, given, confirmed, restored>>
  BY DEF Crash, Idle
<1>2. clock' \in 0 .. MaxTime /\ temp' \in [Names -> Stored \cup {Torn}]
  BY <1>1, InvFacts, CallFields DEF TypeOK
<1>3. QED
  BY <1>1, <1>2, QuietCheckpoint

(* A restore moves nothing but the record of its answer. *)
LEMMA RestoredInv ==
    ASSUME CheckpointInv, call = Idle, NEW n \in Names, NEW up, NEW s,
           restored' = [name |-> n, up |-> up, snapshot |-> s],
           s \in given[n] \cup {Nothing},
           up = Places /\ confirmed[n] # Nothing => s # Nothing,
           UNCHANGED <<strategy, clock, remote, disk, temp, call, given, confirmed, calls>>
    PROVE  CheckpointInv'
<1>1. /\ restored'.name = n /\ restored'.up = up /\ restored'.snapshot = s
  OBVIOUS
<1>2. RestoreFinds'
  BY <1>1 DEF RestoreFinds
<1>3. TypeOK' /\ ConfirmedIsKept'
  BY InvFacts DEF TypeOK, ConfirmedIsKept
<1>4. QED
  BY <1>2, <1>3 DEF CheckpointInv

(* A restore changes neither disk nor endpoints. *)
LEMMA RestoreInv ==
    ASSUME CheckpointInv, NEW n \in Names, NEW up \in SUBSET Places, Restore(n, up)
    PROVE  CheckpointInv'
<1> DEFINE answers == Answers(n, up)
           first == CHOOSE e \in answers : \A f \in answers : e <= f
           s == IF answers # {} THEN remote[first][n] ELSE Read(disk[n])
<1>1. /\ call = Idle /\ restored' = [name |-> n, up |-> up, snapshot |-> s]
      /\ UNCHANGED <<strategy, clock, remote, disk, temp, call, given, confirmed, calls>>
  BY DEF Restore
<1>2. Read(disk[n]) = disk[n]
  BY InvFacts, CheckpointAssumption DEF Read
<1>3. answers # {} => first \in answers
  <2>1. answers \in SUBSET Nat
    BY PlaceFacts DEF Answers
  <2>2. QED
    BY <2>1, FirstAnswer
<1>4. answers # {} => s \in given[n]
  BY <1>3, InvFacts DEF Answers
<1>5. s \in given[n] \cup {Nothing}
  BY <1>2, <1>4, InvFacts
<1>6. ASSUME up = Places, confirmed[n] # Nothing PROVE s # Nothing
  <2>1. CASE confirmed[n] = "Stored"
    <3>1. answers # {}
      BY <1>6, <2>1, InvFacts DEF Answers
    <3>2. QED
      BY <3>1, <1>4, InvFacts
  <2>2. CASE confirmed[n] = "Created"
    BY <2>2, <1>2, <1>4, InvFacts
  <2>3. QED
    BY <1>6, <2>1, <2>2, InvFacts
<1> HIDE DEF s
<1>7. QED
  BY <1>1, <1>5, <1>6, RestoredInv

(* Nor does a restore of a partial name. *)
LEMMA RestorePartialInv ==
    ASSUME CheckpointInv, NEW a \in Agents, RestorePartial(a)
    PROVE  CheckpointInv'
<1>1. PICK n \in Names : /\ disk[n] # Nothing
                         /\ restored' = [name |-> n, up |-> {}, snapshot |-> Read(disk[n])]
  BY DEF RestorePartial
<1>2. /\ call = Idle
      /\ UNCHANGED <<strategy, clock, remote, disk, temp, call, given, confirmed, calls>>
  BY DEF RestorePartial
<1>3. Read(disk[n]) = disk[n] /\ disk[n] \in given[n] \cup {Nothing}
  BY InvFacts, CheckpointAssumption DEF Read
<1>4. QED
  BY <1>1, <1>2, <1>3, RestoredInv

(* Every step keeps the checkpoint invariant. *)
LEMMA CheckpointInvNext ==
    ASSUME ~WriteFaults, CheckpointInv, [Next]_vars
    PROVE  CheckpointInv'
<1>1. CASE Tick
  <2>1. clock' \in 0 .. MaxTime
    BY <1>1, InvFacts, CheckpointAssumption DEF Tick, TypeOK
  <2>2. UNCHANGED <<remote, disk, temp, call, given, confirmed, restored>>
    BY <1>1 DEF Tick
  <2>3. QED
    BY <2>1, <2>2, InvFacts, QuietCheckpoint DEF TypeOK, CheckpointInv, Idle
<1>2. ASSUME NEW a \in Agents, NEW s \in Snapshots, Checkpoint(a, s) PROVE CheckpointInv'
  BY <1>2, BeginInv
<1>3. CASE Step
  BY <1>3, PutSucceedsInv, PutFailsInv, WriteTempInv, RenameInv, LocalFailsInv DEF Step
<1>4. CASE Crash
  BY <1>4, CrashInv
<1>5. ASSUME NEW n \in Names, NEW up \in SUBSET Places, Restore(n, up) PROVE CheckpointInv'
  BY <1>5, RestoreInv
<1>6. ASSUME NEW a \in Agents, RestorePartial(a) PROVE CheckpointInv'
  BY <1>6, RestorePartialInv
<1>7. CASE UNCHANGED vars
  <2>1. UNCHANGED <<clock, remote, disk, temp, call, given, confirmed, restored>>
    BY <1>7 DEF vars
  <2>2. QED
    BY <2>1, InvFacts, QuietCheckpoint DEF TypeOK, CheckpointInv, Idle
<1>8. QED
  BY <1>1, <1>2, <1>3, <1>4, <1>5, <1>6, <1>7 DEF Next

(* While the disk takes every byte of a file it opened, the invariant      *)
(* holds.                                                                  *)
THEOREM CheckpointInvariant ==
    ASSUME ~WriteFaults
    PROVE  Spec => []CheckpointInv
<1>1. Init => CheckpointInv
  BY CheckpointInvInit
<1>2. CheckpointInv /\ [Next]_vars => CheckpointInv'
  BY CheckpointInvNext
<1>3. QED
  BY <1>1, <1>2, PTL DEF Spec

(* On such a disk what checkpoint reported as Stored or Created stays in   *)
(* place, whole, through lost answers, name clashes and crashes            *)
(* (distributed.cpp 211-275).                                              *)
THEOREM ConfirmedStays ==
    ASSUME ~WriteFaults
    PROVE  Spec => []ConfirmedIsKept
<1>1. CheckpointInv => ConfirmedIsKept
  BY DEF CheckpointInv
<1>2. QED
  BY <1>1, CheckpointInvariant, PTL

(* On such a disk restore returns only what checkpoint was given under the *)
(* name, and with every endpoint in reach it finds what was confirmed      *)
(* (278-305).                                                              *)
THEOREM ConfirmedIsFound ==
    ASSUME ~WriteFaults
    PROVE  Spec => []RestoreFinds
<1>1. CheckpointInv => RestoreFinds
  BY DEF CheckpointInv
<1>2. QED
  BY <1>1, CheckpointInvariant, PTL

(* On such a disk no .snapshot file is ever torn, as the comment in        *)
(* checkpoint says: only a disk that refuses bytes of a file it opened     *)
(* can break it (256-270).                                                 *)
THEOREM WholeFiles ==
    ASSUME ~WriteFaults
    PROVE  Spec => []FilesAreWhole
<1>1. CheckpointInv => FilesAreWhole
  BY InvFacts, CheckpointAssumption DEF FilesAreWhole
<1>2. QED
  BY <1>1, CheckpointInvariant, PTL
-----------------------------------------------------------------------------
(*                             RuntimeSession                              *)

Capabilities == Members(Slots)

(* The plan and the mocks; whatever runs or ran was accepted. *)
PlanInv ==
    /\ order \in Seq(Id) /\ Distinct(order)
    /\ after \in [Id -> Seq(Id)]
    /\ bindings \in [Id -> Seq(Capabilities)]
    /\ \A n \in Id : Distinct(bindings[n])
    /\ DOMAIN mocks \subseteq Selectors
    /\ \A s \in DOMAIN mocks : mocks[s] \in Fixtures
    /\ phase \in {"planning", "running", "built", "refused"}
    /\ phase \in {"running", "built"} => PlanAccepted

(* The builder's variables. *)
QueueInv ==
    /\ ready_nodes \in Seq(Id) /\ Distinct(ready_nodes) /\ Members(ready_nodes) \subseteq Nodes
    /\ remaining_dependencies \in [Id -> Nat]
    /\ \A n \in Id : remaining_dependencies[n] <= Len(after[n])
    /\ phase \in {"planning", "refused"} =>
          /\ ready_nodes = <<>> /\ session = NewSession
          /\ remaining_dependencies = [n \in Id |-> 0]

EntryStatuses == {"Completed", "Failed", "Skipped", "Ready", "Blocked"}
Summary  == [kind : {"MockMissing", "NodeFailed", "WorkflowFailed"}, node_name : Id]
Entry ==
    [node_name : Id, status : EntryStatuses, execution_index : Nat, failure_summary : SUBSET Summary,
     satisfied_dependencies : Seq(Id), capability_bindings : Seq(Capabilities),
     used_mocks : Seq(Selectors)]
Session ==
    [workflow_status : {"Completed", "Failed", "Partial"}, failure_summary : SUBSET Summary,
     execution_order : Seq(Id), nodes : Seq(Entry)]

(* What the validator asks of an entry alone, and that it fails once. *)
SoundAlone(e) ==
    /\ Distinct(e.satisfied_dependencies)
    /\ Distinct(e.capability_bindings)
    /\ Distinct(e.used_mocks)
    /\ \A m \in Members(e.used_mocks) : m[2] \in Members(e.capability_bindings)
    /\ e.status = "Completed" =>
          \A c \in Members(e.capability_bindings) : \E m \in Members(e.used_mocks) : m[2] = c
    /\ \A f \in e.failure_summary : f.node_name = e.node_name /\ f.kind # "WorkflowFailed"
    /\ e.failure_summary # {} <=> e.status = "Failed"
    /\ \A f, g \in e.failure_summary : f = g

(* The executed nodes, each after what it depends on. *)
OrderInv ==
    /\ session \in Session
    /\ Distinct(session.execution_order)
    /\ ExecutedNames \subseteq Nodes
    /\ \A i \in DOMAIN session.execution_order :
          deps[session.execution_order[i]] \subseteq {session.execution_order[j] : j \in 1 .. i - 1}

(* While the builder runs: a count is the number of dependencies still to  *)
(* be executed, the queue holds exactly what could run next, and the       *)
(* entries are the executed nodes.                                         *)
CountsInv ==
    \A m \in Nodes \ ExecutedNames :
        remaining_dependencies[m] = Cardinality(deps[m] \ ExecutedNames)

(* The queue is exactly what could run next. *)
ReadyInv == Members(ready_nodes) = {m \in Nodes \ ExecutedNames : deps[m] \subseteq ExecutedNames}

EntriesInv ==
    /\ session.workflow_status = "Completed" /\ session.failure_summary = {}
    /\ Len(session.nodes) = Len(session.execution_order)
    /\ \A i \in DOMAIN session.nodes :
          /\ session.nodes[i].node_name = session.execution_order[i]
          /\ session.nodes[i].status = "Completed"
          /\ session.nodes[i].execution_index = i - 1
          /\ SoundAlone(session.nodes[i])

RunInv == CountsInv /\ ReadyInv /\ EntriesInv

(* What is said of the session that was built. *)
BuiltInv ==
    /\ {n.node_name : n \in Members(session.nodes)} = Nodes
    /\ \A i \in DOMAIN session.execution_order : deps[session.execution_order[i]] \subseteq Completed
    /\ session.workflow_status = "Partial" =>
          \A n \in Members(session.nodes) : n.node_name \notin Completed =>
              (n.status = "Ready" <=> deps[n.node_name] \subseteq Completed)
    /\ SessionAccepted(session)
    /\ \A n \in Members(session.nodes) : SoundAlone(n)
    /\ \A f \in session.failure_summary : f.kind = "WorkflowFailed"
    /\ \A i \in 1 .. Len(session.execution_order) - 1 : session.execution_order[i] \in Completed

SessionInv ==
    /\ PlanInv /\ QueueInv /\ OrderInv
    /\ phase = "running" => RunInv
    /\ Built => BuiltInv
-----------------------------------------------------------------------------
(* The mock of a capability belongs to it. *)
LEMMA MockFacts ==
    ASSUME PlanInv, NEW c \in Capabilities
    PROVE  /\ FixtureFor(c) \in Fixtures \cup {"missing"}
           /\ FixtureFor(c) # "missing" =>
                 /\ (CHOOSE s \in MockFor(c) : TRUE) \in Selectors
                 /\ (CHOOSE s \in MockFor(c) : TRUE)[2] = c
<1>1. MockFor(c) \subseteq DOMAIN mocks /\ \A s \in MockFor(c) : s[2] = c
  BY DEF MockFor
<1>2. CASE MockFor(c) = {}
  BY <1>2 DEF FixtureFor
<1>3. CASE MockFor(c) # {}
  <2>1. (CHOOSE s \in MockFor(c) : TRUE) \in MockFor(c)
    BY <1>3
  <2>2. FixtureFor(c) = mocks[CHOOSE s \in MockFor(c) : TRUE]
    BY <1>3 DEF FixtureFor
  <2>3. QED
    BY <1>1, <2>1, <2>2 DEF PlanInv
<1>4. QED
  BY <1>2, <1>3

(* The walk is a part of the node's bindings, and ends where it fails. *)
LEMMA WalkFacts ==
    ASSUME PlanInv, NEW n \in Id
    PROVE  /\ Walked(n) \in Seq(Capabilities) /\ Distinct(Walked(n))
           /\ Members(Walked(n)) \subseteq Members(bindings[n])
           /\ Failures(n) = {} => Members(Walked(n)) = Members(bindings[n])
           /\ \A f, g \in Failures(n) : f = g
           /\ \E last \in 0 .. Len(bindings[n]) :
                 /\ Members(Walked(n)) = {bindings[n][i] : i \in 1 .. last}
                 /\ \A i \in 1 .. last :
                       FixtureFor(bindings[n][i]) \in {"missing", "fail"} => i = last
                 /\ Failures(n) # {} =>
                       last # 0 /\ FixtureFor(bindings[n][last]) \in {"missing", "fail"}
<1> DEFINE b == bindings[n]
           L == Len(b)
           bad == {i \in DOMAIN b : FixtureFor(b[i]) \in {"missing", "fail"}}
           last == IF bad = {} THEN L ELSE CHOOSE i \in bad : \A j \in bad : i <= j
<1>1. b \in Seq(Capabilities) /\ Distinct(b)
  BY DEF PlanInv
<1>2. L \in Nat /\ DOMAIN b = 1 .. L /\ \A i \in 1 .. L : b[i] \in Capabilities
  BY <1>1, LenProperties, ElementOfSeq
<1>3. /\ last \in 0 .. L
      /\ bad = {} => last = L
      /\ bad # {} => last \in bad /\ \A j \in bad : last <= j
  <2>1. CASE bad = {}
    BY <2>1, <1>2
  <2>2. CASE bad # {}
    <3>1. bad \in SUBSET Nat
      BY <1>2
    <3>2. \E i \in bad : \A j \in bad : i <= j
      BY <2>2, <3>1, LeastNumber
    <3>3. last \in bad /\ \A j \in bad : last <= j
      BY <2>2, <3>2
    <3>4. last \in 0 .. L
      BY <3>3, <1>2
    <3> HIDE DEF bad, last, L
    <3>5. QED
      BY <2>2, <3>3, <3>4
  <2>3. QED
    BY <2>1, <2>2
<1>4. Walked(n) = SubSeq(b, 1, last)
  BY DEF Walked
<1> HIDE DEF b, L, bad, last
<1>5. /\ Walked(n) \in Seq(Capabilities) /\ Len(Walked(n)) = last
      /\ \A i \in 1 .. last : Walked(n)[i] = b[i]
  <2>1. /\ SubSeq(b, 1, last) \in Seq(Capabilities)
        /\ Len(SubSeq(b, 1, last)) = IF 1 <= last THEN last - 1 + 1 ELSE 0
        /\ \A i \in 1 .. last - 1 + 1 : SubSeq(b, 1, last)[i] = b[1 + i - 1]
    <3>1. \A i \in 1 .. last : b[i] \in Capabilities
      BY <1>2, <1>3
    <3>2. 1 \in Int /\ last \in Int
      BY <1>2, <1>3
    <3>3. QED
      BY <3>1, <3>2, SubSeqProperties
  <2>2. QED
    BY <1>2, <1>3, <1>4, <2>1
<1>6. DOMAIN Walked(n) = 1 .. last
  BY <1>5, LenProperties
<1>7. Distinct(Walked(n))
  BY <1>1, <1>2, <1>3, <1>5, <1>6 DEF Distinct
<1>8. Members(Walked(n)) \subseteq Members(b)
  BY <1>2, <1>3, <1>5, <1>6 DEF Members
<1>9. ASSUME Failures(n) = {} PROVE Members(Walked(n)) = Members(b)
  <2>1. bad = {}
    <3>1. SUFFICES ASSUME bad # {} PROVE FALSE
      OBVIOUS
    <3>2. last \in 1 .. L /\ FixtureFor(b[last]) \in {"missing", "fail"}
      BY <3>1, <1>2, <1>3 DEF bad
    <3>3. b[last] \in Members(Walked(n))
      BY <3>2, <1>2, <1>5, <1>6 DEF Members
    <3>4. QED
      BY <3>2, <3>3, <1>9 DEF Failures
  <2>2. QED
    BY <2>1, <1>2, <1>3, <1>5, <1>6 DEF Members
<1>10. ASSUME NEW i \in 1 .. last, FixtureFor(Walked(n)[i]) \in {"missing", "fail"}
       PROVE  i = last
  <2>1. i \in bad
    BY <1>2, <1>3, <1>5, <1>10 DEF bad
  <2>2. QED
    BY <2>1, <1>2, <1>3
<1>11. \A c, d \in Members(Walked(n)) :
          FixtureFor(c) \in {"missing", "fail"} /\ FixtureFor(d) \in {"missing", "fail"} => c = d
  BY <1>6, <1>10 DEF Members
<1>12. \A f, g \in Failures(n) : f = g
  BY <1>11 DEF Failures
<1>13. Members(Walked(n)) = {b[i] : i \in 1 .. last}
  BY <1>5, <1>6 DEF Members
<1>14. \A i \in 1 .. last : FixtureFor(b[i]) \in {"missing", "fail"} => i = last
  BY <1>5, <1>10
<1>15. ASSUME Failures(n) # {} PROVE last # 0 /\ FixtureFor(b[last]) \in {"missing", "fail"}
  <2>1. PICK c \in Members(Walked(n)) : FixtureFor(c) \in {"missing", "fail"}
    BY <1>15 DEF Failures
  <2>2. PICK i \in 1 .. last : c = b[i]
    BY <1>13
  <2>3. i = last /\ last \in Nat
    BY <2>1, <2>2, <1>2, <1>3, <1>14
  <2>4. QED
    BY <2>1, <2>2, <2>3
<1>16. last \in 0 .. Len(bindings[n])
  BY <1>3 DEF b, L
<1>17. QED
  BY <1>5, <1>7, <1>8, <1>9, <1>12, <1>13, <1>14, <1>15, <1>16 DEF b

(* The mocks a node used are one for each of some bindings, and for each   *)
(* of all of them when it completes.                                       *)
LEMMA UsedFacts ==
    ASSUME PlanInv, NEW n \in Id
    PROVE  /\ UsedMocks(n) \in Seq(Selectors) /\ Distinct(UsedMocks(n))
           /\ \A m \in Members(UsedMocks(n)) : m[2] \in Members(bindings[n])
           /\ Failures(n) = {} /\ ~AsksToStop(n) =>
                 \A c \in Members(bindings[n]) : \E m \in Members(UsedMocks(n)) : m[2] = c
           /\ Members(UsedMocks(n)) =
                 {CHOOSE s \in MockFor(c) : TRUE :
                     c \in {d \in Members(Walked(n)) : FixtureFor(d) \in {"done", "fail"}}}
<1> DEFINE walk == Walked(n)
           T == {i \in DOMAIN walk : FixtureFor(walk[i]) \in {"done", "fail"}}
           used == Picked(walk, T)
           mock(c) == CHOOSE s \in MockFor(c) : TRUE
<1>1. /\ walk \in Seq(Capabilities) /\ Distinct(walk) /\ Members(walk) \subseteq Members(bindings[n])
      /\ Failures(n) = {} => Members(walk) = Members(bindings[n])
  BY WalkFacts
<1>2. UsedMocks(n) = [i \in DOMAIN used |-> mock(used[i])]
  BY DEF UsedMocks
<1>3. \A i \in DOMAIN walk : walk[i] \in Capabilities /\ walk[i] \in Members(walk)
  BY <1>1, LenProperties, ElementOfSeq DEF Members
<1>4. T \subseteq DOMAIN walk /\ \A c \in {walk[i] : i \in T} : FixtureFor(c) \in {"done", "fail"}
  OBVIOUS
<1> HIDE DEF walk, T, mock
<1>5. /\ used \in Seq(Capabilities) /\ Distinct(used)
      /\ Members(used) = {walk[i] : i \in T}
  BY <1>1, <1>4, PickedFacts
<1> HIDE DEF used
<1>6. Len(used) \in Nat /\ DOMAIN used = 1 .. Len(used)
  BY <1>5, LenProperties
<1>7. ASSUME NEW i \in DOMAIN used
      PROVE  /\ used[i] \in Members(used) /\ used[i] \in Capabilities
             /\ mock(used[i]) \in Selectors /\ mock(used[i])[2] = used[i]
  <2>1. used[i] \in Members(used) /\ used[i] \in Capabilities
    BY <1>5, <1>6, ElementOfSeq DEF Members
  <2>2. FixtureFor(used[i]) # "missing"
    BY <2>1, <1>4, <1>5
  <2>3. QED
    BY <2>1, <2>2, MockFacts DEF mock
<1>8. /\ UsedMocks(n) \in [1 .. Len(used) -> Selectors]
      /\ \A i \in DOMAIN used : UsedMocks(n)[i] = mock(used[i])
  BY <1>2, <1>6, <1>7
<1>9. UsedMocks(n) \in Seq(Selectors) /\ DOMAIN UsedMocks(n) = DOMAIN used
  BY <1>6, <1>8
<1>10. Distinct(UsedMocks(n))
  <2>1. ASSUME NEW i \in DOMAIN used, NEW j \in DOMAIN used, UsedMocks(n)[i] = UsedMocks(n)[j]
        PROVE  i = j
    BY <2>1, <1>5, <1>7, <1>8 DEF Distinct
  <2>2. QED
    BY <2>1, <1>9 DEF Distinct
<1>11. ASSUME NEW m \in Members(UsedMocks(n)) PROVE m[2] \in Members(bindings[n])
  <2>1. PICK i \in DOMAIN used : m = mock(used[i])
    BY <1>8, <1>9 DEF Members
  <2>2. m[2] = used[i] /\ used[i] \in Members(used)
    BY <2>1, <1>7
  <2>3. QED
    BY <2>2, <1>1, <1>3, <1>4, <1>5
<1>12. ASSUME Failures(n) = {}, ~AsksToStop(n), NEW c \in Members(bindings[n])
       PROVE  \E m \in Members(UsedMocks(n)) : m[2] = c
  <2>1. PICK i \in DOMAIN walk : c = walk[i]
    BY <1>1, <1>12 DEF Members
  <2>2. c \in Capabilities /\ c \in Members(Walked(n))
    BY <2>1, <1>3 DEF walk
  <2>3. FixtureFor(c) # "missing" /\ FixtureFor(c) # "fail"
    BY <2>2, <1>12 DEF Failures
  <2>4. FixtureFor(c) # "partial"
    BY <2>2, <1>12 DEF AsksToStop
  <2>5. FixtureFor(c) \in Fixtures \cup {"missing"}
    BY <2>2, MockFacts
  <2>6. FixtureFor(c) = "done"
    BY <2>3, <2>4, <2>5 DEF Fixtures
  <2>7. c \in Members(used)
    BY <2>1, <2>6, <1>5 DEF T
  <2>8. PICK k \in DOMAIN used : c = used[k]
    BY <2>7 DEF Members
  <2>9. UsedMocks(n)[k] \in Members(UsedMocks(n)) /\ UsedMocks(n)[k][2] = c
    BY <2>8, <1>7, <1>8, <1>9 DEF Members
  <2>10. QED
    BY <2>9
<1>13. Members(UsedMocks(n)) = {mock(c) : c \in {d \in Members(walk) : FixtureFor(d) \in {"done", "fail"}}}
  <2>1. Members(used) = {d \in Members(walk) : FixtureFor(d) \in {"done", "fail"}}
    BY <1>5 DEF T, Members
  <2>2. Members(UsedMocks(n)) = {mock(c) : c \in Members(used)}
    BY <1>8, <1>9 DEF Members
  <2>3. QED
    BY <2>1, <2>2
<1>14. QED
  BY <1>9, <1>10, <1>11, <1>12, <1>13 DEF walk, mock
-----------------------------------------------------------------------------
(* The session invariant holds at the start. *)
LEMMA SessionInitInv == SessionInit => SessionInv
<1> SUFFICES ASSUME SessionInit PROVE SessionInv
  OBVIOUS
<1>1. <<>> \in Seq(Id) /\ <<>> \in Seq(Capabilities) /\ <<>> \in Seq(Entry) /\ DOMAIN <<>> = {}
  BY EmptySeq
<1>2. Distinct(<<>>) /\ Members(<<>>) = {} /\ Len(<<>>) = 0
  BY <1>1 DEF Distinct, Members
<1>3. PlanInv
  BY <1>1, <1>2 DEF SessionInit, PlanInv
<1>4. QueueInv
  BY <1>1, <1>2 DEF SessionInit, QueueInv
<1>5. OrderInv
  BY <1>1, <1>2 DEF SessionInit, OrderInv, NewSession, Session, ExecutedNames
<1>6. QED
  BY <1>3, <1>4, <1>5 DEF SessionInit, SessionInv, Built

(* A node is added to the plan. *)
LEMMA PlanNodeInv ==
    ASSUME SessionInv, NEW n \in Id, NEW capabilities, NEW k \in 0 .. MaxAfter,
           NEW list \in [1 .. k -> Id], PlanNode(n, list, capabilities)
    PROVE  SessionInv'
<1> DEFINE T == {i \in DOMAIN Slots : Slots[i] \in capabilities}
<1>1. /\ phase = "planning" /\ n \notin Nodes /\ order' = Append(order, n)
      /\ after' = [after EXCEPT ![n] = list]
      /\ bindings' = [bindings EXCEPT ![n] = Picked(Slots, T)]
      /\ mocks' = mocks /\ phase' = phase /\ ready_nodes' = ready_nodes
      /\ remaining_dependencies' = remaining_dependencies /\ session' = session
  BY DEF PlanNode
<1>2. list \in Seq(Id)
  <2>1. k \in Nat
    BY SessionAssumption
  <2>2. QED
    BY <2>1
<1>3. Picked(Slots, T) \in Seq(Capabilities) /\ Distinct(Picked(Slots, T))
  <2>1. Slots \in Seq(Capabilities) /\ Distinct(Slots) /\ T \in SUBSET DOMAIN Slots
    BY SessionAssumption DEF Capabilities
  <2> HIDE DEF T
  <2>2. QED
    BY <2>1, PickedFacts
<1> HIDE DEF T
<1>4. PlanInv'
  <2>1. order' \in Seq(Id) /\ Distinct(order')
    BY <1>1, AppendMembers DEF SessionInv, PlanInv, Nodes, Declared
  <2>2. after' \in [Id -> Seq(Id)]
    BY <1>1, <1>2 DEF SessionInv, PlanInv
  <2>3. bindings' \in [Id -> Seq(Capabilities)] /\ \A m \in Id : Distinct(bindings'[m])
    BY <1>1, <1>3 DEF SessionInv, PlanInv
  <2>4. QED
    BY <1>1, <2>1, <2>2, <2>3 DEF SessionInv, PlanInv
<1>5. ready_nodes = <<>> /\ session = NewSession /\ remaining_dependencies = [m \in Id |-> 0]
  BY <1>1 DEF SessionInv, QueueInv
<1>6. Members(<<>>) = {}
  BY DEF Members
<1>7. QueueInv'
  <2>1. \A m \in Id : Len(after'[m]) \in Nat
    BY <1>4, LenProperties DEF PlanInv
  <2>2. \A m \in Id : remaining_dependencies'[m] <= Len(after'[m])
    BY <1>1, <1>5, <2>1
  <2>3. QED
    BY <1>1, <1>5, <1>6, <2>2 DEF SessionInv, QueueInv
<1>8. OrderInv'
  <2>1. session.execution_order = <<>> /\ session \in Session /\ Distinct(session.execution_order)
    BY <1>5 DEF NewSession, SessionInv, OrderInv
  <2>2. ExecutedNames' = {}
    BY <1>1, <1>6, <2>1 DEF ExecutedNames
  <2>3. DOMAIN session.execution_order = {}
    BY <2>1
  <2>4. QED
    BY <1>1, <2>1, <2>2, <2>3 DEF OrderInv
<1>9. QED
  BY <1>1, <1>4, <1>7, <1>8 DEF SessionInv, Built

(* A refused plan leaves the session unbuilt. *)
LEMMA RefuseInv ==
    ASSUME SessionInv, Refuse
    PROVE  SessionInv'
<1>1. /\ phase = "planning" /\ phase' = "refused"
      /\ order' = order /\ after' = after /\ bindings' = bindings /\ mocks' = mocks
      /\ ready_nodes' = ready_nodes
      /\ remaining_dependencies' = remaining_dependencies /\ session' = session
  BY DEF Refuse, plan
<1>2. PlanInv'
  BY <1>1 DEF SessionInv, PlanInv
<1>3. QueueInv'
  BY <1>1 DEF SessionInv, QueueInv, Nodes
<1>4. OrderInv'
  BY <1>1 DEF SessionInv, OrderInv, ExecutedNames, Nodes, deps
<1>5. QED
  BY <1>1, <1>2, <1>3, <1>4 DEF SessionInv, Built

(* A plan that is accepted: each count is the length of an after list that *)
(* repeats nothing, and the queue holds what depends on nothing.           *)
LEMMA BeginSessionInv ==
    ASSUME SessionInv, Begin
    PROVE  SessionInv'
<1> DEFINE T == {i \in DOMAIN order : after[order[i]] = <<>>}
<1>1. /\ phase = "planning" /\ phase' = "running" /\ PlanAccepted
      /\ order' = order /\ after' = after /\ bindings' = bindings /\ session' = session
      /\ ready_nodes' = Picked(order, T)
      /\ remaining_dependencies' = [n \in Id |-> Len(after[n])]
      /\ mocks' \in MockSets
  BY DEF Begin, plan
<1>2. Nodes' = Nodes /\ deps' = deps
  BY <1>1 DEF Nodes, deps
<1>3. /\ order \in Seq(Id) /\ Distinct(order) /\ after \in [Id -> Seq(Id)]
      /\ DOMAIN order = 1 .. Len(order) /\ \A i \in DOMAIN order : order[i] \in Id
  BY LenProperties, ElementOfSeq DEF SessionInv, PlanInv
<1>4. Nodes = {order[i] : i \in DOMAIN order} /\ Nodes \subseteq Id
  BY <1>3 DEF Nodes, Declared, Members
<1>5. PlanInv'
  <2>1. DOMAIN mocks' \subseteq Selectors /\ \A s \in DOMAIN mocks' : mocks'[s] \in Fixtures
    BY <1>1 DEF MockSets
  <2>2. PlanAccepted'
    BY <1>1, <1>2 DEF PlanAccepted
  <2>3. QED
    BY <1>1, <2>1, <2>2 DEF SessionInv, PlanInv
<1>6. T \in SUBSET DOMAIN order
  OBVIOUS
<1>7. /\ ready_nodes' \in Seq(Id) /\ Distinct(ready_nodes')
      /\ Members(ready_nodes') = {order[i] : i \in T}
  <2> HIDE DEF T
  <2>1. QED
    BY <1>1, <1>3, <1>6, PickedFacts
<1>8. \A n \in Id : Len(after[n]) \in Nat /\ Len(after[n]) <= Len(after[n])
  BY <1>3, LenProperties
<1>9. QueueInv'
  <2>1. remaining_dependencies' \in [Id -> Nat]
    BY <1>1, <1>8
  <2>2. \A n \in Id : remaining_dependencies'[n] <= Len(after'[n])
    BY <1>1, <1>8
  <2>3. Members(ready_nodes') \subseteq Nodes'
    BY <1>2, <1>4, <1>6, <1>7
  <2>4. QED
    BY <1>1, <1>7, <2>1, <2>2, <2>3 DEF QueueInv
<1>10. session = NewSession /\ DOMAIN <<>> = {} /\ Len(<<>>) = 0
  BY <1>1 DEF SessionInv, QueueInv
<1>11. ExecutedNames' = {}
  BY <1>1, <1>10 DEF ExecutedNames, NewSession, Members
<1>12. OrderInv'
  BY <1>1, <1>2 DEF SessionInv, OrderInv, ExecutedNames
<1>13. CountsInv'
  <2>1. ASSUME NEW m \in Nodes
        PROVE  remaining_dependencies'[m] = Cardinality(deps[m] \ {})
    <3>1. m \in Id /\ after[m] \in Seq(Id) /\ Distinct(after[m])
      BY <1>1, <1>3, <1>4 DEF PlanAccepted
    <3>2. Len(after[m]) = Cardinality(Members(after[m]))
      BY <3>1, MembersCount
    <3>3. deps[m] = Members(after[m]) /\ deps[m] \ {} = deps[m]
      BY <3>1 DEF deps
    <3>4. QED
      BY <1>1, <3>1, <3>2, <3>3
  <2>2. QED
    BY <1>2, <1>11, <2>1 DEF CountsInv
<1>14. ReadyInv'
  <2>1. ASSUME NEW m \in Nodes PROVE after[m] = <<>> <=> deps[m] \subseteq {}
    <3>1. m \in Id /\ after[m] \in Seq(Id)
      BY <1>3, <1>4
    <3>2. deps[m] = {after[m][i] : i \in DOMAIN after[m]}
      BY <3>1 DEF deps, Members
    <3>3. after[m] = <<>> <=> DOMAIN after[m] = {}
      <4>1. Len(after[m]) \in Nat /\ DOMAIN after[m] = 1 .. Len(after[m])
        BY <3>1, LenProperties
      <4>2. after[m] = <<>> <=> Len(after[m]) = 0
        BY <3>1, EmptySeq
      <4> DEFINE l == Len(after[m])
      <4>3. 1 .. l = {} <=> l = 0
        <5>1. l \in Nat
          BY <4>1
        <5> HIDE DEF l
        <5>2. l # 0 => 1 \in 1 .. l
          BY <5>1
        <5>3. l = 0 => 1 .. l = {}
          BY <5>1
        <5>4. QED
          BY <5>2, <5>3
      <4>4. QED
        BY <4>1, <4>2, <4>3, Zenon
    <3>4. QED
      BY <3>2, <3>3
  <2>2. {order[i] : i \in T} = {m \in Nodes : after[m] = <<>>}
    BY <1>4
  <2>3. Members(ready_nodes') = {m \in Nodes : deps[m] \subseteq {}}
    BY <1>7, <2>1, <2>2
  <2>4. QED
    BY <1>2, <1>11, <2>3 DEF ReadyInv
<1>15. EntriesInv'
  BY <1>1, <1>10 DEF EntriesInv, NewSession
<1>16. QED
  BY <1>1, <1>5, <1>9, <1>12, <1>13, <1>14, <1>15 DEF SessionInv, RunInv, Built
-----------------------------------------------------------------------------
(* The node the loop is at: all it depends on was executed. *)
LEMMA AtFacts ==
    ASSUME SessionInv, NEW n \in Id, At(n)
    PROVE  /\ phase = "running" /\ PlanInv /\ RunInv /\ OrderInv /\ QueueInv
           /\ n \in Nodes /\ n \notin ExecutedNames /\ deps[n] \subseteq ExecutedNames
           /\ Nodes \subseteq Id
           /\ \A m \in Nodes : after[m] \in Seq(Id) /\ Distinct(after[m])
<1>1. phase = "running" /\ PlanInv /\ RunInv /\ OrderInv /\ QueueInv /\ PlanAccepted
  BY DEF At, SessionInv, PlanInv
<1>2. n \in Members(ready_nodes) /\ n \notin ExecutedNames
  <2>1. ready_nodes \in Seq(Id) /\ ready_nodes # <<>> /\ Distinct(ready_nodes)
    BY <1>1 DEF At, QueueInv
  <2>2. QED
    BY <2>1, TailMembers DEF At
<1>3. Nodes \subseteq Id
  <2>1. order \in Seq(Id)
    BY <1>1 DEF PlanInv
  <2>2. QED
    BY <2>1, LenProperties, ElementOfSeq DEF Nodes, Declared, Members
<1>4. \A m \in Nodes : after[m] \in Seq(Id) /\ Distinct(after[m])
  BY <1>1, <1>3 DEF PlanInv, PlanAccepted
<1>5. QED
  BY <1>1, <1>2, <1>3, <1>4 DEF RunInv, ReadyInv

(* It is executed next. *)
LEMMA OrderGrows ==
    ASSUME SessionInv, NEW n \in Id, At(n), UNCHANGED plan, session' \in Session,
           session'.execution_order = Append(session.execution_order, n)
    PROVE  /\ OrderInv'
           /\ ExecutedNames' = ExecutedNames \cup {n}
           /\ Len(session.execution_order) \in Nat
           /\ Len(session'.execution_order) = Len(session.execution_order) + 1
           /\ \A i \in 1 .. Len(session.execution_order) :
                 session'.execution_order[i] = session.execution_order[i]
           /\ session'.execution_order[Len(session.execution_order) + 1] = n
<1> DEFINE x == session.execution_order
           L == Len(x)
           y == session'.execution_order
<1>1. /\ n \in Nodes /\ n \notin ExecutedNames /\ deps[n] \subseteq ExecutedNames /\ OrderInv
  BY AtFacts
<1>2. x \in Seq(Id) /\ Distinct(x) /\ ExecutedNames = Members(x)
  BY <1>1 DEF OrderInv, Session, ExecutedNames
<1>3. L \in Nat /\ DOMAIN x = 1 .. L
  BY <1>2, LenProperties
<1>4. y = Append(x, n)
  OBVIOUS
<1> HIDE DEF x, y
<1>5. /\ y \in Seq(Id) /\ Len(y) = L + 1 /\ DOMAIN y = 1 .. L + 1
      /\ \A i \in 1 .. L : y[i] = x[i]
      /\ y[L + 1] = n
      /\ Members(y) = Members(x) \cup {n}
      /\ Distinct(y)
  BY <1>1, <1>2, <1>4, AppendMembers
<1> HIDE DEF L
<1>6. Nodes' = Nodes /\ deps' = deps /\ ExecutedNames' = Members(y)
  BY DEF plan, Nodes, deps, ExecutedNames, y
<1>7. ASSUME NEW i \in 1 .. L + 1 PROVE deps[y[i]] \subseteq {y[j] : j \in 1 .. i - 1}
  <2>1. CASE i = L + 1
    <3>1. i - 1 = L
      BY <2>1, <1>3
    <3>2. Members(x) = {y[j] : j \in 1 .. L}
      BY <1>3, <1>5 DEF Members
    <3>3. QED
      BY <2>1, <3>1, <3>2, <1>1, <1>2, <1>5
  <2>2. CASE i # L + 1
    <3>1. i \in 1 .. L /\ 1 .. i - 1 \subseteq 1 .. L
      BY <2>2, <1>3
    <3>2. deps[x[i]] \subseteq {x[j] : j \in 1 .. i - 1}
      BY <3>1, <1>1, <1>3 DEF OrderInv, x
    <3>3. {x[j] : j \in 1 .. i - 1} = {y[j] : j \in 1 .. i - 1}
      BY <3>1, <1>5
    <3>4. QED
      BY <3>1, <3>2, <3>3, <1>5
  <2>3. QED
    BY <2>1, <2>2
<1>8. OrderInv'
  <2>1. ExecutedNames' \subseteq Nodes'
    BY <1>1, <1>2, <1>5, <1>6 DEF OrderInv
  <2>2. \A i \in DOMAIN y : deps'[y[i]] \subseteq {y[j] : j \in 1 .. i - 1}
    BY <1>5, <1>6, <1>7
  <2>3. QED
    BY <1>5, <2>1, <2>2 DEF OrderInv, y
<1>9. QED
  BY <1>2, <1>3, <1>5, <1>6, <1>8 DEF x, y, L

(* The entry of an executed node. *)
LEMMA ExecutedFacts ==
    ASSUME SessionInv, NEW n \in Id, At(n), NEW status, NEW failure,
           \/ status = "Completed" /\ failure = {} /\ Failures(n) = {} /\ ~AsksToStop(n)
           \/ status = "Failed" /\ failure = Failures(n) /\ failure # {}
    PROVE  LET e == Executed(n, status, failure)
           IN  /\ e \in Entry /\ SoundAlone(e)
               /\ e.node_name = n /\ e.status = status
               /\ e.execution_index = Len(session.execution_order)
<1> DEFINE e == Executed(n, status, failure)
<1>1. /\ PlanInv /\ OrderInv /\ after[n] \in Seq(Id) /\ Distinct(after[n])
      /\ bindings[n] \in Seq(Capabilities) /\ Distinct(bindings[n])
  BY AtFacts DEF PlanInv
<1>2. Len(session.execution_order) \in Nat
  BY <1>1, LenProperties DEF OrderInv, Session
<1>3. /\ UsedMocks(n) \in Seq(Selectors) /\ Distinct(UsedMocks(n))
      /\ \A m \in Members(UsedMocks(n)) : m[2] \in Members(bindings[n])
      /\ Failures(n) = {} /\ ~AsksToStop(n) =>
            \A c \in Members(bindings[n]) : \E m \in Members(UsedMocks(n)) : m[2] = c
  BY <1>1, UsedFacts
<1>4. /\ e.node_name = n /\ e.status = status /\ e.execution_index = Len(session.execution_order)
      /\ e.failure_summary = failure /\ e.satisfied_dependencies = after[n]
      /\ e.capability_bindings = bindings[n] /\ e.used_mocks = UsedMocks(n)
  BY DEF Executed
<1>5. \A f \in Failures(n) : /\ f.kind \in {"MockMissing", "NodeFailed"} /\ f.node_name = n
                             /\ f \in Summary
  BY DEF Failures, Summary
<1>6. /\ failure \subseteq Failures(n) /\ failure \in SUBSET Summary
      /\ \A f, g \in failure : f = g
  BY <1>1, <1>5, WalkFacts
<1>7. e \in Entry
  BY <1>1, <1>2, <1>3, <1>6 DEF Executed, Entry, EntryStatuses
<1> HIDE DEF e
<1>8. SoundAlone(e)
  BY <1>1, <1>3, <1>4, <1>5, <1>6 DEF SoundAlone
<1>9. QED
  BY <1>4, <1>7, <1>8 DEF e

(* The entries of the nodes that were not reached. *)
LEMMA UnreachedFacts ==
    ASSUME SessionInv, phase = "running", NEW X, NEW f \in [Id -> {"Skipped", "Ready", "Blocked"}]
    PROVE  LET u == Unreached(X, f)
           IN  /\ u \in Seq(Entry)
               /\ \A i, j \in DOMAIN u : u[i].node_name = u[j].node_name => i = j
               /\ {e.node_name : e \in Members(u)} = Nodes \ X
               /\ \A e \in Members(u) : /\ SoundAlone(e) /\ e.used_mocks = <<>>
                                        /\ e.status = f[e.node_name]
<1> DEFINE T == {i \in DOMAIN order : order[i] \notin X}
           rest == Picked(order, T)
           satisfied(n) == {k \in DOMAIN after[n] : after[n][k] \in X}
           entry(n) == [node_name |-> n, status |-> f[n], execution_index |-> 0,
                        failure_summary |-> {},
                        satisfied_dependencies |-> Picked(after[n], satisfied(n)),
                        capability_bindings |-> bindings[n], used_mocks |-> <<>>]
           u == Unreached(X, f)
<1>1. PlanInv /\ PlanAccepted
  BY DEF SessionInv, PlanInv
<1>2. u = [i \in DOMAIN rest |-> entry(rest[i])]
  BY DEF Unreached
<1>3. order \in Seq(Id) /\ Distinct(order) /\ T \in SUBSET DOMAIN order
  BY <1>1 DEF PlanInv
<1>4. {order[i] : i \in T} = Nodes \ X
  BY DEF Nodes, Declared, Members
<1> HIDE DEF T, u
<1>5. rest \in Seq(Id) /\ Distinct(rest) /\ Members(rest) = Nodes \ X
  BY <1>3, <1>4, PickedFacts
<1> HIDE DEF rest
<1>6. /\ Len(rest) \in Nat /\ DOMAIN rest = 1 .. Len(rest)
      /\ \A i \in DOMAIN rest : rest[i] \in Id /\ rest[i] \in Nodes
  <2>1. Len(rest) \in Nat /\ DOMAIN rest = 1 .. Len(rest)
    BY <1>5, LenProperties
  <2>2. \A i \in 1 .. Len(rest) : rest[i] \in Id
    BY <1>5, ElementOfSeq
  <2>3. QED
    BY <2>1, <2>2, <1>5 DEF Members
<1>7. ASSUME NEW n \in Id, n \in Nodes
      PROVE  /\ entry(n) \in Entry /\ SoundAlone(entry(n))
             /\ entry(n).node_name = n /\ entry(n).used_mocks = <<>> /\ entry(n).status = f[n]
  <2>1. /\ after[n] \in Seq(Id) /\ Distinct(after[n])
        /\ bindings[n] \in Seq(Capabilities) /\ Distinct(bindings[n])
    BY <1>1, <1>7 DEF PlanInv, PlanAccepted
  <2> DEFINE S == satisfied(n)
             p == Picked(after[n], S)
  <2>2. S \in SUBSET DOMAIN after[n]
    OBVIOUS
  <2> HIDE DEF S
  <2>3. p \in Seq(Id) /\ Distinct(p)
    BY <2>1, <2>2, PickedFacts
  <2> HIDE DEF p
  <2>4. <<>> \in Seq(Selectors) /\ Members(<<>>) = {} /\ Distinct(<<>>)
    BY EmptySeq DEF Members, Distinct
  <2> DEFINE e == [node_name |-> n, status |-> f[n], execution_index |-> 0,
                   failure_summary |-> {}, satisfied_dependencies |-> p,
                   capability_bindings |-> bindings[n], used_mocks |-> <<>>]
  <2>5. entry(n) = e
    BY DEF p, S
  <2>6. f[n] \in {"Skipped", "Ready", "Blocked"}
    OBVIOUS
  <2> HIDE DEF entry
  <2>7. e \in Entry
    BY <2>1, <2>3, <2>4, <2>6 DEF Entry, EntryStatuses
  <2>8. /\ e.node_name = n /\ e.used_mocks = <<>> /\ e.status = f[n] /\ e.failure_summary = {}
        /\ e.satisfied_dependencies = p /\ e.capability_bindings = bindings[n]
    OBVIOUS
  <2> HIDE DEF e
  <2>9. SoundAlone(e)
    BY <2>1, <2>3, <2>4, <2>6, <2>8 DEF SoundAlone
  <2>10. QED
    BY <2>5, <2>7, <2>8, <2>9
<1> HIDE DEF entry
<1>8. /\ u \in [1 .. Len(rest) -> Entry] /\ \A i \in DOMAIN rest : u[i] = entry(rest[i])
  BY <1>2, <1>6, <1>7
<1>9. u \in Seq(Entry) /\ DOMAIN u = DOMAIN rest
  BY <1>6, <1>8
<1>10. \A i \in DOMAIN u : u[i].node_name = rest[i]
  BY <1>6, <1>7, <1>8, <1>9
<1>11. \A i, j \in DOMAIN u : u[i].node_name = u[j].node_name => i = j
  BY <1>5, <1>9, <1>10 DEF Distinct
<1>12. {e.node_name : e \in Members(u)} = Nodes \ X
  <2>1. Members(rest) = {rest[i] : i \in DOMAIN rest} /\ Members(u) = {u[i] : i \in DOMAIN u}
    BY DEF Members
  <2>2. QED
    BY <2>1, <1>5, <1>9, <1>10
<1>13. ASSUME NEW e \in Members(u)
       PROVE  SoundAlone(e) /\ e.used_mocks = <<>> /\ e.status = f[e.node_name]
  <2>1. PICK i \in DOMAIN rest : e = entry(rest[i])
    BY <1>8, <1>9 DEF Members
  <2>2. QED
    BY <2>1, <1>6, <1>7
<1>14. QED
  BY <1>9, <1>11, <1>12, <1>13 DEF u
-----------------------------------------------------------------------------
(* The entries of a concatenation. *)
LEMMA ConcatEntries ==
    ASSUME NEW S, NEW s \in Seq(S), NEW q \in Seq(S)
    PROVE  /\ Len(s) \in Nat /\ Len(q) \in Nat
           /\ Len(s \o q) = Len(s) + Len(q) /\ DOMAIN (s \o q) = 1 .. Len(s) + Len(q)
           /\ \A k \in 1 .. Len(s) + Len(q) :
                 \/ k \in 1 .. Len(s) /\ (s \o q)[k] = s[k]
                 \/ k - Len(s) \in 1 .. Len(q) /\ k > Len(s) /\ (s \o q)[k] = q[k - Len(s)]
<1>1. Len(s) \in Nat /\ Len(q) \in Nat
  BY LenProperties
<1>2. /\ s \o q \in Seq(S) /\ Len(s \o q) = Len(s) + Len(q)
      /\ \A i \in 1 .. Len(s) + Len(q) : (s \o q)[i] = IF i <= Len(s) THEN s[i] ELSE q[i - Len(s)]
  BY ConcatProperties
<1>3. DOMAIN (s \o q) = 1 .. Len(s) + Len(q)
  BY <1>2, LenProperties
<1> DEFINE z == s \o q
           L == Len(s)
           M == Len(q)
<1> HIDE DEF z, L, M
<1>4. ASSUME NEW k \in 1 .. L + M
      PROVE  \/ k \in 1 .. L /\ z[k] = s[k]
             \/ k - L \in 1 .. M /\ k > L /\ z[k] = q[k - L]
  <2>1. CASE k <= L
    <3>1. k \in 1 .. L
      BY <2>1, <1>1 DEF L, M
    <3>2. z[k] = s[k]
      BY <2>1, <1>2, Zenon DEF z, L, M
    <3>3. QED
      BY <3>1, <3>2
  <2>2. CASE ~(k <= L)
    <3>1. k - L \in 1 .. M /\ k > L
      BY <2>2, <1>1 DEF L, M
    <3>2. z[k] = q[k - L]
      BY <2>2, <1>2, Zenon DEF z, L, M
    <3>3. QED
      BY <3>1, <3>2
  <2>3. QED
    BY <2>1, <2>2
<1>5. QED
  BY <1>1, <1>2, <1>3, <1>4 DEF z, L, M

(* The entries of s are those of the executed nodes, in their order, and   *)
(* then those of the others.                                               *)
Joined(s, a, u) ==
    /\ s \in Session /\ a \in Seq(Entry) /\ u \in Seq(Entry) /\ s.nodes = a \o u
    /\ Distinct(s.execution_order) /\ Len(a) = Len(s.execution_order)
    /\ \A i \in DOMAIN a :
          /\ SoundAlone(a[i]) /\ a[i].node_name = s.execution_order[i]
          /\ a[i].execution_index = i - 1 /\ a[i].status \in {"Completed", "Failed"}
    /\ \A e \in Members(u) :
          /\ SoundAlone(e) /\ e.used_mocks = <<>> /\ e.node_name \notin Members(s.execution_order)
          /\ e.status \in {"Skipped", "Ready", "Blocked"}
          /\ e.status = "Skipped" => s.workflow_status = "Failed"
          /\ e.status # "Skipped" => s.workflow_status = "Partial"
    /\ \A i, j \in DOMAIN u : u[i].node_name = u[j].node_name => i = j
    /\ s.workflow_status = "Completed" =>
          /\ s.failure_summary = {} /\ u = <<>>
          /\ \A i \in DOMAIN a : a[i].status = "Completed"
    /\ s.workflow_status = "Failed" =>
          s.failure_summary # {} /\ \E i \in DOMAIN a : a[i].status = "Failed"
    /\ s.workflow_status = "Partial" =>
          Members(u) # {} /\ \A i \in DOMAIN a : a[i].status = "Completed"

(* The validator accepts such a session. *)
LEMMA JoinedAccepted ==
    ASSUME NEW s, NEW a, NEW u, Joined(s, a, u)
    PROVE  /\ SessionAccepted(s) /\ Members(s.nodes) = Members(a) \cup Members(u)
           /\ \A e \in Members(s.nodes) : SoundAlone(e)
<1> DEFINE x == s.execution_order
           z == s.nodes
           L == Len(a)
           statuses == {n.status : n \in Members(z)}
<1> USE DEF Joined
<1>1. z = a \o u
  OBVIOUS
<1>2. Members(z) = Members(a) \cup Members(u)
  BY <1>1, ConcatAnyMembers
<1>3. /\ L \in Nat /\ DOMAIN a = 1 .. L /\ Len(u) \in Nat /\ DOMAIN u = 1 .. Len(u)
      /\ x \in Seq(Id) /\ Len(x) = L /\ DOMAIN x = 1 .. L
  BY LenProperties DEF Session
<1>4. /\ Len(z) = L + Len(u) /\ DOMAIN z = 1 .. L + Len(u)
      /\ \A k \in 1 .. L + Len(u) :
            \/ k \in 1 .. L /\ z[k] = a[k]
            \/ k - L \in 1 .. Len(u) /\ k > L /\ z[k] = u[k - L]
  <2>1. /\ Len(a \o u) = Len(a) + Len(u) /\ DOMAIN (a \o u) = 1 .. Len(a) + Len(u)
        /\ \A k \in 1 .. Len(a) + Len(u) :
              \/ k \in 1 .. Len(a) /\ (a \o u)[k] = a[k]
              \/ k - Len(a) \in 1 .. Len(u) /\ k > Len(a) /\ (a \o u)[k] = u[k - Len(a)]
    <3>1. a \in Seq(Entry) /\ u \in Seq(Entry)
      OBVIOUS
    <3> HIDE DEF z, L
    <3>2. QED
      BY ONLY <3>1, ConcatEntries, Zenon
  <2>2. QED
    BY <1>1, <2>1, Zenon
<1> HIDE DEF x, z, L
<1>5. /\ \A i \in 1 .. L : /\ SoundAlone(a[i]) /\ a[i].node_name = x[i]
                           /\ a[i].execution_index = i - 1 /\ a[i].status \in {"Completed", "Failed"}
      /\ \A i \in 1 .. L : a[i].node_name \in Members(x) /\ a[i] \in Members(a)
      /\ \A e \in Members(a) : \E i \in 1 .. L : e = a[i]
      /\ \A i \in 1 .. Len(u) : u[i] \in Members(u)
  <2>1. \A i \in 1 .. L : /\ SoundAlone(a[i]) /\ a[i].node_name = x[i]
                         /\ a[i].execution_index = i - 1 /\ a[i].status \in {"Completed", "Failed"}
    BY <1>3 DEF x
  <2>2. \A i \in 1 .. L : x[i] \in Members(x) /\ a[i] \in Members(a)
    BY <1>3 DEF Members
  <2>3. \A e \in Members(a) : \E i \in 1 .. L : e = a[i]
    BY <1>3 DEF Members
  <2>4. \A i \in 1 .. Len(u) : u[i] \in Members(u)
    BY <1>3 DEF Members
  <2>5. \A i \in 1 .. L : a[i].node_name \in Members(x)
    BY <2>1, <2>2
  <2>6. QED
    BY <2>1, <2>2, <2>3, <2>4, <2>5
<1>6. ASSUME NEW i \in DOMAIN z, NEW j \in DOMAIN z, z[i].node_name = z[j].node_name
      PROVE  i = j
  <2>1. i \in 1 .. L + Len(u) /\ j \in 1 .. L + Len(u)
    BY <1>4
  <2>3. CASE i \in 1 .. L /\ z[i] = a[i] /\ j \in 1 .. L /\ z[j] = a[j]
    <3>1. x[i] = x[j]
      BY <2>3, <1>5, <1>6
    <3>2. QED
      BY <2>3, <3>1, <1>3 DEF Distinct, x
  <2>4. CASE i \in 1 .. L /\ z[i] = a[i] /\ j - L \in 1 .. Len(u) /\ z[j] = u[j - L]
    <3>1. z[j].node_name \in Members(x)
      BY <2>4, <1>5, <1>6
    <3>2. z[j] \in Members(u)
      BY <2>4, <1>5
    <3>3. QED
      BY <3>1, <3>2 DEF x
  <2>5. CASE j \in 1 .. L /\ z[j] = a[j] /\ i - L \in 1 .. Len(u) /\ z[i] = u[i - L]
    <3>1. z[i].node_name \in Members(x)
      BY <2>5, <1>5, <1>6
    <3>2. z[i] \in Members(u)
      BY <2>5, <1>5
    <3>3. QED
      BY <3>1, <3>2 DEF x
  <2>6. CASE /\ i - L \in 1 .. Len(u) /\ z[i] = u[i - L]
             /\ j - L \in 1 .. Len(u) /\ z[j] = u[j - L]
    <3>1. i - L = j - L
      BY <2>6, <1>3, <1>6
    <3>2. QED
      BY <2>1, <3>1, <1>3
  <2>7. QED
    BY <2>1, <2>3, <2>4, <2>5, <2>6, <1>4
<1>7. ASSUME NEW n \in Members(z) PROVE NodeAccepted(s, n)
  <2>1. CASE n \in Members(a)
    <3>1. PICK i \in 1 .. L : n = a[i]
      BY <2>1, <1>5
    <3>2. /\ SoundAlone(n) /\ n.node_name = x[i] /\ n.execution_index = i - 1
          /\ n.status \in {"Completed", "Failed"}
      BY <3>1, <1>5
    <3>3. n.execution_index < Len(x) /\ n.execution_index + 1 = i
      BY <3>2, <1>3
    <3>4. QED
      BY <3>2, <3>3 DEF NodeAccepted, SoundAlone, x
  <2>2. CASE n \in Members(u)
    BY <2>2 DEF NodeAccepted, SoundAlone
  <2>3. QED
    BY <2>1, <2>2, <1>2
<1>8. ASSUME NEW i \in DOMAIN x
      PROVE  \E n \in Members(z) : /\ n.node_name = x[i] /\ n.status \in {"Completed", "Failed"}
                                   /\ n.execution_index = i - 1
  BY <1>2, <1>3, <1>5
<1>9. s.workflow_status = "Completed" =>
          s.failure_summary = {} /\ Len(x) = Len(z) /\ statuses \subseteq {"Completed"}
  <2>1. SUFFICES ASSUME s.workflow_status = "Completed"
                 PROVE  s.failure_summary = {} /\ Len(x) = Len(z) /\ statuses \subseteq {"Completed"}
    OBVIOUS
  <2>2. u = <<>> /\ Len(<<>>) = 0 /\ Members(<<>>) = {}
    BY <2>1 DEF Members
  <2>3. Len(z) = L
    BY <2>2, <1>3, <1>4
  <2>4. \A n \in Members(z) : n.status = "Completed"
    BY <2>1, <2>2, <1>2, <1>3, <1>5
  <2>5. QED
    BY <2>1, <2>3, <2>4, <1>3
<1>10. s.workflow_status = "Failed" => s.failure_summary # {} /\ "Failed" \in statuses
  BY <1>2, <1>3, <1>5
<1>11. s.workflow_status = "Partial" =>
          "Failed" \notin statuses /\ "Skipped" \notin statuses /\ statuses \ {"Completed"} # {}
  <2>1. SUFFICES ASSUME s.workflow_status = "Partial"
                 PROVE  /\ "Failed" \notin statuses /\ "Skipped" \notin statuses
                        /\ statuses \ {"Completed"} # {}
    OBVIOUS
  <2>2. \A n \in Members(a) : n.status = "Completed"
    BY <2>1, <1>3, <1>5
  <2>3. \A n \in Members(u) : n.status \in {"Ready", "Blocked"}
    BY <2>1
  <2>4. Members(u) # {}
    BY <2>1
  <2>5. \A st \in statuses : st \in {"Completed", "Ready", "Blocked"}
    BY <2>2, <2>3, <1>2
  <2>6. PICK e \in Members(u) : TRUE
    BY <2>4
  <2>7. e.status \in statuses /\ e.status # "Completed"
    BY <2>3, <2>6, <1>2
  <2> HIDE DEF statuses
  <2>8. QED
    BY <2>5, <2>7
<1>12. SessionAccepted(s)
  BY <1>6, <1>7, <1>8, <1>9, <1>10, <1>11 DEF SessionAccepted, x, z
<1>13. \A e \in Members(z) : SoundAlone(e)
  BY <1>2, <1>5
<1>14. QED
  BY <1>2, <1>12, <1>13 DEF z

(* A node completes: the counts go down, and the queue takes up what it    *)
(* was the last to wait for.                                               *)
LEMMA CompleteNodeInv ==
    ASSUME SessionInv, NEW n \in Id, CompleteNode(n)
    PROVE  SessionInv'
<1> DEFINE X == ExecutedNames
           waiting == {m \in Nodes : n \in deps[m] /\ m \notin X \cup {n}}
           T == {i \in DOMAIN order : order[i] \in waiting /\ remaining_dependencies'[order[i]] \in {0}}
           e == Executed(n, "Completed", {})
<1>1. /\ At(n) /\ Failures(n) = {} /\ ~AsksToStop(n)
      /\ session' = [session EXCEPT !.execution_order = Append(session.execution_order, n),
                                    !.nodes = Append(session.nodes, e)]
      /\ remaining_dependencies' =
            [m \in Id |-> IF m \in waiting /\ remaining_dependencies[m] > 0
                            THEN remaining_dependencies[m] - 1 ELSE remaining_dependencies[m]]
      /\ ready_nodes' = Tail(ready_nodes) \o Picked(order, T)
      /\ UNCHANGED plan /\ mocks' = mocks /\ phase' = phase
  BY DEF CompleteNode, Completes
<1>2. /\ phase = "running" /\ PlanInv /\ RunInv /\ OrderInv /\ QueueInv
      /\ n \in Nodes /\ n \notin X /\ deps[n] \subseteq X /\ Nodes \subseteq Id
      /\ \A m \in Nodes : after[m] \in Seq(Id) /\ Distinct(after[m])
  BY <1>1, AtFacts
<1>3. order' = order /\ after' = after /\ bindings' = bindings /\ Nodes' = Nodes /\ deps' = deps
  BY <1>1 DEF plan, Nodes, deps
<1>4. e \in Entry /\ SoundAlone(e) /\ e.node_name = n /\ e.status = "Completed"
      /\ e.execution_index = Len(session.execution_order)
  BY <1>1, ExecutedFacts
<1> HIDE DEF e
<1>5. /\ session \in Session /\ session.execution_order \in Seq(Id) /\ session.nodes \in Seq(Entry)
  BY <1>2 DEF OrderInv, Session
<1>6. /\ session'.execution_order = Append(session.execution_order, n)
      /\ session'.nodes = Append(session.nodes, e)
      /\ session'.workflow_status = session.workflow_status
      /\ session'.failure_summary = session.failure_summary
      /\ session' \in Session
  <2>1. Append(session.execution_order, n) \in Seq(Id) /\ Append(session.nodes, e) \in Seq(Entry)
    BY <1>4, <1>5, AppendMembers
  <2>2. QED
    BY <1>1, <1>5, <2>1 DEF Session
<1>7. /\ OrderInv' /\ X' = X \cup {n}
      /\ Len(session.execution_order) \in Nat
      /\ Len(session'.execution_order) = Len(session.execution_order) + 1
      /\ \A i \in 1 .. Len(session.execution_order) :
            session'.execution_order[i] = session.execution_order[i]
      /\ session'.execution_order[Len(session.execution_order) + 1] = n
  BY <1>1, <1>6, OrderGrows
<1>8. PlanInv'
  BY <1>1, <1>2, <1>3 DEF PlanInv, PlanAccepted
<1> HIDE DEF X
<1>9. remaining_dependencies \in [Id -> Nat]
  BY <1>2 DEF QueueInv
<1>10. ASSUME NEW m \in Nodes, m \notin X \cup {n}
       PROVE  /\ remaining_dependencies'[m] = Cardinality(deps[m] \ (X \cup {n}))
              /\ remaining_dependencies'[m] = 0 <=> deps[m] \subseteq X \cup {n}
  <2>1. m \in Id /\ deps[m] = Members(after[m]) /\ IsFiniteSet(deps[m])
    <3>1. m \in Id /\ after[m] \in Seq(Id)
      BY <1>2
    <3>2. QED
      BY <3>1, MembersCount DEF deps
  <2>2. /\ remaining_dependencies[m] = Cardinality(deps[m] \ X) /\ remaining_dependencies[m] \in Nat
        /\ IsFiniteSet(deps[m] \ X)
    BY <2>1, <1>2, <1>9, <1>10, FS_Difference DEF RunInv, CountsInv, X
  <2>3. remaining_dependencies'[m] = Cardinality(deps[m] \ (X \cup {n}))
    <3>1. CASE n \in deps[m]
      <4>1. m \in waiting /\ n \in deps[m] \ X /\ (deps[m] \ X) \ {n} = deps[m] \ (X \cup {n})
        BY <3>1, <1>2, <1>10
      <4>2. Cardinality((deps[m] \ X) \ {n}) = Cardinality(deps[m] \ X) - 1
        BY <2>2, <4>1, FS_RemoveElement
      <4>3. Cardinality(deps[m] \ X) # 0
        BY <2>2, <4>1, FS_EmptySet
      <4>4. remaining_dependencies[m] > 0
        BY <2>2, <4>3
      <4> HIDE DEF waiting
      <4>5. remaining_dependencies'[m] = remaining_dependencies[m] - 1
        BY <2>1, <4>1, <4>4, <1>1
      <4>6. QED
        BY <2>2, <4>1, <4>2, <4>5
    <3>2. CASE n \notin deps[m]
      <4>1. m \notin waiting /\ deps[m] \ X = deps[m] \ (X \cup {n})
        BY <3>2
      <4> HIDE DEF waiting
      <4>2. remaining_dependencies'[m] = remaining_dependencies[m]
        BY <2>1, <4>1, <1>1
      <4>3. QED
        BY <2>2, <4>1, <4>2
    <3>3. QED
      BY <3>1, <3>2
  <2>4. IsFiniteSet(deps[m] \ (X \cup {n}))
    BY <2>1, FS_Difference
  <2>5. Cardinality(deps[m] \ (X \cup {n})) = 0 <=> deps[m] \ (X \cup {n}) = {}
    BY <2>4, FS_EmptySet
  <2>6. QED
    BY <2>3, <2>5
<1>11. CountsInv'
  BY <1>3, <1>7, <1>10 DEF CountsInv, X
<1>12. /\ order \in Seq(Id) /\ Distinct(order) /\ T \in SUBSET DOMAIN order
       /\ {order[i] : i \in T} = {m \in waiting : remaining_dependencies'[m] = 0}
  BY <1>2 DEF PlanInv, Nodes, Declared, Members
<1> HIDE DEF T
<1>13. /\ Picked(order, T) \in Seq(Id) /\ Distinct(Picked(order, T))
       /\ Members(Picked(order, T)) = {m \in waiting : remaining_dependencies'[m] = 0}
  BY <1>12, PickedFacts
<1>14. /\ Tail(ready_nodes) \in Seq(Id) /\ Distinct(Tail(ready_nodes))
       /\ Members(Tail(ready_nodes)) = Members(ready_nodes) \ {n}
  <2>1. /\ ready_nodes \in Seq(Id) /\ ready_nodes # <<>> /\ Distinct(ready_nodes)
        /\ n = Head(ready_nodes)
    BY <1>1, <1>2 DEF At, QueueInv
  <2>2. QED
    BY <2>1, TailMembers
<1>15. Members(ready_nodes) = {m \in Nodes \ X : deps[m] \subseteq X}
  BY <1>2 DEF RunInv, ReadyInv, X
<1>16. Members(Tail(ready_nodes)) \cap Members(Picked(order, T)) = {}
  BY <1>2, <1>13, <1>14, <1>15
<1>17. /\ ready_nodes' \in Seq(Id) /\ Distinct(ready_nodes')
       /\ Members(ready_nodes') = Members(Tail(ready_nodes)) \cup Members(Picked(order, T))
  <2> DEFINE p == Tail(ready_nodes)
             q == Picked(order, T)
  <2>1. /\ p \in Seq(Id) /\ q \in Seq(Id) /\ Distinct(p) /\ Distinct(q)
        /\ Members(p) \cap Members(q) = {} /\ ready_nodes' = p \o q
    BY <1>1, <1>13, <1>14, <1>16
  <2> HIDE DEF p, q
  <2>2. p \o q \in Seq(Id) /\ Distinct(p \o q) /\ Members(p \o q) = Members(p) \cup Members(q)
    BY <2>1, ConcatMembers
  <2>3. QED
    BY <2>1, <2>2 DEF p, q
<1>18. ReadyInv'
  <2>1. ASSUME NEW m
        PROVE  m \in Members(ready_nodes') <=>
                  m \in Nodes /\ m \notin X \cup {n} /\ deps[m] \subseteq X \cup {n}
    <3>1. CASE m \in Nodes /\ m \notin X \cup {n}
      BY <3>1, <1>10, <1>13, <1>14, <1>15, <1>17
    <3>2. CASE ~(m \in Nodes /\ m \notin X \cup {n})
      BY <3>2, <1>13, <1>14, <1>15, <1>17
    <3>3. QED
      BY <3>1, <3>2
  <2>2. QED
    BY <2>1, <1>3, <1>7 DEF ReadyInv, X
<1>19. QueueInv'
  <2>1. Members(ready_nodes') \subseteq Nodes
    BY <1>13, <1>14, <1>15, <1>17
  <2>2. ASSUME NEW m \in Id
        PROVE  /\ remaining_dependencies'[m] \in Nat
               /\ remaining_dependencies'[m] <= Len(after[m])
    <3>1. remaining_dependencies[m] \in Nat /\ remaining_dependencies[m] <= Len(after[m])
      BY <1>2 DEF QueueInv
    <3>2. Len(after[m]) \in Nat
      BY <1>2, LenProperties DEF PlanInv
    <3> HIDE DEF waiting
    <3>3. QED
      BY <3>1, <3>2, <1>1
  <2>3. remaining_dependencies' \in [Id -> Nat]
    BY <1>1, <2>2
  <2>4. QED
    BY <1>1, <1>2, <1>3, <1>17, <2>1, <2>2, <2>3 DEF QueueInv
<1>20. EntriesInv'
  <2> DEFINE L == Len(session.nodes)
             z == session'.nodes
  <2>1. /\ session.workflow_status = "Completed" /\ session.failure_summary = {}
        /\ L = Len(session.execution_order) /\ L \in Nat
        /\ \A i \in 1 .. L : /\ session.nodes[i].node_name = session.execution_order[i]
                             /\ session.nodes[i].status = "Completed"
                             /\ session.nodes[i].execution_index = i - 1
                             /\ SoundAlone(session.nodes[i])
    BY <1>2, <1>5, LenProperties DEF RunInv, EntriesInv
  <2>2. /\ Len(z) = L + 1 /\ DOMAIN z = 1 .. L + 1
        /\ \A i \in 1 .. L : z[i] = session.nodes[i]
        /\ z[L + 1] = e
    BY <1>4, <1>5, <1>6, AppendMembers
  <2> HIDE DEF L, z
  <2>3. ASSUME NEW i \in 1 .. L + 1
        PROVE  /\ z[i].node_name = session'.execution_order[i] /\ z[i].status = "Completed"
               /\ z[i].execution_index = i - 1 /\ SoundAlone(z[i])
    <3>1. CASE i = L + 1
      <4>1. L = i - 1
        BY <3>1, <2>1
      <4>2. QED
        BY <3>1, <4>1, <2>1, <2>2, <1>4, <1>7
    <3>2. CASE i # L + 1
      <4>1. i \in 1 .. L
        BY <3>2, <2>1
      <4>2. QED
        BY <4>1, <2>1, <2>2, <1>7
    <3>3. QED
      BY <3>1, <3>2
  <2>4. QED
    BY <2>1, <2>2, <2>3, <1>6, <1>7 DEF EntriesInv, z
<1>21. QED
  BY <1>1, <1>2, <1>7, <1>8, <1>11, <1>18, <1>19, <1>20 DEF SessionInv, RunInv, Built
-----------------------------------------------------------------------------
(* While the builder runs, the entries are those of the executed nodes. *)
LEMMA EntryNames ==
    ASSUME SessionInv, phase = "running"
    PROVE  /\ session \in Session /\ session.nodes \in Seq(Entry)
           /\ session.execution_order \in Seq(Id)
           /\ Len(session.nodes) = Len(session.execution_order)
           /\ Len(session.nodes) \in Nat /\ DOMAIN session.nodes = 1 .. Len(session.nodes)
           /\ \A i \in DOMAIN session.nodes :
                 /\ SoundAlone(session.nodes[i])
                 /\ session.nodes[i].node_name = session.execution_order[i]
                 /\ session.nodes[i].execution_index = i - 1
                 /\ session.nodes[i].status = "Completed"
           /\ {e.node_name : e \in Members(session.nodes)} = ExecutedNames
           /\ \A e \in Members(session.nodes) : e.status = "Completed"
           /\ \A i \in DOMAIN session.execution_order :
                 deps[session.execution_order[i]] \subseteq ExecutedNames
<1> DEFINE z == session.nodes
           x == session.execution_order
<1>1. session \in Session /\ z \in Seq(Entry) /\ x \in Seq(Id) /\ EntriesInv /\ OrderInv
  BY DEF SessionInv, RunInv, OrderInv, Session
<1>2. /\ Len(z) = Len(x) /\ Len(z) \in Nat /\ DOMAIN z = 1 .. Len(z) /\ DOMAIN x = 1 .. Len(x)
  BY <1>1, LenProperties DEF EntriesInv
<1>3. \A i \in DOMAIN z : /\ SoundAlone(z[i]) /\ z[i].node_name = x[i]
                          /\ z[i].execution_index = i - 1 /\ z[i].status = "Completed"
  BY <1>1 DEF EntriesInv
<1>4. \A i \in DOMAIN x : deps[x[i]] \subseteq {x[j] : j \in 1 .. i - 1}
  BY <1>1 DEF OrderInv
<1>5. ExecutedNames = {x[i] : i \in DOMAIN x} /\ Members(z) = {z[i] : i \in DOMAIN z}
  BY DEF ExecutedNames, Members
<1> HIDE DEF z, x
<1>6. {e.node_name : e \in Members(z)} = ExecutedNames
  BY <1>2, <1>3, <1>5
<1>7. \A e \in Members(z) : e.status = "Completed"
  BY <1>3, <1>5
<1>8. ASSUME NEW i \in DOMAIN x PROVE deps[x[i]] \subseteq ExecutedNames
  <2>1. 1 .. i - 1 \subseteq DOMAIN x
    BY <1>2
  <2>2. QED
    BY <2>1, <1>4, <1>5
<1>9. QED
  BY <1>1, <1>2, <1>3, <1>6, <1>7, <1>8 DEF x, z

(* The builder returns. *)
LEMMA ReturnsInv ==
    ASSUME SessionInv, phase = "running", phase' = "built", OrderInv', BuiltInv',
           UNCHANGED <<plan, mocks, ready_nodes, remaining_dependencies>>
    PROVE  SessionInv'
<1>1. /\ order' = order /\ after' = after /\ bindings' = bindings /\ mocks' = mocks
      /\ ready_nodes' = ready_nodes /\ remaining_dependencies' = remaining_dependencies
      /\ Nodes' = Nodes /\ deps' = deps
  BY DEF plan, Nodes, deps
<1>2. PlanInv'
  BY <1>1 DEF SessionInv, PlanInv, PlanAccepted
<1>3. QueueInv'
  BY <1>1 DEF SessionInv, QueueInv
<1>4. QED
  BY <1>2, <1>3 DEF SessionInv

(* Every node was executed. *)
LEMMA CompleteInv ==
    ASSUME SessionInv, Complete
    PROVE  SessionInv'
<1>1. /\ phase = "running" /\ phase' = "built" /\ ExecutedNames = Nodes /\ session' = session
      /\ UNCHANGED <<plan, mocks, ready_nodes, remaining_dependencies>>
  BY DEF Complete
<1>2. Nodes' = Nodes /\ deps' = deps /\ ExecutedNames' = ExecutedNames
  BY <1>1 DEF plan, Nodes, deps, ExecutedNames
<1>3. OrderInv'
  BY <1>1, <1>2 DEF SessionInv, OrderInv
<1>4. /\ session \in Session /\ session.nodes \in Seq(Entry)
      /\ Len(session.nodes) = Len(session.execution_order)
      /\ \A i \in DOMAIN session.nodes :
            /\ SoundAlone(session.nodes[i])
            /\ session.nodes[i].node_name = session.execution_order[i]
            /\ session.nodes[i].execution_index = i - 1
            /\ session.nodes[i].status = "Completed"
      /\ {e.node_name : e \in Members(session.nodes)} = ExecutedNames
      /\ \A e \in Members(session.nodes) : e.status = "Completed"
      /\ \A i \in DOMAIN session.execution_order :
            deps[session.execution_order[i]] \subseteq ExecutedNames
  BY <1>1, EntryNames
<1>5. Completed = Nodes
  BY <1>1, <1>4 DEF Completed
<1>6. /\ session.workflow_status = "Completed" /\ session.failure_summary = {}
      /\ Distinct(session.execution_order)
  BY <1>1 DEF SessionInv, RunInv, EntriesInv, OrderInv
<1>7. /\ <<>> \in Seq(Entry) /\ session.nodes \o <<>> = session.nodes
      /\ DOMAIN <<>> = {} /\ Members(<<>>) = {}
  BY <1>4, ConcatEmptySeq, EmptySeq DEF Members
<1>8. SessionAccepted(session) /\ \A e \in Members(session.nodes) : SoundAlone(e)
  <2> DEFINE s == session
             z == session.nodes
  <2>1. /\ s \in Session /\ z \in Seq(Entry) /\ s.nodes = z \o <<>> /\ Len(z) = Len(s.execution_order)
        /\ Distinct(s.execution_order) /\ s.workflow_status = "Completed" /\ s.failure_summary = {}
        /\ \A i \in DOMAIN z :
              /\ SoundAlone(z[i]) /\ z[i].node_name = s.execution_order[i]
              /\ z[i].execution_index = i - 1 /\ z[i].status = "Completed"
    BY <1>4, <1>6, <1>7
  <2> HIDE DEF s, z
  <2>2. Joined(s, z, <<>>)
    BY <2>1, <1>7 DEF Joined
  <2>3. SessionAccepted(s) /\ \A e \in Members(s.nodes) : SoundAlone(e)
    BY <2>2, JoinedAccepted
  <2>4. QED
    BY <2>3 DEF s
<1>9. BuiltInv
  <2>1. ASSUME NEW i \in 1 .. Len(session.execution_order) - 1
        PROVE  session.execution_order[i] \in Completed
    <3>1. session.execution_order \in Seq(Id)
      BY <1>4 DEF Session
    <3>2. i \in DOMAIN session.execution_order
      BY <3>1, LenProperties
    <3>3. QED
      BY <3>2, <1>1, <1>5 DEF ExecutedNames, Members
  <2>2. QED
    BY <2>1, <1>1, <1>4, <1>5, <1>6, <1>8 DEF BuiltInv
<1>10. BuiltInv'
  BY <1>1, <1>2, <1>9 DEF BuiltInv, Completed
<1>11. QED
  BY <1>1, <1>3, <1>10, ReturnsInv

(* A mock asks to stop: what is left is ready or blocked. *)
LEMMA StopEarlyInv ==
    ASSUME SessionInv, NEW n \in Id, StopEarly(n)
    PROVE  SessionInv'
<1> DEFINE X == ExecutedNames
           f == [m \in Id |-> IF remaining_dependencies[m] = 0 THEN "Ready" ELSE "Blocked"]
           z == session.nodes
           u == Unreached(X, f)
           s == session'
<1>1. /\ At(n) /\ phase' = "built"
      /\ session' = [session EXCEPT !.workflow_status = "Partial", !.nodes = z \o u]
      /\ UNCHANGED <<plan, mocks, ready_nodes, remaining_dependencies>>
  BY DEF StopEarly
<1>2. /\ phase = "running" /\ RunInv /\ OrderInv /\ n \in Nodes /\ n \notin X /\ Nodes \subseteq Id
      /\ \A m \in Nodes : after[m] \in Seq(Id)
  BY <1>1, AtFacts
<1>3. f \in [Id -> {"Skipped", "Ready", "Blocked"}]
  OBVIOUS
<1>4. \A m \in Id : /\ f[m] \in {"Ready", "Blocked"}
                    /\ f[m] = "Ready" <=> remaining_dependencies[m] = 0
  OBVIOUS
<1> HIDE DEF f
<1>5. /\ u \in Seq(Entry)
      /\ \A i, j \in DOMAIN u : u[i].node_name = u[j].node_name => i = j
      /\ {e.node_name : e \in Members(u)} = Nodes \ X
      /\ \A e \in Members(u) : SoundAlone(e) /\ e.used_mocks = <<>> /\ e.status = f[e.node_name]
  BY <1>2, <1>3, UnreachedFacts
<1>6. /\ session \in Session /\ z \in Seq(Entry)
      /\ Len(z) = Len(session.execution_order)
      /\ \A i \in DOMAIN z :
            /\ SoundAlone(z[i]) /\ z[i].node_name = session.execution_order[i]
            /\ z[i].execution_index = i - 1 /\ z[i].status = "Completed"
      /\ {e.node_name : e \in Members(z)} = X
      /\ \A e \in Members(z) : e.status = "Completed"
      /\ \A i \in DOMAIN session.execution_order : deps[session.execution_order[i]] \subseteq X
  BY <1>2, EntryNames
<1> HIDE DEF u
<1>7. z \o u \in Seq(Entry)
  BY <1>5, <1>6, ConcatAnyMembers
<1>8. /\ s \in Session /\ s.nodes = z \o u /\ s.workflow_status = "Partial"
      /\ s.execution_order = session.execution_order
  BY <1>1, <1>6, <1>7 DEF Session
<1>9. Nodes' = Nodes /\ deps' = deps /\ X' = X
  BY <1>1, <1>8 DEF plan, Nodes, deps, ExecutedNames
<1>10. OrderInv'
  BY <1>2, <1>8, <1>9 DEF OrderInv
<1> HIDE DEF z, s
<1>11. X = Members(s.execution_order) /\ Distinct(s.execution_order) /\ X \subseteq Nodes
  BY <1>2, <1>8 DEF ExecutedNames, OrderInv
<1> HIDE DEF X
<1>12. \A e \in Members(u) : /\ e.node_name \in Nodes \ X /\ e.node_name \in Id
                             /\ e.status \in {"Ready", "Blocked"}
                             /\ e.status = "Ready" <=> remaining_dependencies[e.node_name] = 0
  BY <1>2, <1>4, <1>5
<1>13. Members(u) # {}
  BY <1>2, <1>5
<1>14. /\ SessionAccepted(s) /\ Members(s.nodes) = Members(z) \cup Members(u)
       /\ \A d \in Members(s.nodes) : SoundAlone(d)
  <2>1. /\ s \in Session /\ z \in Seq(Entry) /\ u \in Seq(Entry) /\ s.nodes = z \o u
        /\ Distinct(s.execution_order) /\ Len(z) = Len(s.execution_order)
    BY <1>5, <1>6, <1>8, <1>11
  <2>2. \A i \in DOMAIN z :
           /\ SoundAlone(z[i]) /\ z[i].node_name = s.execution_order[i]
           /\ z[i].execution_index = i - 1 /\ z[i].status \in {"Completed", "Failed"}
    BY <1>6, <1>8
  <2>3. \A e \in Members(u) :
           /\ SoundAlone(e) /\ e.used_mocks = <<>> /\ e.node_name \notin Members(s.execution_order)
           /\ e.status \in {"Skipped", "Ready", "Blocked"}
           /\ e.status = "Skipped" => s.workflow_status = "Failed"
           /\ e.status # "Skipped" => s.workflow_status = "Partial"
    BY <1>5, <1>8, <1>11, <1>12
  <2>4. \A i, j \in DOMAIN u : u[i].node_name = u[j].node_name => i = j
    BY <1>5
  <2>5. /\ s.workflow_status = "Completed" =>
              /\ s.failure_summary = {} /\ u = <<>>
              /\ \A i \in DOMAIN z : z[i].status = "Completed"
        /\ s.workflow_status = "Failed" =>
              s.failure_summary # {} /\ \E i \in DOMAIN z : z[i].status = "Failed"
        /\ s.workflow_status = "Partial" =>
              Members(u) # {} /\ \A i \in DOMAIN z : z[i].status = "Completed"
    BY <1>6, <1>8, <1>13
  <2>6. Joined(s, z, u)
    BY <2>1, <2>2, <2>3, <2>4, <2>5, Zenon DEF Joined
  <2>7. QED
    BY <2>6, JoinedAccepted
<1>15. Completed' = X
  BY <1>6, <1>12, <1>14 DEF Completed, s
<1>16. {e.node_name : e \in Members(s.nodes)} = Nodes
  BY <1>5, <1>6, <1>11, <1>14
<1>17. ASSUME NEW e \in Members(s.nodes), e.node_name \notin X
       PROVE  e.status = "Ready" <=> deps[e.node_name] \subseteq X
  <2> DEFINE m == e.node_name
  <2>1. e \in Members(u)
    BY <1>6, <1>14, <1>17
  <2>2. m \in Nodes \ X /\ m \in Id /\ (e.status = "Ready" <=> remaining_dependencies[m] = 0)
    BY <2>1, <1>12
  <2> HIDE DEF m
  <2>3. remaining_dependencies[m] = Cardinality(deps[m] \ X)
    BY <2>2, <1>2 DEF RunInv, CountsInv, X
  <2>4. IsFiniteSet(deps[m])
    <3>1. after[m] \in Seq(Id) /\ deps[m] = Members(after[m])
      BY <2>2, <1>2 DEF deps
    <3>2. QED
      BY <3>1, MembersCount
  <2>5. IsFiniteSet(deps[m] \ X)
    BY <2>4, FS_Difference
  <2>6. Cardinality(deps[m] \ X) = 0 <=> deps[m] \ X = {}
    BY <2>5, FS_EmptySet
  <2>7. e.status = "Ready" <=> deps[m] \subseteq X
    BY <2>2, <2>3, <2>6
  <2>8. QED
    BY <2>7 DEF m
<1>18. BuiltInv'
  <2>1. \A i \in DOMAIN s.execution_order : deps'[s.execution_order[i]] \subseteq Completed'
    BY <1>6, <1>8, <1>9, <1>15
  <2>2. \A e \in Members(s.nodes) : e.node_name \notin Completed' =>
            (e.status = "Ready" <=> deps'[e.node_name] \subseteq Completed')
    BY <1>9, <1>15, <1>17
  <2>3. {e.node_name : e \in Members(s.nodes)} = Nodes'
    BY <1>9, <1>16
  <2>4. \A i \in 1 .. Len(s.execution_order) - 1 : s.execution_order[i] \in Completed'
    <3>1. DOMAIN s.execution_order = 1 .. Len(s.execution_order) /\ Len(s.execution_order) \in Nat
      BY <1>8, LenProperties DEF Session
    <3>2. QED
      BY <3>1, <1>11, <1>15 DEF Members
  <2>5. s.failure_summary = {}
    BY <1>1, <1>2, <1>6 DEF RunInv, EntriesInv, Session, s
  <2>6. QED
    BY <2>1, <2>2, <2>3, <2>4, <2>5, <1>14 DEF BuiltInv, s
<1>19. QED
  BY <1>1, <1>2, <1>10, <1>18, ReturnsInv

(* A mock fails or is missing: the session fails with the node. *)
LEMMA FailNodeInv ==
    ASSUME SessionInv, NEW n \in Id, FailNode(n)
    PROVE  SessionInv'
<1> DEFINE X == ExecutedNames
           f == [m \in Id |-> "Skipped"]
           z == session.nodes
           e == Executed(n, "Failed", Failures(n))
           a == Append(z, e)
           Y == X \cup {n}
           u == Unreached(Y, f)
           s == session'
<1>1. /\ At(n) /\ phase' = "built" /\ Failures(n) # {}
      /\ session' = [session EXCEPT !.workflow_status = "Failed",
                                    !.failure_summary = {[kind |-> "WorkflowFailed", node_name |-> n]},
                                    !.execution_order = Append(session.execution_order, n),
                                    !.nodes = a \o u]
      /\ UNCHANGED <<plan, mocks, ready_nodes, remaining_dependencies>>
  BY DEF FailNode
<1>2. /\ phase = "running" /\ OrderInv /\ n \in Nodes /\ n \notin X /\ deps[n] \subseteq X
      /\ Nodes \subseteq Id
  BY <1>1, AtFacts
<1>3. f \in [Id -> {"Skipped", "Ready", "Blocked"}] /\ \A m \in Id : f[m] = "Skipped"
  OBVIOUS
<1> HIDE DEF f
<1>4. /\ e \in Entry /\ SoundAlone(e) /\ e.node_name = n /\ e.status = "Failed"
      /\ e.execution_index = Len(session.execution_order)
  BY <1>1, ExecutedFacts
<1> HIDE DEF e
<1>5. /\ u \in Seq(Entry)
      /\ \A i, j \in DOMAIN u : u[i].node_name = u[j].node_name => i = j
      /\ {d.node_name : d \in Members(u)} = Nodes \ Y
      /\ \A d \in Members(u) : SoundAlone(d) /\ d.used_mocks = <<>> /\ d.status = f[d.node_name]
  <2> HIDE DEF Y
  <2>1. QED
    BY <1>2, <1>3, UnreachedFacts
<1> HIDE DEF u
<1>6. \A d \in Members(u) : d.node_name \in Nodes \ (X \cup {n}) /\ d.status = "Skipped"
  BY <1>2, <1>3, <1>5
<1>7. /\ session \in Session /\ z \in Seq(Entry) /\ session.execution_order \in Seq(Id)
      /\ Len(z) = Len(session.execution_order) /\ Len(z) \in Nat /\ DOMAIN z = 1 .. Len(z)
      /\ \A i \in DOMAIN z :
            /\ SoundAlone(z[i]) /\ z[i].node_name = session.execution_order[i]
            /\ z[i].execution_index = i - 1 /\ z[i].status = "Completed"
      /\ {d.node_name : d \in Members(z)} = X
      /\ \A d \in Members(z) : d.status = "Completed"
      /\ \A i \in DOMAIN session.execution_order : deps[session.execution_order[i]] \subseteq X
  BY <1>2, EntryNames
<1>8. /\ a \in Seq(Entry) /\ Len(a) = Len(z) + 1 /\ DOMAIN a = 1 .. Len(z) + 1
      /\ \A i \in 1 .. Len(z) : a[i] = z[i]
      /\ a[Len(z) + 1] = e
      /\ Members(a) = Members(z) \cup {e}
  BY <1>4, <1>7, AppendMembers
<1> HIDE DEF a
<1>9. /\ s \in Session /\ s.nodes = a \o u /\ s.workflow_status = "Failed"
      /\ s.execution_order = Append(session.execution_order, n) /\ s.failure_summary # {}
  <2>1. a \o u \in Seq(Entry)
    BY <1>5, <1>8, ConcatAnyMembers
  <2>2. Append(session.execution_order, n) \in Seq(Id)
    BY <1>7, AppendMembers
  <2>3. {[kind |-> "WorkflowFailed", node_name |-> n]} \in SUBSET Summary
    BY DEF Summary
  <2>4. QED
    BY <1>1, <1>7, <2>1, <2>2, <2>3 DEF Session
<1>10. UNCHANGED plan
  BY <1>1
<1>11. /\ OrderInv' /\ X' = X \cup {n}
       /\ Len(s.execution_order) = Len(session.execution_order) + 1
       /\ \A i \in 1 .. Len(session.execution_order) :
             s.execution_order[i] = session.execution_order[i]
       /\ s.execution_order[Len(session.execution_order) + 1] = n
  BY <1>1, <1>9, <1>10, OrderGrows
<1>12. Nodes' = Nodes /\ deps' = deps
  BY <1>10 DEF plan, Nodes, deps
<1> HIDE DEF z
<1>13. /\ X \cup {n} = Members(s.execution_order) /\ Distinct(s.execution_order) /\ X \subseteq Nodes
       /\ s.execution_order \in Seq(Id)
  BY <1>2, <1>9, <1>11 DEF ExecutedNames, OrderInv, Session
<1> HIDE DEF s
<1>14. ASSUME NEW i \in DOMAIN a
       PROVE  /\ SoundAlone(a[i]) /\ a[i].node_name = s.execution_order[i]
              /\ a[i].execution_index = i - 1 /\ a[i].status \in {"Completed", "Failed"}
              /\ deps[s.execution_order[i]] \subseteq X
  <2>1. CASE i = Len(z) + 1
    <3>1. i - 1 = Len(z)
      BY <2>1, <1>7
    <3>2. QED
      BY <2>1, <3>1, <1>2, <1>4, <1>7, <1>8, <1>11
  <2>2. CASE i # Len(z) + 1
    <3>1. i \in 1 .. Len(z)
      BY <2>2, <1>7, <1>8
    <3>2. i \in DOMAIN session.execution_order
      BY <3>1, <1>7, LenProperties
    <3>3. QED
      BY <3>1, <3>2, <1>7, <1>8, <1>11
  <2>3. QED
    BY <2>1, <2>2
<1>15. /\ SessionAccepted(s) /\ Members(s.nodes) = Members(a) \cup Members(u)
       /\ \A d \in Members(s.nodes) : SoundAlone(d)
  <2>1. /\ s \in Session /\ a \in Seq(Entry) /\ u \in Seq(Entry) /\ s.nodes = a \o u
        /\ Distinct(s.execution_order) /\ Len(a) = Len(s.execution_order)
    BY <1>5, <1>7, <1>8, <1>9, <1>11, <1>13
  <2>2. \A i \in DOMAIN a :
           /\ SoundAlone(a[i]) /\ a[i].node_name = s.execution_order[i]
           /\ a[i].execution_index = i - 1 /\ a[i].status \in {"Completed", "Failed"}
    BY <1>14
  <2>3. \A d \in Members(u) :
           /\ SoundAlone(d) /\ d.used_mocks = <<>> /\ d.node_name \notin Members(s.execution_order)
           /\ d.status \in {"Skipped", "Ready", "Blocked"}
           /\ d.status = "Skipped" => s.workflow_status = "Failed"
           /\ d.status # "Skipped" => s.workflow_status = "Partial"
    BY <1>5, <1>6, <1>9, <1>13
  <2>4. \A i, j \in DOMAIN u : u[i].node_name = u[j].node_name => i = j
    BY <1>5
  <2>5. \E i \in DOMAIN a : a[i].status = "Failed"
    <3>1. Len(z) + 1 \in DOMAIN a
      BY <1>7, <1>8
    <3>2. QED
      BY <3>1, <1>4, <1>8
  <2>6. /\ s.workflow_status = "Completed" =>
              /\ s.failure_summary = {} /\ u = <<>>
              /\ \A i \in DOMAIN a : a[i].status = "Completed"
        /\ s.workflow_status = "Failed" =>
              s.failure_summary # {} /\ \E i \in DOMAIN a : a[i].status = "Failed"
        /\ s.workflow_status = "Partial" =>
              Members(u) # {} /\ \A i \in DOMAIN a : a[i].status = "Completed"
    BY <1>9, <2>5
  <2>7. Joined(s, a, u)
    BY <2>1, <2>2, <2>3, <2>4, <2>6, Zenon DEF Joined
  <2>8. QED
    BY <2>7, JoinedAccepted
<1>16. \A d \in Members(s.nodes) : d \in Members(z) \/ d = e \/ d \in Members(u)
  BY <1>8, <1>15
<1>17. Members(z) \subseteq Members(s.nodes) /\ e \in Members(s.nodes) /\ Members(u) \subseteq Members(s.nodes)
  BY <1>8, <1>15
<1>18. Completed' = X
  <2>1. \A d \in Members(s.nodes) : d.status = "Completed" => d \in Members(z)
    BY <1>4, <1>6, <1>16
  <2>2. {d \in Members(s.nodes) : d.status = "Completed"} = Members(z)
    BY <2>1, <1>7, <1>17
  <2>3. QED
    BY <2>2, <1>7 DEF Completed, s
<1>19. {d.node_name : d \in Members(s.nodes)} = Nodes
  <2>1. \A d \in Members(s.nodes) : d.node_name \in Nodes
    BY <1>2, <1>4, <1>6, <1>7, <1>13, <1>16
  <2>2. ASSUME NEW m \in Nodes PROVE \E d \in Members(s.nodes) : d.node_name = m
    <3>1. CASE m \in X
      BY <3>1, <1>7, <1>17
    <3>2. CASE m = n
      BY <3>2, <1>4, <1>17
    <3>3. CASE m \notin X \cup {n}
      BY <3>3, <1>5, <1>17
    <3>4. QED
      BY <3>1, <3>2, <3>3
  <2>3. QED
    BY <2>1, <2>2
<1>20. BuiltInv'
  <2>1. DOMAIN s.execution_order = DOMAIN a
    BY <1>7, <1>8, <1>11, <1>13, LenProperties
  <2>2. \A i \in DOMAIN s.execution_order : deps'[s.execution_order[i]] \subseteq Completed'
    BY <2>1, <1>12, <1>14, <1>18
  <2>3. {d.node_name : d \in Members(s.nodes)} = Nodes'
    BY <1>12, <1>19
  <2>4. s.workflow_status # "Partial"
    BY <1>9
  <2>5. \A i \in 1 .. Len(s.execution_order) - 1 : s.execution_order[i] \in Completed'
    <3>1. DOMAIN session.execution_order = 1 .. Len(session.execution_order)
      BY <1>7, LenProperties
    <3>2. \A i \in 1 .. Len(session.execution_order) : session.execution_order[i] \in X
      BY <3>1 DEF ExecutedNames, Members
    <3>3. Len(s.execution_order) - 1 = Len(session.execution_order)
      BY <1>7, <1>11
    <3>4. QED
      BY <3>2, <3>3, <1>11, <1>18
  <2>6. \A d \in s.failure_summary : d.kind = "WorkflowFailed"
    BY <1>1, <1>7 DEF Session, s
  <2>7. QED
    BY <2>2, <2>3, <2>4, <2>5, <2>6, <1>15 DEF BuiltInv, s
<1>21. QED
  BY <1>1, <1>2, <1>11, <1>20, ReturnsInv
-----------------------------------------------------------------------------
(* Nothing the invariant speaks of changes. *)
LEMMA SessionStutters ==
    ASSUME SessionInv, UNCHANGED sessionVars
    PROVE  SessionInv'
<1>1. /\ order' = order /\ after' = after /\ bindings' = bindings /\ mocks' = mocks
      /\ phase' = phase /\ ready_nodes' = ready_nodes
      /\ remaining_dependencies' = remaining_dependencies /\ session' = session
  BY DEF sessionVars, plan
<1>2. Nodes' = Nodes /\ deps' = deps /\ ExecutedNames' = ExecutedNames /\ Completed' = Completed
  BY <1>1 DEF Nodes, deps, ExecutedNames, Completed
<1>3. PlanInv'
  BY <1>1, <1>2 DEF SessionInv, PlanInv, PlanAccepted
<1>4. QueueInv'
  BY <1>1, <1>2 DEF SessionInv, QueueInv
<1>5. OrderInv'
  BY <1>1, <1>2 DEF SessionInv, OrderInv
<1>6. phase = "running" => RunInv'
  <2>1. SUFFICES ASSUME phase = "running" PROVE RunInv'
    OBVIOUS
  <2>2. CountsInv'
    BY <1>1, <1>2, <2>1 DEF SessionInv, RunInv, CountsInv
  <2>3. ReadyInv'
    BY <1>1, <1>2, <2>1 DEF SessionInv, RunInv, ReadyInv
  <2>4. EntriesInv'
    BY <1>1, <1>2, <2>1 DEF SessionInv, RunInv, EntriesInv
  <2>5. QED
    BY <2>2, <2>3, <2>4 DEF RunInv
<1>7. Built => BuiltInv'
  BY <1>1, <1>2 DEF SessionInv, BuiltInv
<1>8. QED
  BY <1>1, <1>3, <1>4, <1>5, <1>6, <1>7 DEF SessionInv, Built

(* Every step of the builder keeps the session invariant. *)
LEMMA SessionStep == SessionInv /\ [SessionNext]_sessionVars => SessionInv'
<1> SUFFICES ASSUME SessionInv, [SessionNext]_sessionVars PROVE SessionInv'
  OBVIOUS
<1>1. CASE \E n \in Id, capabilities \in SUBSET Members(Slots) :
              \E k \in 0 .. MaxAfter : \E list \in [1 .. k -> Id] : PlanNode(n, list, capabilities)
  BY <1>1, PlanNodeInv
<1>2. CASE Refuse
  BY <1>2, RefuseInv
<1>3. CASE Begin
  BY <1>3, BeginSessionInv
<1>4. ASSUME NEW n \in Id, FailNode(n) PROVE SessionInv'
  BY <1>4, FailNodeInv
<1>5. ASSUME NEW n \in Id, StopEarly(n) PROVE SessionInv'
  BY <1>5, StopEarlyInv
<1>6. ASSUME NEW n \in Id, CompleteNode(n) PROVE SessionInv'
  BY <1>6, CompleteNodeInv
<1>7. CASE Complete
  BY <1>7, CompleteInv
<1>8. CASE UNCHANGED sessionVars
  BY <1>8, SessionStutters
<1>9. QED
  BY <1>1, <1>2, <1>3, <1>4, <1>5, <1>6, <1>7, <1>8 DEF SessionNext

(* The session invariant holds throughout. *)
LEMMA SessionInvariant == SessionSpec => []SessionInv
BY SessionInitInv, SessionStep, PTL DEF SessionSpec

(* The queue runs dry only when nothing is left: otherwise the nodes left  *)
(* would be a nonempty set each member of which depends on another.        *)
LEMMA NothingIsStuck ==
    ASSUME SessionInv, phase = "running", ready_nodes = <<>>
    PROVE  ExecutedNames = Nodes
<1> DEFINE S == Nodes \ ExecutedNames
<1>1. /\ IsDag(order, deps) /\ ReadyInv /\ ExecutedNames \subseteq Nodes
  BY DEF SessionInv, PlanInv, PlanAccepted, RunInv, OrderInv
<1>2. Members(<<>>) = {}
  BY DEF Members
<1>3. \A m \in S : ~(deps[m] \subseteq ExecutedNames)
  BY <1>1, <1>2 DEF ReadyInv
<1>4. \A m \in S : deps[m] \cap S # {}
  BY <1>1, <1>3 DEF IsDag, Closed, Nodes
<1>5. S = {}
  BY <1>1, <1>4 DEF IsDag, Acyclic, Nodes
<1>6. QED
  BY <1>1, <1>5

(* The session says what happened, for every workflow and every mock set:  *)
(* a node is executed once and only on completed dependencies, every node  *)
(* of the plan has one entry, what a stopped session calls ready is what   *)
(* could run next, the loop can neither run dry nor offer a node twice,    *)
(* and validate_runtime_session accepts what build_runtime_session built   *)
(* (session.cpp 652-844).                                                  *)
THEOREM SessionsAreExact == SessionSpec => []SessionIsExact
<1>1. ASSUME SessionInv PROVE SessionIsExact
  <2>1. SessionTypeOK
    <3>1. \A n \in Id : Len(after[n]) \in Nat
      BY <1>1, LenProperties DEF SessionInv, PlanInv
    <3>2. \A n \in Id : remaining_dependencies[n] \in 0 .. Len(after[n])
      BY <1>1, <3>1 DEF SessionInv, QueueInv
    <3>3. QED
      BY <1>1, <3>2 DEF SessionTypeOK, SessionInv, PlanInv, QueueInv, OrderInv
  <2>2. ASSUME phase = "running"
        PROVE  /\ ready_nodes = <<>> => ExecutedNames = Nodes
               /\ Members(ready_nodes) \cap ExecutedNames = {}
    BY <1>1, <2>2, NothingIsStuck DEF SessionInv, RunInv, ReadyInv
  <2>3. ASSUME Built
        PROVE  /\ {n.node_name : n \in Members(session.nodes)} = Nodes
               /\ \A i \in DOMAIN session.execution_order :
                     deps[session.execution_order[i]] \subseteq
                         {session.execution_order[j] : j \in 1 .. i - 1} \cap Completed
               /\ session.workflow_status = "Partial" =>
                     \A n \in Members(session.nodes) : n.node_name \notin Completed =>
                         (n.status = "Ready" <=> deps[n.node_name] \subseteq Completed)
               /\ SessionAccepted(session)
    BY <1>1, <2>3 DEF SessionInv, BuiltInv, OrderInv
  <2>4. QED
    BY <2>1, <2>2, <2>3 DEF SessionIsExact
<1>2. SessionSpec => []SessionInv
  BY SessionInvariant
<1>3. QED
  BY <1>1, <1>2, PTL
-----------------------------------------------------------------------------
(*                            ExecutionJournal                             *)

(* The place of an event among three to a node. *)
LEMMA Thirds ==
    ASSUME NEW i \in Nat \ {0}
    PROVE  LET k == ((i - 1) \div 3) + 1
               r == ((i - 1) % 3) + 1
           IN  k \in Nat \ {0} /\ r \in 1 .. 3 /\ i = 3 * k - 3 + r
OBVIOUS

(* The place of an event gives its node and its kind back. *)
LEMMA ThirdsBack ==
    ASSUME NEW k \in Nat \ {0}, NEW r \in 1 .. 3
    PROVE  /\ ((3 * k - 3 + r - 1) \div 3) + 1 = k
           /\ ((3 * k - 3 + r - 1) % 3) + 1 = r
OBVIOUS

(* The entry of the k-th executed node. *)
Ran(k) == SessionNode(session, session.execution_order[k])

(* The entries of the executed nodes, in the order they ran. *)
LEMMA RanFacts ==
    ASSUME SessionInv, Built
    PROVE  /\ Len(session.execution_order) \in Nat
           /\ \A k \in 1 .. Len(session.execution_order) :
                 /\ Ran(k) \in Members(session.nodes) /\ Ran(k) \in Entry
                 /\ Ran(k).node_name = session.execution_order[k]
                 /\ Ran(k).status \in {"Completed", "Failed"}
                 /\ Ran(k).execution_index = k - 1 /\ SoundAlone(Ran(k))
                 /\ session.execution_order[k] \in Completed => Ran(k).status = "Completed"
                 /\ Ran(k).status = "Failed" =>
                       k = Len(session.execution_order) /\ session.workflow_status = "Failed"
           /\ \A e \in Members(session.nodes) : e.status = "Failed" =>
                 \E k \in 1 .. Len(session.execution_order) : e = Ran(k)
<1> DEFINE x == session.execution_order
           L == Len(x)
           z == session.nodes
<1>1. session \in Session /\ BuiltInv /\ SessionAccepted(session)
  BY DEF SessionInv, OrderInv, BuiltInv
<1>2. x \in Seq(Id) /\ z \in Seq(Entry) /\ session.workflow_status \in {"Completed", "Failed", "Partial"}
  BY <1>1 DEF Session
<1>3. L \in Nat /\ DOMAIN x = 1 .. L /\ DOMAIN z = 1 .. Len(z) /\ \A i \in DOMAIN z : z[i] \in Entry
  BY <1>2, LenProperties, ElementOfSeq
<1>4. \A e, d \in Members(z) : e.node_name = d.node_name => e = d
  BY <1>1 DEF SessionAccepted, Members
<1>5. \A e \in Members(z) : e \in Entry /\ SoundAlone(e)
  BY <1>1, <1>3 DEF BuiltInv, Members
<1>6. ASSUME NEW e \in Members(z)
      PROVE  \A k : x[k] = e.node_name => Ran(k) = e
  BY <1>4 DEF Ran, SessionNode
<1>7. ASSUME NEW e \in Members(z), e.status = "Failed"
      PROVE  /\ session.workflow_status = "Failed"
             /\ \E k \in 1 .. L : e = Ran(k)
  <2>1. NodeAccepted(session, e)
    BY <1>1 DEF SessionAccepted
  <2>2. /\ e.execution_index < L /\ x[e.execution_index + 1] = e.node_name
        /\ e.execution_index \in Nat
    BY <2>1, <1>5, <1>7 DEF NodeAccepted, Entry
  <2>3. e.execution_index + 1 \in 1 .. L
    BY <2>2, <1>3
  <2>4. e = Ran(e.execution_index + 1)
    BY <2>2, <1>6
  <2>5. "Failed" \in {n.status : n \in Members(z)}
    BY <1>7
  <2>6. session.workflow_status # "Completed" /\ session.workflow_status # "Partial"
    BY <2>5, <1>1 DEF SessionAccepted
  <2>7. QED
    BY <2>3, <2>4, <2>6, <1>2
<1>8. ASSUME NEW k \in 1 .. L
      PROVE  /\ Ran(k) \in Members(z) /\ Ran(k) \in Entry /\ Ran(k).node_name = x[k]
             /\ Ran(k).status \in {"Completed", "Failed"}
             /\ Ran(k).execution_index = k - 1 /\ SoundAlone(Ran(k))
             /\ x[k] \in Completed => Ran(k).status = "Completed"
             /\ Ran(k).status = "Failed" => k = L /\ session.workflow_status = "Failed"
  <2>1. PICK e \in Members(z) : /\ e.node_name = x[k] /\ e.status \in {"Completed", "Failed"}
                                /\ e.execution_index = k - 1
    BY <1>1, <1>3 DEF SessionAccepted
  <2>2. Ran(k) = e
    BY <2>1, <1>6
  <2>3. x[k] \in Completed => e.status = "Completed"
    BY <2>1, <1>4 DEF Completed
  <2>4. ASSUME e.status = "Failed" PROVE k = L /\ session.workflow_status = "Failed"
    <3>1. x[k] \notin Completed
      BY <2>3, <2>4
    <3>2. k \notin 1 .. L - 1
      BY <3>1, <1>1 DEF BuiltInv
    <3>3. k = L
      BY <3>2, <1>3
    <3>4. QED
      BY <2>4, <3>3, <1>7
  <2>5. QED
    BY <2>1, <2>2, <2>3, <2>4, <1>5
<1>9. QED
  BY <1>3, <1>7, <1>8

(* What the journal may hold. *)
JournalEvent ==
    [kind : NodeKinds \cup LastKinds \cup {"SessionStarted"}, node_name : SUBSET Id,
     execution_index : SUBSET Nat, failure_summary : SUBSET Summary,
     satisfied_dependencies : Seq(Id), used_mock_selectors : Seq(Selectors)]

(* The events of one executed node. *)
LEMMA NodeEventFacts ==
    ASSUME NEW n \in Entry, n.status \in {"Completed", "Failed"}
    PROVE  /\ \A r \in 1 .. 3 :
                 /\ NodeEvents(n)[r] \in JournalEvent
                 /\ NodeEvents(n)[r].node_name = {n.node_name}
                 /\ NodeEvents(n)[r].execution_index = {n.execution_index}
                 /\ NodeEvents(n)[r].kind \in NodeKinds
                 /\ NodeEvents(n)[r].satisfied_dependencies = n.satisfied_dependencies
                 /\ NodeEvents(n)[r].kind = "NodeBecameReady" <=> r = 1
                 /\ NodeEvents(n)[r].kind = "NodeStarted" <=> r = 2
                 /\ r # 3 => /\ NodeEvents(n)[r].failure_summary = {}
                             /\ NodeEvents(n)[r].used_mock_selectors = <<>>
           /\ NodeEvents(n)[3].failure_summary = n.failure_summary
           /\ NodeEvents(n)[3].used_mock_selectors = n.used_mocks
           /\ NodeEvents(n)[3].kind = LastKind(n)
           /\ LastKind(n) \in {"NodeCompleted", "MockMissing", "NodeFailed"}
           /\ LastKind(n) = "NodeCompleted" <=> n.status = "Completed"
<1>1. /\ n.node_name \in Id /\ n.execution_index \in Nat /\ n.failure_summary \in SUBSET Summary
      /\ n.satisfied_dependencies \in Seq(Id) /\ n.used_mocks \in Seq(Selectors)
  BY DEF Entry
<1>2. LastKind(n) \in {"NodeCompleted", "MockMissing", "NodeFailed"}
  BY DEF LastKind
<1>3. LastKind(n) = "NodeCompleted" <=> n.status = "Completed"
  BY DEF LastKind
<1>4. <<>> \in Seq(Selectors)
  BY EmptySeq
<1> DEFINE k == LastKind(n)
           e1 == Event("NodeBecameReady", {n.node_name}, {n.execution_index}, {}, n.satisfied_dependencies, <<>>)
           e2 == Event("NodeStarted", {n.node_name}, {n.execution_index}, {}, n.satisfied_dependencies, <<>>)
           e3 == Event(k, {n.node_name}, {n.execution_index}, n.failure_summary,
                       n.satisfied_dependencies, n.used_mocks)
<1>5. NodeEvents(n)[1] = e1 /\ NodeEvents(n)[2] = e2 /\ NodeEvents(n)[3] = e3
  BY DEF NodeEvents, LastEvent
<1> HIDE DEF k
<1>6. e1 \in JournalEvent /\ e2 \in JournalEvent
  BY <1>1, <1>4 DEF Event, JournalEvent, NodeKinds
<1>7. e3 \in JournalEvent
  BY <1>1, <1>2 DEF Event, JournalEvent, NodeKinds, k
<1>8. /\ e1.node_name = {n.node_name} /\ e1.execution_index = {n.execution_index}
      /\ e1.kind = "NodeBecameReady" /\ e1.failure_summary = {} /\ e1.used_mock_selectors = <<>>
      /\ e1.satisfied_dependencies = n.satisfied_dependencies
  BY DEF Event
<1>9. /\ e2.node_name = {n.node_name} /\ e2.execution_index = {n.execution_index}
      /\ e2.kind = "NodeStarted" /\ e2.failure_summary = {} /\ e2.used_mock_selectors = <<>>
      /\ e2.satisfied_dependencies = n.satisfied_dependencies
  BY DEF Event
<1>10. /\ e3.node_name = {n.node_name} /\ e3.execution_index = {n.execution_index}
       /\ e3.kind = k /\ e3.failure_summary = n.failure_summary
       /\ e3.used_mock_selectors = n.used_mocks
       /\ e3.satisfied_dependencies = n.satisfied_dependencies
  BY DEF Event
<1> HIDE DEF e1, e2, e3
<1>11. ASSUME NEW r \in 1 .. 3
       PROVE  /\ NodeEvents(n)[r] \in JournalEvent
              /\ NodeEvents(n)[r].node_name = {n.node_name}
              /\ NodeEvents(n)[r].execution_index = {n.execution_index}
              /\ NodeEvents(n)[r].kind \in NodeKinds
              /\ NodeEvents(n)[r].satisfied_dependencies = n.satisfied_dependencies
              /\ NodeEvents(n)[r].kind = "NodeBecameReady" <=> r = 1
              /\ NodeEvents(n)[r].kind = "NodeStarted" <=> r = 2
              /\ r # 3 => /\ NodeEvents(n)[r].failure_summary = {}
                          /\ NodeEvents(n)[r].used_mock_selectors = <<>>
  <2>1. CASE r = 1
    BY <2>1, <1>5, <1>6, <1>8 DEF NodeKinds
  <2>2. CASE r = 2
    BY <2>2, <1>5, <1>6, <1>9 DEF NodeKinds
  <2>3. CASE r = 3
    BY <2>3, <1>2, <1>5, <1>7, <1>10 DEF NodeKinds, k
  <2>4. QED
    BY <2>1, <2>2, <2>3
<1>12. QED
  BY <1>2, <1>3, <1>5, <1>10, <1>11 DEF k

(* The last event, if the workflow ended. *)
LEMMA WorkflowEventFacts ==
    ASSUME NEW s \in Session
    PROVE  /\ WorkflowEvents(s) \in Seq(JournalEvent)
           /\ s.workflow_status = "Partial" => Len(WorkflowEvents(s)) = 0
           /\ s.workflow_status # "Partial" =>
                 /\ Len(WorkflowEvents(s)) = 1
                 /\ WorkflowEvents(s)[1].node_name = {} /\ WorkflowEvents(s)[1].execution_index = {}
                 /\ WorkflowEvents(s)[1].satisfied_dependencies = <<>>
                 /\ WorkflowEvents(s)[1].used_mock_selectors = <<>>
           /\ s.workflow_status = "Completed" =>
                 /\ WorkflowEvents(s)[1].kind = "WorkflowCompleted"
                 /\ WorkflowEvents(s)[1].failure_summary = {}
           /\ s.workflow_status = "Failed" =>
                 /\ WorkflowEvents(s)[1].kind = "WorkflowFailed"
                 /\ WorkflowEvents(s)[1].failure_summary = s.failure_summary
<1>1. s.failure_summary \in SUBSET Summary /\ s.workflow_status \in {"Completed", "Failed", "Partial"}
  BY DEF Session
<1>2. <<>> \in Seq(Selectors) /\ <<>> \in Seq(Id) /\ <<>> \in Seq(JournalEvent) /\ Len(<<>>) = 0
  BY EmptySeq
<1> DEFINE c == Event("WorkflowCompleted", {}, {}, {}, <<>>, <<>>)
           f == Event("WorkflowFailed", {}, {}, s.failure_summary, <<>>, <<>>)
<1>3. c \in JournalEvent /\ f \in JournalEvent
  BY <1>1, <1>2 DEF JournalEvent, Event, LastKinds
<1>4. /\ c.kind = "WorkflowCompleted" /\ c.node_name = {} /\ c.execution_index = {}
      /\ c.failure_summary = {} /\ c.satisfied_dependencies = <<>> /\ c.used_mock_selectors = <<>>
  BY DEF Event
<1>5. /\ f.kind = "WorkflowFailed" /\ f.node_name = {} /\ f.execution_index = {}
      /\ f.failure_summary = s.failure_summary
      /\ f.satisfied_dependencies = <<>> /\ f.used_mock_selectors = <<>>
  BY DEF Event
<1>6. /\ s.workflow_status = "Completed" => WorkflowEvents(s) = <<c>>
      /\ s.workflow_status = "Failed" => WorkflowEvents(s) = <<f>>
      /\ s.workflow_status = "Partial" => WorkflowEvents(s) = <<>>
  BY DEF WorkflowEvents
<1> HIDE DEF c, f
<1> DEFINE W == WorkflowEvents(s)
<1>7. /\ <<c>> \in Seq(JournalEvent) /\ Len(<<c>>) = 1 /\ <<c>>[1] = c
      /\ <<f>> \in Seq(JournalEvent) /\ Len(<<f>>) = 1 /\ <<f>>[1] = f
  BY <1>3
<1>8. CASE s.workflow_status = "Completed"
  <2>1. W \in Seq(JournalEvent) /\ Len(W) = 1 /\ W[1] = c
    BY <1>6, <1>7, <1>8
  <2> HIDE DEF W
  <2>2. QED
    BY <2>1, <1>4, <1>8 DEF W
<1>9. CASE s.workflow_status = "Failed"
  <2>1. W \in Seq(JournalEvent) /\ Len(W) = 1 /\ W[1] = f
    BY <1>6, <1>7, <1>9
  <2> HIDE DEF W
  <2>2. QED
    BY <2>1, <1>5, <1>9 DEF W
<1>10. CASE s.workflow_status = "Partial"
  BY <1>2, <1>6, <1>10
<1>11. QED
  BY <1>1, <1>8, <1>9, <1>10

(* Where the journal has its events. *)
LEMMA JournalShape ==
    ASSUME SessionInv, Built
    PROVE  LET L == Len(session.execution_order)
               W == WorkflowEvents(session)
           IN  /\ L \in Nat /\ Len(W) \in {0, 1}
               /\ journal \in Seq(JournalEvent)
               /\ Len(journal) = 3 * L + 1 + Len(W) /\ DOMAIN journal = 1 .. 3 * L + 1 + Len(W)
               /\ journal[1] = Event("SessionStarted", {}, {}, {}, <<>>, <<>>)
               /\ \A k \in 1 .. L : \A r \in 1 .. 3 : journal[3 * k - 2 + r] = NodeEvents(Ran(k))[r]
               /\ Len(W) = 1 => journal[3 * L + 2] = W[1]
               /\ \A i \in DOMAIN journal :
                     \/ i = 1
                     \/ \E k \in 1 .. L : \E r \in 1 .. 3 : i = 3 * k - 2 + r
                     \/ i = 3 * L + 2 /\ Len(W) = 1
<1> DEFINE x == session.execution_order
           L == Len(x)
           W == WorkflowEvents(session)
           e == Event("SessionStarted", {}, {}, {}, <<>>, <<>>)
           M == [i \in 1 .. 3 * L |-> NodeEvents(Ran(((i - 1) \div 3) + 1))[((i - 1) % 3) + 1]]
           H == <<e>> \o M
<1>1. session \in Session
  BY DEF SessionInv, OrderInv
<1>2. W \in Seq(JournalEvent) /\ Len(W) \in {0, 1}
  BY <1>1, WorkflowEventFacts DEF Session
<1>3. /\ L \in Nat
      /\ \A k \in 1 .. L : Ran(k) \in Entry /\ Ran(k).status \in {"Completed", "Failed"}
  BY RanFacts
<1>4. journal = H \o W
  BY DEF journal, JournalOf, Ran
<1>5. e \in JournalEvent
  <2>1. <<>> \in Seq(Selectors) /\ <<>> \in Seq(Id)
    BY EmptySeq
  <2>2. QED
    BY <2>1 DEF Event, JournalEvent
<1> HIDE DEF e, W, L
<1>6. ASSUME NEW k \in 1 .. L, NEW r \in 1 .. 3
      PROVE  /\ 3 * k - 3 + r \in 1 .. 3 * L
             /\ M[3 * k - 3 + r] = NodeEvents(Ran(k))[r]
             /\ NodeEvents(Ran(k))[r] \in JournalEvent
  <2>1. k \in Nat \ {0} /\ k <= L
    BY <1>3
  <2> DEFINE i == 3 * k - 3 + r
  <2>2. i \in 1 .. 3 * L
    BY <2>1, <1>3
  <2>3. ((i - 1) \div 3) + 1 = k /\ ((i - 1) % 3) + 1 = r
    BY <2>1, ThirdsBack
  <2> HIDE DEF i
  <2>4. M[i] = NodeEvents(Ran(k))[r]
    BY <2>2, <2>3
  <2>5. NodeEvents(Ran(k))[r] \in JournalEvent
    BY <1>3, NodeEventFacts
  <2>6. QED
    BY <2>2, <2>4, <2>5 DEF i
<1>7. ASSUME NEW i \in 1 .. 3 * L
      PROVE  \E k \in 1 .. L : \E r \in 1 .. 3 : i = 3 * k - 3 + r
  <2> DEFINE k == ((i - 1) \div 3) + 1
             r == ((i - 1) % 3) + 1
  <2>1. i \in Nat \ {0} /\ i <= 3 * L
    BY <1>3
  <2>2. k \in Nat \ {0} /\ r \in 1 .. 3 /\ i = 3 * k - 3 + r
    BY <2>1, Thirds
  <2> HIDE DEF k, r
  <2>3. k \in 1 .. L
    BY <2>1, <2>2, <1>3
  <2>4. QED
    BY <2>2, <2>3
<1>8. M \in Seq(JournalEvent) /\ Len(M) = 3 * L
  <2>1. DOMAIN M = 1 .. 3 * L
    OBVIOUS
  <2>2. 3 * L \in Nat
    BY <1>3
  <2>3. M = [i \in 1 .. 3 * L |-> M[i]]
    OBVIOUS
  <2> HIDE DEF M
  <2>4. \A i \in 1 .. 3 * L : M[i] \in JournalEvent
    BY <1>6, <1>7
  <2>5. M \in [1 .. 3 * L -> JournalEvent]
    BY <2>3, <2>4
  <2> DEFINE m == 3 * L
  <2> HIDE DEF m
  <2>6. M \in Seq(JournalEvent) /\ Len(M) = m
    BY <2>2, <2>5, LenProperties DEF m
  <2>7. QED
    BY <2>6 DEF m
<1> HIDE DEF M
<1>9. <<e>> \in Seq(JournalEvent) /\ Len(<<e>>) = 1 /\ <<e>>[1] = e
  BY <1>5
<1>10. /\ H \in Seq(JournalEvent) /\ Len(H) = 1 + 3 * L
       /\ \A i \in 1 .. 1 + 3 * L : H[i] = IF i <= 1 THEN <<e>>[i] ELSE M[i - 1]
  <2> DEFINE one == <<e>>
  <2>1. one \in Seq(JournalEvent) /\ Len(one) = 1
    BY <1>9
  <2> HIDE DEF one
  <2>2. /\ one \o M \in Seq(JournalEvent) /\ Len(one \o M) = Len(one) + Len(M)
        /\ \A i \in 1 .. Len(one) + Len(M) :
              (one \o M)[i] = IF i <= Len(one) THEN one[i] ELSE M[i - Len(one)]
    BY <2>1, <1>8, ConcatProperties
  <2>3. QED
    BY <2>1, <2>2, <1>8 DEF one
<1>11. /\ H[1] = e
       /\ \A k \in 1 .. L : \A r \in 1 .. 3 : H[3 * k - 2 + r] = NodeEvents(Ran(k))[r]
  <2> HIDE DEF H
  <2>1. H[1] = e
    BY <1>3, <1>9, <1>10
  <2>2. ASSUME NEW k \in 1 .. L, NEW r \in 1 .. 3 PROVE H[3 * k - 2 + r] = NodeEvents(Ran(k))[r]
    <3> DEFINE i == 3 * k - 2 + r
    <3>1. i \in 1 .. 1 + 3 * L /\ ~(i <= 1) /\ i - 1 = 3 * k - 3 + r
      BY <1>3
    <3> HIDE DEF i
    <3>2. H[i] = M[i - 1]
      BY <3>1, <1>10
    <3>3. QED
      BY <3>1, <3>2, <1>6 DEF i
  <2>3. QED
    BY <2>1, <2>2
<1> HIDE DEF H
<1>12. /\ journal \in Seq(JournalEvent) /\ Len(journal) = Len(H) + Len(W)
       /\ \A i \in 1 .. Len(H) + Len(W) :
             journal[i] = IF i <= Len(H) THEN H[i] ELSE W[i - Len(H)]
  <2>1. /\ H \o W \in Seq(JournalEvent) /\ Len(H \o W) = Len(H) + Len(W)
        /\ \A i \in 1 .. Len(H) + Len(W) : (H \o W)[i] = IF i <= Len(H) THEN H[i] ELSE W[i - Len(H)]
    BY <1>2, <1>10, ConcatProperties
  <2>2. QED
    BY <2>1, <1>4
<1> DEFINE J == journal
           w == Len(W)
           h == Len(H)
<1>13. /\ J \in Seq(JournalEvent) /\ h = 1 + 3 * L /\ w \in {0, 1} /\ Len(J) = h + w
       /\ DOMAIN J = 1 .. h + w
       /\ \A i \in 1 .. h + w : J[i] = IF i <= h THEN H[i] ELSE W[i - h]
  BY <1>2, <1>10, <1>12, LenProperties
<1> HIDE DEF J, w, h
<1>14. \A i \in 1 .. h : J[i] = H[i]
  BY <1>3, <1>13
<1>15. J[1] = e
  BY <1>3, <1>11, <1>13, <1>14
<1>16. ASSUME NEW k \in 1 .. L, NEW r \in 1 .. 3 PROVE J[3 * k - 2 + r] = NodeEvents(Ran(k))[r]
  <2>1. 3 * k - 2 + r \in 1 .. h
    BY <1>3, <1>13
  <2>2. QED
    BY <2>1, <1>11, <1>14
<1>17. ASSUME w = 1 PROVE J[3 * L + 2] = W[1]
  <2>1. 3 * L + 2 \in 1 .. h + w /\ ~(3 * L + 2 <= h) /\ 3 * L + 2 - h = 1
    BY <1>3, <1>13, <1>17
  <2>2. QED
    BY <2>1, <1>13
<1>18. ASSUME NEW i \in 1 .. h + w
       PROVE  \/ i = 1
              \/ \E k \in 1 .. L : \E r \in 1 .. 3 : i = 3 * k - 2 + r
              \/ i = 3 * L + 2 /\ w = 1
  <2>1. CASE i - 1 \in 1 .. 3 * L
    <3>1. PICK k \in 1 .. L : \E r \in 1 .. 3 : i - 1 = 3 * k - 3 + r
      BY <2>1, <1>7
    <3>2. PICK r \in 1 .. 3 : i - 1 = 3 * k - 3 + r
      BY <3>1
    <3>3. i = 3 * k - 2 + r
      BY <3>2, <1>3
    <3>4. QED
      BY <3>3
  <2>2. CASE i - 1 \notin 1 .. 3 * L
    BY <2>2, <1>3, <1>13
  <2>3. QED
    BY <2>1, <2>2
<1>19. Len(J) = 3 * L + 1 + w /\ DOMAIN J = 1 .. 3 * L + 1 + w
  BY <1>3, <1>13
<1>20. QED
  BY <1>3, <1>13, <1>15, <1>16, <1>17, <1>18, <1>19 DEF J, w, L, W, e

(* The r-th event of the k-th node. *)
Steps == Len(session.execution_order)

Placed(k, r) ==
    LET e == journal[3 * k - 2 + r]
    IN  /\ e.node_name = {session.execution_order[k]} /\ e.execution_index = {k - 1}
        /\ e.kind \in NodeKinds
        /\ e.kind = "NodeBecameReady" <=> r = 1
        /\ e.kind = "NodeStarted" <=> r = 2
        /\ e.kind = "NodeCompleted" <=> r = 3 /\ Ran(k).status = "Completed"
        /\ e.kind \in FailedKinds <=> r = 3 /\ Ran(k).status = "Failed"
        /\ Distinct(e.satisfied_dependencies) /\ Distinct(e.used_mock_selectors)
        /\ e.failure_summary # {} <=> r = 3 /\ Ran(k).status = "Failed"
        /\ \A f \in e.failure_summary : f.node_name = session.execution_order[k] /\ f.kind = e.kind

(* The kinds of place there are. *)
IsFirst(i) == i = 1 /\ journal[i] = Event("SessionStarted", {}, {}, {}, <<>>, <<>>)
IsNode(i)  == \E k \in 1 .. Steps : \E r \in 1 .. 3 : i = 3 * k - 2 + r
IsLast(i)  == /\ i = 3 * Steps + 2 /\ i = Len(journal) /\ journal[i] = WorkflowEvents(session)[1]
              /\ session.workflow_status # "Partial"

(* The journal event by event: where each one is and what it says. *)
LEMMA JournalFacts ==
    ASSUME SessionInv, Built
    PROVE  /\ Steps \in Nat /\ journal \in Seq(JournalEvent) /\ DOMAIN journal = 1 .. Len(journal)
           /\ Len(journal) \in Nat /\ 3 * Steps + 1 <= Len(journal)
           /\ \A k \in 1 .. Steps : \A r \in 1 .. 3 : Placed(k, r)
           /\ \A i \in DOMAIN journal : IsFirst(i) \/ IsNode(i) \/ IsLast(i)
           /\ session.workflow_status # "Partial" =>
                 /\ Len(journal) = 3 * Steps + 2
                 /\ journal[3 * Steps + 2] = WorkflowEvents(session)[1]
<1> DEFINE W == WorkflowEvents(session)
           w == Len(W)
<1>1. /\ Steps \in Nat /\ w \in {0, 1} /\ journal \in Seq(JournalEvent)
      /\ Len(journal) = 3 * Steps + 1 + w /\ DOMAIN journal = 1 .. 3 * Steps + 1 + w
  BY JournalShape DEF Steps
<1>2. /\ journal[1] = Event("SessionStarted", {}, {}, {}, <<>>, <<>>)
      /\ \A k \in 1 .. Steps : \A r \in 1 .. 3 : journal[3 * k - 2 + r] = NodeEvents(Ran(k))[r]
      /\ w = 1 => journal[3 * Steps + 2] = W[1]
      /\ \A i \in DOMAIN journal : i = 1 \/ IsNode(i) \/ (i = 3 * Steps + 2 /\ w = 1)
  BY JournalShape DEF Steps, IsNode
<1>3. session \in Session
  BY DEF SessionInv, OrderInv
<1>4. w = 1 <=> session.workflow_status # "Partial"
  BY <1>3, WorkflowEventFacts DEF Session
<1>5. ASSUME NEW k \in 1 .. Steps, NEW r \in 1 .. 3 PROVE Placed(k, r)
  <2> DEFINE n == Ran(k)
             e == NodeEvents(n)[r]
  <2>1. /\ n \in Entry /\ n.node_name = session.execution_order[k]
        /\ n.status \in {"Completed", "Failed"} /\ n.execution_index = k - 1 /\ SoundAlone(n)
    BY RanFacts DEF Steps
  <2> HIDE DEF n
  <2>2. /\ e.node_name = {n.node_name} /\ e.execution_index = {n.execution_index}
        /\ e.kind \in NodeKinds /\ e.satisfied_dependencies = n.satisfied_dependencies
        /\ e.kind = "NodeBecameReady" <=> r = 1
        /\ e.kind = "NodeStarted" <=> r = 2
        /\ r # 3 => e.failure_summary = {} /\ e.used_mock_selectors = <<>>
        /\ r = 3 => /\ e.failure_summary = n.failure_summary /\ e.used_mock_selectors = n.used_mocks
                    /\ e.kind = LastKind(n)
        /\ LastKind(n) \in {"NodeCompleted", "MockMissing", "NodeFailed"}
        /\ LastKind(n) = "NodeCompleted" <=> n.status = "Completed"
    BY <2>1, NodeEventFacts
  <2> HIDE DEF e
  <2>3. /\ e.kind = "NodeCompleted" <=> r = 3 /\ n.status = "Completed"
        /\ e.kind \in FailedKinds <=> r = 3 /\ n.status = "Failed"
    <3>1. CASE r = 3
      BY <3>1, <2>1, <2>2 DEF FailedKinds
    <3>2. CASE r # 3
      BY <3>2, <2>2 DEF FailedKinds
    <3>3. QED
      BY <3>1, <3>2
  <2>4. /\ Distinct(n.satisfied_dependencies) /\ Distinct(n.used_mocks)
        /\ n.failure_summary # {} <=> n.status = "Failed"
        /\ \A f \in n.failure_summary : f.node_name = n.node_name /\ f.kind # "WorkflowFailed"
        /\ \A f, g \in n.failure_summary : f = g
        /\ n.failure_summary \in SUBSET Summary
    BY <2>1 DEF SoundAlone, Entry
  <2>5. Distinct(<<>>)
    BY DEF Distinct
  <2>6. Distinct(e.satisfied_dependencies) /\ Distinct(e.used_mock_selectors)
    BY <2>2, <2>4, <2>5
  <2>7. e.failure_summary # {} <=> r = 3 /\ n.status = "Failed"
    BY <2>2, <2>4
  <2>8. ASSUME NEW f \in e.failure_summary
        PROVE  f.node_name = session.execution_order[k] /\ f.kind = e.kind
    <3>1. r = 3 /\ n.status = "Failed" /\ f \in n.failure_summary
      BY <2>2, <2>7
    <3>2. f.kind \in {"MockMissing", "NodeFailed"}
      BY <3>1, <2>4 DEF Summary
    <3>3. (\E g \in n.failure_summary : g.kind = "MockMissing") <=> f.kind = "MockMissing"
      BY <3>1, <2>4
    <3>4. LastKind(n) = f.kind
      BY <3>1, <3>2, <3>3 DEF LastKind
    <3>5. QED
      BY <3>1, <3>4, <2>1, <2>2, <2>4
  <2>9. journal[3 * k - 2 + r] = e
    BY <1>2 DEF e, n
  <2>10. QED
    BY <2>1, <2>2, <2>3, <2>6, <2>7, <2>8, <2>9 DEF Placed, n
<1> HIDE DEF W, w
<1>6. /\ Len(journal) \in Nat /\ 3 * Steps + 1 <= Len(journal)
      /\ DOMAIN journal = 1 .. Len(journal)
  BY <1>1
<1>7. session.workflow_status # "Partial" =>
          Len(journal) = 3 * Steps + 2 /\ journal[3 * Steps + 2] = W[1]
  <2>1. w = 1 => Len(journal) = 3 * Steps + 2
    BY <1>1
  <2>2. QED
    BY <2>1, <1>2, <1>4
<1>8. ASSUME NEW i \in DOMAIN journal PROVE IsFirst(i) \/ IsNode(i) \/ IsLast(i)
  BY <1>2, <1>4, <1>7 DEF IsFirst, IsLast, W
<1>9. QED
  BY <1>1, <1>5, <1>6, <1>7, <1>8 DEF W

(* What the last event says. *)
LEMMA EndFacts ==
    ASSUME SessionInv, Built
    PROVE  LET v == WorkflowEvents(session)[1]
           IN  /\ session.workflow_status \in {"Completed", "Failed", "Partial"}
               /\ session.workflow_status # "Partial" =>
                     /\ v.kind \in LastKinds /\ v.node_name = {} /\ v.execution_index = {}
                     /\ v.satisfied_dependencies = <<>> /\ v.used_mock_selectors = <<>>
                     /\ v.kind = "WorkflowFailed" <=> session.workflow_status = "Failed"
                     /\ v.kind = "WorkflowFailed" =>
                           /\ v.failure_summary # {}
                           /\ \A f \in v.failure_summary : f.kind = "WorkflowFailed"
                     /\ v.kind = "WorkflowCompleted" => v.failure_summary = {}
<1> DEFINE v == WorkflowEvents(session)[1]
           status == session.workflow_status
<1>1. session \in Session /\ BuiltInv /\ SessionAccepted(session)
  BY DEF SessionInv, OrderInv, BuiltInv
<1>2. status \in {"Completed", "Failed", "Partial"}
  BY <1>1 DEF Session
<1>3. /\ status # "Partial" =>
            /\ v.node_name = {} /\ v.execution_index = {}
            /\ v.satisfied_dependencies = <<>> /\ v.used_mock_selectors = <<>>
      /\ status = "Completed" => v.kind = "WorkflowCompleted" /\ v.failure_summary = {}
      /\ status = "Failed" => v.kind = "WorkflowFailed" /\ v.failure_summary = session.failure_summary
  BY <1>1, WorkflowEventFacts
<1>4. status = "Failed" =>
          session.failure_summary # {} /\ \A f \in session.failure_summary : f.kind = "WorkflowFailed"
  BY <1>1 DEF BuiltInv, SessionAccepted
<1> HIDE DEF v, status
<1>5. QED
  BY <1>2, <1>3, <1>4 DEF LastKinds, v, status

(* A node becomes ready after what it depends on, and fails last. *)
LEMMA JournalOrder ==
    ASSUME SessionInv, Built, NEW i \in DOMAIN journal
    PROVE  /\ journal[i].kind = "NodeBecameReady" =>
                 \A n \in journal[i].node_name : \A d \in deps[n] :
                     \E j \in 1 .. i - 1 : /\ journal[j].kind = "NodeCompleted"
                                           /\ journal[j].node_name = {d}
           /\ journal[i].kind \in FailedKinds =>
                 Len(journal) = i + 1 /\ journal[i + 1].kind = "WorkflowFailed"
<1>1. Steps \in Nat
  BY JournalFacts
<1>2. /\ \A k \in 1 .. Steps : \A r \in 1 .. 3 : Placed(k, r)
      /\ IsFirst(i) \/ IsNode(i) \/ IsLast(i)
      /\ session.workflow_status # "Partial" =>
            Len(journal) = 3 * Steps + 2 /\ journal[3 * Steps + 2] = WorkflowEvents(session)[1]
  BY JournalFacts
<1>3. /\ session.workflow_status # "Partial" => WorkflowEvents(session)[1].kind \in LastKinds
      /\ session.workflow_status = "Failed" => WorkflowEvents(session)[1].kind = "WorkflowFailed"
  BY EndFacts
<1>4. \A k \in 1 .. Steps :
         /\ session.execution_order[k] \in Completed => Ran(k).status = "Completed"
         /\ Ran(k).status = "Failed" => k = Steps /\ session.workflow_status = "Failed"
  BY RanFacts DEF Steps
<1>5. \A k \in 1 .. Steps :
         deps[session.execution_order[k]] \subseteq
             {session.execution_order[j] : j \in 1 .. k - 1} \cap Completed
  <2>1. OrderInv /\ BuiltInv /\ DOMAIN session.execution_order = 1 .. Steps
    BY LenProperties DEF SessionInv, OrderInv, Session, Steps
  <2>2. QED
    BY <2>1 DEF OrderInv, BuiltInv
<1>6. CASE IsFirst(i)
  BY <1>6 DEF IsFirst, Event, FailedKinds
<1>7. CASE IsLast(i)
  BY <1>3, <1>7 DEF IsLast, FailedKinds, LastKinds
<1>8. ASSUME NEW k \in 1 .. Steps, NEW r \in 1 .. 3, i = 3 * k - 2 + r
      PROVE  /\ journal[i].kind = "NodeBecameReady" =>
                   \A n \in journal[i].node_name : \A d \in deps[n] :
                       \E j \in 1 .. i - 1 : /\ journal[j].kind = "NodeCompleted"
                                             /\ journal[j].node_name = {d}
             /\ journal[i].kind \in FailedKinds =>
                   Len(journal) = i + 1 /\ journal[i + 1].kind = "WorkflowFailed"
  <2>1. /\ journal[i].node_name = {session.execution_order[k]}
        /\ journal[i].kind = "NodeBecameReady" <=> r = 1
        /\ journal[i].kind \in FailedKinds <=> r = 3 /\ Ran(k).status = "Failed"
    BY <1>2, <1>8 DEF Placed
  <2>2. ASSUME r = 1, NEW d \in deps[session.execution_order[k]]
        PROVE  \E j \in 1 .. i - 1 : /\ journal[j].kind = "NodeCompleted"
                                     /\ journal[j].node_name = {d}
    <3>1. PICK j \in 1 .. k - 1 : d = session.execution_order[j]
      BY <1>5
    <3>2. d \in Completed
      BY <1>5
    <3>3. j \in 1 .. Steps
      BY <3>1, <1>1
    <3>4. Ran(j).status = "Completed"
      BY <3>1, <3>2, <3>3, <1>4
    <3>5. 3 \in 1 .. 3
      OBVIOUS
    <3>6. Placed(j, 3)
      BY <3>3, <3>5, <1>2
    <3>7. journal[3 * j - 2 + 3].kind = "NodeCompleted" /\ journal[3 * j - 2 + 3].node_name = {d}
      BY <3>1, <3>4, <3>6 DEF Placed
    <3>8. 3 * j - 2 + 3 \in 1 .. i - 1
      BY <3>1, <2>2, <1>1, <1>8
    <3>9. QED
      BY <3>7, <3>8
  <2>3. ASSUME journal[i].kind \in FailedKinds
        PROVE  Len(journal) = i + 1 /\ journal[i + 1].kind = "WorkflowFailed"
    <3>1. r = 3 /\ k = Steps /\ session.workflow_status = "Failed"
      BY <2>1, <2>3, <1>4
    <3>2. i + 1 = 3 * Steps + 2
      BY <3>1, <1>1, <1>8
    <3>3. Len(journal) = 3 * Steps + 2 /\ journal[3 * Steps + 2].kind = "WorkflowFailed"
      BY <3>1, <1>2, <1>3
    <3>4. QED
      BY <3>2, <3>3
  <2>4. QED
    BY <2>1, <2>2, <2>3
<1>9. QED
  BY <1>2, <1>6, <1>7, <1>8 DEF IsNode

(* The events of one node follow each other as the validator expects. *)
LEMMA NodeEventsAccepted ==
    ASSUME SessionInv, Built, NEW k \in 1 .. Steps, NEW r \in 1 .. 3
    PROVE  NodeEventAccepted(journal, 3 * k - 2 + r)
<1> DEFINE J == journal
           i == 3 * k - 2 + r
           place(m, q) == 3 * m - 2 + q
           name(m) == session.execution_order[m]
<1>1. Steps \in Nat /\ k \in Nat /\ r \in {1, 2, 3} /\ k >= 1 /\ k <= Steps
  BY JournalFacts
<1>2. /\ \A m \in 1 .. Steps : \A q \in 1 .. 3 : Placed(m, q)
      /\ \A j \in DOMAIN J : IsFirst(j) \/ IsNode(j) \/ IsLast(j)
  BY JournalFacts
<1>3. DOMAIN J = 1 .. Len(J) /\ Len(J) \in Nat /\ 3 * Steps + 1 <= Len(J)
  BY JournalFacts
<1>4. /\ J[i].node_name = {name(k)} /\ J[i].execution_index = {k - 1} /\ J[i].kind \in NodeKinds
      /\ J[i].kind = "NodeBecameReady" <=> r = 1
      /\ J[i].kind = "NodeStarted" <=> r = 2
      /\ J[i].kind \in {"NodeCompleted"} \cup FailedKinds <=> r = 3
      /\ J[i].failure_summary # {} <=> J[i].kind \in FailedKinds
      /\ \A f \in J[i].failure_summary : f.node_name = name(k) /\ f.kind = J[i].kind
  <2>1. Placed(k, r)
    BY <1>2
  <2>2. QED
    BY <2>1 DEF Placed, NodeKinds, FailedKinds
<1>5. \A m \in 1 .. Steps : \A q \in 1 .. 3 :
         /\ J[place(m, q)].kind \in NodeKinds
         /\ Key(J[place(m, q)]) = <<{name(m)}, {m - 1}>>
         /\ J[place(m, q)].execution_index = {m - 1}
         /\ J[place(m, q)].kind = "NodeBecameReady" <=> q = 1
         /\ J[place(m, q)].kind = "NodeStarted" <=> q = 2
  BY <1>2 DEF Placed, Key
<1>6. Key(J[i]) = <<{name(k)}, {k - 1}>>
  BY <1>4 DEF Key
<1>7. i \in Nat /\ i >= 2 /\ i <= 3 * Steps + 1 /\ i > 3 * k - 2 /\ i <= 3 * k + 1
  BY <1>1
<1> HIDE DEF J, name
<1>8. ASSUME NEW j \in 1 .. i - 1, J[j].kind \in NodeKinds
      PROVE  \E m \in 1 .. Steps : \E q \in 1 .. 3 : j = place(m, q) /\ m <= k
  <2>1. j \in DOMAIN J /\ j < 3 * Steps + 2
    BY <1>1, <1>3, <1>7
  <2>2. ~IsLast(j)
    BY <2>1, <1>1 DEF IsLast
  <2>3. ~IsFirst(j)
    BY <1>8 DEF IsFirst, Event, NodeKinds, J
  <2>4. PICK m \in 1 .. Steps : \E q \in 1 .. 3 : j = place(m, q)
    BY <2>1, <2>2, <2>3, <1>2 DEF IsNode
  <2>5. PICK q \in 1 .. 3 : j = place(m, q)
    BY <2>4
  <2>6. m <= k
    BY <2>5, <1>1, <1>7
  <2>7. QED
    BY <2>5, <2>6
<1>9. ASSUME NEW j \in 1 .. i - 1, J[j].kind \in NodeKinds
      PROVE  \A a \in J[j].execution_index, b \in J[i].execution_index : a <= b
  <2>1. PICK m \in 1 .. Steps : \E q \in 1 .. 3 : j = place(m, q) /\ m <= k
    BY <1>8, <1>9
  <2> HIDE DEF place, i
  <2>2. J[j].execution_index = {m - 1}
    BY <2>1, <1>5
  <2>3. m - 1 <= k - 1
    BY <2>1, <1>1
  <2>4. QED
    BY <2>2, <2>3, <1>4
<1> DEFINE earlier == {j \in 1 .. i - 1 : J[j].kind \in NodeKinds /\ Key(J[j]) = Key(J[i])}
<1>10. ASSUME NEW j \in earlier PROVE j \in 1 .. i - 1 /\ j > 3 * k - 2
  <2>1. PICK m \in 1 .. Steps : \E q \in 1 .. 3 : j = place(m, q) /\ m <= k
    BY <1>8, <1>10
  <2>2. PICK q \in 1 .. 3 : j = place(m, q)
    BY <2>1
  <2>3. {m - 1} = {k - 1}
    <3>1. Key(J[j]) = <<{name(m)}, {m - 1}>> /\ Key(J[j]) = Key(J[i])
      <4> HIDE DEF place
      <4>1. QED
        BY <2>2, <1>5, <1>10
    <3>2. QED
      BY <3>1, <1>6
  <2>4. m - 1 = k - 1
    BY <2>3
  <2>5. QED
    BY <2>2, <2>4, <1>1, <1>7
<1>11. ASSUME NEW q \in 1 .. 3, place(k, q) < i PROVE place(k, q) \in earlier
  <2>1. place(k, q) \in 1 .. i - 1
    BY <1>1, <1>7, <1>11
  <2> HIDE DEF place
  <2>2. J[place(k, q)].kind \in NodeKinds /\ Key(J[place(k, q)]) = Key(J[i])
    BY <1>5, <1>6
  <2>3. QED
    BY <2>1, <2>2
<1>12. PhaseBefore(J, i) =
          IF earlier = {} THEN "None" ELSE J[CHOOSE j \in earlier : \A m \in earlier : m <= j].kind
  BY DEF PhaseBefore
<1> HIDE DEF earlier
<1>13. r = 1 => PhaseBefore(J, i) = "None"
  <2>1. r = 1 => earlier = {}
    BY <1>1, <1>10
  <2>2. QED
    BY <2>1, <1>12
<1>14. ASSUME NEW q \in 1 .. 3, q = r - 1 PROVE PhaseBefore(J, i) = J[place(k, q)].kind
  <2> DEFINE c == CHOOSE j \in earlier : \A m \in earlier : m <= j
             p == place(k, q)
  <2>1. p < i /\ p \in Int /\ p = i - 1
    BY <1>1, <1>14
  <2>2. p \in earlier
    BY <2>1, <1>11
  <2>3. \A m \in earlier : m \in Int /\ m <= p
    BY <2>1, <1>7, <1>10
  <2> HIDE DEF p, place, i
  <2>4. c \in earlier /\ \A m \in earlier : m <= c
    BY <2>2, <2>3
  <2> HIDE DEF c
  <2>5. c = p
    BY <2>1, <2>2, <2>3, <2>4
  <2>6. QED
    BY <2>2, <2>5, <1>12 DEF c, p
<1>15. r = 2 => PhaseBefore(J, i) = "NodeBecameReady"
  <2>1. SUFFICES ASSUME r = 2 PROVE PhaseBefore(J, i) = "NodeBecameReady"
    OBVIOUS
  <2>2. 1 \in 1 .. 3 /\ 1 = r - 1
    BY <2>1
  <2> HIDE DEF i, place
  <2>3. QED
    BY <2>2, <1>1, <1>5, <1>14
<1>16. r = 3 => PhaseBefore(J, i) = "NodeStarted"
  <2>1. SUFFICES ASSUME r = 3 PROVE PhaseBefore(J, i) = "NodeStarted"
    OBVIOUS
  <2>2. 2 \in 1 .. 3 /\ 2 = r - 1
    BY <2>1
  <2> HIDE DEF i, place
  <2>3. QED
    BY <2>2, <1>1, <1>5, <1>14
<1>17. ASSUME r # 3 PROVE ~IsLastOfKey(J, i)
  <2>1. r + 1 \in 1 .. 3 /\ place(k, r + 1) = i + 1 /\ i + 1 \in i + 1 .. Len(J)
    BY <1>1, <1>3, <1>7, <1>17
  <2> HIDE DEF i, place
  <2>2. /\ J[place(k, r + 1)].kind \in NodeKinds
        /\ Key(J[place(k, r + 1)]) = <<{name(k)}, {k - 1}>>
    <3>1. k \in 1 .. Steps
      OBVIOUS
    <3> DEFINE q == r + 1
    <3>2. q \in 1 .. 3
      BY <2>1
    <3> HIDE DEF q
    <3>3. J[place(k, q)].kind \in NodeKinds /\ Key(J[place(k, q)]) = <<{name(k)}, {k - 1}>>
      BY <3>1, <3>2, <1>5
    <3>4. QED
      BY <3>3 DEF q
  <2>3. QED
    BY <2>1, <2>2, <1>6 DEF IsLastOfKey
<1> HIDE DEF i, place
<1>18. /\ J[i].node_name # {} /\ J[i].execution_index # {}
       /\ \A f \in J[i].failure_summary : f.node_name \in J[i].node_name
  BY <1>4
<1>19. /\ J[i].kind = "NodeBecameReady" => PhaseBefore(J, i) = "None"
       /\ J[i].kind = "NodeStarted" => PhaseBefore(J, i) = "NodeBecameReady"
       /\ J[i].kind \in {"NodeCompleted"} \cup FailedKinds => PhaseBefore(J, i) = "NodeStarted"
       /\ IsLastOfKey(J, i) => J[i].kind \in {"NodeCompleted"} \cup FailedKinds
  BY <1>4, <1>13, <1>15, <1>16, <1>17
<1>20. NodeEventAccepted(J, i)
  BY <1>4, <1>9, <1>18, <1>19 DEF NodeEventAccepted
<1>21. QED
  BY <1>20 DEF J, i

(* The validator accepts the journal. *)
LEMMA JournalsAccepted ==
    ASSUME SessionInv, Built
    PROVE  JournalAccepted(journal)
<1> DEFINE J == journal
           status == session.workflow_status
           v == WorkflowEvents(session)[1]
           last == {J[i].kind : i \in DOMAIN J} \cap LastKinds
<1>1. Steps \in Nat /\ DOMAIN J = 1 .. Len(J) /\ Len(J) \in Nat /\ 3 * Steps + 1 <= Len(J)
  BY JournalFacts
<1>2. /\ \A k \in 1 .. Steps : \A r \in 1 .. 3 : Placed(k, r)
      /\ \A i \in DOMAIN J : IsFirst(i) \/ IsNode(i) \/ IsLast(i)
      /\ status # "Partial" => Len(J) = 3 * Steps + 2 /\ J[3 * Steps + 2] = v
  BY JournalFacts
<1>3. /\ status \in {"Completed", "Failed", "Partial"}
      /\ status # "Partial" =>
            /\ v.kind \in LastKinds /\ v.node_name = {} /\ v.execution_index = {}
            /\ v.satisfied_dependencies = <<>> /\ v.used_mock_selectors = <<>>
            /\ v.kind = "WorkflowFailed" <=> status = "Failed"
            /\ v.kind = "WorkflowFailed" =>
                  v.failure_summary # {} /\ \A f \in v.failure_summary : f.kind = "WorkflowFailed"
            /\ v.kind = "WorkflowCompleted" => v.failure_summary = {}
  BY EndFacts
<1>4. /\ \A k \in 1 .. Steps : Ran(k).status = "Failed" => status = "Failed"
      /\ \A n \in Members(session.nodes) : n.status = "Failed" => \E k \in 1 .. Steps : n = Ran(k)
  BY RanFacts DEF Steps
<1>5. status = "Failed" => \E n \in Members(session.nodes) : n.status = "Failed"
  BY DEF SessionInv, BuiltInv, SessionAccepted
<1>6. \A i \in DOMAIN J : IsFirst(i) =>
         /\ J[i].kind = "SessionStarted" /\ J[i].node_name = {} /\ J[i].execution_index = {}
         /\ J[i].failure_summary = {} /\ J[i].satisfied_dependencies = <<>>
         /\ J[i].used_mock_selectors = <<>>
  BY DEF IsFirst, Event
<1>7. \A i \in DOMAIN J : IsLast(i) => i = Len(J) /\ J[i] = v /\ status # "Partial"
  BY DEF IsLast
<1>8. Distinct(<<>>)
  BY DEF Distinct
<1>9. ASSUME NEW i \in DOMAIN J, IsNode(i)
      PROVE  /\ J[i].kind \in NodeKinds /\ NodeEventAccepted(J, i)
             /\ Distinct(J[i].satisfied_dependencies) /\ Distinct(J[i].used_mock_selectors)
             /\ J[i].kind \in FailedKinds => status = "Failed"
  <2>1. PICK k \in 1 .. Steps : \E r \in 1 .. 3 : i = 3 * k - 2 + r
    BY <1>9 DEF IsNode
  <2>2. PICK r \in 1 .. 3 : i = 3 * k - 2 + r
    BY <2>1
  <2>3. Placed(k, r) /\ NodeEventAccepted(J, 3 * k - 2 + r)
    BY <1>2, NodeEventsAccepted
  <2>4. QED
    BY <2>2, <2>3, <1>4 DEF Placed
<1>10. 1 \in DOMAIN J /\ IsFirst(1)
  <2>1. 1 \in DOMAIN J
    BY <1>1
  <2>2. ~IsNode(1)
    BY <1>1 DEF IsNode
  <2>3. ~IsLast(1)
    BY <1>1 DEF IsLast
  <2>4. QED
    BY <2>1, <2>2, <2>3, <1>2
<1>11. J # <<>>
  BY <1>10
<1> HIDE DEF J, v, status
<1>12. ASSUME NEW i \in DOMAIN J
       PROVE  /\ Distinct(J[i].satisfied_dependencies)
              /\ Distinct(J[i].used_mock_selectors)
              /\ J[i].kind \in LastKinds => i = Len(J)
              /\ IF J[i].kind \in NodeKinds THEN NodeEventAccepted(J, i)
                 ELSE J[i].node_name = {} /\ J[i].execution_index = {}
              /\ J[i].kind \in {"SessionStarted", "WorkflowCompleted"} => J[i].failure_summary = {}
              /\ J[i].kind = "WorkflowFailed" =>
                    /\ J[i].failure_summary # {}
                    /\ \A f \in J[i].failure_summary : f.kind = "WorkflowFailed"
              /\ J[i].kind \in FailedKinds => status = "Failed"
              /\ J[i].kind = "WorkflowFailed" => status = "Failed"
  <2>1. CASE IsFirst(i)
    BY <2>1, <1>6, <1>8 DEF LastKinds, NodeKinds, FailedKinds
  <2>2. CASE IsLast(i)
    BY <2>2, <1>3, <1>7, <1>8 DEF LastKinds, NodeKinds, FailedKinds
  <2>3. CASE IsNode(i)
    <3>1. /\ J[i].kind \in NodeKinds /\ NodeEventAccepted(J, i)
          /\ Distinct(J[i].satisfied_dependencies) /\ Distinct(J[i].used_mock_selectors)
          /\ J[i].kind \in FailedKinds => status = "Failed"
      BY <2>3, <1>9
    <3>2. QED
      BY <3>1 DEF LastKinds, NodeKinds
  <2>4. QED
    BY <2>1, <2>2, <2>3, <1>2
<1>13. status = "Failed" => \E i \in DOMAIN J : J[i].kind \in FailedKinds
  <2>1. SUFFICES ASSUME status = "Failed" PROVE \E i \in DOMAIN J : J[i].kind \in FailedKinds
    OBVIOUS
  <2>2. PICK k \in 1 .. Steps : Ran(k).status = "Failed"
    BY <2>1, <1>4, <1>5
  <2>3. 3 \in 1 .. 3 /\ 3 * k - 2 + 3 \in DOMAIN J
    BY <1>1
  <2>4. Placed(k, 3)
    BY <2>3, <1>2
  <2>5. J[3 * k - 2 + 3].kind \in FailedKinds
    BY <2>2, <2>4 DEF Placed, J
  <2>6. QED
    BY <2>3, <2>5
<1>14. status = "Failed" => "WorkflowFailed" \in last
  <2>1. SUFFICES ASSUME status = "Failed" PROVE "WorkflowFailed" \in last
    OBVIOUS
  <2>2. J[3 * Steps + 2].kind = "WorkflowFailed" /\ Len(J) = 3 * Steps + 2
    BY <2>1, <1>2, <1>3
  <2>3. 3 * Steps + 2 \in DOMAIN J
    BY <2>2, <1>1
  <2>4. QED
    BY <2>2, <2>3 DEF LastKinds
<1>15. (\E i \in DOMAIN J : J[i].kind \in FailedKinds) <=> "WorkflowFailed" \in last
  BY <1>12, <1>13, <1>14
<1>16. J[1].kind = "SessionStarted"
  BY <1>6, <1>10
<1> HIDE DEF last
<1>17. JournalAccepted(J)
  BY <1>11, <1>12, <1>15, <1>16 DEF JournalAccepted, last
<1>18. QED
  BY <1>17 DEF J

(* build_execution_journal makes a journal that validate_execution_journal *)
(* accepts of every session of every workflow; in it a node becomes ready  *)
(* after the completion of everything it depends on, and nothing but the   *)
(* end of the workflow follows a failure (journal.cpp 414-561).            *)
THEOREM JournalsAreCausal == SessionSpec => []JournalIsCausal
<1>1. ASSUME SessionInv PROVE JournalIsCausal
  BY <1>1, JournalsAccepted, JournalOrder DEF JournalIsCausal
<1>2. SessionSpec => []SessionInv
  BY SessionInvariant
<1>3. QED
  BY <1>1, <1>2, PTL
-----------------------------------------------------------------------------
(*                    ReplayView and SchedulerSnapshot                     *)

(* An entry calls satisfied only what the node depends on and was executed. *)
SourceInv ==
    /\ \A e \in Members(session.nodes) :
          Members(e.satisfied_dependencies) \subseteq deps[e.node_name] \cap ExecutedNames
    /\ session.failure_summary # {} => session.workflow_status = "Failed"

(* The entry of an unreached node calls only executed nodes satisfied. *)
LEMMA UnreachedSources ==
    ASSUME SessionInv, NEW X, NEW f
    PROVE  \A e \in Members(Unreached(X, f)) :
               Members(e.satisfied_dependencies) \subseteq deps[e.node_name] \cap X
<1> DEFINE T == {i \in DOMAIN order : order[i] \notin X}
           rest == Picked(order, T)
           satisfied(n) == {k \in DOMAIN after[n] : after[n][k] \in X}
           entry(n) == [node_name |-> n, status |-> f[n], execution_index |-> 0,
                        failure_summary |-> {},
                        satisfied_dependencies |-> Picked(after[n], satisfied(n)),
                        capability_bindings |-> bindings[n], used_mocks |-> <<>>]
           u == Unreached(X, f)
<1>1. u = [i \in DOMAIN rest |-> entry(rest[i])]
  BY DEF Unreached
<1>2. /\ order \in Seq(Id) /\ T \in SUBSET DOMAIN order
      /\ after \in [Id -> Seq(Id)]
  BY DEF SessionInv, PlanInv
<1> HIDE DEF T, u
<1>3. rest \in Seq(Id)
  BY <1>2, PickedFacts
<1> HIDE DEF rest
<1>4. \A i \in DOMAIN rest : rest[i] \in Id
  BY <1>3, LenProperties, ElementOfSeq
<1>5. ASSUME NEW n \in Id
      PROVE  Members(Picked(after[n], satisfied(n))) \subseteq deps[n] \cap X
  <2>1. after[n] \in Seq(Id) /\ satisfied(n) \in SUBSET DOMAIN after[n]
    BY <1>2
  <2>2. Members(Picked(after[n], satisfied(n))) = {after[n][k] : k \in satisfied(n)}
    BY <2>1, PickedFacts
  <2>3. deps[n] = Members(after[n])
    BY DEF deps
  <2>4. QED
    BY <2>2, <2>3 DEF Members
<1>6. ASSUME NEW e \in Members(u)
      PROVE  Members(e.satisfied_dependencies) \subseteq deps[e.node_name] \cap X
  <2>1. PICK i \in DOMAIN u : e = u[i]
    BY DEF Members
  <2>2. i \in DOMAIN rest /\ e = entry(rest[i])
    BY <2>1, <1>1
  <2>3. e.node_name = rest[i] /\ e.satisfied_dependencies = Picked(after[rest[i]], satisfied(rest[i]))
    BY <2>2
  <2>4. QED
    BY <2>2, <2>3, <1>4, <1>5
<1>7. QED
  BY <1>6 DEF u

(* The steps that write the session. *)
LEMMA WriteSources ==
    ASSUME SessionInv, SourceInv, NEW n \in Id, FailNode(n) \/ StopEarly(n) \/ CompleteNode(n)
    PROVE  SourceInv'
<1> DEFINE z == session.nodes
           X == ExecutedNames
           x == session.execution_order
<1>1. At(n) /\ UNCHANGED plan
  BY DEF FailNode, StopEarly, CompleteNode
<1>2. /\ phase = "running" /\ RunInv /\ deps[n] \subseteq X /\ session \in Session
      /\ PlanInv
  BY <1>1, AtFacts DEF OrderInv
<1>3. deps' = deps
  BY <1>1 DEF plan, deps
<1>4. z \in Seq(Entry) /\ x \in Seq(Id) /\ session.failure_summary = {}
  BY <1>2 DEF Session, RunInv, EntriesInv
<1>5. \A e \in Members(z) : Members(e.satisfied_dependencies) \subseteq deps[e.node_name] \cap X
  BY DEF SourceInv
<1>6. Members(Append(x, n)) = X \cup {n}
  BY <1>4, AppendMembers DEF ExecutedNames
<1>7. deps[n] = Members(after[n])
  BY DEF deps
<1>8. ASSUME NEW status, NEW failure
      PROVE  /\ Executed(n, status, failure).node_name = n
             /\ Executed(n, status, failure).satisfied_dependencies = after[n]
  BY DEF Executed
<1>9. CASE FailNode(n)
  <2> DEFINE e == Executed(n, "Failed", Failures(n))
             a == Append(z, e)
             f == [m \in Id |-> "Skipped"]
             Y == X \cup {n}
             u == Unreached(Y, f)
  <2>1. session' = [session EXCEPT !.workflow_status = "Failed",
                                   !.failure_summary = {[kind |-> "WorkflowFailed", node_name |-> n]},
                                   !.execution_order = Append(x, n),
                                   !.nodes = a \o u]
    BY <1>9 DEF FailNode
  <2>2. e \in Entry
    BY <1>1, <1>9, ExecutedFacts DEF FailNode
  <2>3. u \in Seq(Entry)
    <3>1. f \in [Id -> {"Skipped", "Ready", "Blocked"}]
      OBVIOUS
    <3> HIDE DEF f, Y
    <3>2. QED
      BY <3>1, <1>2, UnreachedFacts
  <2>4. \A d \in Members(u) : Members(d.satisfied_dependencies) \subseteq deps[d.node_name] \cap Y
    <3> HIDE DEF f, Y
    <3>1. QED
      BY UnreachedSources
  <2>5. e.node_name = n /\ e.satisfied_dependencies = after[n]
    BY <1>8
  <2> HIDE DEF e, u
  <2>6. a \in Seq(Entry) /\ Members(a) = Members(z) \cup {e}
    BY <1>4, <2>2, AppendMembers
  <2> HIDE DEF a
  <2>7. Members(a \o u) = Members(z) \cup {e} \cup Members(u)
    BY <2>3, <2>6, ConcatAnyMembers
  <2>8. /\ session'.nodes = a \o u /\ session'.execution_order = Append(x, n)
        /\ session'.workflow_status = "Failed"
    BY <2>1, <1>2 DEF Session
  <2>9. ExecutedNames' = Y
    BY <2>8, <1>6 DEF ExecutedNames
  <2> HIDE DEF z, X
  <2>10. ASSUME NEW d \in Members(session'.nodes)
         PROVE  Members(d.satisfied_dependencies) \subseteq deps[d.node_name] \cap Y
    <3>1. d \in Members(z) \/ d = e \/ d \in Members(u)
      BY <2>7, <2>8
    <3>2. CASE d \in Members(z)
      BY <3>2, <1>5
    <3>3. CASE d = e
      BY <3>3, <2>5, <1>2, <1>7
    <3>4. QED
      BY <3>1, <3>2, <3>3, <2>4
  <2>11. QED
    BY <2>8, <2>9, <2>10, <1>3 DEF SourceInv
<1>10. CASE StopEarly(n)
  <2> DEFINE f == [m \in Id |-> IF remaining_dependencies[m] = 0 THEN "Ready" ELSE "Blocked"]
             u == Unreached(X, f)
  <2>1. session' = [session EXCEPT !.workflow_status = "Partial", !.nodes = z \o u]
    BY <1>10 DEF StopEarly
  <2>2. u \in Seq(Entry)
    <3>1. f \in [Id -> {"Skipped", "Ready", "Blocked"}]
      OBVIOUS
    <3> HIDE DEF f, X
    <3>2. QED
      BY <3>1, <1>2, UnreachedFacts
  <2>3. \A d \in Members(u) : Members(d.satisfied_dependencies) \subseteq deps[d.node_name] \cap X
    <3> HIDE DEF f, X
    <3>1. QED
      BY UnreachedSources
  <2> HIDE DEF u
  <2>4. Members(z \o u) = Members(z) \cup Members(u)
    BY <2>2, <1>4, ConcatAnyMembers
  <2>5. /\ session'.nodes = z \o u /\ session'.execution_order = x
        /\ session'.failure_summary = {}
    BY <2>1, <1>2, <1>4 DEF Session
  <2>6. ExecutedNames' = X
    BY <2>5 DEF ExecutedNames
  <2> HIDE DEF z, X
  <2>7. QED
    BY <2>3, <2>4, <2>5, <2>6, <1>3, <1>5 DEF SourceInv
<1>11. CASE CompleteNode(n)
  <2> DEFINE e == Executed(n, "Completed", {})
  <2>1. session' = [session EXCEPT !.execution_order = Append(x, n), !.nodes = Append(z, e)]
    BY <1>11 DEF CompleteNode, Completes
  <2>2. e \in Entry
    BY <1>1, <1>11, ExecutedFacts DEF CompleteNode
  <2>3. e.node_name = n /\ e.satisfied_dependencies = after[n]
    BY <1>8
  <2> HIDE DEF e
  <2>4. Members(Append(z, e)) = Members(z) \cup {e}
    BY <1>4, <2>2, AppendMembers
  <2>5. /\ session'.nodes = Append(z, e) /\ session'.execution_order = Append(x, n)
        /\ session'.failure_summary = {}
    BY <2>1, <1>2, <1>4 DEF Session
  <2>6. ExecutedNames' = X \cup {n}
    BY <2>5, <1>6 DEF ExecutedNames
  <2> HIDE DEF z, X
  <2>7. ASSUME NEW d \in Members(session'.nodes)
        PROVE  Members(d.satisfied_dependencies) \subseteq deps[d.node_name] \cap (X \cup {n})
    <3>1. CASE d \in Members(z)
      BY <3>1, <1>5
    <3>2. CASE d = e
      BY <3>2, <2>3, <1>2, <1>7
    <3>3. QED
      BY <3>1, <3>2, <2>4, <2>5
  <2>8. QED
    BY <2>5, <2>6, <2>7, <1>3 DEF SourceInv
<1>12. QED
  BY <1>9, <1>10, <1>11

(* What entries call satisfied has been executed, throughout. *)
LEMMA SourceInvariant == SessionSpec => []SourceInv
<1>1. SessionInit => SourceInv
  <2>1. Members(<<>>) = {}
    BY DEF Members
  <2>2. QED
    BY <2>1 DEF SessionInit, NewSession, SourceInv
<1>2. SessionInv /\ SessionInv' /\ SourceInv /\ [SessionNext]_sessionVars => SourceInv'
  <2> SUFFICES ASSUME SessionInv, SessionInv', SourceInv, [SessionNext]_sessionVars PROVE SourceInv'
    OBVIOUS
  <2>1. CASE phase' = "planning"
    <3>1. session' = NewSession
      BY <2>1 DEF SessionInv, QueueInv
    <3>2. session'.nodes = <<>> /\ session'.failure_summary = {} /\ Members(<<>>) = {}
      BY <3>1 DEF NewSession, Members
    <3>3. QED
      BY <3>2 DEF SourceInv
  <2>2. CASE Refuse \/ Begin \/ Complete \/ UNCHANGED sessionVars
    <3>1. UNCHANGED <<plan, session>>
      BY <2>2 DEF Refuse, Begin, Complete, sessionVars
    <3>2. deps' = deps /\ ExecutedNames' = ExecutedNames /\ session' = session
      BY <3>1 DEF plan, deps, ExecutedNames
    <3>3. QED
      BY <3>2 DEF SourceInv
  <2>3. ASSUME NEW n \in Id, FailNode(n) \/ StopEarly(n) \/ CompleteNode(n) PROVE SourceInv'
    BY <2>3, WriteSources
  <2>4. CASE \E n \in Id, capabilities \in SUBSET Members(Slots) :
              \E k \in 0 .. MaxAfter : \E list \in [1 .. k -> Id] : PlanNode(n, list, capabilities)
    <3>1. phase' = "planning"
      BY <2>4 DEF PlanNode
    <3>2. QED
      BY <3>1, <2>1
  <2>5. QED
    BY <2>2, <2>3, <2>4 DEF SessionNext
<1>3. QED
  BY <1>1, <1>2, SessionInvariant, PTL DEF SessionSpec

(* The events of the k-th node are the three that were written for it. *)
LEMMA FoundEvents ==
    ASSUME SessionInv, Built, NEW k \in 1 .. Steps
    PROVE  EventsOf(journal, session.execution_order[k], k - 1) =
               {journal[3 * k - 1], journal[3 * k], journal[3 * k + 1]}
<1> DEFINE J == journal
           x == session.execution_order
           F == {j \in DOMAIN J : J[j].node_name = {x[k]} /\ J[j].execution_index = {k - 1}}
<1>1. /\ Steps \in Nat /\ DOMAIN J = 1 .. Len(J) /\ Len(J) \in Nat /\ 3 * Steps + 1 <= Len(J)
      /\ \A h \in 1 .. Steps : \A r \in 1 .. 3 : Placed(h, r)
      /\ \A i \in DOMAIN J : IsFirst(i) \/ IsNode(i) \/ IsLast(i)
  BY JournalFacts
<1>2. session \in Session
  BY DEF SessionInv, OrderInv
<1>3. ASSUME NEW h \in 1 .. Steps, NEW r \in 1 .. 3
      PROVE  J[3 * h - 2 + r].node_name = {x[h]} /\ J[3 * h - 2 + r].execution_index = {h - 1}
  <2>1. Placed(h, r)
    BY <1>1
  <2>2. QED
    BY <2>1, Zenon DEF Placed
<1>4. ASSUME NEW i \in F PROVE i \in {3 * k - 1, 3 * k, 3 * k + 1}
  <2>1. ASSUME IsFirst(i) PROVE FALSE
    <3>1. J[i].node_name = {}
      BY <2>1 DEF IsFirst, Event
    <3>2. QED
      BY <3>1
  <2>2. ~IsLast(i)
    BY <1>2, WorkflowEventFacts DEF IsLast
  <2>3. PICK h \in 1 .. Steps : \E r \in 1 .. 3 : i = 3 * h - 2 + r
    BY <1>1, <2>1, <2>2 DEF IsNode
  <2>4. PICK r \in 1 .. 3 : i = 3 * h - 2 + r
    BY <2>3
  <2>5. {h - 1} = {k - 1}
    BY <1>3, <2>4
  <2>6. h = k
    BY <2>5, <1>1
  <2>7. QED
    BY <2>4, <2>6, <1>1
<1>5. ASSUME NEW r \in 1 .. 3 PROVE 3 * k - 2 + r \in F
  <2>1. 3 * k - 2 + r \in DOMAIN J
    BY <1>1
  <2>2. QED
    BY <2>1, <1>3
<1>6. 3 * k - 1 = 3 * k - 2 + 1 /\ 3 * k = 3 * k - 2 + 2 /\ 3 * k + 1 = 3 * k - 2 + 3
  BY <1>1
<1>7. F = {3 * k - 1, 3 * k, 3 * k + 1}
  <2>1. 1 \in 1 .. 3 /\ 2 \in 1 .. 3 /\ 3 \in 1 .. 3
    OBVIOUS
  <2>2. 3 * k - 1 \in F /\ 3 * k \in F /\ 3 * k + 1 \in F
    BY <1>5, <1>6, <2>1
  <2>3. QED
    BY <1>4, <2>2
<1>8. EventsOf(J, x[k], k - 1) = {J[i] : i \in F}
  BY DEF EventsOf
<1> HIDE DEF F, J
<1>9. QED
  BY <1>7, <1>8 DEF J

(* What the replay view says of the k-th node. *)
Replayed(k) ==
    Progression(after, Ran(k), EventsOf(journal, Ran(k).node_name, Ran(k).execution_index))

(* What the replay reads off the journal for one node. *)
LEMMA ReplayedFacts ==
    ASSUME SessionInv, Built, NEW k \in 1 .. Steps
    PROVE  /\ EventsOf(journal, Ran(k).node_name, Ran(k).execution_index) # {}
           /\ Replayed(k).node_name = session.execution_order[k]
           /\ Replayed(k).execution_index = k - 1
           /\ Replayed(k).planned_dependencies = after[session.execution_order[k]]
           /\ Replayed(k).satisfied_dependencies = Ran(k).satisfied_dependencies
           /\ Replayed(k).saw = Expected(Ran(k).status)
           /\ Replayed(k).failure_summary = Ran(k).failure_summary
           /\ Replayed(k).used_mock_selectors = Members(Ran(k).used_mocks)
           /\ Replayed(k).final_status = Ran(k).status
<1> DEFINE n == Ran(k)
           found == EventsOf(journal, n.node_name, n.execution_index)
           e == journal[3 * k - 1]
           f == journal[3 * k]
           g == journal[3 * k + 1]
           ends == {d \in found : d.kind \in {"NodeCompleted"} \cup FailedKinds}
           p == Progression(after, n, found)
<1>1. /\ n.node_name = session.execution_order[k] /\ n.execution_index = k - 1 /\ n \in Entry
      /\ n.status \in {"Completed", "Failed"}
  BY RanFacts DEF Steps
<1>2. found = {e, f, g}
  BY <1>1, FoundEvents
<1>3. Steps \in Nat
  BY RanFacts DEF Steps
<1>4. /\ e = NodeEvents(n)[1] /\ f = NodeEvents(n)[2] /\ g = NodeEvents(n)[3]
  <2>1. \A r \in 1 .. 3 : journal[3 * k - 2 + r] = NodeEvents(n)[r]
    BY JournalShape DEF Steps
  <2>2. 1 \in 1 .. 3 /\ 2 \in 1 .. 3 /\ 3 \in 1 .. 3
    OBVIOUS
  <2>3. 3 * k - 1 = 3 * k - 2 + 1 /\ 3 * k = 3 * k - 2 + 2 /\ 3 * k + 1 = 3 * k - 2 + 3
    BY <1>3
  <2>4. QED
    BY <2>1, <2>2, <2>3
<1>5. /\ e.kind = "NodeBecameReady" /\ f.kind = "NodeStarted"
      /\ g.failure_summary = n.failure_summary /\ g.kind = LastKind(n)
      /\ g.used_mock_selectors = n.used_mocks
      /\ LastKind(n) \in {"NodeCompleted", "MockMissing", "NodeFailed"}
      /\ LastKind(n) = "NodeCompleted" <=> n.status = "Completed"
  <2>1. 1 \in 1 .. 3 /\ 2 \in 1 .. 3 /\ 3 \in 1 .. 3
    OBVIOUS
  <2>2. QED
    BY <2>1, <1>1, <1>4, NodeEventFacts
<1>6. /\ p.node_name = n.node_name /\ p.execution_index = n.execution_index
      /\ p.planned_dependencies = after[n.node_name]
      /\ p.satisfied_dependencies = n.satisfied_dependencies
      /\ p.saw = {IF d.kind \in FailedKinds THEN "NodeFailed" ELSE d.kind : d \in found}
      /\ p.failure_summary = UNION {d.failure_summary : d \in ends}
      /\ p.used_mock_selectors = UNION {Members(d.used_mock_selectors) : d \in ends}
      /\ p.final_status = n.status
  BY DEF Progression
<1>7. p = Replayed(k)
  BY DEF Replayed
<1> HIDE DEF n, found, e, f, g, p
<1>8. ends = {g}
  BY <1>2, <1>5 DEF FailedKinds
<1>9. p.failure_summary = n.failure_summary /\ p.used_mock_selectors = Members(n.used_mocks)
  BY <1>5, <1>6, <1>8
<1>10. p.saw = Expected(n.status)
  <2> DEFINE shown(d) == IF d.kind \in FailedKinds THEN "NodeFailed" ELSE d.kind
  <2>1. shown(e) = "NodeBecameReady" /\ shown(f) = "NodeStarted"
    BY <1>5 DEF FailedKinds
  <2>2. shown(g) = IF n.status = "Completed" THEN "NodeCompleted" ELSE "NodeFailed"
    BY <1>5 DEF FailedKinds
  <2>3. p.saw = {shown(d) : d \in found}
    BY <1>6
  <2> HIDE DEF shown
  <2>4. p.saw = {shown(e), shown(f), shown(g)}
    BY <2>3, <1>2
  <2>5. QED
    BY <2>1, <2>2, <2>4 DEF Expected
<1>11. found # {}
  BY <1>2
<1>12. QED
  BY <1>1, <1>6, <1>7, <1>9, <1>10, <1>11 DEF found, n

(* Journal and session list the completed nodes alike: only the last node  *)
(* that was executed may have failed.                                      *)
LEMMA CompletedOrders ==
    ASSUME SessionInv, Built
    PROVE  JournalCompletedOrder(journal) = CompletedOrder(session)
<1> DEFINE J == journal
           x == session.execution_order
           C == {i \in DOMAIN x : SessionNode(session, x[i]).status = "Completed"}
           T == {i \in DOMAIN J : J[i].kind = "NodeCompleted"}
<1>1. /\ Steps \in Nat /\ DOMAIN J = 1 .. Len(J) /\ Len(J) \in Nat /\ 3 * Steps + 1 <= Len(J)
      /\ \A h \in 1 .. Steps : \A r \in 1 .. 3 : Placed(h, r)
      /\ \A i \in DOMAIN J : IsFirst(i) \/ IsNode(i) \/ IsLast(i)
  BY JournalFacts
<1>2. session \in Session /\ x \in Seq(Id) /\ DOMAIN x = 1 .. Steps
  BY LenProperties DEF SessionInv, OrderInv, Session, Steps
<1>3. \A h \in 1 .. Steps : /\ Ran(h).status \in {"Completed", "Failed"}
                            /\ Ran(h).status = "Failed" => h = Steps
  BY RanFacts DEF Steps
<1>4. PICK m \in 0 .. Steps : \A h \in 1 .. Steps : Ran(h).status = "Completed" <=> h <= m
  <2>1. CASE \E h \in 1 .. Steps : Ran(h).status = "Failed"
    <3>1. Ran(Steps).status = "Failed" /\ Steps \in 1 .. Steps
      BY <2>1, <1>3
    <3>2. \A h \in 1 .. Steps : Ran(h).status = "Completed" <=> h <= Steps - 1
      BY <3>1, <1>1, <1>3
    <3>3. Steps - 1 \in 0 .. Steps
      BY <3>1, <1>1
    <3>4. QED
      BY <3>2, <3>3
  <2>2. CASE ~ \E h \in 1 .. Steps : Ran(h).status = "Failed"
    <3>1. \A h \in 1 .. Steps : Ran(h).status = "Completed" <=> h <= Steps
      BY <2>2, <1>1, <1>3
    <3>2. QED
      BY <3>1, <1>1
  <2>3. QED
    BY <2>1, <2>2
<1>5. m \in Nat /\ 1 .. m \subseteq 1 .. Steps
  BY <1>1
<1>6. C = 1 .. m
  BY <1>1, <1>2, <1>4, <1>5 DEF Ran
<1>7. CompletedOrder(session) = [k \in 1 .. m |-> x[k]]
  <2> DEFINE q == [k \in 1 .. m |-> k]
  <2>1. q \in [1 .. m -> C] /\ C \in SUBSET (1 .. Steps)
    BY <1>5, <1>6
  <2>2. Increasing(q)
    BY DEF Increasing
  <2>3. Members(q) = C
    BY <1>6 DEF Members
  <2>4. Picked(x, C) = [k \in 1 .. m |-> x[q[k]]]
    <3> HIDE DEF q, C
    <3>1. Cardinality(C) = m /\ Ascending(C) = q
      BY <1>1, <1>5, <2>1, <2>2, <2>3, AscendingIs
    <3>2. QED
      BY <3>1 DEF Picked
  <2>5. CompletedOrder(session) = Picked(x, C)
    BY DEF CompletedOrder
  <2>6. QED
    BY <2>4, <2>5
<1>8. ASSUME NEW h \in 1 .. Steps, NEW r \in 1 .. 3
      PROVE  /\ J[3 * h - 2 + r].node_name = {x[h]}
             /\ J[3 * h - 2 + r].kind = "NodeCompleted" <=> r = 3 /\ Ran(h).status = "Completed"
  <2>1. Placed(h, r)
    BY <1>1
  <2>2. QED
    BY <2>1, Zenon DEF Placed
<1>9. ASSUME NEW i \in T PROVE \E k \in 1 .. m : i = 3 * k + 1
  <2>1. ~IsFirst(i)
    BY DEF IsFirst, Event
  <2>2. ~IsLast(i)
    BY <1>2, WorkflowEventFacts DEF IsLast, Session
  <2>3. PICK h \in 1 .. Steps : \E r \in 1 .. 3 : i = 3 * h - 2 + r
    BY <1>1, <2>1, <2>2 DEF IsNode
  <2>4. PICK r \in 1 .. 3 : i = 3 * h - 2 + r
    BY <2>3
  <2>5. r = 3 /\ Ran(h).status = "Completed"
    BY <1>8, <2>4
  <2>6. h \in 1 .. m
    BY <1>1, <1>4, <2>5
  <2>7. i = 3 * h + 1
    BY <2>4, <2>5, <1>1
  <2>8. QED
    BY <2>6, <2>7
<1>10. ASSUME NEW k \in 1 .. m PROVE 3 * k + 1 \in T /\ J[3 * k + 1].node_name = {x[k]}
  <2>1. k \in 1 .. Steps /\ Ran(k).status = "Completed"
    BY <1>1, <1>4, <1>5
  <2>2. 3 \in 1 .. 3 /\ 3 * k + 1 = 3 * k - 2 + 3 /\ 3 * k + 1 \in DOMAIN J
    BY <2>1, <1>1
  <2>3. J[3 * k - 2 + 3].kind = "NodeCompleted" /\ J[3 * k - 2 + 3].node_name = {x[k]}
    BY <2>1, <2>2, <1>8
  <2>4. QED
    BY <2>2, <2>3
<1> DEFINE P == Picked(J, T)
<1>11. P = [k \in 1 .. m |-> J[3 * k + 1]]
  <2> DEFINE q == [k \in 1 .. m |-> 3 * k + 1]
  <2>1. q \in [1 .. m -> T] /\ T \in SUBSET (1 .. Len(J))
    BY <1>1, <1>10
  <2>2. Increasing(q)
    BY <1>5 DEF Increasing
  <2>3. Members(q) = T
    <3> HIDE DEF T
    <3>1. QED
      BY <1>9, <1>10 DEF Members
  <2>4. Picked(J, T) = [k \in 1 .. m |-> J[q[k]]]
    <3> HIDE DEF q, T, J
    <3>1. Len(J) \in Nat
      BY <1>1
    <3>2. Cardinality(T) = m /\ Ascending(T) = q
      BY <3>1, <1>5, <2>1, <2>2, <2>3, AscendingIs
    <3>3. QED
      BY <3>2 DEF Picked
  <2>5. QED
    BY <2>4
<1>12. JournalCompletedOrder(J) = [i \in DOMAIN P |-> CHOOSE a \in P[i].node_name : TRUE]
  BY DEF JournalCompletedOrder
<1> HIDE DEF P, J
<1>13. DOMAIN P = 1 .. m /\ \A k \in 1 .. m : P[k].node_name = {x[k]}
  BY <1>10, <1>11
<1>14. \A k \in 1 .. m : (CHOOSE a \in P[k].node_name : TRUE) = x[k]
  BY <1>13
<1>15. JournalCompletedOrder(J) = [k \in 1 .. m |-> x[k]]
  BY <1>12, <1>13, <1>14
<1>16. QED
  BY <1>7, <1>15 DEF J

(* The entries are one for each node of the plan. *)
LEMMA NodeEntries ==
    ASSUME SessionInv, Built
    PROVE  /\ \A n \in Nodes : /\ SessionNode(session, n) \in Members(session.nodes)
                               /\ SessionNode(session, n).node_name = n
                               /\ SessionNode(session, n).status = "Completed" <=> n \in Completed
           /\ \A e \in Members(session.nodes) :
                 /\ e \in Entry /\ SoundAlone(e) /\ NodeAccepted(session, e)
                 /\ e.node_name \in Nodes /\ e = SessionNode(session, e.node_name)
<1> DEFINE z == session.nodes
<1>1. session \in Session /\ BuiltInv /\ SessionAccepted(session)
  BY DEF SessionInv, OrderInv, BuiltInv
<1>2. z \in Seq(Entry)
  BY <1>1 DEF Session
<1>3. \A e \in Members(z) : e \in Entry
  BY <1>2, LenProperties, ElementOfSeq DEF Members
<1>4. \A e, d \in Members(z) : e.node_name = d.node_name => e = d
  BY <1>1 DEF SessionAccepted, Members
<1>5. {e.node_name : e \in Members(z)} = Nodes
  BY <1>1 DEF BuiltInv
<1> HIDE DEF z
<1>6. ASSUME NEW e \in Members(z) PROVE e = SessionNode(session, e.node_name)
  BY <1>4 DEF SessionNode, z
<1>7. \A e \in Members(z) : SoundAlone(e) /\ NodeAccepted(session, e)
  BY <1>1 DEF BuiltInv, SessionAccepted, z
<1>8. ASSUME NEW n \in Nodes
      PROVE  /\ SessionNode(session, n) \in Members(z) /\ SessionNode(session, n).node_name = n
             /\ SessionNode(session, n).status = "Completed" <=> n \in Completed
  <2>1. PICK e \in Members(z) : e.node_name = n
    BY <1>5
  <2>2. SessionNode(session, n) = e
    BY <2>1, <1>6
  <2>3. n \in Completed <=> \E d \in Members(z) : d.status = "Completed" /\ d.node_name = n
    BY DEF Completed, z
  <2>4. QED
    BY <2>1, <2>2, <2>3, <1>4
<1>9. QED
  BY <1>3, <1>5, <1>6, <1>7, <1>8 DEF z

(* build_replay_view finds plan, session and journal consistent. *)
LEMMA ReplaysAccepted ==
    ASSUME SessionInv, SourceInv, Built
    PROVE  ReplayAccepted(replay) /\ replay.execution_order = session.execution_order
<1> DEFINE x == session.execution_order
           found(i) == EventsOf(journal, Ran(i).node_name, Ran(i).execution_index)
           r == replay
<1>1. session \in Session /\ SessionAccepted(session) /\ Distinct(x) /\ ExecutedNames \subseteq Nodes
  BY DEF SessionInv, OrderInv, BuiltInv
<1>2. x \in Seq(Id) /\ Steps \in Nat /\ DOMAIN x = 1 .. Steps
  BY <1>1, LenProperties DEF Session, Steps
<1>3. /\ r.workflow_status = session.workflow_status
      /\ r.replay_status = ReplayStatus(session)
      /\ r.workflow_failure_summary = session.failure_summary
      /\ r.execution_order = x
      /\ r.nodes = [i \in DOMAIN x |-> Replayed(i)]
      /\ r.plan_matches_session = (Members(x) \subseteq Declared(order))
      /\ r.session_matches_journal =
            (\A i \in DOMAIN x :
                /\ found(i) # {}
                /\ Replayed(i).final_status \in Statuses
                /\ Replayed(i).saw = Expected(Replayed(i).final_status)
                /\ Replayed(i).final_status = "Failed" =>
                      Replayed(i).failure_summary = Ran(i).failure_summary)
      /\ r.journal_matches_execution_order = (JournalCompletedOrder(journal) = CompletedOrder(session))
  BY DEF replay, ReplayOf, Replayed, Ran
<1>4. ASSUME NEW i \in 1 .. Steps
      PROVE  /\ found(i) # {}
             /\ Replayed(i).node_name = x[i] /\ Replayed(i).execution_index = i - 1
             /\ Replayed(i).planned_dependencies = after[x[i]]
             /\ Replayed(i).satisfied_dependencies = Ran(i).satisfied_dependencies
             /\ Replayed(i).saw = Expected(Ran(i).status)
             /\ Replayed(i).failure_summary = Ran(i).failure_summary
             /\ Replayed(i).final_status = Ran(i).status
  BY ReplayedFacts
<1>5. ASSUME NEW i \in 1 .. Steps
      PROVE  /\ Ran(i).node_name = x[i] /\ Ran(i).status \in Statuses
             /\ Distinct(Ran(i).satisfied_dependencies)
             /\ Members(Ran(i).satisfied_dependencies) \subseteq Members(after[x[i]])
             /\ \A f \in Ran(i).failure_summary : f.node_name = x[i]
             /\ Ran(i).failure_summary # {} <=> Ran(i).status = "Failed"
             /\ Distinct(after[x[i]])
  <2>1. /\ Ran(i) \in Members(session.nodes) /\ Ran(i).node_name = x[i]
        /\ Ran(i).status \in {"Completed", "Failed"} /\ SoundAlone(Ran(i))
    BY RanFacts DEF Steps
  <2>2. x[i] \in Nodes /\ x[i] \in Id
    BY <1>1, <1>2, ElementOfSeq DEF ExecutedNames, Members, Steps
  <2>3. deps[x[i]] = Members(after[x[i]])
    BY <2>2 DEF deps
  <2>4. Members(Ran(i).satisfied_dependencies) \subseteq deps[x[i]]
    BY <2>1 DEF SourceInv
  <2>5. Distinct(after[x[i]])
    BY <2>2 DEF SessionInv, PlanInv, PlanAccepted, Built
  <2>6. QED
    BY <2>1, <2>3, <2>4, <2>5 DEF SoundAlone, Statuses
<1> HIDE DEF found, r
<1>6. r.session_matches_journal
  BY <1>2, <1>3, <1>4, <1>5
<1>7. r.plan_matches_session
  BY <1>1, <1>3 DEF ExecutedNames, Nodes
<1>8. r.journal_matches_execution_order
  BY <1>3, CompletedOrders
<1>9. r.replay_status = ReplayStatus(r)
  BY <1>3 DEF ReplayStatus
<1>10. r.workflow_failure_summary # {} <=> r.workflow_status = "Failed"
  <2>1. session.workflow_status = "Failed" => session.failure_summary # {}
    BY <1>1 DEF SessionAccepted
  <2>2. QED
    BY <2>1, <1>3 DEF SourceInv
<1>11. /\ DOMAIN r.nodes = 1 .. Steps /\ Len(r.execution_order) = Len(r.nodes)
       /\ \A i \in 1 .. Steps : r.nodes[i] = Replayed(i)
  <2>1. DOMAIN r.nodes = 1 .. Steps /\ \A i \in 1 .. Steps : r.nodes[i] = Replayed(i)
    BY <1>2, <1>3
  <2>2. Len(r.nodes) = Steps
    <3> DEFINE S == {Replayed(i) : i \in 1 .. Steps}
    <3>1. r.nodes \in [1 .. Steps -> S]
      BY <1>2, <1>3
    <3> HIDE DEF S
    <3>2. r.nodes \in Seq(S)
      BY <3>1, <1>2, SeqDef
    <3>3. QED
      BY <2>1, <3>2, <1>2, LenProperties
  <2>3. QED
    BY <2>1, <2>2, <1>3 DEF Steps
<1>12. ASSUME NEW i \in DOMAIN r.nodes
       PROVE  LET n == r.nodes[i]
              IN  /\ n.execution_index = i - 1
                  /\ n.node_name = r.execution_order[i]
                  /\ Distinct(n.planned_dependencies) /\ Distinct(n.satisfied_dependencies)
                  /\ Members(n.satisfied_dependencies) \subseteq Members(n.planned_dependencies)
                  /\ \A f \in n.failure_summary : f.node_name = n.node_name
                  /\ n.final_status \in Statuses
                  /\ n.saw = Expected(n.final_status)
                  /\ n.failure_summary # {} <=> n.final_status = "Failed"
  <2>1. i \in 1 .. Steps /\ r.nodes[i] = Replayed(i) /\ r.execution_order[i] = x[i]
    BY <1>3, <1>11
  <2>2. QED
    BY <2>1, <1>4, <1>5
<1>13. Distinct(r.execution_order)
  BY <1>1, <1>3
<1>14. ReplayAccepted(r)
  BY <1>6, <1>7, <1>8, <1>9, <1>10, <1>11, <1>12, <1>13 DEF ReplayAccepted
<1>15. QED
  BY <1>3, <1>14 DEF r

(* Where the session followed the plan, the nodes that completed come       *)
(* first.                                                                   *)
LEMMA PrefixFacts ==
    ASSUME SessionInv, Built, is_prefix(session.execution_order, order)
    PROVE  LET p == CompletedPrefix(order, session)
           IN  /\ Members(p) = Completed
               /\ is_prefix(p, order)
               /\ Completed = Nodes => p = order
<1> DEFINE x == session.execution_order
           p == CompletedPrefix(order, session)
           open == {i \in DOMAIN order : SessionNode(session, order[i]).status # "Completed"}
           N == Len(order)
<1>1. session \in Session /\ order \in Seq(Id) /\ Distinct(order)
  BY DEF SessionInv, OrderInv, PlanInv
<1>2. /\ x \in Seq(Id) /\ Steps \in Nat /\ DOMAIN x = 1 .. Steps
      /\ N \in Nat /\ DOMAIN order = 1 .. N
  BY <1>1, LenProperties DEF Session, Steps
<1>3. Steps <= N /\ \A i \in 1 .. Steps : x[i] = order[i]
  BY <1>2 DEF is_prefix, Steps
<1>4. \A i \in 1 .. N : order[i] \in Nodes /\ (i \in open <=> order[i] \notin Completed)
  BY <1>2, NodeEntries DEF Nodes, Declared, Members
<1>5. ASSUME NEW i \in 1 .. N, order[i] \in Completed
      PROVE  i \in 1 .. Steps
  <2>1. PICK e \in Members(session.nodes) : e.status = "Completed" /\ e.node_name = order[i]
    BY <1>5 DEF Completed
  <2>2. /\ e \in Entry /\ NodeAccepted(session, e)
    BY NodeEntries
  <2>3. /\ e.execution_index \in Nat /\ e.execution_index < Steps
        /\ x[e.execution_index + 1] = order[i]
    BY <2>1, <2>2 DEF NodeAccepted, Entry, Steps
  <2>4. e.execution_index + 1 \in 1 .. Steps /\ e.execution_index + 1 \in 1 .. N
    BY <2>3, <1>2, <1>3
  <2>5. order[e.execution_index + 1] = order[i]
    BY <2>3, <2>4, <1>3
  <2>6. e.execution_index + 1 = i
    BY <2>4, <2>5, <1>1, <1>2 DEF Distinct
  <2>7. QED
    BY <2>4, <2>6
<1>6. \A i \in 1 .. Steps - 1 : order[i] \in Completed
  <2>1. \A i \in 1 .. Steps - 1 : x[i] \in Completed
    BY DEF SessionInv, BuiltInv, Steps
  <2>2. QED
    BY <2>1, <1>2, <1>3
<1>7. PICK m \in 0 .. N : \A i \in 1 .. N : order[i] \in Completed <=> i <= m
  <2>1. CASE Steps \in 1 .. N /\ order[Steps] \notin Completed
    <3>1. \A i \in 1 .. N : order[i] \in Completed <=> i <= Steps - 1
      BY <2>1, <1>2, <1>5, <1>6
    <3>2. Steps - 1 \in 0 .. N
      BY <2>1, <1>2
    <3>3. QED
      BY <3>1, <3>2
  <2>2. CASE ~(Steps \in 1 .. N /\ order[Steps] \notin Completed)
    <3>1. \A i \in 1 .. N : order[i] \in Completed <=> i <= Steps
      BY <2>2, <1>2, <1>3, <1>5, <1>6
    <3>2. Steps \in 0 .. N
      BY <1>2, <1>3
    <3>3. QED
      BY <3>1, <3>2
  <2>3. QED
    BY <2>1, <2>2
<1>8. m \in Nat /\ m <= N /\ (m = N \/ m < N)
  <2>1. N \in Nat
    BY <1>2
  <2> HIDE DEF N
  <2>2. QED
    BY <2>1
<1>9. FirstOpen(order, session) = m + 1
  <2> DEFINE first == FirstOpen(order, session)
  <2>1. first = IF open = {} THEN N + 1 ELSE CHOOSE i \in open : \A j \in open : i <= j
    BY DEF FirstOpen
  <2>2. \A i \in open : i \in 1 .. N /\ ~(i <= m)
    BY <1>2, <1>4, <1>7
  <2>3. \A i \in 1 .. N : ~(i <= m) => i \in open
    BY <1>4, <1>7
  <2> HIDE DEF open, first
  <2>4. CASE m = N
    <3>1. open = {}
      BY <2>2, <2>4, <1>2
    <3>2. QED
      BY <3>1, <2>1, <2>4 DEF first
  <2>5. CASE m < N
    <3>1. m + 1 \in open
      BY <2>3, <2>5, <1>2
    <3>2. \A j \in open : m + 1 <= j
      BY <2>2, <1>2
    <3>3. \A i \in open : (\A j \in open : i <= j) => i = m + 1
      <4>1. SUFFICES ASSUME NEW i \in open, \A j \in open : i <= j PROVE i = m + 1
        OBVIOUS
      <4>2. i <= m + 1 /\ m + 1 <= i
        BY <4>1, <3>1, <3>2
      <4>3. QED
        BY <4>2, <2>2, <1>2
    <3>4. (CHOOSE i \in open : \A j \in open : i <= j) = m + 1
      BY <3>1, <3>2, <3>3
    <3>5. open # {}
      BY <3>1
    <3>6. QED
      BY <3>4, <3>5, <2>1 DEF first
  <2>6. QED
    BY <2>4, <2>5, <1>8
<1>10. p = SubSeq(order, 1, m)
  BY <1>9, <1>2 DEF CompletedPrefix
<1>11. Len(p) = m /\ DOMAIN p = 1 .. m /\ \A i \in 1 .. m : p[i] = order[i]
  <2>1. 1 .. m \subseteq 1 .. N /\ m \in Nat
    BY <1>2
  <2> HIDE DEF N
  <2>2. SubSeq(order, 1, m) = [i \in 1 .. m |-> order[i]]
    BY <1>2
  <2>3. [i \in 1 .. m |-> order[i]] \in Seq(Id)
    BY <2>1, <1>1, <1>2, ElementOfSeq DEF N
  <2>4. QED
    BY <2>2, <2>3, <1>10, LenProperties
<1>12. is_prefix(p, order)
  BY <1>2, <1>11 DEF is_prefix
<1>13. Completed \subseteq Nodes
  BY NodeEntries DEF Completed
<1>14. Members(p) = Completed
  <2>1. Members(p) = {order[i] : i \in 1 .. m}
    BY <1>11 DEF Members
  <2>2. \A n \in Completed : \E i \in 1 .. N : order[i] = n
    BY <1>2, <1>13 DEF Nodes, Declared, Members
  <2>3. \A i \in 1 .. m : i \in 1 .. N /\ order[i] \in Completed
    BY <1>2, <1>7
  <2>4. \A n \in Completed : \E i \in 1 .. m : order[i] = n
    BY <2>2, <1>2, <1>7
  <2>5. QED
    BY <2>1, <2>3, <2>4
<1>15. ASSUME Completed = Nodes PROVE p = order
  <2>1. \A i \in 1 .. N : i <= m
    BY <1>4, <1>7, <1>15
  <2>2. m = N
    <3>1. CASE N = 0
      BY <3>1, <1>8
    <3>2. CASE N # 0
      <4>1. N \in 1 .. N
        BY <3>2, <1>2
      <4>2. N <= m
        BY <4>1, <2>1
      <4> HIDE DEF N
      <4>3. QED
        BY <4>2, <1>2, <1>8
    <3>3. QED
      BY <3>1, <3>2
  <2>3. QED
    BY <2>2, <1>1, <1>2, <1>10
<1>16. QED
  BY <1>12, <1>14, <1>15

(* A list of the snapshot holds each entry with one of the statuses, once. *)
LEMMA ListedFacts ==
    ASSUME SessionInv, Built, NEW statuses
    PROVE  LET l == Listed(order, session, statuses)
           IN  /\ l \in Seq(Entry)
               /\ \A i, j \in DOMAIN l : l[i].node_name = l[j].node_name => i = j
               /\ Members(l) = {e \in Members(session.nodes) : e.status \in statuses}
<1> DEFINE T == {i \in DOMAIN order : SessionNode(session, order[i]).status \in statuses}
           names == Picked(order, T)
           l == Listed(order, session, statuses)
           E == Members(session.nodes)
           node(n) == SessionNode(session, n)
<1>1. order \in Seq(Id) /\ Distinct(order) /\ T \in SUBSET DOMAIN order
  BY DEF SessionInv, PlanInv
<1>2. l = [i \in DOMAIN names |-> node(names[i])]
  BY DEF Listed
<1>3. {order[i] : i \in T} = {n \in Nodes : node(n).status \in statuses}
  BY DEF Nodes, Declared, Members
<1>4. /\ \A n \in Nodes : node(n) \in E /\ node(n).node_name = n
      /\ \A e \in E : e \in Entry /\ e.node_name \in Nodes /\ e = node(e.node_name)
  BY NodeEntries
<1> HIDE DEF T, l, node, E
<1>5. /\ names \in Seq(Id) /\ Distinct(names)
      /\ Members(names) = {n \in Nodes : node(n).status \in statuses}
  BY <1>1, <1>3, PickedFacts
<1> HIDE DEF names
<1>6. Len(names) \in Nat /\ DOMAIN names = 1 .. Len(names)
  BY <1>5, LenProperties
<1>7. \A i \in DOMAIN names : names[i] \in Nodes /\ node(names[i]).status \in statuses
  BY <1>5 DEF Members
<1>8. l \in Seq(Entry)
  <2>1. l \in [1 .. Len(names) -> Entry]
    BY <1>2, <1>4, <1>6, <1>7
  <2>2. QED
    BY <2>1, <1>6, SeqDef
<1>9. DOMAIN l = DOMAIN names /\ \A i \in DOMAIN names : l[i] = node(names[i])
  BY <1>2
<1>10. ASSUME NEW i \in DOMAIN l, NEW j \in DOMAIN l, l[i].node_name = l[j].node_name
       PROVE  i = j
  BY <1>4, <1>5, <1>7, <1>9, <1>10 DEF Distinct
<1>11. ASSUME NEW e \in Members(l) PROVE e \in E /\ e.status \in statuses
  BY <1>4, <1>7, <1>9 DEF Members
<1>12. ASSUME NEW e \in E, e.status \in statuses PROVE e \in Members(l)
  <2>1. e.node_name \in Members(names)
    BY <1>4, <1>5, <1>12
  <2>2. PICK i \in DOMAIN names : names[i] = e.node_name
    BY <2>1 DEF Members
  <2>3. l[i] = e
    BY <2>2, <1>4, <1>9
  <2>4. QED
    BY <2>2, <2>3, <1>9 DEF Members
<1>13. Members(l) = {e \in E : e.status \in statuses}
  BY <1>11, <1>12
<1>14. QED
  BY <1>8, <1>10, <1>13 DEF l, E

(* The index of a node is its place in the plan. *)
LEMMA PlanIndexFacts ==
    ASSUME SessionInv, NEW n \in Nodes
    PROVE  /\ PlanIndex(order, n) \in Nat /\ PlanIndex(order, n) < Len(order)
           /\ order[PlanIndex(order, n) + 1] = n
<1> DEFINE i == CHOOSE k \in DOMAIN order : order[k] = n
<1>1. order \in Seq(Id)
  BY DEF SessionInv, PlanInv
<1>2. Len(order) \in Nat /\ DOMAIN order = 1 .. Len(order)
  BY <1>1, LenProperties
<1>3. \E k \in DOMAIN order : order[k] = n
  BY DEF Nodes, Declared, Members
<1>4. i \in DOMAIN order /\ order[i] = n
  BY <1>3
<1>5. PlanIndex(order, n) = i - 1
  BY DEF PlanIndex
<1> HIDE DEF i
<1>6. i \in Nat /\ i - 1 \in Nat /\ i - 1 < Len(order) /\ (i - 1) + 1 = i
  BY <1>2, <1>4
<1>7. QED
  BY <1>4, <1>5, <1>6

(* What a node that is not completed has in common with the plan. *)
LEMMA OpenNodes ==
    ASSUME SessionInv, SourceInv, Built, NEW e \in Members(session.nodes), e.status # "Completed"
    PROVE  LET n == e.node_name
           IN  /\ n \in Nodes \ Completed
               /\ after[n] \in Seq(Id) /\ Distinct(after[n]) /\ deps[n] = Members(after[n])
               /\ Members(after[n]) \subseteq Members(order)
               /\ Distinct(e.satisfied_dependencies)
               /\ Members(e.satisfied_dependencies) \subseteq Members(after[n])
               /\ session.workflow_status = "Partial" =>
                     /\ Members(e.satisfied_dependencies) \subseteq Completed
                     /\ e.status \in {"Ready", "Blocked"}
                     /\ e.status = "Ready" <=> deps[n] \subseteq Completed
<1> DEFINE n == e.node_name
<1>1. n \in Nodes /\ e = SessionNode(session, n) /\ SoundAlone(e) /\ e \in Entry
  BY NodeEntries
<1>2. n \notin Completed
  BY <1>1, NodeEntries
<1>3. PlanInv /\ PlanAccepted /\ BuiltInv
  BY DEF SessionInv, PlanInv, Built
<1>4. n \in Id
  BY <1>1 DEF Entry
<1>5. after[n] \in Seq(Id) /\ Distinct(after[n]) /\ deps[n] = Members(after[n])
  BY <1>1, <1>3, <1>4 DEF PlanInv, PlanAccepted, deps
<1>6. deps[n] \subseteq Members(order)
  BY <1>1, <1>3 DEF PlanAccepted, IsDag, Closed, Nodes, Declared
<1>7. Members(e.satisfied_dependencies) \subseteq deps[n] \cap ExecutedNames
  BY DEF SourceInv
<1>8. ASSUME session.workflow_status = "Partial"
      PROVE  /\ ExecutedNames \subseteq Completed
             /\ e.status \in {"Ready", "Blocked"}
             /\ e.status = "Ready" <=> deps[n] \subseteq Completed
  <2>1. \A d \in Members(session.nodes) : d.status # "Failed" /\ d.status # "Skipped"
    BY <1>3, <1>8 DEF BuiltInv, SessionAccepted
  <2>2. e.status \in {"Ready", "Blocked"}
    BY <2>1, <1>1 DEF Entry, EntryStatuses
  <2>3. ASSUME NEW m \in ExecutedNames PROVE m \in Completed
    <3>1. PICK i \in DOMAIN session.execution_order : session.execution_order[i] = m
      BY DEF ExecutedNames, Members
    <3>2. PICK d \in Members(session.nodes) : d.node_name = m /\ d.status \in {"Completed", "Failed"}
      BY <3>1, <1>3 DEF BuiltInv, SessionAccepted
    <3>3. QED
      BY <3>2, <2>1 DEF Completed
  <2>4. QED
    BY <2>2, <2>3, <1>2, <1>3, <1>8 DEF BuiltInv
<1> HIDE DEF n
<1>9. QED
  BY <1>1, <1>2, <1>5, <1>6, <1>7, <1>8 DEF SoundAlone, n

(* A node that is blocked waits for what has not completed, or the         *)
(* workflow has failed.                                                    *)
LEMMA BlockedFacts ==
    ASSUME SessionInv, SourceInv, Built, is_prefix(session.execution_order, order),
           NEW e \in Members(session.nodes), e.status \in {"Blocked", "Skipped"}
    PROVE  LET b == BlockedNode(order, after, session, e)
               n == e.node_name
           IN  /\ b.node_name = n /\ b.planned_dependencies = after[n]
               /\ b.execution_index = PlanIndex(order, n)
               /\ Distinct(b.missing_dependencies)
               /\ Members(b.missing_dependencies) \subseteq Members(after[n])
               /\ BlockedNodeAccepted(b) /\ b.blocked_reason # "UpstreamPartial"
               /\ session.workflow_status = "Partial" =>
                     Members(b.missing_dependencies) = deps[n] \ Completed
<1> DEFINE b == BlockedNode(order, after, session, e)
           n == e.node_name
           gone == Missing(order, after, session, e)
           there == Members(e.satisfied_dependencies) \cup Members(CompletedPrefix(order, session))
           K == {k \in DOMAIN after[n] : after[n][k] \notin there}
<1>1. /\ b.node_name = n /\ b.planned_dependencies = after[n]
      /\ b.execution_index = PlanIndex(order, n) /\ b.missing_dependencies = gone
      /\ b.blocked_reason = IF session.workflow_status = "Failed" THEN "WorkflowTerminalFailure"
                            ELSE IF gone = <<>> THEN "UpstreamPartial" ELSE "WaitingOnDependencies"
      /\ b.may_become_ready = (session.workflow_status # "Failed" /\ gone # <<>>)
      /\ b.blocking_failure_summary = IF session.workflow_status = "Failed"
                                      THEN session.failure_summary ELSE {}
  BY DEF BlockedNode
<1>2. gone = IF session.workflow_status # "Partial" THEN <<>> ELSE Picked(after[n], K)
  BY DEF Missing
<1>3. /\ n \in Nodes \ Completed
      /\ after[n] \in Seq(Id) /\ Distinct(after[n]) /\ deps[n] = Members(after[n])
      /\ session.workflow_status = "Partial" =>
            /\ Members(e.satisfied_dependencies) \subseteq Completed
            /\ e.status \in {"Ready", "Blocked"}
            /\ e.status = "Ready" <=> deps[n] \subseteq Completed
  BY OpenNodes
<1>4. Members(CompletedPrefix(order, session)) = Completed
  BY PrefixFacts
<1>5. /\ session.workflow_status \in {"Completed", "Failed", "Partial"}
      /\ SessionAccepted(session) /\ session \in Session /\ NodeAccepted(session, e)
  BY NodeEntries DEF SessionInv, OrderInv, Session, BuiltInv
<1>6. session.workflow_status # "Completed"
  BY <1>5 DEF NodeAccepted
<1> HIDE DEF b, n, gone
<1>7. CASE session.workflow_status = "Partial"
  <2>1. there = Completed
    BY <1>3, <1>4, <1>7
  <2>2. gone = Picked(after[n], K) /\ K \in SUBSET DOMAIN after[n]
    BY <1>2, <1>7
  <2>3. {after[n][k] : k \in K} = Members(after[n]) \ there
    BY DEF Members
  <2> HIDE DEF K, there
  <2>4. Members(gone) = Members(after[n]) \ there /\ Distinct(gone)
    BY <2>2, <2>3, <1>3, PickedFacts
  <2>5. Members(gone) = deps[n] \ Completed
    BY <2>1, <2>4, <1>3
  <2>6. ~(deps[n] \subseteq Completed)
    BY <1>3, <1>7
  <2>7. gone # <<>>
    <3>1. Members(<<>>) = {}
      BY DEF Members
    <3>2. QED
      BY <3>1, <2>5, <2>6
  <2>8. b.blocked_reason = "WaitingOnDependencies" /\ b.blocking_failure_summary = {}
    BY <1>1, <1>7, <2>7
  <2>9. BlockedNodeAccepted(b)
    BY <2>7, <2>8, <1>1 DEF BlockedNodeAccepted
  <2>10. Members(gone) \subseteq Members(after[n])
    BY <2>4
  <2>11. QED
    BY <1>1, <2>4, <2>5, <2>8, <2>9, <2>10 DEF b, n
<1>8. CASE session.workflow_status = "Failed"
  <2>1. gone = <<>>
    BY <1>2, <1>8
  <2>2. Distinct(<<>>) /\ Members(<<>>) = {}
    BY DEF Distinct, Members
  <2>3. session.failure_summary # {}
    BY <1>5, <1>8 DEF SessionAccepted
  <2>4. b.blocked_reason = "WorkflowTerminalFailure"
    BY <1>1, <1>8
  <2>5. ~b.may_become_ready /\ b.blocking_failure_summary # {}
    BY <1>1, <1>8, <2>3
  <2>6. BlockedNodeAccepted(b)
    BY <2>4, <2>5 DEF BlockedNodeAccepted
  <2>7. Distinct(gone) /\ Members(gone) \subseteq Members(after[n])
    BY <2>1, <2>2
  <2>8. QED
    BY <1>1, <1>8, <2>4, <2>6, <2>7 DEF b, n
<1>9. QED
  BY <1>5, <1>6, <1>7, <1>8

(* Entries with distinct names have as many names as entries. *)
LEMMA NamesCount ==
    ASSUME NEW l \in Seq(Entry), \A i, j \in DOMAIN l : l[i].node_name = l[j].node_name => i = j
    PROVE  LET N == {e.node_name : e \in Members(l)}
           IN  IsFiniteSet(N) /\ Cardinality(N) = Len(l)
<1> DEFINE q == [i \in DOMAIN l |-> l[i].node_name]
           N == {e.node_name : e \in Members(l)}
<1>1. Members(q) = N
  BY DEF Members
<1>2. Distinct(q)
  BY DEF Distinct
<1>3. q = [i \in DOMAIN l |-> q[i]]
  OBVIOUS
<1> HIDE DEF q
<1>4. Len(q) = Len(l) /\ q \in Seq(Members(q))
  BY <1>3, SameLength
<1>5. QED
  BY <1>1, <1>2, <1>4, MembersCount

(* A stopped workflow can go on: a set of nodes that are not completed and *)
(* wait for one another would be a cycle.                                  *)
LEMMA StoppedGoesOn ==
    ASSUME SessionInv, SourceInv, Built, session.workflow_status = "Partial"
    PROVE  \E e \in Members(session.nodes) : e.status = "Ready"
<1> DEFINE S == Nodes \ Completed
<1>1. IsDag(order, deps) /\ SessionAccepted(session)
  BY DEF SessionInv, PlanInv, PlanAccepted, BuiltInv, Built
<1>2. PICK e \in Members(session.nodes) : e.status # "Completed"
  BY <1>1 DEF SessionAccepted
<1>3. e.node_name \in S
  BY <1>2, OpenNodes
<1>4. PICK n \in S : deps[n] \cap S = {}
  <2>1. S \in SUBSET Declared(order) /\ S # {}
    BY <1>3 DEF Nodes
  <2>2. QED
    BY <1>1, <2>1 DEF IsDag, Acyclic
<1>5. deps[n] \subseteq Completed
  BY <1>1, <1>4 DEF IsDag, Closed, Nodes
<1> DEFINE d == SessionNode(session, n)
<1>6. d \in Members(session.nodes) /\ d.node_name = n /\ d.status # "Completed"
  BY NodeEntries
<1> HIDE DEF d
<1>7. d.status = "Ready"
  BY <1>5, <1>6, OpenNodes
<1>8. QED
  BY <1>6, <1>7

(* The snapshot of every session that is built passes its validator. *)
LEMMA SnapshotsAccepted ==
    ASSUME SessionInv, SourceInv, Built, is_prefix(session.execution_order, order)
    PROVE  /\ SnapshotAccepted(snapshot)
           /\ Members(snapshot.completed_prefix) = Completed
           /\ session.workflow_status = "Partial" =>
                 /\ snapshot.snapshot_status = "Runnable"
                 /\ \A n \in snapshot.next_candidate_node_name : deps[n] \subseteq Completed
           /\ \A n \in Members(snapshot.blocked_nodes) :
                 /\ n.blocked_reason # "UpstreamPartial"
                 /\ session.workflow_status = "Partial" =>
                       Members(n.missing_dependencies) = deps[n.node_name] \ Completed
<1> DEFINE E == Members(session.nodes)
           open == Listed(order, session, {"Ready"})
           others == Listed(order, session, {"Blocked", "Skipped"})
           R == [i \in DOMAIN open |-> ReadyNode(order, after, open[i])]
           B == [i \in DOMAIN others |-> BlockedNode(order, after, session, others[i])]
           status == SnapshotStatus(session, R)
           p == CompletedPrefix(order, session)
           t == snapshot
           ready == {n.node_name : n \in Members(R)}
           blocked == {n.node_name : n \in Members(B)}
           w == session.workflow_status
<1>1. /\ t.workflow_status = w /\ t.snapshot_status = status
      /\ t.workflow_failure_summary = session.failure_summary
      /\ t.execution_order = order /\ t.ready_nodes = R /\ t.blocked_nodes = B
      /\ t.completed_prefix = p /\ t.next_candidate_node_name = NextCandidate(status, R, B)
  BY DEF snapshot, SnapshotOf
<1>2. /\ open \in Seq(Entry) /\ Members(open) = {e \in E : e.status \in {"Ready"}}
      /\ \A i, j \in DOMAIN open : open[i].node_name = open[j].node_name => i = j
  BY ListedFacts
<1>3. /\ others \in Seq(Entry) /\ Members(others) = {e \in E : e.status \in {"Blocked", "Skipped"}}
      /\ \A i, j \in DOMAIN others : others[i].node_name = others[j].node_name => i = j
  BY ListedFacts
<1>4. Members(p) = Completed /\ is_prefix(p, order) /\ (Completed = Nodes => p = order)
  BY PrefixFacts
<1>5. /\ w \in {"Completed", "Failed", "Partial"} /\ SessionAccepted(session)
      /\ order \in Seq(Id) /\ Distinct(order)
  BY DEF SessionInv, OrderInv, Session, BuiltInv, PlanInv
<1>6. Members(order) = Nodes
  BY DEF Nodes, Declared
<1> HIDE DEF open, others, p, t, w, E
<1>7. /\ DOMAIN R = DOMAIN open /\ \A i \in DOMAIN open : R[i] = ReadyNode(order, after, open[i])
      /\ R = [i \in DOMAIN open |-> R[i]]
  OBVIOUS
<1>8. /\ DOMAIN B = DOMAIN others
      /\ \A i \in DOMAIN others : B[i] = BlockedNode(order, after, session, others[i])
      /\ B = [i \in DOMAIN others |-> B[i]]
  OBVIOUS
<1> HIDE DEF R, B
<1>9. Len(R) = Len(open) /\ DOMAIN R = 1 .. Len(open) /\ Len(open) \in Nat
  BY <1>2, <1>7, SameLength, LenProperties
<1>10. Len(B) = Len(others) /\ DOMAIN B = 1 .. Len(others) /\ Len(others) \in Nat
  BY <1>3, <1>8, SameLength, LenProperties
<1>11. \A e : /\ ReadyNode(order, after, e).node_name = e.node_name
              /\ ReadyNode(order, after, e).execution_index = PlanIndex(order, e.node_name)
              /\ ReadyNode(order, after, e).planned_dependencies = after[e.node_name]
              /\ ReadyNode(order, after, e).satisfied_dependencies = e.satisfied_dependencies
  BY DEF ReadyNode
<1>12. Members(R) = {ReadyNode(order, after, e) : e \in Members(open)}
  BY <1>7 DEF Members
<1>13. Members(B) = {BlockedNode(order, after, session, e) : e \in Members(others)}
  BY <1>8 DEF Members
<1>14. ready = {e.node_name : e \in Members(open)}
  BY <1>11, <1>12
<1>15. \A e \in Members(others) :
          LET b == BlockedNode(order, after, session, e)
              n == e.node_name
          IN  /\ b.node_name = n /\ b.planned_dependencies = after[n]
              /\ b.execution_index = PlanIndex(order, n)
              /\ Distinct(b.missing_dependencies)
              /\ Members(b.missing_dependencies) \subseteq Members(after[n])
              /\ BlockedNodeAccepted(b) /\ b.blocked_reason # "UpstreamPartial"
              /\ w = "Partial" => Members(b.missing_dependencies) = deps[n] \ Completed
  BY <1>3, BlockedFacts DEF E, w
<1>16. blocked = {e.node_name : e \in Members(others)}
  BY <1>13, <1>15
<1>17. Cardinality(ready \cup blocked) = Len(R) + Len(B)
  <2>1. IsFiniteSet(ready) /\ Cardinality(ready) = Len(R)
    BY <1>2, <1>9, <1>14, NamesCount
  <2>2. IsFiniteSet(blocked) /\ Cardinality(blocked) = Len(B)
    BY <1>3, <1>10, <1>16, NamesCount
  <2>3. ready \cap blocked = {}
    <3>1. \A e, d \in E : e.node_name = d.node_name => e = d
      BY NodeEntries DEF E
    <3>2. ASSUME NEW e \in Members(open), NEW d \in Members(others) PROVE e.node_name # d.node_name
      <4>1. e \in E /\ d \in E /\ e.status = "Ready" /\ d.status # "Ready"
        BY <1>2, <1>3
      <4>2. QED
        BY <4>1, <3>1
    <3>3. QED
      BY <3>2, <1>14, <1>16
  <2> HIDE DEF ready, blocked
  <2>4. Cardinality(ready \cup blocked) =
            Cardinality(ready) + Cardinality(blocked) - Cardinality(ready \cap blocked)
    BY <2>1, <2>2, FS_Union
  <2>5. Cardinality(ready \cap blocked) = 0
    BY <2>3, FS_EmptySet
  <2>6. QED
    BY <2>1, <2>2, <2>4, <2>5, <1>9, <1>10
<1>18. ASSUME NEW e \in E, e.status # "Completed"
       PROVE  LET n == e.node_name
              IN  /\ n \notin Members(p)
                  /\ PlanIndex(order, n) < Len(order) /\ order[PlanIndex(order, n) + 1] = n
                  /\ Distinct(after[n]) /\ Distinct(e.satisfied_dependencies)
                  /\ Members(after[n]) \subseteq Members(order)
                  /\ Members(e.satisfied_dependencies) \subseteq Members(after[n])
                  /\ n \in Members(order)
  <2>1. e \in Members(session.nodes)
    BY DEF E
  <2>2. /\ e.node_name \in Nodes \ Completed /\ Distinct(after[e.node_name])
        /\ Members(after[e.node_name]) \subseteq Members(order)
        /\ Distinct(e.satisfied_dependencies)
        /\ Members(e.satisfied_dependencies) \subseteq Members(after[e.node_name])
    BY <2>1, <1>18, OpenNodes
  <2>3. /\ PlanIndex(order, e.node_name) < Len(order)
        /\ order[PlanIndex(order, e.node_name) + 1] = e.node_name
    BY <2>2, PlanIndexFacts
  <2>4. QED
    BY <2>2, <2>3, <1>4, <1>6
<1>19. ASSUME NEW n \in Members(R) PROVE PlacedNode(t, n, n.satisfied_dependencies)
  <2>1. PICK e \in Members(open) : n = ReadyNode(order, after, e)
    BY <1>12
  <2>2. e \in E /\ e.status # "Completed"
    BY <1>2
  <2>3. QED
    BY <2>1, <2>2, <1>1, <1>11, <1>18 DEF PlacedNode
<1>20. ASSUME NEW n \in Members(B)
       PROVE  /\ PlacedNode(t, n, n.missing_dependencies) /\ BlockedNodeAccepted(n)
              /\ n.blocked_reason # "UpstreamPartial"
              /\ w = "Partial" => Members(n.missing_dependencies) = deps[n.node_name] \ Completed
  <2>1. PICK e \in Members(others) : n = BlockedNode(order, after, session, e)
    BY <1>13
  <2>2. e \in E /\ e.status # "Completed"
    BY <1>3
  <2>3. /\ n.node_name = e.node_name /\ n.planned_dependencies = after[e.node_name]
        /\ n.execution_index = PlanIndex(order, e.node_name)
        /\ Distinct(n.missing_dependencies)
        /\ Members(n.missing_dependencies) \subseteq Members(after[e.node_name])
        /\ BlockedNodeAccepted(n) /\ n.blocked_reason # "UpstreamPartial"
        /\ w = "Partial" => Members(n.missing_dependencies) = deps[e.node_name] \ Completed
    BY <2>1, <1>15
  <2>4. PlacedNode(t, n, n.missing_dependencies)
    BY <2>2, <2>3, <1>1, <1>18 DEF PlacedNode
  <2>5. QED
    BY <2>3, <2>4
<1>21. \A e \in E : NodeAccepted(session, e)
  BY NodeEntries DEF E
<1>22. CASE w = "Partial"
  <2>1. PICK e \in E : e.status = "Ready"
    BY <1>22, StoppedGoesOn DEF w, E
  <2>2. e \in Members(open)
    BY <2>1, <1>2
  <2>3. 1 \in DOMAIN open /\ R # <<>>
    <3>1. PICK i \in DOMAIN open : open[i] = e
      BY <2>2 DEF Members
    <3>2. i \in 1 .. Len(open)
      BY <3>1, <1>7, <1>9
    <3>3. 1 \in 1 .. Len(open)
      BY <3>2, <1>9
    <3>4. 1 \in DOMAIN R
      BY <3>3, <1>9
    <3>5. R # <<>>
      BY <3>4
    <3>6. QED
      BY <3>4, <3>5, <1>7
  <2>4. status = "Runnable"
    BY <2>3, <1>22 DEF SnapshotStatus, w
  <2>5. NextCandidate(status, R, B) = {open[1].node_name}
    BY <2>3, <2>4, <1>7, <1>11 DEF NextCandidate
  <2>6. open[1] \in Members(open)
    BY <2>3 DEF Members
  <2>7. open[1] \in E /\ open[1].status = "Ready"
    BY <2>6, <1>2
  <2>8. deps[open[1].node_name] \subseteq Completed
    BY <2>7, <1>22, OpenNodes DEF w, E
  <2>9. /\ open[1].node_name \in ready
        /\ open[1].node_name \in Members(order) \ Members(p)
    BY <2>6, <2>7, <1>14, <1>18
  <2>10. session.failure_summary = {}
    BY <1>22 DEF SourceInv, w
  <2> HIDE DEF status, ready, blocked
  <2>11. SnapshotAccepted(t)
    <3>1. t.next_candidate_node_name \subseteq Members(order) \ Members(p)
      BY <1>1, <2>5, <2>9
    <3>2. t.next_candidate_node_name \subseteq ready /\ ready # {}
      BY <1>1, <2>5, <2>9
    <3>3. QED
      BY <1>1, <1>4, <1>5, <1>17, <1>19, <1>20, <1>22, <2>4, <2>10, <3>1, <3>2
      DEF SnapshotAccepted, ready, blocked
  <2>12. QED
    BY <1>1, <1>4, <1>20, <1>22, <2>4, <2>5, <2>8, <2>11 DEF t, w
<1>23. CASE w # "Partial"
  <2>1. \A e \in E : e.status # "Ready" /\ e.status # "Blocked"
    BY <1>21, <1>23 DEF NodeAccepted, w
  <2>2. ready = {}
    BY <2>1, <1>2, <1>14
  <2>3. status = IF w = "Completed" THEN "TerminalCompleted" ELSE "TerminalFailed"
    BY <1>5, <1>23 DEF SnapshotStatus, w
  <2>4. NextCandidate(status, R, B) = {}
    BY <2>3 DEF NextCandidate
  <2>5. w = "Failed" => session.failure_summary # {}
    BY <1>5 DEF SessionAccepted, w
  <2>6. w = "Completed" => session.failure_summary = {}
    BY <1>5 DEF SessionAccepted, w
  <2>7. ASSUME w = "Completed" PROVE blocked = {} /\ p = order
    <3>1. \A e \in E : e.status = "Completed"
      BY <1>5, <2>7 DEF SessionAccepted, w, E
    <3>2. blocked = {}
      BY <3>1, <1>3, <1>16
    <3>3. Completed = Nodes
      BY <3>1, NodeEntries DEF E, Completed
    <3>4. QED
      BY <3>2, <3>3, <1>4
  <2> HIDE DEF status, ready, blocked
  <2>8. SnapshotAccepted(t)
    BY <1>1, <1>4, <1>5, <1>17, <1>19, <1>20, <1>23, <2>2, <2>3, <2>4, <2>5, <2>6, <2>7
    DEF SnapshotAccepted, ready, blocked
  <2>9. QED
    BY <1>1, <1>4, <1>20, <1>23, <2>8 DEF t, w
<1>24. QED
  BY <1>22, <1>23

(* No later builder trips over a validator: for every session that is      *)
(* built, plan, session and journal make a valid replay view (replay.cpp   *)
(* 495-668); where the session followed the order of the plan there is a   *)
(* valid snapshot whose prefix is what completed, whose next candidate     *)
(* could run, and whose blocked nodes wait for what did not complete       *)
(* (snapshot.cpp 730-903).                                                 *)
THEOREM ArtifactsAreSound == SessionSpec => []ArtifactsHold
<1>1. ASSUME SessionInv, SourceInv PROVE ArtifactsHold
  <2>1. Built => ReplayAccepted(replay)
    BY <1>1, ReplaysAccepted
  <2>2. ASSUME Built, Snapshotable(order, replay)
        PROVE  is_prefix(session.execution_order, order)
    BY <1>1, <2>2, ReplaysAccepted DEF Snapshotable
  <2>3. QED
    BY <1>1, <2>1, <2>2, SnapshotsAccepted DEF ArtifactsHold
<1>2. QED
  BY <1>1, SessionInvariant, SourceInvariant, PTL

-----------------------------------------------------------------------------
(*                               AuditReport                               *)

(* The dry run is defined: whatever was run so far can be run one further. *)
LEMMA DryRunDefined ==
    ASSUME Len(order) \in Nat
    PROVE  /\ DryRun[0] = DryRunStart
           /\ \A k \in 1 .. Len(order) : DryRun[k] = DryRunNode(DryRun[k - 1])
<1> DEFINE L == Len(order)
           Runs(g, j) == g = [k \in 0 .. j |-> IF k = 0 THEN DryRunStart ELSE DryRunNode(g[k - 1])]
           bad == {j \in Nat : ~ \E g : Runs(g, j)}
<1>1. ASSUME bad # {} PROVE FALSE
  <2>1. PICK j \in bad : \A i \in bad : j <= i
    BY <1>1, LeastNumber
  <2>2. CASE j = 0
    <3> DEFINE g == [k \in 0 .. 0 |-> DryRunStart]
    <3>1. Runs(g, 0)
      OBVIOUS
    <3>2. QED
      BY <3>1, <2>2
  <2>3. CASE j # 0
    <3>1. j - 1 \in Nat /\ j - 1 \notin bad
      <4>1. j \in Nat
        OBVIOUS
      <4> HIDE DEF bad
      <4>2. QED
        BY <4>1, <2>1, <2>3
    <3>2. PICK g : Runs(g, j - 1)
      BY <3>1
    <3> DEFINE h == [k \in 0 .. j |-> IF k <= j - 1 THEN g[k] ELSE DryRunNode(g[j - 1])]
    <3>3. ASSUME NEW k \in 0 .. j
          PROVE  h[k] = IF k = 0 THEN DryRunStart ELSE DryRunNode(h[k - 1])
      <4>1. CASE k = j
        <5>1. h[j] = DryRunNode(g[j - 1]) /\ h[j - 1] = g[j - 1]
          BY <3>1
        <5>2. QED
          BY <5>1, <4>1, <2>3
      <4>2. CASE k # j /\ k # 0
        <5>1. k \in 0 .. j - 1 /\ k - 1 \in 0 .. j /\ k - 1 <= j - 1
          BY <3>1, <4>2
        <5>2. h[k] = g[k] /\ h[k - 1] = g[k - 1]
          BY <5>1
        <5>3. g[k] = DryRunNode(g[k - 1])
          BY <3>2, <4>2, <5>1
        <5>4. QED
          BY <4>2, <5>2, <5>3
      <4>3. CASE k # j /\ k = 0
        <5>1. 0 \in 0 .. j - 1 /\ 0 \in 0 .. j
          BY <3>1
        <5>2. h[0] = g[0] /\ g[0] = DryRunStart
          BY <5>1, <3>2
        <5>3. QED
          BY <4>3, <5>2
      <4>4. QED
        BY <4>1, <4>2, <4>3
    <3>4. h = [k \in 0 .. j |-> h[k]]
      OBVIOUS
    <3> HIDE DEF h
    <3>5. Runs(h, j)
      BY <3>3, <3>4
    <3>6. QED
      BY <3>5, <2>1
  <2>4. QED
    BY <2>2, <2>3
<1>2. \E g : Runs(g, L)
  BY <1>1
<1>3. DryRun = CHOOSE g : Runs(g, L)
  BY DEF DryRun
<1>4. Runs(DryRun, L)
  BY <1>2, <1>3
<1>5. QED
  BY <1>4

(* One node of the dry run: it is new, and nothing in the queue was done. *)
DryRunSound(s) ==
    /\ s.ready \in Seq(Id) /\ s.done \in Seq(Id) /\ Distinct(s.done)
    /\ Members(s.ready) \cap Members(s.done) = {}

(* DryRunNode executes at most the front of the queue, which was not       *)
(* executed before.                                                        *)
LEMMA DryRunNodeFacts ==
    ASSUME order \in Seq(Id), NEW s, DryRunSound(s)
    PROVE  /\ DryRunSound(DryRunNode(s))
           /\ \/ DryRunNode(s).done = s.done
              \/ \E n \in Id : DryRunNode(s).done = Append(s.done, n)
<1> DEFINE n        == Head(s.ready)
           executed == Members(s.done) \cup {n}
           waiting  == {m \in Nodes : n \in deps[m] /\ m \notin executed}
           left     == [m \in Id |-> IF m \in waiting /\ s.left[m] > 0
                                       THEN s.left[m] - 1 ELSE s.left[m]]
           more     == {i \in DOMAIN order : order[i] \in waiting /\ left[order[i]] = 0}
           queue    == Tail(s.ready) \o Picked(order, more)
           open     == {i \in DOMAIN queue : queue[i] \notin executed}
<1>1. CASE s.ready = <<>>
  <2>1. DryRunNode(s) = s
    BY <1>1 DEF DryRunNode
  <2>2. QED
    BY <2>1
<1>2. CASE s.ready # <<>>
  <2>1. DryRunNode(s) = [ready |-> Picked(queue, open), left |-> left, done |-> Append(s.done, n)]
    BY <1>2 DEF DryRunNode
  <2>2. n \in Id /\ n \in Members(s.ready) /\ Tail(s.ready) \in Seq(Id)
    BY <1>2, TailAnyMembers DEF DryRunSound
  <2>3. more \in SUBSET DOMAIN order
    OBVIOUS
  <2> HIDE DEF more
  <2>4. Picked(order, more) \in Seq(Id)
    BY <2>3, PickedFacts
  <2>5. queue \in Seq(Id)
    BY <2>2, <2>4, ConcatAnyMembers
  <2>6. open \in SUBSET DOMAIN queue /\ \A i \in open : queue[i] \notin executed
    OBVIOUS
  <2> HIDE DEF queue, open, left, waiting
  <2>7. Picked(queue, open) \in Seq(Id) /\ Members(Picked(queue, open)) \cap executed = {}
    BY <2>5, <2>6, PickedFacts
  <2>8. /\ Append(s.done, n) \in Seq(Id) /\ Distinct(Append(s.done, n))
        /\ Members(Append(s.done, n)) = executed
    BY <2>2, AppendMembers DEF DryRunSound
  <2> HIDE DEF n, executed
  <2>9. QED
    BY <2>1, <2>2, <2>7, <2>8 DEF DryRunSound
<1>3. QED
  BY <1>1, <1>2

(* The dry run goes on: what was done stays at its place. *)
LEMMA DryRunGrows ==
    ASSUME order \in Seq(Id)
    PROVE  \A k \in 0 .. Len(order) :
               /\ DryRunSound(DryRun[k])
               /\ \A i \in 0 .. k : is_prefix(DryRun[i].done, DryRun[k].done)
<1> DEFINE L == Len(order)
           Good(k) == /\ DryRunSound(DryRun[k])
                      /\ \A i \in 0 .. k : is_prefix(DryRun[i].done, DryRun[k].done)
           bad == {k \in 0 .. L : ~Good(k)}
<1>1. L \in Nat
  BY LenProperties
<1>2. DryRun[0] = DryRunStart /\ \A k \in 1 .. L : DryRun[k] = DryRunNode(DryRun[k - 1])
  BY <1>1, DryRunDefined
<1>3. \A s \in Seq(Id) : is_prefix(s, s)
  BY LenProperties DEF is_prefix
<1>4. Good(0)
  <2> DEFINE T == {i \in DOMAIN order : after[order[i]] = <<>>}
  <2>1. DryRun[0].ready = Picked(order, T) /\ DryRun[0].done = <<>>
    BY <1>2 DEF DryRunStart
  <2>2. Picked(order, T) \in Seq(Id)
    BY PickedFacts
  <2>3. <<>> \in Seq(Id) /\ Distinct(<<>>) /\ Members(<<>>) = {}
    BY DEF Distinct, Members
  <2> HIDE DEF T
  <2>4. DryRunSound(DryRun[0])
    BY <2>1, <2>2, <2>3 DEF DryRunSound
  <2>5. \A i \in 0 .. 0 : i = 0
    OBVIOUS
  <2>6. QED
    BY <2>1, <2>3, <2>4, <2>5, <1>3
<1>5. ASSUME bad # {} PROVE FALSE
  <2>1. PICK k \in bad : \A i \in bad : k <= i
    <3>1. bad \in SUBSET Nat
      BY <1>1
    <3> HIDE DEF bad
    <3>2. QED
      BY <3>1, <1>5, LeastNumber
  <2>2. k \in 1 .. L /\ k - 1 \in 0 .. L /\ k - 1 \notin bad
    BY <1>1, <1>4, <2>1
  <2> DEFINE s == DryRun[k - 1]
             t == DryRun[k]
  <2>3. DryRunSound(s) /\ \A i \in 0 .. k - 1 : is_prefix(DryRun[i].done, s.done)
    BY <2>2
  <2>4. t = DryRunNode(s)
    BY <1>2, <2>2
  <2>5. DryRunSound(t) /\ (t.done = s.done \/ \E n \in Id : t.done = Append(s.done, n))
    BY <2>3, <2>4, DryRunNodeFacts
  <2>6. s.done \in Seq(Id) /\ t.done \in Seq(Id)
    BY <2>3, <2>5 DEF DryRunSound
  <2> HIDE DEF s, t
  <2>7. Len(s.done) <= Len(t.done) /\ \A h \in 1 .. Len(s.done) : t.done[h] = s.done[h]
    <3>1. CASE t.done = s.done
      BY <3>1, <2>6, LenProperties
    <3>2. CASE \E n \in Id : t.done = Append(s.done, n)
      BY <3>2, <2>6, AppendMembers, LenProperties
    <3>3. QED
      BY <3>1, <3>2, <2>5
  <2>8. ASSUME NEW i \in 0 .. k PROVE is_prefix(DryRun[i].done, t.done)
    <3>1. CASE i = k
      BY <3>1, <2>6, <1>3 DEF t
    <3>2. CASE i # k
      <4> DEFINE d == DryRun[i].done
      <4>1. i \in 0 .. k - 1 /\ i \in 0 .. L /\ i \notin bad
        BY <3>2, <2>1, <2>2
      <4>2. d \in Seq(Id)
        BY <4>1 DEF DryRunSound
      <4>3. is_prefix(d, s.done)
        BY <4>1, <2>3
      <4> HIDE DEF d
      <4>4. DOMAIN d = 1 .. Len(d) /\ Len(d) \in Nat /\ Len(s.done) \in Nat /\ Len(t.done) \in Nat
        BY <4>2, <2>6, LenProperties
      <4>5. is_prefix(d, t.done)
        BY <4>3, <4>4, <2>7 DEF is_prefix
      <4>6. QED
        BY <4>5 DEF d
    <3>3. QED
      BY <3>1, <3>2
  <2>9. QED
    BY <2>1, <2>5, <2>8 DEF t
<1>6. QED
  BY <1>5

(* What a step leaves alone. *)
LEMMA DryRunStays ==
    ASSUME UNCHANGED plan
    PROVE  DryRun' = DryRun /\ Len(order)' = Len(order)
BY DEF plan, DryRun, DryRunStart, DryRunNode, Nodes, deps

(* What a node uses depends on its bindings and the mocks alone. *)
LEMMA UsesStay ==
    ASSUME UNCHANGED <<bindings, mocks>>, NEW n
    PROVE  /\ UsedMocks(n)' = UsedMocks(n) /\ Failures(n)' = Failures(n)
           /\ AsksToStop(n)' = AsksToStop(n)
<1>1. \A c : FixtureFor(c)' = FixtureFor(c)
  BY DEF FixtureFor, MockFor
<1>2. Walked(n)' = Walked(n)
  BY DEF Walked, FixtureFor, MockFor
<1>3. Failures(n)' = Failures(n)
  BY <1>1, <1>2 DEF Failures
<1>4. AsksToStop(n)' = AsksToStop(n)
  BY <1>1, <1>2, <1>3 DEF AsksToStop
<1>5. UsedMocks(n)' = UsedMocks(n)
  BY DEF UsedMocks, Walked, FixtureFor, MockFor
<1>6. QED
  BY <1>3, <1>4, <1>5

(* The session builder and the dry run go through the same states, until   *)
(* the builder ends; what it executed is what the dry run had then.        *)
MirrorInv ==
    /\ phase = "running" =>
          /\ Steps \in 0 .. Len(order)
          /\ DryRun[Steps].done = session.execution_order
          /\ DryRun[Steps].ready = ready_nodes
          /\ DryRun[Steps].left = remaining_dependencies
    /\ Built => Steps \in 0 .. Len(order) /\ DryRun[Steps].done = session.execution_order

(* What the status of an entry says of the mocks of its node. *)
UsesOf(e) ==
    /\ e.status \in {"Completed", "Failed"} => e.used_mocks = UsedMocks(e.node_name)
    /\ e.status = "Completed" => Failures(e.node_name) = {} /\ ~AsksToStop(e.node_name)
    /\ e.status = "Failed" => Failures(e.node_name) # {}

(* So for all entries of the session. *)
UsesInv == \A e \in Members(session.nodes) : UsesOf(e)

(* The queue that Begin makes is the one that the dry run starts with. *)
LEMMA MirrorBegin ==
    ASSUME SessionInv, Begin
    PROVE  MirrorInv'
<1>1. /\ phase' = "running" /\ UNCHANGED plan /\ session' = NewSession
      /\ ready_nodes' = DryRunStart.ready /\ remaining_dependencies' = DryRunStart.left
      /\ DryRunStart.done = <<>>
  BY DEF Begin, SessionInv, QueueInv, DryRunStart
<1>2. Steps' = 0 /\ session'.execution_order = <<>>
  BY <1>1 DEF Steps, NewSession
<1>3. Len(order) \in Nat
  BY LenProperties DEF SessionInv, PlanInv
<1>4. DryRun[0] = DryRunStart
  BY <1>3, DryRunDefined
<1>5. DryRun' = DryRun /\ Len(order)' = Len(order)
  BY <1>1, DryRunStays
<1>6. QED
  BY <1>1, <1>2, <1>3, <1>4, <1>5 DEF MirrorInv, Built

(* The node that is executed is the next of the dry run. *)
LEMMA MirrorNode ==
    ASSUME SessionInv, MirrorInv, NEW n \in Id, At(n), UNCHANGED plan, session' \in Session,
           session'.execution_order = Append(session.execution_order, n)
    PROVE  /\ Steps' = Steps + 1 /\ Steps' \in 0 .. Len(order)' /\ Steps + 1 \in 1 .. Len(order)
           /\ DryRun' = DryRun /\ DryRun[Steps + 1] = DryRunNode(DryRun[Steps])
           /\ DryRun[Steps + 1].done = session'.execution_order
<1>1. /\ DryRun[Steps].done = session.execution_order /\ DryRun[Steps].ready = ready_nodes
      /\ Steps \in Nat /\ Len(order) \in Nat /\ order \in Seq(Id) /\ session.execution_order \in Seq(Id)
  BY LenProperties DEF At, MirrorInv, SessionInv, PlanInv, OrderInv, Session
<1>2. OrderInv' /\ Steps' = Steps + 1
  BY OrderGrows DEF Steps
<1>3. Steps + 1 <= Len(order)
  <2> DEFINE x == Append(session.execution_order, n)
  <2>1. x \in Seq(Id) /\ Len(x) = Steps + 1
    BY <1>1, AppendMembers DEF Steps
  <2>2. Distinct(x) /\ Members(x) \subseteq Members(order)
    BY <1>2 DEF OrderInv, ExecutedNames, Nodes, Declared, plan
  <2> HIDE DEF x
  <2>3. QED
    BY <1>1, <2>1, <2>2, Pigeonhole
<1>4. DryRun' = DryRun /\ Len(order)' = Len(order)
  BY DryRunStays
<1>5. Steps + 1 \in 1 .. Len(order) /\ (Steps + 1) - 1 = Steps
  BY <1>1, <1>3
<1>6. DryRun[Steps + 1] = DryRunNode(DryRun[Steps])
  BY <1>1, <1>5, DryRunDefined
<1>7. DryRunNode(DryRun[Steps]).done = Append(DryRun[Steps].done, Head(DryRun[Steps].ready))
  BY <1>1 DEF At, DryRunNode
<1>8. QED
  BY <1>1, <1>2, <1>4, <1>5, <1>6, <1>7 DEF At

(* CompleteNode releases the dependents that the dry run releases. *)
LEMMA MirrorCompleteNode ==
    ASSUME SessionInv, SessionInv', MirrorInv, NEW n \in Id, CompleteNode(n)
    PROVE  MirrorInv'
<1> DEFINE s        == DryRun[Steps]
           executed == Members(s.done) \cup {n}
           waiting  == {m \in Nodes : n \in deps[m] /\ m \notin executed}
           left     == [m \in Id |-> IF m \in waiting /\ s.left[m] > 0
                                       THEN s.left[m] - 1 ELSE s.left[m]]
           queue    == Tail(s.ready) \o
                       Picked(order, {i \in DOMAIN order : order[i] \in waiting /\ left[order[i]] = 0})
           open     == {i \in DOMAIN queue : queue[i] \notin executed}
<1>1. /\ At(n) /\ UNCHANGED plan /\ phase' = phase /\ Completes(n, {0})
  BY DEF CompleteNode
<1>2. /\ s.done = session.execution_order /\ s.ready = ready_nodes /\ s.left = remaining_dependencies
      /\ phase = "running" /\ n = Head(s.ready) /\ s.ready # <<>>
  BY <1>1 DEF At, MirrorInv
<1>3. executed = ExecutedNames \cup {n}
  BY <1>2 DEF ExecutedNames
<1>4. remaining_dependencies' = left
  BY <1>1, <1>2, <1>3 DEF Completes
<1>5. ready_nodes' = queue
  BY <1>1, <1>2, <1>3, <1>4 DEF Completes
<1>6. session' \in Session /\ QueueInv' /\ ReadyInv'
  BY <1>1, <1>2 DEF SessionInv, OrderInv, RunInv
<1>7. session'.execution_order = Append(session.execution_order, n)
  BY <1>1 DEF Completes, SessionInv, OrderInv, Session
<1>8. /\ Steps' = Steps + 1 /\ Steps' \in 0 .. Len(order)'
      /\ DryRun' = DryRun /\ DryRun[Steps + 1] = DryRunNode(s)
      /\ DryRun[Steps + 1].done = session'.execution_order
  BY <1>1, <1>6, <1>7, MirrorNode
<1>9. ExecutedNames' = executed
  BY <1>1, <1>3, <1>6, <1>7, OrderGrows
<1>10. Picked(queue, open) = queue
  <2>1. queue \in Seq(Id)
    BY <1>5, <1>6 DEF QueueInv
  <2>2. Members(queue) \cap executed = {}
    BY <1>5, <1>6, <1>9 DEF ReadyInv
  <2>3. open = DOMAIN queue
    BY <2>2 DEF Members
  <2> HIDE DEF queue, open
  <2>4. QED
    BY <2>1, <2>3, PickedAll
<1>11. DryRunNode(s) = [ready |-> Picked(queue, open), left |-> left, done |-> Append(s.done, n)]
  BY <1>2 DEF DryRunNode
<1> HIDE DEF s, left, queue, open, executed
<1>12. DryRun[Steps + 1].ready = ready_nodes' /\ DryRun[Steps + 1].left = remaining_dependencies'
  BY <1>4, <1>5, <1>8, <1>10, <1>11
<1>13. QED
  BY <1>1, <1>2, <1>8, <1>12 DEF MirrorInv, Built

(* At every step the session is where the dry run is after as many nodes. *)
LEMMA MirrorInvariant == SessionSpec => []MirrorInv
<1>1. SessionInit => MirrorInv
  BY DEF SessionInit, MirrorInv, Built
<1>2. SessionInv /\ SessionInv' /\ MirrorInv /\ [SessionNext]_sessionVars => MirrorInv'
  <2> SUFFICES ASSUME SessionInv, SessionInv', MirrorInv, [SessionNext]_sessionVars PROVE MirrorInv'
    OBVIOUS
  <2>1. CASE phase' = "planning" \/ phase' = "refused"
    BY <2>1 DEF MirrorInv, Built
  <2>2. CASE Begin
    BY <2>2, MirrorBegin
  <2>3. ASSUME NEW n \in Id, CompleteNode(n) PROVE MirrorInv'
    BY <2>3, MirrorCompleteNode
  <2>4. ASSUME NEW n \in Id, FailNode(n) PROVE MirrorInv'
    <3>1. At(n) /\ UNCHANGED plan /\ phase' = "built"
      BY <2>4 DEF FailNode
    <3>2. session' \in Session /\ session'.execution_order = Append(session.execution_order, n)
      BY <2>4 DEF FailNode, SessionInv, OrderInv, Session
    <3>3. /\ Steps' = Steps + 1 /\ Steps' \in 0 .. Len(order)' /\ DryRun' = DryRun
          /\ DryRun[Steps + 1].done = session'.execution_order
      BY <3>1, <3>2, MirrorNode
    <3>4. QED
      BY <3>1, <3>3 DEF MirrorInv, Built
  <2>5. ASSUME UNCHANGED plan, session'.execution_order = session.execution_order,
               phase = "running", phase' = "built"
        PROVE  MirrorInv'
    <3>1. DryRun' = DryRun /\ Len(order)' = Len(order) /\ Steps' = Steps
      BY <2>5, DryRunStays DEF Steps
    <3>2. QED
      BY <3>1, <2>5 DEF MirrorInv, Built
  <2>6. ASSUME NEW n \in Id, StopEarly(n) PROVE MirrorInv'
    <3>1. UNCHANGED plan /\ phase = "running" /\ phase' = "built"
      BY <2>6 DEF StopEarly, At
    <3>2. session'.execution_order = session.execution_order
      BY <2>6 DEF StopEarly, SessionInv, OrderInv, Session
    <3>3. QED
      BY <3>1, <3>2, <2>5
  <2>7. CASE Complete
    <3>1. UNCHANGED plan /\ phase = "running" /\ phase' = "built" /\ session' = session
      BY <2>7 DEF Complete
    <3>2. QED
      BY <3>1, <2>5
  <2>8. CASE UNCHANGED sessionVars
    <3>1. UNCHANGED <<plan, phase, session, ready_nodes, remaining_dependencies>>
      BY <2>8 DEF sessionVars
    <3>2. DryRun' = DryRun /\ Len(order)' = Len(order) /\ Steps' = Steps
      BY <3>1, DryRunStays DEF Steps
    <3>3. QED
      BY <3>1, <3>2 DEF MirrorInv, Built
  <2>9. CASE \E n \in Id, capabilities \in SUBSET Members(Slots) :
              \E k \in 0 .. MaxAfter : \E list \in [1 .. k -> Id] : PlanNode(n, list, capabilities)
    <3>1. phase' = "planning"
      BY <2>9 DEF PlanNode
    <3>2. QED
      BY <3>1, <2>1
  <2>10. CASE Refuse
    <3>1. phase' = "refused"
      BY <2>10 DEF Refuse
    <3>2. QED
      BY <3>1, <2>1
  <2>11. QED
    BY <2>2, <2>3, <2>4, <2>6, <2>7, <2>8, <2>9, <2>10 DEF SessionNext
<1>3. QED
  BY <1>1, <1>2, SessionInvariant, PTL DEF SessionSpec

(* A node is written with the mocks that its bindings use. *)
LEMMA WriteUses ==
    ASSUME SessionInv, UsesInv, NEW n \in Id, FailNode(n) \/ StopEarly(n) \/ CompleteNode(n)
    PROVE  UsesInv'
<1> DEFINE z == session.nodes
<1>1. At(n) /\ UNCHANGED <<bindings, mocks>>
  BY DEF FailNode, StopEarly, CompleteNode, plan
<1>2. phase = "running" /\ session \in Session /\ z \in Seq(Entry)
  BY <1>1, AtFacts DEF OrderInv, Session
<1>3. ASSUME NEW e, UsesOf(e) PROVE UsesOf(e)'
  <2> DEFINE m == e.node_name
  <2>1. /\ UsedMocks(m)' = UsedMocks(m) /\ Failures(m)' = Failures(m)
        /\ AsksToStop(m)' = AsksToStop(m)
    <3> HIDE DEF m
    <3>1. QED
      BY <1>1, UsesStay
  <2>2. QED
    BY <1>3, <2>1 DEF UsesOf
<1>4. ASSUME NEW X, NEW f \in [Id -> {"Skipped", "Ready", "Blocked"}]
      PROVE  /\ Unreached(X, f) \in Seq(Entry)
             /\ \A e \in Members(Unreached(X, f)) : UsesOf(e)
  <2> DEFINE u == Unreached(X, f)
  <2>1. u \in Seq(Entry) /\ \A e \in Members(u) : e.status = f[e.node_name]
    BY <1>2, <1>4, UnreachedFacts
  <2> HIDE DEF u
  <2>2. \A e \in Members(u) : e \in Entry
    BY <2>1, ElementOfSeq, LenProperties DEF Members
  <2>3. \A e \in Members(u) : e.status \notin {"Completed", "Failed"}
    BY <2>1, <2>2 DEF Entry
  <2>4. QED
    BY <2>1, <2>3 DEF UsesOf, u
<1>5. ASSUME NEW status, NEW failure
      PROVE  /\ Executed(n, status, failure).node_name = n
             /\ Executed(n, status, failure).status = status
             /\ Executed(n, status, failure).used_mocks = UsedMocks(n)
  BY DEF Executed
<1>6. \A e \in Members(z) : UsesOf(e)
  BY DEF UsesInv
<1>7. ASSUME NEW l, l \in Seq(Entry), session'.nodes = l, \A e \in Members(l) : UsesOf(e)
      PROVE  UsesInv'
  BY <1>3, <1>7 DEF UsesInv
<1>8. CASE FailNode(n)
  <2> DEFINE e == Executed(n, "Failed", Failures(n))
             f == [m \in Id |-> "Skipped"]
             u == Unreached(ExecutedNames \cup {n}, f)
  <2>1. session'.nodes = Append(z, e) \o u
    BY <1>2, <1>8 DEF FailNode, Session
  <2>2. e \in Entry /\ UsesOf(e)
    <3>1. e \in Entry /\ Failures(n) # {}
      BY <1>1, <1>8, ExecutedFacts DEF FailNode
    <3>2. e.node_name = n /\ e.status = "Failed" /\ e.used_mocks = UsedMocks(n)
      BY <1>5
    <3> HIDE DEF e
    <3>3. QED
      BY <3>1, <3>2 DEF UsesOf
  <2>3. u \in Seq(Entry) /\ \A d \in Members(u) : UsesOf(d)
    BY <1>4
  <2> HIDE DEF e, u
  <2> DEFINE a == Append(z, e)
  <2>4. a \in Seq(Entry) /\ Members(a) = Members(z) \cup {e}
    BY <1>2, <2>2, AppendMembers
  <2> HIDE DEF a
  <2>5. a \o u \in Seq(Entry) /\ Members(a \o u) = Members(a) \cup Members(u)
    BY <2>3, <2>4, ConcatAnyMembers
  <2>6. session'.nodes = a \o u
    BY <2>1 DEF a
  <2>7. QED
    BY <1>6, <1>7, <2>2, <2>3, <2>4, <2>5, <2>6
<1>9. CASE StopEarly(n)
  <2> DEFINE f == [m \in Id |-> IF remaining_dependencies[m] = 0 THEN "Ready" ELSE "Blocked"]
             u == Unreached(ExecutedNames, f)
  <2>1. session'.nodes = z \o u
    BY <1>2, <1>9 DEF StopEarly, Session
  <2>2. u \in Seq(Entry) /\ \A d \in Members(u) : UsesOf(d)
    BY <1>4
  <2> HIDE DEF u
  <2>3. z \o u \in Seq(Entry) /\ Members(z \o u) = Members(z) \cup Members(u)
    BY <1>2, <2>2, ConcatAnyMembers
  <2>4. QED
    BY <1>6, <1>7, <2>1, <2>2, <2>3
<1>10. CASE CompleteNode(n)
  <2> DEFINE e == Executed(n, "Completed", {})
  <2>1. session'.nodes = Append(z, e)
    BY <1>2, <1>10 DEF CompleteNode, Completes, Session
  <2>2. e \in Entry /\ UsesOf(e)
    <3>1. e \in Entry /\ Failures(n) = {} /\ ~AsksToStop(n)
      BY <1>1, <1>10, ExecutedFacts DEF CompleteNode
    <3>2. e.node_name = n /\ e.status = "Completed" /\ e.used_mocks = UsedMocks(n)
      BY <1>5
    <3> HIDE DEF e
    <3>3. QED
      BY <3>1, <3>2 DEF UsesOf
  <2> HIDE DEF e
  <2>3. Append(z, e) \in Seq(Entry) /\ Members(Append(z, e)) = Members(z) \cup {e}
    BY <1>2, <2>2, AppendMembers
  <2>4. QED
    BY <1>6, <1>7, <2>1, <2>2, <2>3
<1>11. QED
  BY <1>8, <1>9, <1>10

(* Every entry of the session has used the mocks that its status tells. *)
LEMMA UsesInvariant == SessionSpec => []UsesInv
<1>1. \A s : s.nodes = <<>> => \A e \in Members(s.nodes) : UsesOf(e)
  BY DEF Members
<1>2. SessionInit => UsesInv
  BY <1>1 DEF SessionInit, NewSession, UsesInv
<1>3. SessionInv /\ SessionInv' /\ UsesInv /\ [SessionNext]_sessionVars => UsesInv'
  <2> SUFFICES ASSUME SessionInv, SessionInv', UsesInv, [SessionNext]_sessionVars PROVE UsesInv'
    OBVIOUS
  <2>1. ASSUME session' = NewSession PROVE UsesInv'
    <3>1. session'.nodes = <<>> /\ Members(<<>>) = {}
      BY <2>1 DEF NewSession, Members
    <3>2. QED
      BY <3>1 DEF UsesInv
  <2>2. CASE \E n \in Id, capabilities \in SUBSET Members(Slots) :
              \E k \in 0 .. MaxAfter : \E list \in [1 .. k -> Id] : PlanNode(n, list, capabilities)
    <3>1. phase = "planning" /\ session' = session
      BY <2>2 DEF PlanNode
    <3>2. QED
      BY <3>1, <2>1 DEF SessionInv, QueueInv
  <2>3. CASE Refuse \/ Begin
    <3>1. phase = "planning" /\ session' = session
      BY <2>3 DEF Refuse, Begin
    <3>2. QED
      BY <3>1, <2>1 DEF SessionInv, QueueInv
  <2>4. CASE Complete \/ UNCHANGED sessionVars
    <3>1. UNCHANGED <<bindings, mocks, session>>
      BY <2>4 DEF Complete, sessionVars, plan
    <3>2. ASSUME NEW e \in Members(session.nodes) PROVE UsesOf(e)'
      <4> DEFINE m == e.node_name
      <4>1. /\ UsedMocks(m)' = UsedMocks(m) /\ Failures(m)' = Failures(m)
            /\ AsksToStop(m)' = AsksToStop(m)
        <5> HIDE DEF m
        <5>1. QED
          BY <3>1, UsesStay
      <4>2. QED
        BY <4>1 DEF UsesOf, UsesInv
    <3>3. QED
      BY <3>1, <3>2 DEF UsesInv
  <2>5. ASSUME NEW n \in Id, FailNode(n) \/ StopEarly(n) \/ CompleteNode(n) PROVE UsesInv'
    BY <2>5, WriteUses
  <2>6. QED
    BY <2>2, <2>3, <2>4, <2>5 DEF SessionNext
<1>4. QED
  BY <1>2, <1>3, SessionInvariant, PTL DEF SessionSpec

(* The mock that answers for a capability. *)
Mock(c) == CHOOSE s \in MockFor(c) : TRUE

(* The dry run uses the mocks of all bindings, each once. *)
LEMMA ResultFacts ==
    ASSUME PlanInv, NEW n \in Id
    PROVE  /\ Distinct(MockResults(n))
           /\ (\A c \in Members(bindings[n]) : MockFor(c) # {}) =>
                 Members(MockResults(n)) = {Mock(c) : c \in Members(bindings[n])}
<1> DEFINE b == bindings[n]
           T == {i \in DOMAIN b : MockFor(b[i]) # {}}
           mocked == Picked(b, T)
<1>1. b \in Seq(Capabilities) /\ Distinct(b)
  BY DEF PlanInv
<1>2. MockResults(n) = [i \in DOMAIN mocked |-> Mock(mocked[i])]
  BY DEF MockResults, Mock
<1>3. /\ T \subseteq DOMAIN b /\ \A c \in {b[i] : i \in T} : MockFor(c) # {}
      /\ (\A c \in Members(b) : MockFor(c) # {}) => {b[i] : i \in T} = Members(b)
  BY DEF Members
<1> HIDE DEF b, T
<1>4. mocked \in Seq(Capabilities) /\ Distinct(mocked) /\ Members(mocked) = {b[i] : i \in T}
  BY <1>1, <1>3, PickedFacts
<1> HIDE DEF mocked
<1>5. ASSUME NEW i \in DOMAIN mocked PROVE Mock(mocked[i])[2] = mocked[i]
  <2> DEFINE c == mocked[i]
  <2>1. MockFor(c) # {}
    BY <1>3, <1>4 DEF Members
  <2> HIDE DEF c
  <2>2. \A s \in MockFor(c) : s[2] = c
    BY DEF MockFor
  <2>3. QED
    BY <2>1, <2>2 DEF Mock, c
<1>6. Distinct(MockResults(n))
  BY <1>2, <1>4, <1>5 DEF Distinct
<1>7. Members(MockResults(n)) = {Mock(c) : c \in Members(mocked)}
  BY <1>2 DEF Members
<1>8. QED
  BY <1>3, <1>4, <1>6, <1>7 DEF b

(* When dry run and session used the same mocks for a node. *)
AllUsed(n) ==
    \A i \in DOMAIN bindings[n] :
        LET fixture == FixtureFor(bindings[n][i])
        IN  IF i < Len(bindings[n]) THEN fixture = "done" ELSE fixture = "fail"

(* A node that completed used the mocks of the dry run; one that failed    *)
(* did so when its last binding failed.                                    *)
LEMMA UsesAgree ==
    ASSUME PlanInv, NEW n \in Id, \A c \in Members(bindings[n]) : MockFor(c) # {}
    PROVE  /\ Failures(n) = {} /\ ~AsksToStop(n) => Members(MockResults(n)) = Members(UsedMocks(n))
           /\ Failures(n) # {} =>
                 (Members(MockResults(n)) = Members(UsedMocks(n)) <=> AllUsed(n))
<1> DEFINE b == bindings[n]
           L == Len(b)
           used == {d \in Members(Walked(n)) : FixtureFor(d) \in {"done", "fail"}}
<1>1. b \in Seq(Capabilities) /\ Distinct(b) /\ L \in Nat /\ DOMAIN b = 1 .. L
  BY LenProperties DEF PlanInv
<1>2. Members(b) \subseteq Capabilities
  BY <1>1, ElementOfSeq DEF Members
<1>3. \A c \in Members(b) : MockFor(c) # {}
  OBVIOUS
<1>4. Members(MockResults(n)) = {Mock(c) : c \in Members(b)}
  BY ResultFacts
<1>5. Members(UsedMocks(n)) = {Mock(c) : c \in used}
  BY UsedFacts DEF Mock
<1>6. ASSUME NEW c \in Members(b)
      PROVE  FixtureFor(c) \in Fixtures /\ Mock(c)[2] = c
  <2>1. c \in Capabilities /\ MockFor(c) # {}
    BY <1>2, <1>3
  <2>2. \A s \in MockFor(c) : s \in DOMAIN mocks /\ s[2] = c
    BY DEF MockFor
  <2>3. Mock(c) \in MockFor(c) /\ FixtureFor(c) = mocks[Mock(c)]
    BY <2>1 DEF Mock, FixtureFor
  <2>4. QED
    BY <2>2, <2>3 DEF PlanInv
<1>7. PICK last \in 0 .. L :
         /\ Members(Walked(n)) = {b[i] : i \in 1 .. last}
         /\ \A i \in 1 .. last : FixtureFor(b[i]) \in {"missing", "fail"} => i = last
         /\ Failures(n) # {} => last # 0 /\ FixtureFor(b[last]) \in {"missing", "fail"}
  BY WalkFacts
<1>8. used \subseteq Members(b)
  BY WalkFacts
<1>9. {Mock(c) : c \in Members(b)} = {Mock(c) : c \in used} <=> used = Members(b)
  <2>1. ASSUME {Mock(c) : c \in Members(b)} = {Mock(c) : c \in used}, NEW c \in Members(b)
        PROVE  c \in used
    <3>1. PICK d \in used : Mock(c) = Mock(d)
      BY <2>1
    <3>2. d \in Members(b)
      BY <1>8
    <3>3. c = d
      BY <3>1, <3>2, <1>6
    <3>4. QED
      BY <3>3
  <2>2. QED
    BY <2>1, <1>8
<1>10. ASSUME Failures(n) = {}, ~AsksToStop(n) PROVE used = Members(b)
  <2>1. Members(Walked(n)) = Members(b)
    BY <1>10, WalkFacts
  <2>2. ASSUME NEW c \in Members(b) PROVE FixtureFor(c) = "done"
    <3>1. FixtureFor(c) # "fail"
      BY <2>1, <1>10 DEF Failures
    <3>2. FixtureFor(c) # "partial"
      BY <2>1, <1>10 DEF AsksToStop
    <3>3. QED
      BY <3>1, <3>2, <1>6 DEF Fixtures
  <2>3. QED
    BY <2>1, <2>2
<1>11. ASSUME Failures(n) # {}, used = Members(b) PROVE AllUsed(n)
  <2>1. ASSUME NEW i \in 1 .. L
        PROVE  /\ i <= last /\ FixtureFor(b[i]) \in {"done", "fail"}
               /\ FixtureFor(b[i]) = "fail" => i = last
    <3>1. b[i] \in used
      BY <1>1, <1>11 DEF Members
    <3>2. PICK j \in 1 .. last : b[j] = b[i]
      BY <3>1, <1>7
    <3>3. i = j
      BY <3>2, <1>1, <1>7 DEF Distinct
    <3>4. QED
      BY <3>1, <3>2, <3>3, <1>7
  <2>2. last \in 1 .. L
    BY <1>1, <1>7, <1>11
  <2>3. last = L /\ L \in 1 .. L
    BY <2>1, <2>2, <1>1
  <2>4. FixtureFor(b[L]) = "fail"
    BY <2>1, <2>3, <1>7, <1>11
  <2>5. ASSUME NEW i \in 1 .. L, i < L PROVE FixtureFor(b[i]) = "done"
    BY <2>1, <2>3, <2>5
  <2>6. ASSUME NEW i \in 1 .. L PROVE IF i < L THEN FixtureFor(b[i]) = "done" ELSE FixtureFor(b[i]) = "fail"
    BY <2>4, <2>5, <1>1
  <2>7. QED
    BY <2>6, <1>1 DEF AllUsed
<1>12. ASSUME Failures(n) # {}, AllUsed(n) PROVE used = Members(b)
  <2>1. \A i \in 1 .. L : IF i < L THEN FixtureFor(b[i]) = "done" ELSE FixtureFor(b[i]) = "fail"
    BY <1>1, <1>12 DEF AllUsed
  <2>2. last \in 1 .. L /\ FixtureFor(b[last]) \in {"missing", "fail"}
    BY <1>1, <1>7, <1>12
  <2>3. last = L
    BY <2>1, <2>2, <1>1
  <2>4. \A c \in Members(b) : FixtureFor(c) \in {"done", "fail"} /\ c \in Members(Walked(n))
    BY <2>1, <2>3, <1>1, <1>7 DEF Members
  <2>5. QED
    BY <2>4, <1>8
<1>13. QED
  BY <1>4, <1>5, <1>9, <1>10, <1>11, <1>12

(* The trace goes on where the session ended. *)
LEMMA TraceFacts ==
    ASSUME SessionInv, MirrorInv, Built
    PROVE  LET y == DryRunOrder
           IN  /\ y \in Seq(Id) /\ Distinct(y) /\ is_prefix(session.execution_order, y)
               /\ trace.execution_order = y
               /\ Len(y) \in Nat /\ DOMAIN y = 1 .. Len(y)
               /\ Len(trace.nodes) = Len(y) /\ DOMAIN trace.nodes = 1 .. Len(y)
               /\ \A j \in 1 .. Len(y) :
                     /\ trace.nodes[j].node_name = y[j] /\ trace.nodes[j].execution_index = j - 1
                     /\ trace.nodes[j].mock_result_selectors = MockResults(y[j])
<1> DEFINE y == DryRunOrder
<1>1. order \in Seq(Id) /\ Len(order) \in Nat
  BY LenProperties DEF SessionInv, PlanInv
<1>2. Steps \in 0 .. Len(order) /\ DryRun[Steps].done = session.execution_order
  BY DEF MirrorInv
<1>3. Len(order) \in 0 .. Len(order)
  BY <1>1
<1>4. DryRunSound(DryRun[Len(order)]) /\ is_prefix(DryRun[Steps].done, DryRun[Len(order)].done)
  BY <1>1, <1>2, <1>3, DryRunGrows
<1>5. y \in Seq(Id) /\ Distinct(y) /\ is_prefix(session.execution_order, y)
  BY <1>2, <1>4 DEF DryRunOrder, DryRunSound
<1>6. /\ trace.execution_order = y
      /\ trace.nodes = [j \in DOMAIN y |-> [node_name |-> y[j], execution_index |-> j - 1,
                                            mock_result_selectors |-> MockResults(y[j])]]
  BY DEF trace, TraceOf
<1> HIDE DEF y
<1>7. Len(y) \in Nat /\ DOMAIN y = 1 .. Len(y)
  BY <1>5, LenProperties
<1>8. Len(trace.nodes) = Len(y) /\ DOMAIN trace.nodes = 1 .. Len(y)
  BY <1>6, <1>7
<1>9. QED
  BY <1>5, <1>6, <1>7, <1>8 DEF y

(* The events that the audit counts. *)
LEMMA JournalCounts ==
    ASSUME SessionInv, Built
    PROVE  LET w == session.workflow_status
           IN  /\ CountOf(journal, {"NodeCompleted"}) = Len(CompletedOrder(session))
               /\ CountOf(journal, {"WorkflowCompleted"}) = IF w = "Completed" THEN 1 ELSE 0
               /\ CountOf(journal, {"WorkflowFailed"}) = IF w = "Failed" THEN 1 ELSE 0
               /\ CountOf(journal, FailedKinds) \in Nat
               /\ CountOf(journal, FailedKinds) = 0 <=> w # "Failed"
<1> DEFINE J == journal
           w == session.workflow_status
           x == session.execution_order
           Of(kinds) == {i \in DOMAIN J : J[i].kind \in kinds}
<1>1. /\ Steps \in Nat /\ DOMAIN J = 1 .. Len(J) /\ Len(J) \in Nat /\ 3 * Steps + 1 <= Len(J)
      /\ \A k \in 1 .. Steps : \A r \in 1 .. 3 : Placed(k, r)
      /\ \A i \in DOMAIN J : IsFirst(i) \/ IsNode(i) \/ IsLast(i)
      /\ w # "Partial" => Len(J) = 3 * Steps + 2 /\ J[3 * Steps + 2] = WorkflowEvents(session)[1]
  BY JournalFacts
<1>2. /\ w \in {"Completed", "Failed", "Partial"}
      /\ w = "Completed" => WorkflowEvents(session)[1].kind = "WorkflowCompleted"
      /\ w = "Failed" => WorkflowEvents(session)[1].kind = "WorkflowFailed"
  BY WorkflowEventFacts DEF SessionInv, OrderInv, Session
<1>3. \A kinds : CountOf(J, kinds) = Cardinality(Of(kinds)) /\ Of(kinds) \in SUBSET (1 .. Len(J))
  BY <1>1 DEF CountOf
<1>4. \A kinds : IsFiniteSet(Of(kinds)) /\ Cardinality(Of(kinds)) \in Nat
  BY <1>1, <1>3, AscendingFacts
<1>5. ASSUME NEW i \in DOMAIN J
      PROVE  \/ J[i].kind = "SessionStarted"
             \/ \E k \in 1 .. Steps : /\ J[i].kind \in NodeKinds
                                      /\ J[i].kind \in FailedKinds => Ran(k).status = "Failed"
             \/ /\ i = 3 * Steps + 2 /\ w # "Partial"
                /\ J[i].kind = IF w = "Completed" THEN "WorkflowCompleted" ELSE "WorkflowFailed"
  <2>1. CASE IsFirst(i)
    BY <2>1 DEF IsFirst, Event
  <2>2. CASE IsNode(i)
    <3>1. PICK k \in 1 .. Steps : \E r \in 1 .. 3 : i = 3 * k - 2 + r
      BY <2>2 DEF IsNode
    <3>2. PICK r \in 1 .. 3 : i = 3 * k - 2 + r
      BY <3>1
    <3>3. Placed(k, r)
      BY <1>1
    <3>4. J[i].kind \in NodeKinds /\ (J[i].kind \in FailedKinds => Ran(k).status = "Failed")
      BY <3>2, <3>3, Zenon DEF Placed
    <3>5. QED
      BY <3>4
  <2>3. CASE IsLast(i)
    BY <2>3, <1>2 DEF IsLast
  <2>4. QED
    BY <1>1, <2>1, <2>2, <2>3
<1>6. /\ NodeKinds \cap {"SessionStarted", "WorkflowCompleted", "WorkflowFailed"} = {}
      /\ FailedKinds \cap {"SessionStarted", "WorkflowCompleted", "WorkflowFailed"} = {}
  BY DEF NodeKinds, FailedKinds
<1>7. ASSUME w # "Partial" PROVE 3 * Steps + 2 \in DOMAIN J
  BY <1>7, <1>1
<1>8. Of({"WorkflowCompleted"}) = IF w = "Completed" THEN {3 * Steps + 2} ELSE {}
  BY <1>1, <1>2, <1>5, <1>6, <1>7
<1>9. Of({"WorkflowFailed"}) = IF w = "Failed" THEN {3 * Steps + 2} ELSE {}
  BY <1>1, <1>2, <1>5, <1>6, <1>7
<1>10. ASSUME w = "Failed" PROVE Of(FailedKinds) # {}
  <2>1. PICK e \in Members(session.nodes) : e.status = "Failed"
    BY <1>10 DEF SessionInv, BuiltInv, SessionAccepted
  <2>2. PICK k \in 1 .. Steps : e = Ran(k)
    BY <2>1, RanFacts DEF Steps
  <2>3. 3 \in 1 .. 3 /\ 3 * k - 2 + 3 \in DOMAIN J
    <3>1. Steps \in Nat /\ DOMAIN J = 1 .. Len(J) /\ Len(J) \in Nat /\ 3 * Steps + 1 <= Len(J)
      BY <1>1
    <3> HIDE DEF J
    <3>2. QED
      BY <3>1
  <2>4. Placed(k, 3)
    BY <1>1, <2>3
  <2>5. J[3 * k - 2 + 3].kind \in FailedKinds
    BY <2>1, <2>2, <2>4, Zenon DEF Placed
  <2>6. QED
    BY <2>3, <2>5
<1>11. ASSUME w # "Failed" PROVE Of(FailedKinds) = {}
  <2>1. \A k \in 1 .. Steps : Ran(k).status # "Failed"
    BY <1>11, RanFacts DEF Steps
  <2>2. QED
    BY <2>1, <1>5, <1>6
<1>12. CountOf(J, {"NodeCompleted"}) = Len(CompletedOrder(session))
  <2> DEFINE T == {i \in DOMAIN J : J[i].kind = "NodeCompleted"}
             done == Picked(J, T)
             C == {i \in DOMAIN x : SessionNode(session, x[i]).status = "Completed"}
  <2>1. CountOf(J, {"NodeCompleted"}) = Cardinality(T) /\ Cardinality(T) \in Nat
    <3>1. T = Of({"NodeCompleted"})
      OBVIOUS
    <3>2. QED
      BY <3>1, <1>3, <1>4
  <2>2. DOMAIN JournalCompletedOrder(J) = 1 .. Cardinality(T)
    BY DEF JournalCompletedOrder, Picked
  <2>3. CompletedOrder(session) = Picked(x, C) /\ x \in Seq(Id)
    BY DEF CompletedOrder, SessionInv, OrderInv, Session
  <2>4. C \in SUBSET DOMAIN x
    OBVIOUS
  <2> HIDE DEF T, C
  <2>5. /\ Picked(x, C) \in Seq(Id) /\ Len(Picked(x, C)) = Cardinality(C) /\ Cardinality(C) \in Nat
    BY <2>3, <2>4, PickedFacts
  <2>6. DOMAIN Picked(x, C) = 1 .. Cardinality(C)
    BY <2>5, LenProperties
  <2>7. 1 .. Cardinality(T) = 1 .. Cardinality(C)
    BY <2>2, <2>3, <2>6, CompletedOrders
  <2>8. Cardinality(T) = Cardinality(C)
    <3> DEFINE t == Cardinality(T)
               c == Cardinality(C)
    <3>1. t \in Nat /\ c \in Nat /\ 1 .. t = 1 .. c
      BY <2>1, <2>5, <2>7
    <3> HIDE DEF t, c
    <3>2. (t # 0 => t \in 1 .. c) /\ (c # 0 => c \in 1 .. t)
      BY <3>1
    <3>3. t = c
      BY <3>1, <3>2
    <3>4. QED
      BY <3>3 DEF t, c
  <2>9. QED
    BY <2>1, <2>3, <2>5, <2>8
<1>13. \A i : Cardinality({i}) = 1
  BY FS_Singleton
<1>14. \A kinds : CountOf(J, kinds) = 0 <=> Of(kinds) = {}
  BY <1>3, <1>4, FS_EmptySet
<1> HIDE DEF Of
<1>15. CountOf(J, {"WorkflowCompleted"}) = IF w = "Completed" THEN 1 ELSE 0
  BY <1>3, <1>8, <1>13, <1>14
<1>16. CountOf(J, {"WorkflowFailed"}) = IF w = "Failed" THEN 1 ELSE 0
  BY <1>3, <1>9, <1>13, <1>14
<1>17. CountOf(J, FailedKinds) \in Nat /\ (CountOf(J, FailedKinds) = 0 <=> w # "Failed")
  BY <1>3, <1>4, <1>10, <1>11, <1>14
<1>18. QED
  BY <1>12, <1>15, <1>16, <1>17

(* The completed nodes, as the session lists them. *)
LEMMA CompletedListed ==
    ASSUME SessionInv, Built
    PROVE  /\ CompletedOrder(session) \in Seq(Id)
           /\ Cardinality(Completed) = Len(CompletedOrder(session))
<1> DEFINE x == session.execution_order
           C == {i \in DOMAIN x : SessionNode(session, x[i]).status = "Completed"}
<1>1. CompletedOrder(session) = Picked(x, C) /\ x \in Seq(Id) /\ Distinct(x)
  BY DEF CompletedOrder, SessionInv, OrderInv, Session
<1>2. Len(x) \in Nat /\ DOMAIN x = 1 .. Len(x) /\ \A i \in DOMAIN x : x[i] \in Nodes
  BY <1>1, LenProperties DEF SessionInv, OrderInv, ExecutedNames, Members
<1>3. {x[i] : i \in C} \subseteq Completed
  BY <1>2, NodeEntries
<1>4. ASSUME NEW n \in Completed PROVE n \in {x[i] : i \in C}
  <2>1. PICK e \in Members(session.nodes) : e.node_name = n /\ e.status = "Completed"
    BY <1>4 DEF Completed
  <2>2. e \in Entry /\ NodeAccepted(session, e) /\ e = SessionNode(session, n)
    BY <2>1, NodeEntries
  <2>3. e.execution_index \in Nat /\ e.execution_index < Len(x) /\ x[e.execution_index + 1] = n
    BY <2>1, <2>2 DEF Entry, NodeAccepted
  <2>4. e.execution_index + 1 \in DOMAIN x
    BY <2>3, <1>2
  <2>5. QED
    BY <2>1, <2>2, <2>3, <2>4
<1>5. C \in SUBSET DOMAIN x
  OBVIOUS
<1> HIDE DEF C
<1>6. /\ Picked(x, C) \in Seq(Id) /\ Distinct(Picked(x, C))
      /\ Members(Picked(x, C)) = {x[i] : i \in C}
  BY <1>1, <1>5, PickedFacts
<1>7. Members(Picked(x, C)) = Completed
  BY <1>3, <1>4, <1>6
<1>8. QED
  BY <1>1, <1>6, <1>7, MembersCount

(* What the audit report is made of. *)
audit == AuditOf(session, journal, trace, replay)

(* What the audit report takes over from session, journal and trace. *)
LEMMA AuditFields ==
    ASSUME SessionInv, SourceInv, Built
    PROVE  /\ audit.conclusion = Conclusion(session)
           /\ audit.execution_order = session.execution_order
           /\ audit.plan_nodes = [n \in Nodes |-> after[n]]
           /\ audit.workflow_status = session.workflow_status
           /\ audit.session_nodes = session.nodes
           /\ audit.journal_summary = JournalSummary(journal)
           /\ audit.trace_summary = trace
BY ReplaysAccepted DEF audit, AuditOf

(* The session's nodes pass the report's validation. *)
LEMMA SessionPart ==
    ASSUME SessionInv, SourceInv, Built
    PROVE  SessionNodesAccepted(audit)
<1> DEFINE z == session.nodes
           x == session.execution_order
           w == session.workflow_status
<1>1. /\ \A i, j \in DOMAIN z : z[i].node_name = z[j].node_name => i = j
      /\ w = "Completed" => \A n \in Members(z) : n.status = "Completed"
      /\ \A k \in DOMAIN x : \E n \in Members(z) : n.node_name = x[k] /\ n.execution_index = k - 1
  BY DEF SessionInv, BuiltInv, SessionAccepted
<1>2. ASSUME NEW i \in DOMAIN z
      PROVE  /\ z[i] \in Members(z) /\ z[i] \in Entry /\ z[i].node_name \in Nodes
             /\ Distinct(z[i].satisfied_dependencies) /\ Distinct(z[i].used_mocks)
             /\ Members(z[i].satisfied_dependencies) \subseteq deps[z[i].node_name]
             /\ NodeAccepted(session, z[i])
  <2>1. z[i] \in Members(z)
    BY DEF Members
  <2>2. QED
    BY <2>1, NodeEntries DEF SourceInv, SoundAlone
<1>3. ASSUME NEW i \in DOMAIN z, z[i].status \in Statuses
      PROVE  z[i].node_name = x[z[i].execution_index + 1]
  BY <1>2, <1>3 DEF NodeAccepted, Statuses
<1>4. ASSUME NEW i \in DOMAIN z, NEW j \in DOMAIN z, z[i].status \in Statuses,
             z[j].status \in Statuses, z[i].execution_index = z[j].execution_index
      PROVE  i = j
  BY <1>1, <1>3, <1>4
<1>5. Nodes \subseteq Id /\ \A n \in Nodes : deps[n] = Members(after[n])
  <2>1. order \in Seq(Id)
    BY DEF SessionInv, PlanInv
  <2>2. Nodes \subseteq Id
    BY <2>1, ElementOfSeq, LenProperties DEF Nodes, Declared, Members
  <2>3. QED
    BY <2>2 DEF deps
<1>6. ASSUME NEW k \in DOMAIN x
      PROVE  \E i \in DOMAIN z : z[i].node_name = x[k] /\ z[i].execution_index = k - 1
  BY <1>1 DEF Members
<1>7. ASSUME NEW i \in DOMAIN z
      PROVE  /\ z[i].node_name \in Nodes
             /\ Distinct(z[i].satisfied_dependencies)
             /\ Members(z[i].satisfied_dependencies) \subseteq Members([n \in Nodes |-> after[n]][z[i].node_name])
             /\ Distinct(z[i].used_mocks)
             /\ w = "Completed" => z[i].status = "Completed"
  BY <1>1, <1>2, <1>5
<1>8. QED
  BY <1>1, <1>4, <1>6, <1>7, AuditFields DEF SessionNodesAccepted

(* The journal's counts pass the report's validation. *)
LEMMA JournalPart ==
    ASSUME SessionInv, SourceInv, Built
    PROVE  JournalSummaryAccepted(audit)
<1> DEFINE x == session.execution_order
           w == session.workflow_status
           names == {m.node_name : m \in Members(session.nodes)}
           status == [n \in names |-> SessionNode(session, n).status]
           count(v) == Cardinality({n \in DOMAIN status : status[n] = v})
           j == JournalSummary(journal)
           C == {k \in DOMAIN x : status[x[k]] = "Completed"}
<1>1. names = Nodes /\ \A k \in DOMAIN x : x[k] \in Nodes
  BY DEF SessionInv, BuiltInv, OrderInv, ExecutedNames, Members
<1>2. /\ j.total_events = Len(journal)
      /\ j.node_completed_events = CountOf(journal, {"NodeCompleted"})
      /\ j.node_failed_events = CountOf(journal, FailedKinds)
      /\ j.workflow_completed_events = CountOf(journal, {"WorkflowCompleted"})
      /\ j.workflow_failed_events = CountOf(journal, {"WorkflowFailed"})
      /\ j.completed_node_order = JournalCompletedOrder(journal)
  BY DEF JournalSummary
<1>3. j.total_events > 0
  <2>1. Steps \in Nat /\ 3 * Steps + 1 <= Len(journal) /\ Len(journal) \in Nat
    BY JournalFacts
  <2>2. QED
    BY <2>1, <1>2
<1>4. {n \in DOMAIN status : status[n] = "Completed"} = Completed
  <2>1. Completed \subseteq names
    BY DEF Completed
  <2>2. QED
    BY <2>1, <1>1, NodeEntries
<1>5. j.node_completed_events = count("Completed")
  BY <1>2, <1>4, JournalCounts, CompletedListed
<1>6. j.completed_node_order = Picked(x, C)
  <2>1. C = {i \in DOMAIN x : SessionNode(session, x[i]).status = "Completed"}
    BY <1>1
  <2>2. CompletedOrder(session) = Picked(x, {i \in DOMAIN x : SessionNode(session, x[i]).status = "Completed"})
    BY DEF CompletedOrder
  <2>3. QED
    BY <2>1, <2>2, <1>2, CompletedOrders
<1>7. ASSUME w = "Failed" PROVE count("Failed") > 0
  <2> DEFINE F == {n \in DOMAIN status : status[n] = "Failed"}
  <2>1. PICK e \in Members(session.nodes) : e.status = "Failed"
    BY <1>7 DEF SessionInv, BuiltInv, SessionAccepted
  <2>2. e.node_name \in F
    BY <2>1, NodeEntries
  <2>3. IsFiniteSet(Nodes)
    BY MembersCount DEF SessionInv, PlanInv, Nodes, Declared
  <2>4. IsFiniteSet(F)
    <3>1. F \subseteq Nodes
      BY <1>1
    <3> HIDE DEF F
    <3>2. QED
      BY <3>1, <2>3, FS_Subset
  <2> HIDE DEF F
  <2>5. Cardinality(F) \in Nat /\ Cardinality(F) # 0
    BY <2>2, <2>4, FS_CardinalityType, FS_EmptySet
  <2>6. QED
    BY <2>5 DEF F
<1>8. w \in {"Completed", "Failed", "Partial"}
  BY DEF SessionInv, OrderInv, Session
<1>9. /\ j.workflow_completed_events = IF w = "Completed" THEN 1 ELSE 0
      /\ j.workflow_failed_events = IF w = "Failed" THEN 1 ELSE 0
      /\ w # "Failed" => j.node_failed_events = 0
      /\ w = "Failed" => j.node_failed_events > 0
  BY <1>2, JournalCounts
<1>10. /\ w = "Completed" => Conclusion(session) = "Passed"
       /\ w = "Failed" => Conclusion(session) = "RuntimeFailed"
       /\ w = "Partial" => Conclusion(session) = "Partial"
  BY DEF Conclusion
<1>11. \A n : SessionNode(session, n) = CHOOSE m \in Members(session.nodes) : m.node_name = n
  BY DEF SessionNode
<1>12. /\ audit.conclusion = Conclusion(session) /\ audit.execution_order = x
       /\ audit.workflow_status = w /\ audit.session_nodes = session.nodes
       /\ audit.journal_summary = j
  BY AuditFields
<1>13. JournalSummaryAccepted(audit) <=>
          /\ j.total_events > 0
          /\ j.node_completed_events = count("Completed")
          /\ j.completed_node_order = Picked(x, C)
          /\ w = "Completed" =>
                /\ audit.conclusion = "Passed"
                /\ j.workflow_completed_events = 1 /\ j.workflow_failed_events = 0
                /\ j.node_failed_events = 0
          /\ w = "Failed" =>
                /\ audit.conclusion = "RuntimeFailed"
                /\ j.workflow_completed_events = 0 /\ j.workflow_failed_events = 1
                /\ count("Failed") > 0 /\ j.node_failed_events > 0
          /\ w = "Partial" =>
                /\ audit.conclusion = "Partial"
                /\ j.workflow_completed_events = 0 /\ j.workflow_failed_events = 0
                /\ j.node_failed_events = 0
  <2> HIDE DEF j
  <2>1. QED
    BY <1>12 DEF JournalSummaryAccepted, SessionNode
<1> HIDE DEF j, C, count
<1>14. QED
  BY <1>3, <1>5, <1>6, <1>7, <1>9, <1>10, <1>12, <1>13

(* Every audit report of a session passes its validation. *)
LEMMA AuditsAccepted ==
    ASSUME SessionInv, SourceInv, MirrorInv, Built
    PROVE  AuditAccepted(audit)
<1> DEFINE x == session.execution_order
           y == DryRunOrder
<1>1. /\ Distinct(x) /\ Members(x) \subseteq Nodes /\ x \in Seq(Id) /\ PlanInv
  BY DEF SessionInv, OrderInv, ExecutedNames, Session
<1>2. \A n \in Nodes : Distinct(after[n])
  BY DEF SessionInv, PlanInv, PlanAccepted, Built
<1>3. /\ y \in Seq(Id) /\ Distinct(y) /\ is_prefix(x, y) /\ trace.execution_order = y
      /\ Len(y) \in Nat /\ DOMAIN y = 1 .. Len(y)
      /\ Len(trace.nodes) = Len(y) /\ DOMAIN trace.nodes = 1 .. Len(y)
      /\ \A h \in 1 .. Len(y) : trace.nodes[h].mock_result_selectors = MockResults(y[h])
  BY TraceFacts
<1>4. Len(x) \in Nat /\ Len(trace.nodes) >= Len(x)
  BY <1>1, <1>3, LenProperties DEF is_prefix
<1> HIDE DEF y
<1>5. ASSUME NEW n \in Members(trace.nodes) PROVE Distinct(n.mock_result_selectors)
  <2>1. PICK h \in 1 .. Len(y) : n = trace.nodes[h]
    BY <1>3 DEF Members
  <2>2. y[h] \in Id
    BY <1>3, ElementOfSeq
  <2>3. QED
    BY <1>1, <1>3, <2>1, <2>2, ResultFacts
<1>6. /\ audit.execution_order = x /\ audit.plan_nodes = [n \in Nodes |-> after[n]]
      /\ audit.trace_summary = trace
  BY AuditFields
<1>7. DOMAIN audit.plan_nodes = Nodes /\ \A n \in Nodes : audit.plan_nodes[n] = after[n]
  BY <1>6
<1>8. SessionNodesAccepted(audit) /\ JournalSummaryAccepted(audit)
  BY SessionPart, JournalPart
<1> HIDE DEF x
<1>9. QED
  BY <1>1, <1>2, <1>3, <1>4, <1>5, <1>6, <1>7, <1>8 DEF AuditAccepted

(* The trace matches the replay view just when every node that was         *)
(* executed used the mocks of all of its bindings.                         *)
LEMMA TracesMatch ==
    ASSUME SessionInv, SourceInv, MirrorInv, UsesInv, Built, MockSetAccepted
    PROVE  TraceMatchesReplay(trace, replay) <=>
               \A k \in 1 .. Steps : Ran(k).status = "Failed" => AllUsed(session.execution_order[k])
<1> DEFINE x == session.execution_order
           y == DryRunOrder
           Same(k) == Members(MockResults(x[k])) = Members(UsedMocks(x[k]))
<1>1. /\ x \in Seq(Id) /\ Members(x) \subseteq Nodes /\ PlanInv
      /\ Steps \in Nat /\ DOMAIN x = 1 .. Steps
  BY LenProperties DEF SessionInv, OrderInv, ExecutedNames, Session, Steps
<1>2. \A k \in 1 .. Steps : x[k] \in Nodes /\ x[k] \in Id
  BY <1>1, ElementOfSeq DEF Members, Steps
<1>3. /\ y \in Seq(Id) /\ Distinct(y) /\ is_prefix(x, y) /\ trace.execution_order = y
      /\ Len(y) \in Nat /\ DOMAIN y = 1 .. Len(y) /\ DOMAIN trace.nodes = 1 .. Len(y)
      /\ \A j \in 1 .. Len(y) :
            /\ trace.nodes[j].node_name = y[j] /\ trace.nodes[j].execution_index = j - 1
            /\ trace.nodes[j].mock_result_selectors = MockResults(y[j])
  BY TraceFacts
<1>4. Steps <= Len(y) /\ \A k \in 1 .. Steps : k \in 1 .. Len(y) /\ y[k] = x[k]
  BY <1>1, <1>3 DEF is_prefix, Steps
<1>5. /\ replay.execution_order = x
      /\ DOMAIN replay.nodes = 1 .. Steps
      /\ \A k \in 1 .. Steps : replay.nodes[k] = Replayed(k)
  <2>1. replay.execution_order = x
    BY ReplaysAccepted
  <2>2. replay.nodes = [k \in DOMAIN x |-> Replayed(k)]
    BY DEF replay, ReplayOf, Replayed, Ran
  <2>3. QED
    BY <2>1, <2>2, <1>1
<1>6. ASSUME NEW k \in 1 .. Steps
      PROVE  /\ Replayed(k).node_name = x[k] /\ Replayed(k).execution_index = k - 1
             /\ Replayed(k).used_mock_selectors = Members(UsedMocks(x[k]))
             /\ Ran(k).status # "Failed" => Failures(x[k]) = {} /\ ~AsksToStop(x[k])
             /\ Ran(k).status = "Failed" => Failures(x[k]) # {}
  <2>1. /\ Replayed(k).node_name = x[k] /\ Replayed(k).execution_index = k - 1
        /\ Replayed(k).used_mock_selectors = Members(Ran(k).used_mocks)
    BY ReplayedFacts
  <2>2. /\ Ran(k) \in Members(session.nodes) /\ Ran(k).node_name = x[k]
        /\ Ran(k).status \in {"Completed", "Failed"}
    BY RanFacts DEF Steps
  <2>3. UsesOf(Ran(k))
    BY <2>2 DEF UsesInv
  <2>4. QED
    BY <2>1, <2>2, <2>3 DEF UsesOf
<1> HIDE DEF y
<1>7. ASSUME NEW k \in 1 .. Steps
      PROVE  (\E j \in DOMAIN trace.nodes :
                 /\ trace.nodes[j].node_name = Replayed(k).node_name
                 /\ trace.nodes[j].execution_index = Replayed(k).execution_index
                 /\ Members(trace.nodes[j].mock_result_selectors) = Replayed(k).used_mock_selectors)
             <=> Same(k)
  <2>1. ASSUME NEW j \in 1 .. Len(y), trace.nodes[j].execution_index = k - 1 PROVE j = k
    BY <2>1, <1>1, <1>3
  <2>2. k \in 1 .. Len(y) /\ y[k] = x[k]
    BY <1>4
  <2>3. /\ k \in DOMAIN trace.nodes /\ trace.nodes[k].node_name = x[k]
        /\ trace.nodes[k].execution_index = k - 1
        /\ trace.nodes[k].mock_result_selectors = MockResults(x[k])
    BY <2>2, <1>3
  <2>4. /\ Replayed(k).node_name = x[k] /\ Replayed(k).execution_index = k - 1
        /\ Replayed(k).used_mock_selectors = Members(UsedMocks(x[k]))
    BY <1>6
  <2>5. \A j \in DOMAIN trace.nodes : trace.nodes[j].execution_index = k - 1 => j = k
    BY <2>1, <1>3
  <2> HIDE DEF x
  <2>6. Same(k) <=> Members(trace.nodes[k].mock_result_selectors) = Replayed(k).used_mock_selectors
    BY <2>3, <2>4
  <2> HIDE DEF Same
  <2>7. QED
    BY <2>3, <2>4, <2>5, <2>6
<1>8. ASSUME NEW k \in 1 .. Steps
      PROVE  Same(k) <=> (Ran(k).status = "Failed" => AllUsed(x[k]))
  <2>1. x[k] \in Id /\ \A c \in Members(bindings[x[k]]) : MockFor(c) # {}
    BY <1>2 DEF MockSetAccepted
  <2>2. /\ Failures(x[k]) = {} /\ ~AsksToStop(x[k]) => Same(k)
        /\ Failures(x[k]) # {} => (Same(k) <=> AllUsed(x[k]))
    BY <1>1, <2>1, UsesAgree
  <2>3. QED
    BY <2>2, <1>6
<1>9. TraceMatchesReplay(trace, replay) <=> \A k \in 1 .. Steps : Same(k)
  <2> DEFINE Found(i) ==
                 \E j \in DOMAIN trace.nodes :
                    /\ trace.nodes[j].node_name = replay.nodes[i].node_name
                    /\ trace.nodes[j].execution_index = replay.nodes[i].execution_index
                    /\ Members(trace.nodes[j].mock_result_selectors)
                          = replay.nodes[i].used_mock_selectors
  <2>1. is_prefix(replay.execution_order, trace.execution_order)
    BY <1>3, <1>5
  <2>2. TraceMatchesReplay(trace, replay) <=> \A i \in DOMAIN replay.nodes : Found(i)
    BY <2>1 DEF TraceMatchesReplay
  <2>3. \A k \in 1 .. Steps : Found(k) <=> Same(k)
    BY <1>5, <1>7
  <2> HIDE DEF Found, Same
  <2>4. QED
    BY <1>5, <2>2, <2>3
<1> HIDE DEF Same, x
<1>10. QED
  BY <1>8, <1>9 DEF x

(* For every run and every mock set that the dry run accepts: the dry run  *)
(* takes the nodes in the session's order, and the report is made for      *)
(* exactly the runs without a failed node and those whose failed node used *)
(* all of its mocks up to the failing last one (runner.cpp 136-230,        *)
(* report.cpp 647-815).                                                    *)
THEOREM AuditsAreExact == SessionSpec => []AuditIsExact
<1>1. ASSUME SessionInv, SourceInv, MirrorInv, UsesInv PROVE AuditIsExact
  <2> SUFFICES ASSUME Built, Traceable
               PROVE  LET failed == {n \in Members(session.nodes) : n.status = "Failed"}
                          made   == /\ TraceMatchesReplay(trace, replay)
                                    /\ AuditAccepted(audit)
                      IN  /\ is_prefix(session.execution_order, trace.execution_order)
                          /\ made <=> \A n \in failed : AllUsed(n.node_name)
    BY DEF AuditIsExact, AllUsed, audit
  <2>1. is_prefix(session.execution_order, trace.execution_order)
    BY <1>1, TraceFacts
  <2>2. AuditAccepted(audit)
    BY <1>1, AuditsAccepted
  <2>3. TraceMatchesReplay(trace, replay) <=>
           \A k \in 1 .. Steps : Ran(k).status = "Failed" => AllUsed(session.execution_order[k])
    BY <1>1, TracesMatch DEF Traceable
  <2>4. /\ \A k \in 1 .. Steps : /\ Ran(k) \in Members(session.nodes)
                                 /\ Ran(k).node_name = session.execution_order[k]
        /\ \A e \in Members(session.nodes) : e.status = "Failed" => \E k \in 1 .. Steps : e = Ran(k)
    BY <1>1, RanFacts DEF Steps
  <2>5. (\A k \in 1 .. Steps : Ran(k).status = "Failed" => AllUsed(session.execution_order[k]))
           <=> \A n \in {e \in Members(session.nodes) : e.status = "Failed"} : AllUsed(n.node_name)
    BY <2>4
  <2>6. QED
    BY <2>1, <2>2, <2>3, <2>5
<1>2. QED
  BY <1>1, SessionInvariant, SourceInvariant, MirrorInvariant, UsesInvariant, PTL
===============================================================================
