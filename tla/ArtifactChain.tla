---------------------------- MODULE ArtifactChain ----------------------------
(***************************************************************************)
(* The chain of artifacts the pipeline derives from one run of a workflow: *)
(* plan, runtime session, execution journal, replay view and scheduler     *)
(* snapshot.  Every builder validates what it is given and what it makes,  *)
(* so a rule that a validator has and its builder does not keep, or that   *)
(* two artifacts read differently, refuses a run that was in order.        *)
(***************************************************************************)
EXTENDS AuditReport, SchedulerSnapshot, TLC

journal  == JournalOf(session)
replay   == ReplayOf(order, after, session, journal)
snapshot == SnapshotOf(order, after, session)
trace    == TraceOf(DryRunOrder)
-----------------------------------------------------------------------------
(* build_execution_journal makes a valid journal of every session that is  *)
(* built (journal.cpp 553-560).  In it a node becomes ready after the      *)
(* completion of everything it depends on, and after a failure nothing     *)
(* else happens but the end of the workflow: validate_execution_journal    *)
(* knows no dependencies and tests neither.                                *)
JournalIsCausal ==
    Built =>
        LET events == journal
        IN  /\ JournalAccepted(events)
            /\ \A i \in DOMAIN events :
                /\ events[i].kind = "NodeBecameReady" =>
                      \A n \in events[i].node_name : \A d \in deps[n] :
                          \E j \in 1 .. i - 1 : /\ events[j].kind = "NodeCompleted"
                                                /\ events[j].node_name = {d}
                /\ events[i].kind \in FailedKinds =>
                      Len(events) = i + 1 /\ events[i + 1].kind = "WorkflowFailed"

(* No later builder trips over a validator: a session that is built and    *)
(* its journal are found consistent and make a valid replay view           *)
(* (replay.cpp 656-668).  Where a snapshot can be made at all, it is valid *)
(* (snapshot.cpp 899-903), and a stopped workflow always has a next        *)
(* candidate that is ready: Waiting and UpstreamPartial do not occur.      *)
ArtifactsHold ==
    /\ Built => ReplayAccepted(replay)
    /\ Built /\ Snapshotable(order, replay) =>
        LET t == snapshot
        IN  /\ SnapshotAccepted(t)
            /\ Members(t.completed_prefix) = Completed
            /\ session.workflow_status = "Partial" =>
                  /\ t.snapshot_status = "Runnable"
                  /\ \A n \in t.next_candidate_node_name : deps[n] \subseteq Completed
            /\ \A n \in Members(t.blocked_nodes) :
                  /\ n.blocked_reason # "UpstreamPartial"
                  /\ session.workflow_status = "Partial" =>
                        Members(n.missing_dependencies) = deps[n.node_name] \ Completed

(* Every run that completed or was stopped can be audited when the dry run *)
(* accepts its mocks: the two schedulers take the nodes in one order.  One *)
(* that failed can be audited only if the capability that failed was the   *)
(* last of its node and none before it asked to stop, because the dry run  *)
(* uses every mock of the node (report.cpp 774-815).                       *)
AuditIsExact ==
    Built /\ Traceable =>
        LET failed == {n \in Members(session.nodes) : n.status = "Failed"}
            made   == /\ TraceMatchesReplay(trace, replay)
                      /\ AuditAccepted(AuditOf(session, journal, trace, replay))
        IN  /\ is_prefix(session.execution_order, trace.execution_order)
            /\ made <=> \A n \in failed :
                          \A i \in DOMAIN bindings[n.node_name] :
                              LET fixture == FixtureFor(bindings[n.node_name][i])
                              IN  IF i < Len(bindings[n.node_name]) THEN fixture = "done"
                                  ELSE fixture = "fail"
-----------------------------------------------------------------------------
(* The order in which a session executes the nodes is a prefix of the      *)
(* order in which the plan declares them, as build_scheduler_snapshot      *)
(* demands of every replay view (snapshot.cpp 740-745).                    *)
SnapshotPossible == Built => Snapshotable(order, replay)
-----------------------------------------------------------------------------
(* For model checking: node names are interchangeable, capabilities are    *)
(* two.                                                                    *)
IdSymmetry == Permutations(Id)

TwoCapabilities == <<"k1", "k2">>
==============================================================================
