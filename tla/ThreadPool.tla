----------------------------- MODULE ThreadPool -----------------------------
(***************************************************************************)
(* ThreadPool (base/support/thread_pool.cpp): workers take tasks from a    *)
(* deque under one mutex and condition variable.  submit() pushes and      *)
(* notifies one worker after it has let go of the mutex; shutdown() sets   *)
(* stopped_, notifies all and joins.  Every critical section is an action, *)
(* and so is every notification that follows one.                          *)
(***************************************************************************)
EXTENDS Integers, Sequences, FiniteSets, SequencesExt

CONSTANTS Workers, Tasks,
          NoTask,   \* no element of Tasks: a worker between two tasks
          Closers   \* threads that call shutdown(), the destructor's too

(* The constructor makes at least one worker. *)
ThreadsAssumption == Workers # {} /\ IsFiniteSet(Tasks) /\ NoTask \notin Tasks

VARIABLES tasks_, stopped_,
          pc, task,     \* each worker's position and task
          notices,      \* tasks pushed whose notify_one is still to come
          in_time,      \* tasks pushed before shutdown
          run,          \* tasks whose call has returned
          closer,       \* each closer's position
          first         \* the closer that set stopped_

threads == <<tasks_, stopped_, pc, task, notices, in_time, run, closer, first>>
rest == <<in_time, closer, first>>

ThreadsInit ==
    /\ tasks_ = <<>>
    /\ stopped_ = FALSE
    /\ pc = [w \in Workers |-> "wait"]
    /\ task = [w \in Workers |-> NoTask]
    /\ notices = {}
    /\ in_time = {}
    /\ run = {}
    /\ closer = [c \in Closers |-> "open"]
    /\ first = {}

Pushed == Range(tasks_) \cup run \cup {task[w] : w \in Workers}

(* submit() does not look at stopped_. *)
Submit(t) ==
    /\ t \notin Pushed
    /\ tasks_' = Append(tasks_, t)
    /\ notices' = notices \cup {t}
    /\ in_time' = IF stopped_ THEN in_time ELSE in_time \cup {t}
    /\ UNCHANGED <<stopped_, pc, task, run, closer, first>>

(* notify_one wakes one of the waiters, when there is one. *)
NotifyOne(t) ==
    /\ t \in notices
    /\ notices' = notices \ {t}
    /\ IF \E w \in Workers : pc[w] = "asleep"
         THEN \E w \in Workers : pc[w] = "asleep" /\ pc' = [pc EXCEPT ![w] = "wait"]
         ELSE UNCHANGED pc
    /\ UNCHANGED <<tasks_, stopped_, task, run, rest>>

Sleep(w) ==
    /\ pc[w] = "wait"
    /\ ~stopped_ /\ tasks_ = <<>>
    /\ pc' = [pc EXCEPT ![w] = "asleep"]
    /\ UNCHANGED <<tasks_, stopped_, task, notices, run, rest>>

SpuriousWake(w) ==
    /\ pc[w] = "asleep"
    /\ pc' = [pc EXCEPT ![w] = "wait"]
    /\ UNCHANGED <<tasks_, stopped_, task, notices, run, rest>>

(* Slip: a stopped pool's workers leave without looking at the queue. *)
ExitAtOnce(w) ==
    /\ pc[w] = "wait"
    /\ stopped_
    /\ pc' = [pc EXCEPT ![w] = "exited"]
    /\ UNCHANGED <<tasks_, stopped_, task, notices, run, rest>>

Exit(w) ==
    /\ pc[w] = "wait"
    /\ stopped_ /\ tasks_ = <<>>
    /\ pc' = [pc EXCEPT ![w] = "exited"]
    /\ UNCHANGED <<tasks_, stopped_, task, notices, run, rest>>

Take(w) ==
    /\ pc[w] = "wait"
    /\ tasks_ # <<>>
    /\ task' = [task EXCEPT ![w] = Head(tasks_)]
    /\ tasks_' = Tail(tasks_)
    /\ pc' = [pc EXCEPT ![w] = "running"]
    /\ UNCHANGED <<stopped_, notices, run, rest>>

(* Slip: a worker sleeps after each task until it is notified. *)
FinishAndSleep(w) ==
    /\ pc[w] = "running"
    /\ run' = run \cup {task[w]}
    /\ task' = [task EXCEPT ![w] = NoTask]
    /\ pc' = [pc EXCEPT ![w] = "asleep"]
    /\ UNCHANGED <<tasks_, stopped_, notices, rest>>

(* The packaged task returns; what it throws goes to the future. *)
Finish(w) ==
    /\ pc[w] = "running"
    /\ run' = run \cup {task[w]}
    /\ task' = [task EXCEPT ![w] = NoTask]
    /\ pc' = [pc EXCEPT ![w] = "wait"]
    /\ UNCHANGED <<tasks_, stopped_, notices, rest>>

(* The critical section of shutdown(): a second caller returns from it.    *)
Stop(c) ==
    /\ closer[c] = "open"
    /\ stopped_' = TRUE
    /\ closer' = [closer EXCEPT ![c] = IF stopped_ THEN "returned" ELSE "notifying"]
    /\ first' = IF stopped_ THEN first ELSE {c}
    /\ UNCHANGED <<tasks_, pc, task, notices, in_time, run>>

NotifyAll(c) ==
    /\ closer[c] = "notifying"
    /\ pc' = [w \in Workers |-> IF pc[w] = "asleep" THEN "wait" ELSE pc[w]]
    /\ closer' = [closer EXCEPT ![c] = "joining"]
    /\ UNCHANGED <<tasks_, stopped_, task, notices, in_time, run, first>>

Joined(c) ==
    /\ closer[c] = "joining"
    /\ \A w \in Workers : pc[w] = "exited"
    /\ closer' = [closer EXCEPT ![c] = "returned"]
    /\ UNCHANGED <<tasks_, stopped_, pc, task, notices, in_time, run, first>>

Work(w) == Sleep(w) \/ Exit(w) \/ Take(w) \/ Finish(w)
Close(c) == NotifyAll(c) \/ Joined(c)

ThreadsNext ==
    \/ \E t \in Tasks : Submit(t) \/ NotifyOne(t)
    \/ \E w \in Workers : Work(w) \/ SpuriousWake(w)
    \/ \E c \in Closers : Stop(c) \/ Close(c)

(* Threads make progress; nobody has to submit, or to shut the pool down.  *)
Fairness ==
    /\ \A w \in Workers : WF_threads(Work(w))
    /\ \A t \in Tasks : WF_threads(NotifyOne(t))
    /\ \A c \in Closers : WF_threads(Close(c))

ThreadsSpec == ThreadsInit /\ [][ThreadsNext]_threads /\ Fairness
-----------------------------------------------------------------------------
ThreadsTypeOK ==
    /\ tasks_ \in Seq(Tasks) /\ Len(tasks_) <= Cardinality(Tasks)
    /\ pc \in [Workers -> {"wait", "asleep", "running", "exited"}]
    /\ task \in [Workers -> Tasks \cup {NoTask}]
    /\ \A w \in Workers : pc[w] = "running" <=> task[w] # NoTask
    /\ notices \subseteq Tasks
    /\ run \subseteq Tasks

(* When the shutdown() that stopped the pool returns, every task submitted *)
(* before it has run to its end, and no worker is left.                    *)
ShutdownDrains ==
    /\ ThreadsTypeOK
    /\ \A c \in first :
          closer[c] = "returned" =>
              /\ in_time \subseteq run
              /\ \A w \in Workers : pc[w] = "exited"

(* Why it holds, step by step: the queue never holds a task twice; a task  *)
(* that came in time is queued, in a worker's hands or done; a worker only *)
(* leaves a stopped pool, and only when nothing that came in time is left  *)
(* in the queue; and a closer that had to join returns after all of them.  *)
DrainInv ==
    /\ ThreadsTypeOK
    /\ stopped_ \in BOOLEAN
    /\ closer \in [Closers -> {"open", "notifying", "joining", "returned"}]
    /\ \A i, j \in 1 .. Len(tasks_) : tasks_[i] = tasks_[j] => i = j
    /\ in_time \subseteq Tasks \cap Pushed
    /\ ~stopped_ => first = {} /\ \A w \in Workers : pc[w] # "exited"
    /\ \A w \in Workers : pc[w] = "exited" => in_time \cap Range(tasks_) = {}
    /\ first \subseteq Closers
    /\ \A c \in first : /\ closer[c] # "open"
                        /\ closer[c] = "returned" => \A w \in Workers : pc[w] = "exited"

(* A task submitted before shutdown is run, whether shutdown is called or  *)
(* not: its future becomes ready.                                          *)
SubmittedRuns == \A t \in Tasks : t \in in_time ~> t \in run

(* shutdown() returns. *)
ShutdownReturns == \A c \in Closers : closer[c] # "open" ~> closer[c] = "returned"
=============================================================================
