------------------------------- MODULE ThreadPool -----------------------------
(***************************************************************************)
(* lunchbox::ThreadPool (threadPool.h, threadPool.cpp): worker threads     *)
(* that take tasks from one queue, posted by client threads and by running *)
(* tasks.                                                                  *)
(*                                                                         *)
(* A critical section of the mutex is one step.  post() and postDetached() *)
(* notify one worker after they have left it, which is a second step.      *)
(***************************************************************************)
EXTENDS Naturals, Sequences, SequencesExt, FiniteSets

CONSTANTS
    Workers,        \* the threads of the pool
    Clients,        \* the threads that use the pool
    Tasks,
    Program,        \* Program[c]: the tasks client c posts
    Spawn           \* Spawn[k]: the tasks that task k posts while it runs

ASSUME WorkersAssumption == IsFiniteSet(Workers)
ASSUME ClientsAssumption == IsFiniteSet(Clients) /\ Clients \cap Workers = {}
ASSUME PostsAssumption ==
    /\ Program \in [Clients -> SUBSET Tasks]
    /\ Spawn \in [Tasks -> SUBSET Tasks]

Posters == Clients \cup Workers

VARIABLES
    tasks,      \* _tasks
    stop,       \* _stop
    worker,     \* worker[w]: wait (before the predicate), sleeping, task, exited
    current,    \* current[w]: the set with the task w runs, if any
    left,       \* left[p]: the tasks p still has to post
    notifying,  \* the posters between the mutex and notify_one()
    done,       \* the tasks that have been run
    pool        \* alive, joining (in ~ThreadPool()), destroyed

poolVars == <<tasks, stop, worker, current, left, notifying, done, pool>>

PoolInit ==
    /\ tasks = <<>>
    /\ stop = FALSE
    /\ worker = [w \in Workers |-> "wait"]
    /\ current = [w \in Workers |-> {}]
    /\ left = [p \in Posters |-> IF p \in Clients THEN Program[p] ELSE {}]
    /\ notifying = {}
    /\ done = {}
    /\ pool = "alive"

In(s) == {w \in Workers : worker[w] = s}

-------------------------------------------------------------------------------
\* post() and postDetached(), by a client or by a running task.

Post(p, k) ==
    /\ k \in left[p]
    /\ p \notin notifying
    /\ tasks' = Append(tasks, k)
    /\ left' = [left EXCEPT ![p] = @ \ {k}]
    /\ notifying' = notifying \cup {p}
    /\ UNCHANGED <<stop, worker, current, done, pool>>

\* A post() that never calls notify_one().
MutantNotifyOne(p) ==
    /\ p \in notifying
    /\ notifying' = notifying \ {p}
    /\ UNCHANGED worker
    /\ UNCHANGED <<tasks, stop, current, left, done, pool>>

NotifyOne(p) ==
    /\ p \in notifying
    /\ notifying' = notifying \ {p}
    /\ \/ In("sleeping") = {} /\ UNCHANGED worker
       \/ \E w \in In("sleeping") : worker' = [worker EXCEPT ![w] = "wait"]
    /\ UNCHANGED <<tasks, stop, current, left, done, pool>>

-------------------------------------------------------------------------------
\* work()

WorkerWait(w) ==
    /\ worker[w] = "wait"
    /\ ~stop
    /\ tasks = <<>>
    /\ worker' = [worker EXCEPT ![w] = "sleeping"]
    /\ UNCHANGED <<tasks, stop, current, left, notifying, done, pool>>

WorkerWakeup(w) ==
    /\ worker[w] = "sleeping"
    /\ worker' = [worker EXCEPT ![w] = "wait"]
    /\ UNCHANGED <<tasks, stop, current, left, notifying, done, pool>>

TakeTask(w) ==
    /\ worker[w] = "wait"
    /\ ~stop
    /\ tasks # <<>>
    /\ current' = [current EXCEPT ![w] = {Head(tasks)}]
    /\ tasks' = Tail(tasks)
    /\ left' = [left EXCEPT ![w] = Spawn[Head(tasks)]]
    /\ worker' = [worker EXCEPT ![w] = "task"]
    /\ UNCHANGED <<stop, notifying, done, pool>>

\* task() returns.
FinishTask(w) ==
    /\ worker[w] = "task"
    /\ left[w] = {}
    /\ w \notin notifying
    /\ done' = done \cup current[w]
    /\ current' = [current EXCEPT ![w] = {}]
    /\ worker' = [worker EXCEPT ![w] = "wait"]
    /\ UNCHANGED <<tasks, stop, left, notifying, pool>>

\* if( _stop ) return;
Exit(w) ==
    /\ worker[w] = "wait"
    /\ stop
    /\ worker' = [worker EXCEPT ![w] = "exited"]
    /\ UNCHANGED <<tasks, stop, current, left, notifying, done, pool>>

-------------------------------------------------------------------------------
\* ~ThreadPool(): no client uses the pool any more.

\* A destructor that wakes one worker only.
MutantDestroy ==
    /\ pool = "alive"
    /\ \A c \in Clients : left[c] = {} /\ c \notin notifying
    /\ stop' = TRUE
    /\ \/ In("sleeping") = {} /\ UNCHANGED worker
       \/ \E w \in In("sleeping") : worker' = [worker EXCEPT ![w] = "wait"]
    /\ pool' = "joining"
    /\ UNCHANGED <<tasks, current, left, notifying, done>>

Destroy ==
    /\ pool = "alive"
    /\ \A c \in Clients : left[c] = {} /\ c \notin notifying
    /\ stop' = TRUE
    /\ worker' = [w \in Workers |-> IF worker[w] = "sleeping" THEN "wait" ELSE worker[w]]
    /\ pool' = "joining"
    /\ UNCHANGED <<tasks, current, left, notifying, done>>

JoinAll ==
    /\ pool = "joining"
    /\ In("exited") = Workers
    /\ pool' = "destroyed"
    /\ UNCHANGED <<tasks, stop, worker, current, left, notifying, done>>

-------------------------------------------------------------------------------
PosterStep(p) == NotifyOne(p) \/ \E k \in Tasks : Post(p, k)

WorkerStep(w) == WorkerWait(w) \/ TakeTask(w) \/ FinishTask(w) \/ Exit(w)

PoolNext ==
    \/ \E p \in Posters : PosterStep(p)
    \/ \E w \in Workers : WorkerStep(w) \/ WorkerWakeup(w)
    \/ Destroy
    \/ JoinAll

PoolSpec == PoolInit /\ [][PoolNext]_poolVars

\* The scheduler runs every thread that is not blocked.  When the pool is
\* destroyed is up to the application.
PoolFairSpec ==
    /\ PoolSpec
    /\ \A p \in Posters : WF_poolVars(PosterStep(p))
    /\ \A w \in Workers : WF_poolVars(WorkerStep(w))
    /\ WF_poolVars(JoinAll)

-------------------------------------------------------------------------------
\* Type invariant; exactly the workers inside of task() have a task.
PoolTypeOK ==
    /\ tasks \in Seq(Tasks)
    /\ stop \in BOOLEAN
    /\ worker \in [Workers -> {"wait", "sleeping", "task", "exited"}]
    /\ current \in [Workers -> SUBSET Tasks]
    /\ \A w \in Workers : current[w] # {} <=> worker[w] = "task"
    /\ left \in [Posters -> SUBSET Tasks]
    /\ notifying \in SUBSET Posters
    /\ done \in SUBSET Tasks
    /\ pool \in {"alive", "joining", "destroyed"}

\* As long as a worker sleeps, there are enough workers on their way to the
\* queue, or notifications on theirs to a sleeper, for all queued tasks: one
\* notify_one() per post(), outside of the mutex, loses no wakeup.
WakeupsSuffice ==
    In("sleeping") # {} =>
        Len(tasks) <= Cardinality(In("wait")) + Cardinality(notifying)

\* Nobody sleeps through the destruction of the pool.
StopWakesAll == stop => In("sleeping") = {}

\* A posted task is run, unless the pool is destroyed first.
PostedIsRun == \A k \in Tasks : k \in ToSet(tasks) ~> (k \in done \/ stop)

\* ~ThreadPool() returns.
DestructorReturns == pool = "joining" ~> pool = "destroyed"

\* ~ThreadPool() "Will block until all the tasks are done" (threadPool.h:52).
DestructorWaitsForTasks ==
    pool = "destroyed" => tasks = <<>> /\ \A w \in Workers : current[w] = {}
===============================================================================
