--------------------------------- MODULE Thread -------------------------------
(***************************************************************************)
(* lunchbox::Thread (thread.h, thread.cpp): one Thread object, the thread  *)
(* that owns it, and the child threads its start() calls create.           *)
(*                                                                         *)
(* threadState is a Monitor: every access is one step, and waitNE() is a   *)
(* step that is enabled while the value differs (module Monitor shows that *)
(* no wakeup is lost).  init() and run() are the application's: init() may *)
(* fail, run() may return or call exit() itself.                           *)
(***************************************************************************)
EXTENDS Integers, FiniteSets

CONSTANTS
    MaxStarts,      \* number of child threads created at most
    MaxTries,       \* nTries of start()
    CreateFails,    \* whether pthread_create() may fail for good
    MaxCancels      \* number of children that are canceled at most

ASSUME BoundsAssumption ==
    /\ MaxStarts \in Nat /\ MaxTries \in Nat \ {0}
    /\ CreateFails \in BOOLEAN /\ MaxCancels \in Nat

Children == 1 .. MaxStarts
None == 0

VARIABLES
    threadState,      \* _impl->state
    id,         \* _impl->id: a child, or None
    threads,    \* _threads, the registry of running threads
    owner,      \* the owner: idle, or where it is in start(), join(), cancel()
    tries,      \* nTries, while start() is in its loop
    ret,        \* the last call of the owner and what it returned
    child,      \* child[c]: none, created, init, run, exit, gone
    ready,      \* the children whose init() returned true
    canceled    \* the children with a pending pthread_cancel()

threadVars == <<threadState, id, threads, owner, tries, ret, child, ready, canceled>>

States == {"STOPPED", "STARTING", "RUNNING", "STOPPING"}

ThreadInit ==
    /\ threadState = "STOPPED"
    /\ id = None
    /\ threads = {}
    /\ owner = "idle"
    /\ tries = 0
    /\ ret = <<"none", FALSE>>
    /\ child = [c \in Children |-> "none"]
    /\ ready = {}
    /\ canceled = {}

\* The children that have not reached the end of _runChild() or exit().
Active == {c \in Children : child[c] \in {"created", "init", "run"}}

Return(op, r) == owner' = "idle" /\ ret' = <<op, r>>

-------------------------------------------------------------------------------
\* start()

StartCheck ==
    /\ owner = "idle"
    /\ \/ threadState # "STOPPED" /\ Return("start", FALSE)
       \/ threadState = "STOPPED" /\ owner' = "starting" /\ UNCHANGED ret
    /\ UNCHANGED <<threadState, id, threads, tries, child, ready, canceled>>

StartSet ==
    /\ owner = "starting"
    /\ threadState' = "STARTING"
    /\ tries' = MaxTries
    /\ owner' = "create"
    /\ UNCHANGED <<id, threads, ret, child, ready, canceled>>

\* pthread_create() makes the next child.
Create(c) ==
    /\ owner = "create"
    /\ child[c] = "none"
    /\ \A d \in Children : d < c => child[d] # "none"
    /\ child' = [child EXCEPT ![c] = "created"]
    /\ id' = c
    /\ owner' = "wait"
    /\ tries' = 0
    /\ UNCHANGED <<threadState, threads, ret, ready, canceled>>

\* EAGAIN: one try less, then sleep.
CreateAgain ==
    /\ owner = "create"
    /\ tries > 1
    /\ tries' = tries - 1
    /\ UNCHANGED <<threadState, id, threads, owner, ret, child, ready, canceled>>

\* Another error, or EAGAIN at the last try.
CreateError ==
    /\ CreateFails
    /\ owner = "create"
    /\ tries' = 0
    /\ Return("start", FALSE)
    /\ UNCHANGED <<threadState, id, threads, child, ready, canceled>>

\* start() that returns without waiting for init().
MutantStartWait ==
    /\ owner = "wait"
    /\ owner' = "detach"
    /\ UNCHANGED <<threadState, id, threads, tries, ret, child, ready, canceled>>

\* _impl->state.waitNE( STATE_STARTING )
StartWait ==
    /\ owner = "wait"
    /\ threadState # "STARTING"
    /\ owner' = "detach"
    /\ UNCHANGED <<threadState, id, threads, tries, ret, child, ready, canceled>>

StartReturn ==
    /\ owner = "detach"
    /\ Return("start", threadState # "STOPPED")
    /\ UNCHANGED <<threadState, id, threads, tries, child, ready, canceled>>

-------------------------------------------------------------------------------
\* join(), called by the owner.  Called by the child it returns false.

JoinCheck ==
    /\ owner = "idle"
    /\ \/ threadState = "STOPPED" /\ Return("join", FALSE)
       \/ threadState # "STOPPED" /\ owner' = "joinWait" /\ UNCHANGED ret
    /\ UNCHANGED <<threadState, id, threads, tries, child, ready, canceled>>

\* join() that waits for the wrong state.
MutantJoinWait ==
    /\ owner = "joinWait"
    /\ threadState # "STARTING"
    /\ owner' = "joinSet"
    /\ UNCHANGED <<threadState, id, threads, tries, ret, child, ready, canceled>>

\* _impl->state.waitNE( STATE_RUNNING )
JoinWait ==
    /\ owner = "joinWait"
    /\ threadState # "RUNNING"
    /\ owner' = "joinSet"
    /\ UNCHANGED <<threadState, id, threads, tries, ret, child, ready, canceled>>

JoinSet ==
    /\ owner = "joinSet"
    /\ threadState' = "STOPPED"
    /\ Return("join", TRUE)
    /\ UNCHANGED <<id, threads, tries, child, ready, canceled>>

-------------------------------------------------------------------------------
\* cancel() of a thread that has been started.  cancel() itself tests nothing: the
\* callers see to it that there is, or has just been, a thread to cancel.

CancelSet ==
    /\ owner = "idle"
    /\ Cardinality(canceled) < MaxCancels
    /\ threadState \in {"RUNNING", "STOPPING"}
    /\ threadState' = "STOPPING"
    /\ owner' = "cancel"
    /\ UNCHANGED <<id, threads, tries, ret, child, ready, canceled>>

\* pthread_cancel() is delivered when the child gets to a cancellation point.
CancelSignal ==
    /\ owner = "cancel"
    /\ canceled' = canceled \cup {id}
    /\ Return("cancel", TRUE)
    /\ UNCHANGED <<threadState, id, threads, tries, child, ready>>

-------------------------------------------------------------------------------
\* _runChild()

\* Sets the identifier and registers the thread.
ChildRegister(c) ==
    /\ child[c] = "created"
    /\ id' = c
    /\ threads' = threads \cup {c}
    /\ child' = [child EXCEPT ![c] = "init"]
    /\ UNCHANGED <<threadState, owner, tries, ret, ready, canceled>>

\* A failed init() that tells nobody.
MutantInitFails(c) ==
    /\ child[c] = "init"
    /\ child' = [child EXCEPT ![c] = "gone"]
    /\ UNCHANGED <<threadState, id, threads, owner, tries, ret, ready, canceled>>

InitFails(c) ==
    /\ child[c] = "init"
    /\ threadState' = "STOPPED"
    /\ child' = [child EXCEPT ![c] = "gone"]
    /\ UNCHANGED <<id, threads, owner, tries, ret, ready, canceled>>

InitSucceeds(c) ==
    /\ child[c] = "init"
    /\ ready' = ready \cup {c}
    /\ threadState' = "RUNNING"
    /\ child' = [child EXCEPT ![c] = "run"]
    /\ UNCHANGED <<id, threads, owner, tries, ret, canceled>>

\* run() returns, and the thread is removed from the registry ...
RunReturns(c) ==
    /\ child[c] = "run"
    /\ threads' = threads \ {c}
    /\ child' = [child EXCEPT ![c] = "exit"]
    /\ UNCHANGED <<threadState, id, owner, tries, ret, ready, canceled>>

\* ... or run() calls exit(), and it is not.
RunExits(c) ==
    /\ child[c] = "run"
    /\ child' = [child EXCEPT ![c] = "exit"]
    /\ UNCHANGED <<threadState, id, threads, owner, tries, ret, ready, canceled>>

\* exit()
Exit(c) ==
    /\ child[c] = "exit"
    /\ threadState' = "STOPPING"
    /\ child' = [child EXCEPT ![c] = "gone"]
    /\ UNCHANGED <<id, threads, owner, tries, ret, ready, canceled>>

\* The child ends at a cancellation point.
Canceled(c) ==
    /\ c \in canceled
    /\ child[c] \in {"init", "run", "exit"}
    /\ child' = [child EXCEPT ![c] = "gone"]
    /\ UNCHANGED <<threadState, id, threads, owner, tries, ret, ready, canceled>>

-------------------------------------------------------------------------------
ChildStep(c) ==
    \/ ChildRegister(c)
    \/ InitFails(c) \/ InitSucceeds(c)
    \/ RunReturns(c) \/ RunExits(c)
    \/ Exit(c)

\* The owner inside of a call.
OwnerStep ==
    \/ StartSet \/ (\E c \in Children : Create(c)) \/ CreateAgain \/ CreateError
    \/ StartWait \/ StartReturn
    \/ JoinWait \/ JoinSet
    \/ CancelSignal

\* The owner calls one of the operations; start() as long as there are children,
\* and after a cancel() only when the canceled child has really ended.
OwnerCall ==
    \/ child[MaxStarts] = "none" /\ (\A c \in canceled : child[c] = "gone") /\ StartCheck
    \/ JoinCheck
    \/ CancelSet

ThreadNext ==
    \/ OwnerStep
    \/ OwnerCall
    \/ \E c \in Children : ChildStep(c) \/ Canceled(c)

ThreadSpec == ThreadInit /\ [][ThreadNext]_threadVars

\* Both threads are scheduled; init() and run() come to an end.
ThreadFairness == WF_threadVars(OwnerStep) /\ \A c \in Children : WF_threadVars(ChildStep(c))

-------------------------------------------------------------------------------
\* Type invariant.
ThreadTypeOK ==
    /\ threadState \in States
    /\ id \in Children \cup {None}
    /\ threads \in SUBSET Children
    /\ owner \in {"idle", "starting", "create", "wait", "detach", "joinWait",
                  "joinSet", "cancel"}
    /\ tries \in 0 .. MaxTries
    /\ ret \in {"none", "start", "join", "cancel"} \X BOOLEAN
    /\ child \in [Children -> {"none", "created", "init", "run", "exit", "gone"}]
    /\ ready \in SUBSET Children
    /\ canceled \in SUBSET (Children \cup {None})

\* start() returns true only "if the thread was launched and initialized
\* successfully" (thread.h:68), however far the child has got meanwhile.
StartTellsOutcome == owner = "idle" /\ ret = <<"start", TRUE>> => id \in ready

\* The children of one Thread object do not overlap, and isCurrent() is true
\* in the one that is active.
OneChild == \A c \in Active : Active = {c} /\ (child[c] # "created" => id = c)

\* The children of one Thread object do not overlap, and join() returns true
\* after "the exit of the child thread" (thread.h:116) unless the child was
\* canceled.
JoinWaitsForExit ==
    /\ ThreadTypeOK
    /\ OneChild
    /\ owner = "idle" /\ ret = <<"join", TRUE>> =>
          \A c \in Children \ canceled : child[c] \in {"none", "gone"}

\* start(), join() and cancel() return.
OwnerReturns == owner # "idle" ~> owner = "idle"
===============================================================================
