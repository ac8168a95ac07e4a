------------------------------- MODULE ThreadLog ------------------------------
(***************************************************************************)
(* Threads and their logs: the children of a Thread object (module Thread) *)
(* and the main thread, which owns it, use the log (module Log).           *)
(*                                                                         *)
(* A child makes its Log when it sets its name, tells about init(), may    *)
(* log in run(), and ends its Log in exit(), before it announces that it   *)
(* is stopping.  A child that ends in another way leaves its Log to the    *)
(* destructor of the thread-specific storage, after its last step.         *)
(*                                                                         *)
(* A thread goes on when it has done the steps of its call of the log.     *)
(***************************************************************************)
EXTENDS Thread, Log

VARIABLE warned     \* the children that have told that init() failed

Main == MaxStarts + 1
AllThreads == Children \cup {Main}

ASSUME ThreadLogAssumption == LogThreads = AllThreads

allVars == <<threadVars, logVars, warned>>

TLInit == ThreadInit /\ LogInit /\ warned = {}

-------------------------------------------------------------------------------
\* _runChild() and exit()

\* setName(): Log::instance().setThreadName()
ChildSetName(c) ==
    /\ child[c] = "created"
    /\ log[c] = NoLog
    /\ LogCall(c, <<Do("instance")>>)
    /\ UNCHANGED <<threadVars, warned>>

ChildRegisters(c) ==
    /\ LogIdle(c)
    /\ log[c] # NoLog
    /\ ChildRegister(c)
    /\ UNCHANGED <<logVars, warned>>

\* init() has returned false.
ChildWarns(c) ==
    /\ child[c] = "init"
    /\ c \notin warned
    /\ warned' = warned \cup {c}
    /\ LogCall(c, Line)
    /\ UNCHANGED threadVars

ChildFails(c) ==
    /\ LogIdle(c)
    /\ c \in warned
    /\ InitFails(c)
    /\ UNCHANGED <<logVars, warned>>

ChildSucceeds(c) ==
    /\ c \notin warned
    /\ InitSucceeds(c)
    /\ LogCall(c, Line)
    /\ UNCHANGED warned

\* What run() does with the log.
ChildLogs(c) ==
    /\ child[c] = "run"
    /\ \/ Message(c)
       \/ log[c].blocked = 0 /\ SetBlocked(c, 1)
       \/ log[c].blocked = 1 /\ SetBlocked(c, 0)
    /\ UNCHANGED <<threadVars, warned>>

ChildRuns(c) ==
    /\ LogIdle(c)
    /\ RunReturns(c) \/ RunExits(c)
    /\ UNCHANGED <<logVars, warned>>

\* exit(): forceFlush() and Log::exit() ...
ChildFlushes(c) ==
    /\ child[c] = "exit"
    /\ log[c] # NoLog
    /\ LogCall(c, <<Do("sync"), Do("exit")>>)
    /\ UNCHANGED <<threadVars, warned>>

\* exit() that announces its end first.
MutantChildExits(c) ==
    /\ LogIdle(c)
    /\ Exit(c)
    /\ UNCHANGED <<logVars, warned>>

\* ... come before the state is set.
ChildExits(c) ==
    /\ LogIdle(c)
    /\ log[c] = NoLog
    /\ Exit(c)
    /\ UNCHANGED <<logVars, warned>>

\* A cancellation point: in init() and run(), or a write to a stream.  The
\* stack is unwound, which unsets the write lock.
ChildCanceled(c) ==
    /\ LogIdle(c) \/ Doing(c, "write")
    /\ Canceled(c)
    /\ writeLock' = writeLock \ {c}
    /\ steps' = [steps EXCEPT ![c] = <<>>]
    /\ UNCHANGED <<stream, file, log, history, initialized, warned>>

\* The destructor of the thread-specific storage: perThreadDelete()
ChildDeletesLog(c) ==
    /\ child[c] = "gone"
    /\ log[c] # NoLog
    /\ LogCall(c, DeleteLog)
    /\ UNCHANGED <<threadVars, warned>>

ChildMoves(c) ==
    \/ ChildSetName(c) \/ ChildRegisters(c)
    \/ ChildWarns(c) \/ ChildFails(c) \/ ChildSucceeds(c)
    \/ ChildRuns(c) \/ ChildFlushes(c) \/ ChildExits(c)
    \/ ChildDeletesLog(c)

-------------------------------------------------------------------------------
\* The main thread

\* A step in start(), join() or cancel(); a failing start() tells why.
OwnerMoves ==
    /\ LogIdle(Main)
    /\ OwnerStep
    /\ IF owner = "create" /\ owner' = "idle" THEN LogCall(Main, Line) ELSE UNCHANGED logVars
    /\ UNCHANGED warned

OwnerCalls ==
    /\ LogIdle(Main)
    /\ OwnerCall
    /\ UNCHANGED <<logVars, warned>>

\* The application redirects and ends the log when the Thread object says that
\* there is no thread.
MainLogs ==
    /\ owner = "idle"
    /\ \/ Message(Main)
       \/ /\ threadState = "STOPPED" /\ \A c \in canceled : child[c] = "gone"
          /\ \/ setOutput(Main) \/ init(Main) \/ exit(Main)
             \/ \E f \in Files : setOutputFile(Main, f) \/ initLogfile(Main, f)
    /\ UNCHANGED <<threadVars, warned>>

LogMoves(x) == LogStep(x) /\ UNCHANGED <<threadVars, warned>>

TLNext ==
    \/ \E c \in Children : ChildMoves(c) \/ ChildLogs(c) \/ ChildCanceled(c)
    \/ OwnerMoves \/ OwnerCalls \/ MainLogs
    \/ \E x \in AllThreads : LogMoves(x)

TLSpec == TLInit /\ [][TLNext]_allVars

-------------------------------------------------------------------------------
\* The children that end without Thread::exit(), and those that end with
\* flushing disabled, which forceFlush() does not override.
Abandoned == canceled \cup warned

\* Nobody writes to a stream that has been deleted, provided that the child
\* has ended with exit(): then it has let go of the stream before join() returns.
StreamsAreOpen ==
    \A x \in AllThreads \ Abandoned : log[x].out # Dangling

\* No text of any thread is lost or doubled: as many pieces as it has logged are
\* in the stream or still in its log, and when join() has returned all that the
\* child has logged is in the stream.
LogIsComplete ==
    /\ \A x \in AllThreads \ (canceled \cup muted) : Complete(x)
    /\ owner = "idle" /\ ret = <<"join", TRUE>> =>
          \A c \in Children \ (Abandoned \cup muted) : log[c].text = 0
===============================================================================
