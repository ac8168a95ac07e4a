---------------------------------- MODULE Log ---------------------------------
(***************************************************************************)
(* The log (log.h, log.cpp) with the thread-specific storage it is kept in *)
(* (tls.cpp, perThread.ipp), and lunchbox::init() and exit() (init.cpp).   *)
(*                                                                         *)
(* Every thread has a Log of its own, made by the first use.  It keeps the *)
(* text until a flush, and holds on to the stream that was the output when *)
(* it was made.  A line is two pieces of text, its words and its end; of   *)
(* the text only the number of pieces is kept.                             *)
(*                                                                         *)
(* The level is LOG_DEBUG, the one of a debug build: LBVERB does nothing.  *)
(* Headings, indentation and names of threads are layout, and left out.    *)
(*                                                                         *)
(* A call leaves the steps it still has to do in steps.  What a thread     *)
(* does to its own Log between two accesses to shared state is one step.   *)
(***************************************************************************)
EXTENDS Integers, Sequences, FiniteSets

CONSTANTS
    LogThreads, \* the threads that use the log
    Files,      \* the file streams that setOutput() makes; a deleted one may be made again
    MaxText,    \* number of pieces in a Log at most
    MaxInits    \* value of _initialized at most

VARIABLES
    stream,     \* globals().stream
    file,       \* globals().file
    log,        \* log[x]: the Log of x: its stream, the pieces of text in it, its flush
                \* counter, and the number of pieces not yet written (history)
    broken,     \* the threads with text that was written twice or got lost (history)
    muted,      \* the threads with text that got lost because flushing was disabled (history)
    last,       \* what is written at the moment: a thread and a piece of its text (history)
    writeLock,  \* the thread that has set globals().lock, if any
    initialized,\* _initialized of init.cpp
    steps       \* steps[x]: what x still has to do in its call

history == <<broken, muted, last>>
logVars == <<stream, file, log, history, writeLock, initialized, steps>>

Console == "console"
Dangling == "deleted"
NoFile == "none"

ASSUME LogAssumption ==
    /\ MaxText \in Nat /\ MaxInits \in Nat
    /\ Files \cap {Console, Dangling, NoFile} = {}

NoLog == [out |-> NoFile, text |-> 0, blocked |-> 0, owed |-> 0]

LogInit ==
    /\ stream = Console
    /\ file = NoFile
    /\ log = [x \in LogThreads |-> NoLog]
    /\ broken = {} /\ muted = {} /\ last = <<>>
    /\ writeLock = {}
    /\ initialized = 0
    /\ steps = [x \in LogThreads |-> <<>>]

-------------------------------------------------------------------------------
\* Calls as sequences of steps.

Do(op) == [op |-> op, arg |-> NoFile]
With(op, s) == [op |-> op, arg |-> s]

\* LBERROR << text << std::endl, and the same at another level
Line == <<Do("line"), Do("sync")>>

\* ~Log()
DeleteLog == <<Do("sync"), Do("delete")>>

\* Log::reset()
Reset == <<Do("exit"), With("file", NoFile), With("stream", Console)>>

\* setOutput( file ) that deletes the old stream before it leaves it.
MutantRedirect(f) == Line \o <<With("stream", f), With("file", f), Do("exit")>>

\* Log::setOutput( file ), when the file is open: the new stream, the Log of
\* this thread ends, and the old file is deleted.
Redirect(f) == Line \o <<With("stream", f), Do("exit"), With("file", f)>>

LogIdle(x) == steps[x] = <<>>
LogBegin(x, todo) == LogIdle(x) /\ steps' = [steps EXCEPT ![x] = todo]
Doing(x, op) == ~LogIdle(x) /\ Head(steps[x]).op = op
Argument(x) == Head(steps[x]).arg
Continue(x, todo) == steps' = [steps EXCEPT ![x] = todo \o Tail(@)]

-------------------------------------------------------------------------------
\* PerThread: what the key holds for this thread.
Get(x) == log[x]

\* PerThread::operator!
IsNull(x) == Get(x) = NoLog

\* Log::instance(): the Log of this thread, made with the current output.
InstanceOf(x) == IF IsNull(x) THEN [NoLog EXCEPT !.out = stream] ELSE Get(x)

Instance(x) ==
    /\ Doing(x, "instance")
    /\ log' = [log EXCEPT ![x] = InstanceOf(x)]
    /\ Continue(x, <<>>)
    /\ UNCHANGED <<stream, file, history, writeLock, initialized>>

\* instance() and overflow(), for the characters of a line
Put(x) ==
    /\ Doing(x, "line")
    /\ \E l \in {InstanceOf(x)} :
           log' = [log EXCEPT ![x] = [l EXCEPT !.text = @ + 2, !.owed = @ + 2]]
    /\ Continue(x, <<>>)
    /\ UNCHANGED <<stream, file, history, writeLock, initialized>>

\* The steps that write the text.
WriteText(x) == [i \in 1 .. log[x].text |-> Do("write")] \o <<Do("unlock")>>

\* sync() without the write lock.
MutantSync(x) ==
    /\ Doing(x, "sync")
    /\ Continue(x, IF log[x].blocked = 0 THEN WriteText(x) ELSE <<>>)
    /\ UNCHANGED <<stream, file, log, history, writeLock, initialized>>

\* sync(): unless flushing is disabled, the lock is set, ...
Sync(x) ==
    /\ Doing(x, "sync")
    /\ \/ /\ log[x].blocked > 0
          /\ Continue(x, <<>>)
          /\ UNCHANGED writeLock
       \/ /\ log[x].blocked = 0
          /\ writeLock = {}
          /\ writeLock' = {x}
          /\ Continue(x, WriteText(x))
    /\ UNCHANGED <<stream, file, log, history, initialized>>

\* ... the text is written piece by piece: one for each step before the end, ...
Write(x) ==
    /\ Doing(x, "write")
    /\ \E u \in DOMAIN steps[x] :
           steps[x][u].op = "unlock" /\ last' = <<x, log[x].text + 2 - u>>
    /\ \/ /\ log[x].owed > 0
          /\ log' = [log EXCEPT ![x].owed = @ - 1]
          /\ UNCHANGED broken
       \/ /\ log[x].owed = 0
          /\ broken' = broken \cup {x}
          /\ UNCHANGED log
    /\ Continue(x, <<>>)
    /\ UNCHANGED <<stream, file, muted, writeLock, initialized>>

\* ... the lock is unset and the text is cleared.
Unlock(x) ==
    /\ Doing(x, "unlock")
    /\ writeLock' = {}
    /\ last' = <<>>
    /\ log' = [log EXCEPT ![x].text = 0]
    /\ Continue(x, <<>>)
    /\ UNCHANGED <<stream, file, broken, muted, initialized>>

\* Log::exit(): the storage of this thread is cleared and its Log deleted.
ExitLog(x) ==
    /\ Doing(x, "exit")
    /\ Continue(x, IF IsNull(x) THEN <<>> ELSE DeleteLog)
    /\ UNCHANGED <<stream, file, log, history, writeLock, initialized>>

\* ~Log(), after pubsync()
Delete(x) ==
    /\ Doing(x, "delete")
    /\ log' = [log EXCEPT ![x] = NoLog]
    /\ muted' = IF log[x].text > 0 /\ log[x].blocked > 0 THEN muted \cup {x} ELSE muted
    /\ broken' = IF log[x].text > 0 /\ log[x].blocked = 0 THEN broken \cup {x} ELSE broken
    /\ Continue(x, <<>>)
    /\ UNCHANGED <<stream, file, last, writeLock, initialized>>

\* globals().stream = ...
SetStream(x) ==
    /\ Doing(x, "stream")
    /\ stream' = Argument(x)
    /\ Continue(x, <<>>)
    /\ UNCHANGED <<file, log, history, writeLock, initialized>>

\* delete globals().file; globals().file = ...: what refers to it is dangling.
SetFile(x) ==
    /\ Doing(x, "file")
    /\ file' = Argument(x)
    /\ stream' = IF stream = file THEN Dangling ELSE stream
    /\ log' = [y \in LogThreads |->
                  IF file # NoFile /\ log[y].out = file THEN [log[y] EXCEPT !.out = Dangling]
                  ELSE log[y]]
    /\ Continue(x, <<>>)
    /\ UNCHANGED <<history, writeLock, initialized>>

\* init(): the first call makes the Log of the main thread.
CountInit(x) ==
    /\ Doing(x, "count")
    /\ initialized' = initialized + 1
    /\ Continue(x, IF initialized' > 1 THEN <<>> ELSE Line)
    /\ UNCHANGED <<stream, file, log, history, writeLock>>

\* exit() that does not match: "init/exit call mismatch"
Mismatch(x) ==
    /\ Doing(x, "mismatch")
    /\ initialized' = 0
    /\ Continue(x, <<>>)
    /\ UNCHANGED <<stream, file, log, history, writeLock>>

LogStep(x) ==
    \/ Instance(x) \/ Put(x)
    \/ Sync(x) \/ Write(x) \/ Unlock(x)
    \/ ExitLog(x) \/ Delete(x) \/ SetStream(x) \/ SetFile(x)
    \/ CountInit(x) \/ Mismatch(x)

-------------------------------------------------------------------------------
\* The calls.

LogCall(x, todo) ==
    /\ LogBegin(x, todo)
    /\ UNCHANGED <<stream, file, log, history, writeLock, initialized>>

\* LBERROR << text << std::endl, also of a setOutput( file ) that cannot open its file
Message(x) == log[x].text < MaxText /\ LogCall(x, Line)

\* os << disableFlush, os << enableFlush
SetBlocked(x, b) ==
    /\ LogIdle(x)
    /\ ~IsNull(x)
    /\ log' = [log EXCEPT ![x].blocked = b]
    /\ UNCHANGED <<stream, file, history, writeLock, initialized, steps>>

setOutput(x) == LogCall(x, <<With("stream", Console), Do("exit")>>)
setOutputFile(x, f) == f # file /\ LogCall(x, Redirect(f))

\* lunchbox::init(), without and with --lb-logfile
init(x) == initialized < MaxInits /\ LogCall(x, <<Do("count")>>)
initLogfile(x, f) ==
    initialized < MaxInits /\ f # file /\ LogCall(x, Redirect(f) \o <<Do("count")>>)

\* lunchbox::exit()
exit(x) ==
    /\ initialized' = initialized - 1
    /\ LogBegin(x, CASE initialized' > 0 -> <<>>
                     [] initialized' = 0 -> Reset
                     [] initialized' < 0 -> Reset \o Line \o <<Do("mismatch")>>)
    /\ UNCHANGED <<stream, file, log, history, writeLock>>

-------------------------------------------------------------------------------
Flushing(x) == \E i \in DOMAIN steps[x] : steps[x][i].op \in {"write", "unlock"}

\* Every piece of text of thread x has been written once, or is still in the
\* log of x.
Complete(x) ==
    /\ x \notin broken
    /\ ~Flushing(x) => log[x].text = log[x].owed

\* The end of a line follows its words in the stream: what other threads write
\* does not get into a line.
WholeLines ==
    [][\A x \in LogThreads, i \in 1 .. MaxText + 2 :
          last' = <<x, i>> /\ last # last' /\ i % 2 = 0 => last = <<x, i - 1>>]_logVars
===============================================================================
