# Verification of Lunchbox

Lunchbox is a C++ library of building blocks for multi-threaded programs: locks,
condition variables, queues and vectors shared between threads, thread and thread-pool
classes, futures, and some utilities around them. This directory holds TLA+ models of
its concurrent components, TLC configurations that check them on small instances, and
TLAPS proofs for all instances. Paths below are relative to `src/lunchbox/` unless they
say otherwise.

## 1. Inventory

| Component | State | Operations | What is hard | What makes it correct |
|---|---|---|---|---|
| `SpinLock` (spinLock.cpp) | one atomic integer: -1 writer, n readers | set, trySet, unset and the read variants | compare-and-swap loops of any number of threads | a writer is alone; the count is exact; a free lock is taken |
| `Monitor` (monitor.h) | a value, a mutex, a condition variable | ++, --, \|=, &=, =, set, eight waits, timed waits | lost wakeups, timeouts against changes, wrap-around | no waiter sleeps on a true condition; results tell the truth |
| `LFQueue` (lfQueue.ipp) | a ring, two atomic positions | push, pop, getFront, clear, resize | one reader and one writer without a lock | bounded FIFO; no slot is read while it is written |
| `MTQueue` (mtQueue.ipp) | a deque, a maximum size, a condition variable, a barrier group | push/pop in eleven variants, popBarrier, setMaxSize, assignment | one condition for all waits, a bound that changes, the barrier | the bound holds, no wakeup is lost, workers leave the barrier exactly when all work is done |
| `RequestHandler`, `Request` (requestHandler.cpp, request.h) | table of records, free list, identifier counter | register, unregister, wait, serve, futures over them | timeouts and late answers on reused records | a wait gets the answer of its own request |
| `ThreadPool` (threadPool.cpp) | task queue, stop flag, workers | post, postDetached, worker loop, destructor | one `notify_one` per task outside the mutex; destruction meanwhile | a task never waits beside a sleeping worker; the destructor returns |
| `Thread` (thread.cpp) | a monitored life-cycle state, an identifier, a set of all threads | start, join, cancel, exit, child | a child that ends before its parent looks; failing creation | start tells the outcome; children do not overlap; calls return |
| `LFVector` (lfVector.ipp) | slots of 2^i elements, a size, a lock for writers | push, pop, erase, resize, expand, clear, assign, copy; reads without lock | readers see every intermediate step | what is below the size can be read; growing moves nothing; operations are atomic |
| `IntervalSet` (intervalSet.ipp) | ordered edges of intervals, number of elements | insert, erase, exists, find, iteration, swap, clear | overlapping and touching intervals, the largest element | edges are those of maximal intervals; size and iteration agree with the content |
| `Atomic` (atomic.h) | a value | arithmetic, compare-and-swap, members on two variables | loops around a compare-and-swap | every operation takes effect at one instant |
| `Referenced`, `RefPtr`, `FutureFunction` (referenced.h, refPtr.h, futureFunction.h) | counters, pointers, a function to run once | ref, unref, copy, assignment, destruction, wait | the last two holders at the same time, a pointer inside of what it frees, functions that throw | freed once, by the last holder, never used afterwards |
| `Pool` (pool.h) | a cache of items, a lock | alloc, release, flush | several threads | an item has one owner |
| `Log`, `init`, `TLS`, `PerThread` (log.cpp, init.cpp, tls.cpp) | a buffered stream per thread, a shared output, a counter | write, flush, redirect, init, exit | redirecting while other threads keep the old stream; threads that end | whole lines, each written once, to an open stream |
| `Buffer` (buffer.ipp) | data, size, capacity | resize, append, replace, copy, swap, move, pack | growth arithmetic, failing allocations | content below the size is kept |
| `MemoryMap`, `RNG`, `daemonize` (memoryMap.cpp, rng.cpp, daemon.h) | addresses, sizes, descriptors | map, create, resize, unmap; draw; close the streams | failing system calls; numbers that are given out again | what an object believes to own it owns |
| `PluginFactory`, `DSO` (pluginFactory.ipp, dso.cpp) | plugins, libraries | register, deregister, load, create | libraries of every kind, loaded several times | a registered plugin is in a loaded library |
| saveBinary, loadBinary and the Ascii ones (file.cpp) | a file | save, load | threads that save and load the same file | what is loaded was saved |
| `fork` (fork.cpp) | a child process | split the line, fork, execute | quoting, retries | the child runs the words that were meant |
| `Clock` (clock.cpp) | a start time | reset, set, read | signed arithmetic of seconds and nanoseconds, partly in int | the clock tells the elapsed time |
| Everything else | none, or the operating system's | | | see section 10 |

How they interact: `SpinLock` is the lock behind `ScopedFastRead`/`ScopedFastWrite` in
`RequestHandler`, `LFVector`, `Pool`, `Log` and `Thread`. `Monitor` carries the
life-cycle state of `Thread`. `Request` is a `Future` over a `RequestHandler`, and a
`Future` holds its implementation in a `RefPtr`. `Log` keeps one log per thread in
`PerThread`, over `TLS`, and a `Thread` makes, uses and ends one. Saving and loading use a
`MemoryMap`; memory maps, the random numbers, the log and `daemonize` share the
descriptors of the process. The models use a lock as an
atomic step where the lock itself has been shown to be right: `SpinLock` is proved to
implement `RWLock`, and the critical sections of the other modules rely on that.

`PROJECT.json` lists every component with its source files, and the hazards at their lines.

## 2. How the project is laid out

- A component has a module with its name. What it promises, where that can be said without its data
  structures, is a module of its own: `RWLock`, `BoundedFifo`, `Promises`, `AtomicVariable`.
- `..._proofs` extends the modules of one or several components and holds their theorems.
- `MC...` gives the constants of a run. `MCMTQueueWork` and `ThreadLog` compose components
  that call each other.
- `MCComponents` and `MCSharing` check parts that do not call each other in one run. Their variables are
  disjoint, so that a behaviour of the library projects to a behaviour of each part. The
  variable `focus` is chosen in the initial state and says which part moves; every part is chosen, in
  all of its own initial states.
- Operators called `Mutant...` are plausible mistakes in the operator that follows them; they
  are used to see that a property can fail and are part of no specification.

## 3. Modules

A module has the members of the class as variables, under their names without the
underscore (`_value` of `Monitor` keeps it), and a location or status for each thread. A step is one access to shared
memory where the code takes no lock (`SpinLock`, `LFQueue`, `LFVector`), and one critical
section where it does. Waiting on a condition variable is a state `sleeping` that only
a notification, a spurious wakeup or a timeout ends.

**SpinLock** (refines **RWLock**). `TrySet`, `LoadRead`/`TrySetRead`, `Unset` and
`LoadUnread`/`UnsetRead` are the loads and swaps of spinLock.cpp; `retry` tells `set()`,
which repeats, from `trySet()`, which returns. A thread that nests two read locks is two
members of `Threads`.

**AtomicLoops** (refines **AtomicVariable**). `AtomicVariable` has the operations as GCC's instructions
execute them: one access each, and two for the members that name two variables.
`AtomicLoops` has the other branch of atomic.h: `LoadOld` and `TrySwap` are the two accesses
of an iteration. Values are signed and wrap around at `Width` bits.

**LFQueue** (refines **BoundedFifo**). push() is test, write, publish; pop() is test,
copy, advance. The modulo of the positions is the code's. clear() stores two positions in
two steps, while the writer is outside of push() (see section 7). resize() needs both
threads outside, as documented. Capacity 0 is included.

**MTQueue**. A call is a record (operation, queue, arguments) and is executed by one action
per operation. `Ready` is the predicate each operation waits for, with `size_t` arithmetic modulo
`SizeMod`. operator= takes its snapshot and stores it in two steps, as the code does under
two mutexes. `popBarrier` counts in `waiting` and goes on as `inBarrier`. `MCMTQueueWork`
composes the queue with workers that push what they find in the items they pop: the use
that tests/mtQueue.cpp makes of popBarrier(). `SetHeight` is defined for completeness but
taken by no specification: it takes no mutex and wakes nobody (section 7).

**RequestHandler** (refines **Promises**). One thread registers, waits and unregisters, one
serves, as the class demands. The table, the free list and the identifier counter, which
wraps around at `MaxUint32`, are those of requestHandler.cpp. The code overwrites the entry of an identifier that is still in
use; the specification assumes that this does not happen within 2^32 - 1 requests (`FreshID`). What is done with a
record outside of the table's lock is a step of its own. `Request` futures are the variables
`state` and `value`. `LateSpec` also unregisters requests that the server has looked up
already.

**ThreadPool**. Workers wait, take, run; posters (clients and running tasks) enqueue and
then notify in a second step. The destructor sets `_stop`, notifies all and joins.
`current` and `done` follow the tasks.

**Thread**. One owner, and one child per successful pthread_create(). Actions are the
segments of start(), join() and cancel() between accesses to the monitored state, and
those of the child. pthread_create() and init() may fail.

**Monitor**. `NewValue` gives the value after each operation at a width of bits, `Bool`
the specialisation, whose -- is the code's. `Change` changes and notifies all, `Sleep`
and `WaitReturn` are the two outcomes of a predicate; `Expire` ends a timed wait. `Compare` and
`Read` are the operators that leave the value alone; only the left monitor of a comparison is locked.

**LFVector**. Slot s has 2^s elements. `Push` creates a slot if need be and writes the
element, `PushSize` makes it visible; erase() decrements first and then moves one element
per step. Deleted slots are `Null`, so a reader of a deleted element would be seen. Stores
become visible in the order of the code, which is what the x86 architecture provides: the size is a
plain member. Elements are of a class whose default value is `Default`.

**IntervalSet**. The multiset of edges is a sequence; the loops of insert() and erase() are folds
over the edges they pass. Values and sizes wrap around at `Width` bits. Sequential: one operation
is one step. `content` is the set of the elements that should be there. The sets that
swap() or insert(IntervalSet) have left wrong are remembered in `spoilt` and cleared
before anything else is done (section 7).

**RefCount** (Referenced, RefPtr, FutureFunction, Lockable). A call puts the accesses it
makes to the counter and to pointers in `todo`, and a destructor puts its own in front of them, so
that other threads come in between everywhere. Threads have pointers of their own; one
more is shared in a `Lockable`. Objects may hold each other in a member. The function of a
future may throw.

**Pool**. The lock and the accesses to the cache are separate steps.

**Log** and **ThreadLog**. A log is its stream, the number of pieces of text it holds and its
flush counter; a line is two pieces, the words and the end. `Dangling` is the stream of a log
whose output was deleted. A call puts its steps in `steps`: making the log, writing, taking and
leaving the write lock, replacing the output, ending the log. `ThreadLog` composes this with
`Thread`: children make their log in setName(), tell about init(), log in run(), and end the log
in exit(); the main thread redirects the log, calls init() and exit() when the Thread object
says it is stopped.

**Buffer**. A block is a sequence of cells that may be `Garbage`. `want` is the sequence that
the comments of buffer.h promise. Allocations may fail; the code does not test for that. The assertions of append() and
replace() are preconditions.

**MemoryMap**. Descriptors are given out lowest first, addresses are any that is free, so that
what is given back twice is somebody else's. ftruncate() and mmap() may fail. The descriptor of
the random numbers and those of the standard streams are in the same table.

**PluginFactory**. A library has one of ten kinds (what each step of loading it does, and whether it registers a
plugin while it is opened), and all combinations are tried. `open` counts the handles.
`strayed` remembers calls into unloaded libraries.

**SavedFiles**. A save sizes the file, writes the identifier, writes the data; a load maps,
tests, reads. Threads interleave; `alone` has those whose call no other one has disturbed, and `saved` the object
of the last save if it is one of these. **CommandLine** has the tokenizer of fork.cpp as a
fold over characters of four kinds, and the child process with its ten tries. **Clock** has the arithmetic of
clock.cpp in scaled units, with conversions that round towards zero. set() computes in int: `AsInt` is the
conversion modulo the width, and a sum or product that does not fit is either exact or wrapped (`IntResults`).

## 4. Runs

| Run | Instance | Shows |
|---|---|---|
| `monitor` | 3 threads, a two-bit and a bool monitor, 18 calls | no lost wakeup, truthful results, nobody waits for ever on a condition that stays true |
| `sharing` | lock: 3 threads; atomic: 2 threads, 2 variables of two bits; thread: up to 3 starts, 3 tries of pthread_create() | the loops of the lock implement `RWLock`, and a free lock on which somebody spins is taken (`SomebodyGetsIn`); the loops of `Atomic` implement atomic operations; start() tells the outcome, children do not overlap, join() waits, calls return |
| `mtqueue` | 3 threads (symmetric), 2 queues, sizes 1 and 2, all operations but setHeight() | `SizeBound` while the bound changes, `NoLostWakeup` |
| `mtqueue_work` | 3 workers, a tree of 7 items, a queue of 3 | FIFO order over all threads, vectors stay together, nobody leaves early, all leave (`AllAbort`), the code's assertion at mtQueue.ipp:191 |
| `request_handler` | 3 requests, 2 records, 2 identifiers | records are not shared or lost, a wait returns the answer of its own request, `Promises` is implemented, waits return |
| `request_late` | the same, `LateSpec` | violation of `ResultOfServed`, section 6 |
| `threadpool` | 3 workers, 2 clients, 5 tasks of which one posts two | `WakeupsSuffice`, tasks of a living pool run, the destructor returns |
| `threadpool_drain` | the same | violation of `DestructorWaitsForTasks`, section 6 |
| `thread_log` | a Thread started twice, 2 tries of pthread_create(), one cancellation, 2 files, 2 pieces of text | nobody writes to a deleted stream, no text is lost or doubled and all of it is written when join() returns, lines stay whole; exceptions in section 7 |
| `lfvector` | 2 threads, vectors of 3, 3 and 1 slots, 13 calls | reads are safe, growing moves nothing, removed elements are reset, operations are atomic, locks are given back |
| `components` | see below | the parts that do not call each other |
| `plugins` | 2 libraries, 2 directories | violation of `DeregisteredIsGone`, section 6 |

The parts of `components`:

| Part | Instance | Shows |
|---|---|---|
| LFQueue | capacities 0, 1, 3, two values besides zero | `NoSlotRace`, and the ring is a bounded FIFO |
| RefCount | 2 threads, 2 and 1 pointers, a shared one, 2 objects, 1 throw | `LivesWhileHeld`: the counter is exact, objects are freed once, by the last holder, and not used afterwards; `FunctionRunsOnce` |
| IntervalSet | three-bit elements, two sets | `SetIsExact`: the edges are those of maximal intervals; size, search and iteration agree with the content |
| Pool | 2 threads, 3 items | `ItemsHaveOneOwner` |
| Buffer | 2 buffers, sizes to 2, growth by a half, 1 failure | `BufferIsSequence`: the promised content through any sequence of calls |
| MemoryMap | 2 maps, 1 file, 3 descriptors, 1 failure | `MapsOwnWhatTheyUse`: exceptions in section 7 and no others |
| PluginFactory | 2 libraries of 10 kinds each, one plugin of the application | `PluginsAreLoaded` |
| SavedFiles | 2 threads, 2 types and text, objects of 1 and 2 units | `LoadedIsSaved` |
| CommandLine | up to 2 words of up to 2 characters, two ways of writing | `CommandIsExecuted` |
| Clock | seconds of 4 milliseconds of 4 nanoseconds, an int of 7 bits | `ClockTellsTime` |

Why the bounds are enough: three threads give every lock and condition a holder, a waiter
and a third that interferes with the handover. Queue sizes 1 and 2 are reached, exceeded by
vectors and changed while somebody waits. The tree of items does not fit in the queue of the
workers, so pushes block. Two records and two identifiers for three requests force
reuse and wrap-around. Five tasks for three workers leave some of them queued. Vectors of three slots
cross two slot borders and run full. Three bits let intervals touch, overlap, contain each
other and reach the largest value. Two starts let a second child log while the first has left its
log behind, and two files let an output be replaced by another one and made again. Two objects let one hold the
other in a member; three pointers and a shared one let the last two holders drop at
once. Two buffers copy, swap and move; a growth of a half at sizes up to 2 has capacities that are
reached and exceeded. Two maps and three descriptors make the second object get what
the first gave back. Two-bit values overflow. Instants reach over two seconds, and the
clock is set to times on both sides of zero, of a second, and of the limits of what fits an int. Timeouts and spurious
wakeups happen at any time.

The type invariants of `Monitor`, `Thread`, `RequestHandler`, `LFVector` and `IntervalSet` are checked as a
conjunct of `WaitTellsTruth`, `JoinWaitsForExit`, `RecordsAccounted`, `ReadsAreSafe` and `SetIsExact`; those of `SpinLock`, `LFQueue`, `MTQueue`, `ThreadPool` and `Pool`
are proved, and so are those of `Thread` and `RequestHandler`.

All runs but the three violations are exhaustive: `thread_log` has about 4.1 million distinct states,
`components` 1.5 million, `monitor` 380,000, `sharing` 200,000, `mtqueue_work` 2,400.

Deadlock is checked in `mtqueue_work` and `lfvector`. In
the others the program may rightly stop: all clients are done, or every thread
waits for a condition that nobody makes true, or a part has reached its bounds.

## 5. Fairness

Every thread that is inside of an operation and not blocked is scheduled eventually (weak
fairness of its own steps). The code assumes no more of the system's scheduler. In
addition: holders of a `SpinLock` release it (all uses are scoped), init() and run() of a
`Thread` end, the server of requests serves what it is told to, and tasks of a pool end. No
operation has to be called, no wakeup has to be spurious, no timeout has to happen, the
pool need not be destroyed. Weak fairness makes no promise to one particular waiter:
`SomebodyGetsIn` says that the lock is taken, not by whom, since spinning threads may starve.

## 6. Findings shown by a run

- `request_late`: unregisterRequest() after a timeout puts the record into the free list in
  whatever state its lock is (requestHandler.cpp:127). If the server has served it or serves it later,
  the next request gets an unlocked record, and its wait returns true at once with an old result. requestHandler.h:98
  says "true if the request was served", and :79-80 offers unregisterRequest() for
  this case: "This method is only used when a waitRequest has timed out and the request will no
  longer be used." `request_handler` shows that all is well if the server has not yet
  looked the request up.
- `threadpool_drain`: a worker returns when `_stop` is set without looking at the queue
  (threadPool.cpp:69). threadPool.h:52 says "Will block until all the tasks are done."
- `plugins`: Plugin::operator== compares the addresses of its members (plugin.h:79), and the list holds copies, so
  deregister() finds nothing. pluginFactory.h:81 says "Deregister a plugin type."

## 7. Other disagreements met while modelling

They are outside of what the runs take for granted; the assumption is named in each case.

- **LFQueue::clear()** is for the reader (lfQueue.ipp:23) and stores the writer's position. Schedule: the queue
  holds one element; push() has tested and written slot 1; clear() sets both positions to 0; push() stores
  2 as the write position. The queue now holds the element that was cleared, and the new one.
  lfQueue.h:30 says "A thread-safe, lock-free queue", and only resize() is excepted (lfQueue.h:64).
  Assumed: clear() while the writer is outside of push().
- **MTQueue::push(vector)** compares the vector with the maximum size once (mtQueue.ipp:240). After a
  setMaxSize() below the vector's length it waits for ever, even on an empty queue; mtQueue.h:39-40: "When the capacity is reached,
  pushing new values blocks until items have been consumed."
- **MTQueue::Group::setHeight()** (mtQueue.ipp:175) takes no mutex and notifies nobody: two workers of three wait in
  popBarrier(), the third sets the height to 2 and goes away, and the two sleep on although their predicate is true.
  Assumed: the height is constant.
- **Thread::cancel()** sets STATE_STOPPING before the child has ended (thread.cpp:224), for which join() then
  does not wait; thread.h:116: "Wait for the exit of the child thread." Assumed: the
  owner starts a thread again only when a canceled child has ended.
- **Thread::start()** leaves STATE_STARTING behind when pthread_create() fails for good (thread.cpp:192-196), so that
  isStopped() is false. tests/thread.cpp:99-101 expects a thread whose start failed (there, in init()) to be stopped.
- **Monitor\<bool\>::operator--** sets the value to true (monitor.h:427-434), under the comment "Decrement the monitored
  value" (monitor.h:82).
- **IntervalSet::swap()** leaves the sizes where they are ("Swap this container with another one", intervalSet.h:63), and
  **insert(IntervalSet)** passes the type of an edge as the end of an interval ("Insert another interval set into
  this", intervalSet.h:51). A set of all values has size 0, since the count wraps around.
- **LFVector::erase(iterator)** tests the position before it takes the lock (lfVector.ipp:249). Schedule: two
  elements; t1 calls erase at position 1 and passes the test; t2 calls pop_back(); t1 takes the lock, decrements the size to 0,
  moves nothing, resets element 0 and returns position 1. lfVector.h:175-177 promises end() if the iterator
  is past the end. Setting `ErasesAlone` to FALSE in `MCLFVector.cfg` shows it as a violation of `OperationsAreAtomic`. Assumed: nobody else removes
  elements between the test and the lock.
- **LFVector::operator=** deadlocks on concurrent a = b and b = a, as its comment says (lfVector.ipp:95), and does not reset
  the elements behind the size of a shorter source. Assignment in one direction is assumed. The converting copy into fewer slots drops what does not fit.
- **Log**: setOutput() and reset() delete the stream that the logs of other threads still refer to (log.cpp:385, 416).
  Assumed: the application does this when its threads have ended, which `StreamsAreOpen` shows to be enough for
  threads that end in Thread::exit(). A child whose init() fails announces STATE_STOPPED before it ends its log
  (thread.cpp:149), and a canceled one does not end it; both are excepted.
  forceFlush() does nothing while flushing is disabled (log.cpp:263), against "Flush the Log
  stream regardless of the auto-flush state" (log.h:172); text dropped in this way is excepted from
  `LogIsComplete`, and so are canceled threads.
- **FutureFunction::wait()** does not clear a function that throws (futureFunction.h:47). It is called
  again, and if the destructor does it, the exception terminates the program. `FunctionRunsOnce` counts the calls that return.
- **Buffer**: a failed realloc() is not noticed (buffer.ipp:82): the data is lost and the size is the new one. append() of an element of the
  buffer itself reads it after the block may have moved (buffer.ipp:120). The copy assignment from an empty buffer calls
  replace(), which asserts that there is data (buffer.ipp:57, 133-134): a debug build aborts, a release build
  leaves an empty buffer. The copy constructor tests for that (buffer.ipp:27; tests/buffer.cpp:23 copies an empty buffer in this way).
  `BufferIsSequence` excepts buffers after a failure, promises nothing about an own element that was appended
  while the block was reallocated, and takes no step that fails an assertion.
- **MemoryMap::resize()** unmaps first and keeps the old address and size if ftruncate() fails (memoryMap.cpp:173);
  memoryMap.h:120-121: "On error, the existing map is unmapped." A later unmap() then removes what another object
  has mapped there. A failed ftruncate() in create() loses the descriptor. `MapsOwnWhatTheyUse` excepts just these (`stale`, `torn`, `leaked`).
- **daemonize()** closes the standard streams (daemon.h:62), so that the next file gets their descriptors and the
  lines of the log. **RNG** keeps the number of a descriptor that its exit handler has closed (rng.cpp:119).
- **PluginFactory::load()** closes a library that it refuses although the library has registered its plugin while it was
  opened (pluginFactory.ipp:154); `PluginsAreLoaded` shows that this is the only way to a plugin without its library.
- **saveBinary()** throws where file.h:104 promises a boolean, and leaves a file that it has already cut or enlarged (file.cpp:255).
  The identifier is written before the data (file.cpp:259), so that a concurrent load accepts half a file.
  `LoadedIsSaved` is about loads and saves that were not disturbed.
- **fork()** loses an empty last argument (fork.cpp:84), and no other.
- **Clock::getTime64()** adds half a millisecond before a conversion that rounds towards zero (clock.cpp:167). While the difference of the
  nanoseconds is negative it rounds up instead of to the nearest; `ClockTellsTime` states the exact bounds.
- **Clock::set()** takes an int64_t of milliseconds (clock.h:55) and computes in int (clock.cpp:98, 100): from 2147483000 milliseconds (24.8 days) on, and from
  -2147485000 down, `sec * 1000` overflows, and later the conversion to seconds does, so that the clock shows another time until it is reset or set
  again. `ClockTellsTime` is about the times that fit (`Fits`); the run sets the clock to times on both sides of the limits.

## 8. Theorems

All proofs are for arbitrary constants under the assumptions named in the modules:
sets of threads and of memory maps that are finite where they are counted, sizes and capacities that are natural numbers (and fit into
`size_t`), calls with well-formed arguments, one queue per barrier group, positive height, units of time that are
positive, an int that holds two seconds of nanoseconds, a text that is no type of object, files that are neither the console nor a mark for none,
and a log for each child and for the main thread.

| Module | About | Theorems | Inductive invariant |
|---|---|---|---|
| `Sharing_proofs` | `SpinLock` | `TypeCorrect`, `MutualExclusionHolds`, `StateCountsHoldersHolds`, `Refinement` | the properties, and `ExpectedOK`: what a thread is about to compare with is a possible count, and not the writer's mark when a reader swaps |
| | `AtomicLoops` | `LoopsAreAtomic` | none: in every state a load is a stutter, a failed swap is a stutter, and a successful one is the whole operation, since the value is what was loaded |
| | `Monitor` | `NoLostWakeupHolds`, `WaitOutcomeHolds` | the property and the shape of the functions |
| | `ThreadPool` | `PoolTypeCorrect`, `WakeupsSufficeHolds`, `StopWakesAllHolds` | the three properties together |
| `Containers_proofs` | `LFQueue` | `TypeCorrect`, `NoSlotRaceHolds`, `Refinement` | `WriterOK`: between test and publication the next position differs from the reader's and the slot holds the element; `ReaderOK`: between test and advance the queue is not empty |
| | `Pool` | `OwnersHold` | the property, `Locked`: who is inside of a scope has the lock, `PopOK`: what was read is still the last item when it is removed, `ReleaseOK`: what is being released is in no other place, `Numbered`: new items are new |
| | `Buffer` | `BufferIsSequenceHolds` | `BlockOK`: the block has the cells that the buffer believes to have, and the size is within them; `Keeps`: the first of them are those that the user counts on |
| `MTQueue_proofs` | `MTQueue` | `TypeCorrect`, `SizeBoundHolds`, `NoLostWakeupHolds` | the properties, well-formed calls, and `BarrierCount`: the threads inside of popBarrier() are counted in `waiting` |
| `MTQueueWork_proofs` | the workers of `MCMTQueueWork` | `AbortOnlyWhenDoneHolds`, `VectorsStayTogetherHolds`, `FifoOrderHolds` | `Counts`: `waiting` is the number of workers in the barrier or out of it for good; `Accounted`: a child of a processed item has been pushed or is with a worker that will; `WorkerOK`: a worker in the barrier carries nothing; `Done`: after the first has left, the queue stays empty and the others stay in the barrier |
| `RequestHandler_proofs` | `RequestHandler` | `RecordsAreAccounted`, `ReadsAreCurrent`, `Refinement` | `FuturesRegistered`: table and unresolved futures are inverse to each other; `LocksOK`: a record is locked until it is served and while it is free; `WaiterOK`, `ServerOK`: the record that a thread holds outside of the table's lock still is that of its request; `HistoryOK`: what the server has not looked up it cannot mistake for a later request |
| `Thread_proofs` | `Thread` | `StartTellsOutcomeHolds`, `JoinWaitsForExitHolds` | `LastChild`: only the child with the current identifier may be active; `StateOfChild`: the monitored state tells how far that child has got, unless it was canceled; `StartOK` and `JoinOK`: what the owner has read stays true until its call returns |
| with `Log_proofs` | `ThreadLog` | `StreamsAreOpenHolds`, `LogIsCompleteHolds`, `WholeLinesHolds` | that of `Thread`; `LogOK`: the pending steps of every thread come in a possible order, agree with its text and with the write lock, and the streams are those of `FileOK` and `StreamOK`; `ChildOK`: a child has no log before it starts nor after exit(); `Alone`: there is no child while the main thread redirects |
| `Services_proofs` | `Clock` | `ClockTellsTimeHolds` | `ClockInv`: the start, taken as an instant, is as far back as the time since the last lap, unless the clock was last set to a time that does not fit an int; `SetFits`: otherwise set() overflows nowhere, because an int holds two seconds of nanoseconds |
| | `SavedFiles` | `LoadedIsSavedHolds` | `SaverOK`, `LoaderOK`: as long as nobody disturbs a call, the file is as that call left it or found it; `SavedOK`: the file holds the object of the last undisturbed save |
| | `MemoryMap` | `MapsOwnWhatTheyUseHolds` | `FdsOK`, `UsersOK`: a mapped object, the generator and the standard stream have different descriptors, and every open one belongs to one of them or is leaked; `StreamsOK`: that of the stream is nobody else's before daemonize(); `RegionsOK`: mappings and objects that have them are inverse to each other |

The arguments: a swap succeeds only if the count is what the thread has read, which by
`ExpectedOK` allows the step, so the holders and the count change together. In the ring, the
writer's next position and the reader's position can only meet when the other side has seen
the queue full or empty, so each side's test stays true until its own store; publication
appends to the contents and advancing removes their head, which is the step of the
abstract queue. In the queue and the monitor each change that can make a predicate true
notifies all who wait for it, and a change that notifies nobody leaves the predicates of the
sleeping threads false (`ReadyStable`, `StillFalse`). In the pool of threads, if somebody
sleeps, there are at most as many queued tasks as notifications under way and awake workers before their
predicate: posting adds to both sides, taking removes from both.

The workers of a queue: when popBarrier() returns false for the first time, the count is the number of
workers, so all are in the barrier, none carries an item, and the queue is empty. By
`Accounted` the processed items contain the root and are closed under children. That these
are all items needs induction; it is proved from the least item that would be missing
(`Least`, `ClosedIsComplete`), whose parent is smaller and thus processed.
A step adds one pushed vector to what has passed the queue, or nothing (`Grows`), from which the order and
the neighbourhood of the elements of a vector follow.

The request handler: the record of an unresolved request is unregistered by its own wait only,
after it was served, so the server's and the waiter's pointers to it stay valid between two
locks. This holds because a request that timed out is unregistered before the server looks
it up; without that restriction it fails, which `request_late` shows. The steps that implement those of `Promises`
are the registration, the server's unlock, the unregistration that ends a wait, and the one that gives a
request up; all others stutter.

The theorem about `Monitor`'s waits states the action `WaitOutcome`. The run's property
`WaitTellsTruth` adds that values stay in their range, which TLC checks: the bit operations are folds.

The log: `Log_proofs` has lemmas about one step of one thread, for any set of threads that
were canceled (`X`) or have left their log behind (`A`). A flush is a run of `write` steps with one `unlock` at its end; while it is in
the pending steps of a thread, that thread has the write lock, the number of `write` steps is what is still owed of its text, and `last` is the
piece before the next one (`Flushes`). Since the lock is exclusive, `last` is a piece of the same
thread when the next one is written: lines stay whole, and nothing is written twice. Outside of a
flush all text is owed (`Rests`). A stream dangles when its file is deleted. setOutput() has by
then set the new output and ended the log of the main thread (`FileOK`, `FirstOK`), so that only another
thread could still refer to the file. This is where the threads come in (`Quiet`): by `Alone` and `StateOfChild`, when
the Thread object says that it is stopped, every child has ended, and by `ChildOK` one that has ended with exit() has no log. The
latter rests on the order within Thread::exit(), in which the log goes before STATE_STOPPING is announced; `MutantChildExits`
has them the other way round, and the step fails.

The memory map: a descriptor is closed, and a mapping removed, by its number alone, so an object can lose
what it has only by another one that gives back the same number. A new descriptor is the lowest
that is free (`LeastFd`, `FreeFdIsFree`), hence nobody's; the only numbers that are used without being owned are the address that a failed resize()
has left behind (`stale`; what is lost by it is `torn`), and the generator's copy of its descriptor after the exit handler.
daemonize() closes the descriptor of the stream, which before that call is nobody else's.

## 9. What is only model-checked

Liveness under fairness (`SomebodyGetsIn`, `AllAbort`, `WaitReturns`, `PostedIsRun`,
`DestructorReturns`, `OwnerReturns`, `WaitersReturn`, `LockIsReleased`) is beyond the proof system. The
safety properties of `LFVector`, `RefCount`, `IntervalSet`, `PluginFactory` and `CommandLine`
have no proof. `LFVector` needs facts about powers of two, and the folds of `IntervalSet`, `CommandLine` and `PluginFactory`
over their inputs need induction over data; the provers do neither. The inductive invariant of
`RefCount` has not been worked out: it has to say, for every sequence of pending steps, nested destructors
included, which of them will give back which reference, and count them.

## 10. What is not modelled

- `PerThreadRef` calls ref() and unref() of a RefPtr, which RefPtr does not have; nothing instantiates it.
- `Thread`: affinity and yield() only call the operating system. The dump of all threads by signals depends on
  signal handlers that run in the middle of any step, which no lock of the library protects against.
- `Sleep` and the functions of time.cpp are calls of the system; timeouts are nondeterministic in the models.
- `Log`: levels, topics, headings, indentation and names. The models have the level of a debug build.
- `Result` and `VisitorResult` have no state that changes. `Any`, serialisation: data without a protocol.
- File names, backtraces, the terminal: calls of the system around text.
- Wrappers of Servus and of the standard library: the code is elsewhere.
- The Windows branches, and atomic.cpp, which maps the operations to instructions of Windows that do what those of `AtomicVariable` do.
- The holders that LUNCHBOX_REFERENCED_DEBUG records, and what LUNCHBOX_TS_THREAD checks.
- Weak memory orders: the atomics of the library are
  sequentially consistent, and the plain members of `LFVector` are assumed to be stored in order.
- Of the compositions: requests that travel in an `MTQueue`, and `Thread` over the steps of `Monitor` (its state changes in one step,
  which the theorem about `Monitor` justifies for the waits).
