-------------------------------- MODULE MTQueue -------------------------------
(***************************************************************************)
(* lunchbox::MTQueue (mtQueue.h, mtQueue.ipp): a bounded queue shared by   *)
(* any number of threads, guarded by one mutex and one condition variable. *)
(*                                                                         *)
(* A critical section of the mutex is one step.  A call whose wait         *)
(* predicate is false releases the mutex and sleeps on the condition; a    *)
(* notify_all, a timeout or a spurious wakeup makes it compete for the     *)
(* mutex again and re-test the predicate.  Vector arguments, popped ranges *)
(* and snapshots are sequences of Values; size_t arithmetic is modulo      *)
(* SizeMod.                                                                *)
(***************************************************************************)
EXTENDS Integers, Sequences, FiniteSets

CONSTANTS
    Threads,
    Queues,         \* the MTQueue objects
    Values,         \* the elements
    MaxSizes,       \* the values passed for maxSize
    SizeMod,        \* number of values of size_t
    Calls,          \* the calls the threads make
    Height          \* height_ of the popBarrier() group

Ops == {"none", "push", "pushFront", "pushVector", "pushFrontVector", "pop", "timedPop",
        "timedPopRange", "tryPop", "tryPopRange", "popBarrier", "inBarrier",
        "at", "getFront", "getBack", "waitSize", "setMaxSize", "clear",
        "assign", "assignStore"}

\* A call of operation op on queue q.  n and m are its numeric arguments, v
\* its elements, from the right-hand side of an assignment.
CallRecords == [op : Ops, q : Queues, from : Queues, n : Nat, m : Nat,
                v : Seq(Values)]

\* The call of a thread that is in none of the operations.
AnyQueue == CHOOSE q \in Queues : TRUE
NoCall == [op |-> "none", q |-> AnyQueue, from |-> AnyQueue, n |-> 0, m |-> 0,
           v |-> <<>>]

ASSUME MaxSizesAssumption == SizeMod \in Nat /\ MaxSizes \subseteq 0 .. SizeMod - 1
ASSUME CallsAssumption ==
    /\ Calls \subseteq CallRecords
    /\ \A c \in Calls : c.op \notin {"none", "inBarrier", "assignStore"}
    /\ \A c \in Calls : c.op = "setMaxSize" => c.n \in MaxSizes
    /\ \A c \in Calls : c.op \in {"push", "pushFront"} => Len(c.v) = 1
    /\ \A c, d \in Calls : c.op = "popBarrier" /\ d.op = "popBarrier" => c.q = d.q
ASSUME QueuesAssumption == Queues # {}
ASSUME ThreadsAssumption == IsFiniteSet(Threads)
ASSUME HeightAssumption == Height \in Nat \ {0}

VARIABLES
    queue,      \* queue[q]: q._queue
    maxSize,    \* maxSize[q]: q._maxSize
    status,     \* status[t]: idle, awake, sleeping, expired (timed out)
    call,       \* call[t]: the call t is in
    got,        \* got[t]: the elements the last call returned
    height,     \* the group of popBarrier(): height_
    waiting     \* the group of popBarrier(): waiting_

vars == <<queue, maxSize, status, call, got, height, waiting>>

Init ==
    /\ queue = [q \in Queues |-> <<>>]
    /\ maxSize \in [Queues -> MaxSizes]
    /\ status = [t \in Threads |-> "idle"]
    /\ call = [t \in Threads |-> NoCall]
    /\ got = [t \in Threads |-> <<>>]
    /\ height = Height
    /\ waiting = 0

-------------------------------------------------------------------------------
\* The wait predicates, evaluated under the mutex.

Smaller(x, y) == IF x < y THEN x ELSE y

\* ( _maxSize - _queue.size( )) >= elements.size( ), in size_t
FitsVector(q, v) == (maxSize[q] - Len(queue[q])) % SizeMod >= Len(v)

Ready(c) ==
    /\ c.op \in {"push", "pushFront"} => Len(queue[c.q]) < maxSize[c.q]
    /\ c.op \in {"pushVector", "pushFrontVector"} => FitsVector(c.q, c.v)
    /\ c.op = "setMaxSize" => Len(queue[c.q]) <= c.n
    /\ c.op \in {"waitSize", "timedPopRange"} => Len(queue[c.q]) >= c.n
    /\ c.op = "at" => Len(queue[c.q]) > c.n
    /\ c.op \in {"pop", "timedPop"} => queue[c.q] # <<>>
    /\ c.op = "inBarrier" => queue[c.q] # <<>> \/ waiting >= height

\* Thread t has the mutex of its queue, and its predicate holds.
Runs(t, ops) ==
    /\ status[t] \in {"awake", "expired"}
    /\ call[t].op \in ops
    /\ Ready(call[t])

\* t leaves its call with the elements e, after _condition.notify_all().
ReturnNotify(t, e) ==
    /\ status' = [u \in Threads |->
                    IF u = t THEN "idle"
                    ELSE IF status[u] = "sleeping" /\ call[u].q = call[t].q
                         THEN "awake" ELSE status[u]]
    /\ got' = [got EXCEPT ![t] = e]
    /\ call' = [call EXCEPT ![t] = NoCall]

\* t leaves its call with the elements e and notifies nobody.
Return(t, e) ==
    /\ status' = [status EXCEPT ![t] = "idle"]
    /\ got' = [got EXCEPT ![t] = e]
    /\ call' = [call EXCEPT ![t] = NoCall]

SetQueue(t, s) == queue' = [queue EXCEPT ![call[t].q] = s]

-------------------------------------------------------------------------------
\* Calls and the condition variable.

\* The asserts on the arguments are what the caller has to respect:
\* waitSize() and the vector variants of push() and pushFront() need a size
\* that fits.  A Group is used by height_ threads, and "can only be used once".
Contract(c) ==
    /\ c.op = "waitSize" => c.n <= maxSize[c.q]
    /\ c.op \in {"pushVector", "pushFrontVector"} => Len(c.v) <= maxSize[c.q]
    /\ c.op = "popBarrier" =>
        /\ waiting < height
        /\ Cardinality({u \in Threads : call[u].op \in {"popBarrier", "inBarrier"}}) < height

Call(t, c) ==
    /\ status[t] = "idle"
    /\ Contract(c)
    /\ call' = [call EXCEPT ![t] = c]
    /\ status' = [status EXCEPT ![t] = "awake"]
    /\ got' = [got EXCEPT ![t] = <<>>]
    /\ UNCHANGED <<queue, maxSize, height, waiting>>

\* _condition.wait() and wait_for() with a false predicate.
Sleep(t) ==
    /\ status[t] = "awake"
    /\ ~Ready(call[t])
    /\ status' = [status EXCEPT ![t] = "sleeping"]
    /\ UNCHANGED <<queue, maxSize, call, got, height, waiting>>

SpuriousWakeup(t) ==
    /\ status[t] = "sleeping"
    /\ status' = [status EXCEPT ![t] = "awake"]
    /\ UNCHANGED <<queue, maxSize, call, got, height, waiting>>

Expire(t) ==
    /\ status[t] = "sleeping"
    /\ call[t].op \in {"timedPop", "timedPopRange"}
    /\ status' = [status EXCEPT ![t] = "expired"]
    /\ UNCHANGED <<queue, maxSize, call, got, height, waiting>>

-------------------------------------------------------------------------------
\* The operations.

\* push() that inserts the vector in front of the queue.
MutantPush(t) ==
    /\ Runs(t, {"push", "pushVector"})
    /\ SetQueue(t, call[t].v \o queue[call[t].q])
    /\ ReturnNotify(t, <<>>)
    /\ UNCHANGED <<maxSize, height, waiting>>

\* push() of a vector that inserts its elements in several critical sections.
MutantPushOneByOne(t) ==
    /\ Runs(t, {"push", "pushVector"})
    /\ SetQueue(t, Append(queue[call[t].q], Head(call[t].v)))
    /\ \/ Len(call[t].v) = 1 /\ ReturnNotify(t, <<>>)
       \/ /\ Len(call[t].v) > 1
          /\ call' = [call EXCEPT ![t].v = Tail(call[t].v)]
          /\ UNCHANGED <<status, got>>
    /\ UNCHANGED <<maxSize, height, waiting>>

Push(t) ==
    /\ Runs(t, {"push", "pushVector"})
    /\ SetQueue(t, queue[call[t].q] \o call[t].v)
    /\ ReturnNotify(t, <<>>)
    /\ UNCHANGED <<maxSize, height, waiting>>

PushFront(t) ==
    /\ Runs(t, {"pushFront", "pushFrontVector"})
    /\ SetQueue(t, call[t].v \o queue[call[t].q])
    /\ ReturnNotify(t, <<>>)
    /\ UNCHANGED <<maxSize, height, waiting>>

\* pop() that wakes nobody, as if only push() had waiters.
MutantPop(t) ==
    /\ Runs(t, {"pop", "timedPop"})
    /\ SetQueue(t, Tail(queue[call[t].q]))
    /\ Return(t, <<Head(queue[call[t].q])>>)
    /\ UNCHANGED <<maxSize, height, waiting>>

Pop(t) ==
    /\ Runs(t, {"pop", "timedPop"})
    /\ SetQueue(t, Tail(queue[call[t].q]))
    /\ ReturnNotify(t, <<Head(queue[call[t].q])>>)
    /\ UNCHANGED <<maxSize, height, waiting>>

\* timedPop() and timedPopRange() re-test their predicate after the timeout.
TimedOut(t) ==
    /\ status[t] = "expired"
    /\ ~Ready(call[t])
    /\ Return(t, <<>>)
    /\ UNCHANGED <<queue, maxSize, height, waiting>>

\* Takes the first k elements.
TakeFront(t, k) ==
    LET s == queue[call[t].q]
    IN  /\ SetQueue(t, SubSeq(s, k + 1, Len(s)))
        /\ ReturnNotify(t, SubSeq(s, 1, k))

TimedPopRange(t) ==
    /\ Runs(t, {"timedPopRange"})
    /\ TakeFront(t, Smaller(call[t].m, Len(queue[call[t].q])))
    /\ UNCHANGED <<maxSize, height, waiting>>

\* Both variants of tryPop(): at most n elements, notify only if there is one.
TryPop(t) ==
    /\ Runs(t, {"tryPop", "tryPopRange"})
    /\ LET s == queue[call[t].q]
           k == Smaller(IF call[t].op = "tryPop" THEN 1 ELSE call[t].n, Len(s))
       IN  \/ k > 0 /\ TakeFront(t, k)
           \/ k = 0 /\ Return(t, <<>>) /\ UNCHANGED queue
    /\ UNCHANGED <<maxSize, height, waiting>>

\* operator[], getFront(), getBack(): one element, if it exists.
Peek(t) ==
    /\ Runs(t, {"at", "getFront", "getBack"})
    /\ LET s == queue[call[t].q]
           i == CASE call[t].op = "at"       -> call[t].n + 1
                  [] call[t].op = "getFront" -> 1
                  [] call[t].op = "getBack"  -> Len(s)
       IN  Return(t, IF s = <<>> THEN <<>> ELSE <<s[i]>>)
    /\ UNCHANGED <<queue, maxSize, height, waiting>>

WaitSize(t) ==
    /\ Runs(t, {"waitSize"})
    /\ Return(t, <<>>)
    /\ UNCHANGED <<queue, maxSize, height, waiting>>

\* setMaxSize() that does not wait for the queue to shrink.
MutantSetMaxSize(t) ==
    /\ status[t] = "awake"
    /\ call[t].op = "setMaxSize"
    /\ maxSize' = [maxSize EXCEPT ![call[t].q] = call[t].n]
    /\ ReturnNotify(t, <<>>)
    /\ UNCHANGED <<queue, height, waiting>>

SetMaxSize(t) ==
    /\ Runs(t, {"setMaxSize"})
    /\ maxSize' = [maxSize EXCEPT ![call[t].q] = call[t].n]
    /\ ReturnNotify(t, <<>>)
    /\ UNCHANGED <<queue, height, waiting>>

Clear(t) ==
    /\ Runs(t, {"clear"})
    /\ SetQueue(t, <<>>)
    /\ ReturnNotify(t, <<>>)
    /\ UNCHANGED <<maxSize, height, waiting>>

\* operator=, first critical section: the copy under from's mutex.
AssignCopy(t) ==
    /\ Runs(t, {"assign"})
    /\ \/ /\ call[t].from = call[t].q
          /\ Return(t, <<>>)
       \/ /\ call[t].from # call[t].q
          /\ call' = [call EXCEPT ![t] =
                        [op |-> "assignStore", q |-> call[t].q,
                         from |-> call[t].from, n |-> maxSize[call[t].from],
                         m |-> call[t].m, v |-> queue[call[t].from]]]
          /\ UNCHANGED <<status, got>>
    /\ UNCHANGED <<queue, maxSize, height, waiting>>

\* operator=, second critical section, under this queue's mutex.
AssignStore(t) ==
    /\ Runs(t, {"assignStore"})
    /\ maxSize' = [maxSize EXCEPT ![call[t].q] = call[t].n]
    /\ SetQueue(t, call[t].v)
    /\ ReturnNotify(t, <<>>)
    /\ UNCHANGED <<height, waiting>>

-------------------------------------------------------------------------------
\* popBarrier(): the first evaluation of the predicate counts the caller in
\* waiting_; a call that then sleeps continues as "inBarrier".

\* waiting_ as the predicate of t's call sees it.
Counted(t) == IF call[t].op = "popBarrier" THEN waiting + 1 ELSE waiting

InPopBarrier(t) ==
    /\ status[t] = "awake"
    /\ call[t].op \in {"popBarrier", "inBarrier"}

BarrierTake(t) ==
    /\ InPopBarrier(t)
    /\ queue[call[t].q] # <<>>
    /\ SetQueue(t, Tail(queue[call[t].q]))
    /\ waiting' = Counted(t) - 1
    /\ ReturnNotify(t, <<Head(queue[call[t].q])>>)
    /\ UNCHANGED <<maxSize, height>>

\* Aborting one participant too early.
MutantBarrierAbort(t) ==
    /\ InPopBarrier(t)
    /\ queue[call[t].q] = <<>>
    /\ Counted(t) + 1 >= height
    /\ waiting' = Counted(t)
    /\ ReturnNotify(t, <<>>)
    /\ UNCHANGED <<queue, maxSize, height>>

\* Leaving the barrier without telling the other participants.
MutantBarrierAbortQuiet(t) ==
    /\ InPopBarrier(t)
    /\ queue[call[t].q] = <<>>
    /\ Counted(t) >= height
    /\ waiting' = Counted(t)
    /\ Return(t, <<>>)
    /\ UNCHANGED <<queue, maxSize, height>>

BarrierAbort(t) ==
    /\ InPopBarrier(t)
    /\ queue[call[t].q] = <<>>
    /\ Counted(t) >= height
    /\ waiting' = Counted(t)
    /\ ReturnNotify(t, <<>>)
    /\ UNCHANGED <<queue, maxSize, height>>

BarrierSleep(t) ==
    /\ status[t] = "awake"
    /\ call[t].op = "popBarrier"
    /\ queue[call[t].q] = <<>>
    /\ Counted(t) < height
    /\ waiting' = Counted(t)
    /\ call' = [call EXCEPT ![t] =
                  [op |-> "inBarrier", q |-> call[t].q, from |-> call[t].from,
                   n |-> call[t].n, m |-> call[t].m, v |-> call[t].v]]
    /\ status' = [status EXCEPT ![t] = "sleeping"]
    /\ UNCHANGED <<queue, maxSize, got, height>>

\* Group::setHeight(): no mutex, no notification.
SetHeight(h) ==
    /\ height' = h
    /\ UNCHANGED <<queue, maxSize, status, call, got, waiting>>

-------------------------------------------------------------------------------
\* What t does inside of a call.
Step(t) ==
    \/ Sleep(t)
    \/ Push(t) \/ PushFront(t)
    \/ Pop(t) \/ TimedOut(t) \/ TimedPopRange(t) \/ TryPop(t)
    \/ Peek(t) \/ WaitSize(t)
    \/ SetMaxSize(t) \/ Clear(t) \/ AssignCopy(t) \/ AssignStore(t)
    \/ BarrierTake(t) \/ BarrierAbort(t) \/ BarrierSleep(t)

Next ==
    \E t \in Threads :
        \/ \E c \in Calls : Call(t, c)
        \/ Step(t)
        \/ SpuriousWakeup(t)
        \/ Expire(t)

Spec == Init /\ [][Next]_vars

-------------------------------------------------------------------------------
\* Type invariant.
TypeOK ==
    /\ queue \in [Queues -> Seq(Values)]
    /\ maxSize \in [Queues -> MaxSizes]
    /\ status \in [Threads -> {"idle", "awake", "sleeping", "expired"}]
    /\ call \in [Threads -> CallRecords]
    /\ got \in [Threads -> Seq(Values)]
    /\ height \in Nat
    /\ waiting \in Nat

\* A queue never holds more than its maximum size, whatever setMaxSize(),
\* operator= and the pushes do concurrently; the unsigned subtraction of the
\* vector variants of push() and pushFront() (mtQueue.ipp:242,265) depends on it.
SizeBound == \A q \in Queues : Len(queue[q]) <= maxSize[q]

\* No lost wakeup: a thread asleep on the condition variable has nothing to do
\* yet.  Every operation that can make a predicate true notifies all sleepers
\* of its queue.
NoLostWakeup == \A t \in Threads : status[t] = "sleeping" => ~Ready(call[t])
===============================================================================
