----------------------------- MODULE MCMTQueueWork ----------------------------
(***************************************************************************)
(* The use popBarrier() is made for (tests/mtQueue.cpp): a group of        *)
(* workers processes items which make them push further items, until the   *)
(* queue is empty and all workers wait in it.  The items are the nodes of  *)
(* a binary tree: item n makes its worker push 2n and 2n + 1, as one       *)
(* vector.  The queue is too small for all leaves, so pushes block.        *)
(***************************************************************************)
EXTENDS MTQueue, Functions

CONSTANTS
    workQueue,  \* the queue of the workers
    Items       \* the number of items

ASSUME WorkAssumption ==
    workQueue \in Queues /\ Items \in Nat \ {0} /\ Height = Cardinality(Threads)

VARIABLES
    todo,       \* todo[w]: the items w still has to push
    consumed,   \* the items returned by popBarrier(), in the order of the returns
    aborted     \* the workers to which popBarrier() has returned false

wvars == <<vars, todo, consumed, aborted>>

WQueues == {workQueue}
WValues == 1 .. Items

WCall(op, v) ==
    [op |-> op, q |-> workQueue, from |-> workQueue, n |-> 0, m |-> 0, v |-> v]

\* The items that the processing of item n makes.
Children(n) == IF 2 * n < Items THEN <<2 * n, 2 * n + 1>>
               ELSE IF 2 * n = Items THEN <<2 * n>> ELSE <<>>

WCalls == {WCall("popBarrier", <<>>), WCall("pushVector", <<1>>)}
            \cup {WCall("pushVector", Children(n)) : n \in WValues}

WInit ==
    /\ Init
    /\ \E w \in Threads : todo = [u \in Threads |-> IF u = w THEN <<1>> ELSE <<>>]
    /\ consumed = <<>>
    /\ aborted = {}

PushItems(w) ==
    /\ todo[w] # <<>>
    /\ Call(w, WCall("pushVector", todo[w]))
    /\ todo' = [todo EXCEPT ![w] = <<>>]
    /\ UNCHANGED <<consumed, aborted>>

Enter(w) ==
    /\ todo[w] = <<>>
    /\ w \notin aborted
    /\ Call(w, WCall("popBarrier", <<>>))
    /\ UNCHANGED <<todo, consumed, aborted>>

Advance(w) ==
    /\ Step(w)
    /\ consumed' = consumed \o got'[w]
    /\ IF status'[w] = "idle" /\ call[w].op # "pushVector"
       THEN IF got'[w] = <<>>
            THEN aborted' = aborted \cup {w} /\ UNCHANGED todo
            ELSE todo' = [todo EXCEPT ![w] = Children(got'[w][1])] /\ UNCHANGED aborted
       ELSE UNCHANGED <<todo, aborted>>

Finished == aborted = Threads

WNext ==
    \/ \E w \in Threads :
        \/ PushItems(w)
        \/ Enter(w)
        \/ Advance(w)
        \/ SpuriousWakeup(w) /\ UNCHANGED <<todo, consumed, aborted>>
    \/ Finished /\ UNCHANGED wvars

WSpec == WInit /\ [][WNext]_wvars

\* Every worker that can take a step is scheduled eventually; spurious wakeups
\* need not happen.
WFairSpec ==
    WSpec /\ \A w \in Threads : WF_wvars(PushItems(w) \/ Enter(w) \/ Advance(w))

\* Everything that ever entered the queue, in its order.
Passed == consumed \o queue[workQueue]

\* What has passed keeps its place.
Extends == Len(Passed) <= Len(Passed') /\ \A i \in 1 .. Len(Passed) : Passed'[i] = Passed[i]

\* The queue is first-in first-out for all threads together: no step of
\* push() or popBarrier() loses, repeats or reorders what has entered it.
FifoOrder == [][Extends]_wvars

\* push( vector ) is atomic: its elements are neighbours in the queue although
\* other workers push and pop at the same time.
VectorsStayTogether ==
    \A i \in DOMAIN Passed :
        Passed[i] > 1 /\ Passed[i] % 2 = 0 /\ Passed[i] < Items =>
            i < Len(Passed) /\ Passed[i + 1] = Passed[i] + 1

\* A worker leaves popBarrier() only when all items have been processed: none
\* is queued, and no worker has one that could still produce others.  The last
\* conjunct is the assertion of popBarrier() (mtQueue.ipp:191).
AbortOnlyWhenDone ==
    aborted # {} =>
        /\ Range(consumed) = WValues
        /\ \A w \in Threads \ aborted : todo[w] = <<>> /\ call[w].op = "inBarrier"
        /\ waiting = height

\* Every worker is released: nobody sleeps for ever in push() or popBarrier().
AllAbort == <>Finished
===============================================================================
