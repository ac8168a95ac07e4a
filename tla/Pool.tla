-------------------------------- MODULE Pool --------------------------------
(***************************************************************************)
(* lunchbox::Pool (pool.h): items for reuse, in a vector behind a SpinLock *)
(* that alloc(), release() and flush() hold.  The accesses to the vector   *)
(* are steps of their own, so that what the lock is for is in the model.   *)
(***************************************************************************)
EXTENDS Naturals, Sequences, Functions

CONSTANTS
    PoolThreads,  \* the threads that use the pool
    MaxItems,     \* bound: the number of items allocated
    Nobody        \* the lock is free

ASSUME NobodyAssumption == Nobody \notin PoolThreads

VARIABLES
    cache,     \* _cache
    poolLock,  \* who holds _lock
    pc,        \* where each thread is
    held,      \* held[t]: the items t got and has not released
    item,      \* the local variable of alloc(), the argument of release()
    made,      \* how many items were allocated
    deleted    \* history: the items that were deleted

poolVars == <<cache, poolLock, pc, held, item, made, deleted>>

PoolInit ==
    /\ cache = <<>> /\ poolLock = Nobody /\ made = 0 /\ deleted = {}
    /\ pc = [t \in PoolThreads |-> "idle"]
    /\ held = [t \in PoolThreads |-> {}]
    /\ item = [t \in PoolThreads |-> 0]
-----------------------------------------------------------------------------
Enter(t, op) ==
    /\ pc[t] = "idle"
    /\ poolLock = Nobody
    /\ poolLock' = t
    /\ pc' = [pc EXCEPT ![t] = op]

MutantAlloc(t) ==
    /\ pc[t] = "idle"
    /\ pc' = [pc EXCEPT ![t] = "alloc"]
    /\ UNCHANGED <<poolLock, cache, held, item, made, deleted>>

Alloc(t) == Enter(t, "alloc") /\ UNCHANGED <<cache, held, item, made, deleted>>
Flush(t) == Enter(t, "flush") /\ UNCHANGED <<cache, held, item, made, deleted>>
Release(t) ==
    \E i \in held[t] :
        /\ Enter(t, "release")
        /\ held' = [held EXCEPT ![t] = @ \ {i}]
        /\ item' = [item EXCEPT ![t] = i]
        /\ UNCHANGED <<cache, made, deleted>>

\* The end of the scope of the ScopedFastWrite.
Leave(t) ==
    /\ pc' = [pc EXCEPT ![t] = "idle"]
    /\ poolLock' = Nobody

New(t) ==
    /\ pc[t] = "alloc" /\ cache = <<>> /\ made < MaxItems
    /\ made' = made + 1
    /\ held' = [held EXCEPT ![t] = @ \union {made + 1}]
    /\ Leave(t)
    /\ UNCHANGED <<cache, item, deleted>>

Back(t) ==
    /\ pc[t] = "alloc" /\ cache # <<>>
    /\ item' = [item EXCEPT ![t] = cache[Len(cache)]]
    /\ pc' = [pc EXCEPT ![t] = "pop"]
    /\ UNCHANGED <<cache, poolLock, held, made, deleted>>

PopBack(t) ==
    /\ pc[t] = "pop" /\ cache # <<>>
    /\ cache' = SubSeq(cache, 1, Len(cache) - 1)
    /\ held' = [held EXCEPT ![t] = @ \union {item[t]}]
    /\ Leave(t)
    /\ UNCHANGED <<item, made, deleted>>

PushBack(t) ==
    /\ pc[t] = "release"
    /\ cache' = Append(cache, item[t])
    /\ Leave(t)
    /\ UNCHANGED <<held, item, made, deleted>>

DeleteAll(t) ==
    /\ pc[t] = "flush"
    /\ cache' = <<>>
    /\ deleted' = deleted \union Range(cache)
    /\ Leave(t)
    /\ UNCHANGED <<held, item, made>>

PoolNext ==
    \E t \in PoolThreads :
        \/ Alloc(t) \/ Release(t) \/ Flush(t)
        \/ New(t) \/ Back(t) \/ PopBack(t) \/ PushBack(t) \/ DeleteAll(t)

PoolSpec == PoolInit /\ [][PoolNext]_poolVars
-----------------------------------------------------------------------------
(* However the calls of the threads interleave, an item is in one place:   *)
(* no two threads hold it, no thread holds an item that is cached for the  *)
(* next one, no item is cached twice, and one that flush() deleted is      *)
(* nowhere.                                                                *)
ItemsHaveOneOwner ==
    /\ \A t, u \in PoolThreads : t # u => held[t] \intersect held[u] = {}
    /\ \A t \in PoolThreads : held[t] \intersect (Range(cache) \union deleted) = {}
    /\ IsInjective(cache)
    /\ Range(cache) \intersect deleted = {}
=============================================================================
