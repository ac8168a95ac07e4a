----------------------------- MODULE AtomicLoops -----------------------------
(***************************************************************************)
(* lunchbox::Atomic (atomic.h) where the compiler offers only the          *)
(* compare-and-swap: the four arithmetic functions read the variable,      *)
(* compute, and try to swap the new value in, again and again until        *)
(* nobody interfered.  The variable may change between any two accesses.   *)
(***************************************************************************)
EXTENDS AtomicVariable

VARIABLE old   \* oldv of a thread, empty outside an iteration

loopVars == <<atomicVars, old>>

LoopsInit == AtomicInit /\ old = [t \in AtomicThreads |-> <<>>]

\* The beginning of an iteration: const T oldv = value.
LoadOld(t) ==
    /\ pending[t].f \in Arithmetic /\ old[t] = <<>>
    /\ old' = [old EXCEPT ![t] = <<number[pending[t].v]>>]
    /\ UNCHANGED atomicVars

\* A plain store in place of the compare-and-swap.
MutantTrySwap(t) ==
    /\ pending[t].f \in Arithmetic /\ old[t] # <<>>
    /\ Take(t, pending[t], Effect(pending[t], old[t][1]))
    /\ old' = [old EXCEPT ![t] = <<>>]

\* Its end: the swap succeeds and the call returns what it computed from oldv,
\* or it fails and the loop continues.
TrySwap(t) ==
    /\ pending[t].f \in Arithmetic /\ old[t] # <<>>
    /\ LET e == Effect(pending[t], old[t][1])
       IN  IF compareAndSwap(number[pending[t].v], old[t][1], e.new).ret = 1
           THEN Take(t, pending[t], e)
           ELSE UNCHANGED atomicVars
    /\ old' = [old EXCEPT ![t] = <<>>]

LoopsNext == \E t \in AtomicThreads :
    \/ LoadOld(t) \/ TrySwap(t)
    \/ pending[t].f \notin Arithmetic /\ Perform(t) /\ UNCHANGED old
    \/ Common(t) /\ UNCHANGED old

LoopsSpec == LoopsInit /\ [][LoopsNext]_loopVars
-----------------------------------------------------------------------------
(* The loops are atomic operations: whatever the other threads do between  *)
(* the read and the swap, a value that returns to what it was included,    *)
(* no addition is lost or counted twice, and every call returns the value  *)
(* before or after the very addition it made, as the comments of atomic.h  *)
(* promise.                                                                *)
ImplementsAtomic == AtomicSpec
=============================================================================
