----------------------------- MODULE BoundedFifo ------------------------------
(***************************************************************************)
(* What lunchbox::LFQueue promises: a first-in first-out queue of bounded  *)
(* capacity.  Every operation is one atomic step that returns at once; a   *)
(* push to a full queue and a pop from an empty one are refused.           *)
(***************************************************************************)
EXTENDS Naturals, Sequences

CONSTANTS Values,       \* the elements
          Sizes         \* the capacities the queue is resized to

VARIABLES items,        \* the elements, oldest first
          capacity,
          pushed,       \* the last return value of push()
          popped        \* the last return value of pop() or getFront()

fifoVars == <<items, capacity, pushed, popped>>

Init ==
    /\ items = <<>>
    /\ capacity \in Sizes
    /\ pushed = FALSE
    /\ popped \in [ok : {FALSE}, value : Values]

Push(e) ==
    /\ Len(items) < capacity
    /\ items' = Append(items, e)
    /\ pushed' = TRUE
    /\ UNCHANGED <<capacity, popped>>

PushFull ==
    /\ Len(items) = capacity
    /\ pushed' = FALSE
    /\ UNCHANGED <<items, capacity, popped>>

Pop ==
    /\ items # <<>>
    /\ items' = Tail(items)
    /\ popped' = [ok |-> TRUE, value |-> Head(items)]
    /\ UNCHANGED <<capacity, pushed>>

GetFront ==
    /\ items # <<>>
    /\ popped' = [ok |-> TRUE, value |-> Head(items)]
    /\ UNCHANGED <<items, capacity, pushed>>

\* pop() and getFront() leave the caller's value unmodified.
Empty ==
    /\ items = <<>>
    /\ popped' = [ok |-> FALSE, value |-> popped.value]
    /\ UNCHANGED <<items, capacity, pushed>>

Clear ==
    /\ items' = <<>>
    /\ UNCHANGED <<capacity, pushed, popped>>

Resize(size) ==
    /\ items = <<>>
    /\ capacity' = size
    /\ UNCHANGED <<items, pushed, popped>>

Next ==
    \/ \E e \in Values : Push(e)
    \/ PushFull
    \/ Pop
    \/ GetFront
    \/ Empty
    \/ Clear
    \/ \E size \in Sizes : Resize(size)

Spec == Init /\ [][Next]_fifoVars
===============================================================================
