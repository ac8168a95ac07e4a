-------------------------------- MODULE LFQueue -------------------------------
(***************************************************************************)
(* lunchbox::LFQueue (lfQueue.h, lfQueue.ipp): a lock-free ring buffer for *)
(* one reader and one writer thread.  _readPos and _writePos are atomic    *)
(* integers, _data is a plain vector with one slot more than the capacity. *)
(* Every access to a position or a slot that the other thread may touch is *)
(* a step of its own.                                                      *)
(***************************************************************************)
EXTENDS Integers, Sequences

CONSTANTS Values,       \* the elements
          Zero,         \* T(), which fills new slots
          Sizes         \* the sizes passed to the constructor and resize()

ASSUME ZeroAssumption == Zero \in Values
ASSUME SizesAssumption == Sizes \subseteq Nat

VARIABLES
    data,       \* _data, a function on 0 .. _data.size() - 1
    slots,      \* _data.size()
    readPos,    \* _readPos
    writePos,   \* _writePos
    wpc,        \* where the writer is in push()
    element,    \* argument of push()
    nextPos,    \* local of push()
    pushed,     \* last return value of push()
    rpc,        \* where the reader is in pop(), getFront() or clear()
    result,     \* the copy made by pop() before it advances
    popped      \* last return value and result of pop() or getFront()

writerVars == <<wpc, element, nextPos, pushed>>
readerVars == <<rpc, result, popped>>
ringVars   == <<data, slots, readPos, writePos>>
vars == <<ringVars, writerVars, readerVars>>

Init ==
    /\ \E size \in Sizes :
          /\ slots = size + 1
          /\ data = [i \in 0 .. size |-> Zero]
    /\ readPos = 0
    /\ writePos = 0
    /\ wpc = "idle"
    /\ element = Zero
    /\ nextPos = 0
    /\ pushed = FALSE
    /\ rpc = "idle"
    /\ result = Zero
    /\ popped = [ok |-> FALSE, value |-> Zero]

-------------------------------------------------------------------------------
\* The writer: push( e ).

PushNext(e) ==
    /\ wpc = "idle"
    /\ element' = e
    /\ nextPos' = (writePos + 1) % slots
    /\ wpc' = "test"
    /\ UNCHANGED <<ringVars, readerVars, pushed>>

\* push() that uses the spare slot: full is taken for empty.
MutantPushTest ==
    /\ wpc = "test"
    /\ wpc' = "write"
    /\ UNCHANGED <<ringVars, readerVars, element, nextPos, pushed>>

\* if( nextPos == _readPos ) return false;
PushTest ==
    /\ wpc = "test"
    /\ \/ /\ nextPos = readPos
          /\ wpc' = "idle"
          /\ pushed' = FALSE
       \/ /\ nextPos # readPos
          /\ wpc' = "write"
          /\ UNCHANGED pushed
    /\ UNCHANGED <<ringVars, readerVars, element, nextPos>>

\* The position is published before the slot is written.
MutantPushWrite ==
    /\ wpc = "write"
    /\ writePos' = nextPos
    /\ wpc' = "publish"
    /\ UNCHANGED <<data, slots, readPos, element, nextPos, pushed, readerVars>>

PushWrite ==
    /\ wpc = "write"
    /\ data' = [data EXCEPT ![writePos] = element]
    /\ wpc' = "publish"
    /\ UNCHANGED <<slots, readPos, writePos, element, nextPos, pushed,
                   readerVars>>

PushPublish ==
    /\ wpc = "publish"
    /\ writePos' = nextPos
    /\ wpc' = "idle"
    /\ pushed' = TRUE
    /\ UNCHANGED <<data, slots, readPos, element, nextPos, readerVars>>

Writer == (\E e \in Values : PushNext(e)) \/ PushTest \/ PushWrite \/ PushPublish

-------------------------------------------------------------------------------
\* The reader.  Each operation starts with the test for an empty queue, which
\* returns false and leaves the caller's value alone.

Test(next) ==
    /\ rpc = "idle"
    /\ \/ /\ readPos = writePos
          /\ popped' = [ok |-> FALSE, value |-> popped.value]
          /\ UNCHANGED rpc
       \/ /\ readPos # writePos
          /\ rpc' = next
          /\ UNCHANGED popped
    /\ UNCHANGED <<ringVars, writerVars, result>>

PopTest == Test("copy")

PopCopy ==
    /\ rpc = "copy"
    /\ result' = data[readPos]
    /\ rpc' = "advance"
    /\ UNCHANGED <<ringVars, writerVars, popped>>

PopAdvance ==
    /\ rpc = "advance"
    /\ readPos' = (readPos + 1) % slots
    /\ popped' = [ok |-> TRUE, value |-> result]
    /\ rpc' = "idle"
    /\ UNCHANGED <<data, slots, writePos, writerVars, result>>

FrontTest == Test("front")

FrontCopy ==
    /\ rpc = "front"
    /\ popped' = [ok |-> TRUE, value |-> data[readPos]]
    /\ rpc' = "idle"
    /\ UNCHANGED <<ringVars, writerVars, result>>

\* clear() stores _readPos and then _writePos, the writer's position.
ClearRead ==
    /\ rpc = "idle"
    /\ readPos' = 0
    /\ rpc' = "clear"
    /\ UNCHANGED <<data, slots, writePos, writerVars, result, popped>>

ClearWrite ==
    /\ rpc = "clear"
    /\ writePos' = 0
    /\ rpc' = "idle"
    /\ UNCHANGED <<data, slots, readPos, writerVars, result, popped>>

Reader == PopTest \/ PopCopy \/ PopAdvance \/ FrontTest \/ FrontCopy

\* resize() "is not thread-safe. The queue has to be empty" (lfQueue.h:64):
\* both threads are outside of the queue.
Resize(size) ==
    /\ wpc = "idle"
    /\ rpc = "idle"
    /\ readPos = writePos
    /\ readPos' = 0
    /\ writePos' = 0
    /\ slots' = size + 1
    /\ data' = [i \in 0 .. size |-> IF i < slots THEN data[i] ELSE Zero]
    /\ UNCHANGED <<writerVars, readerVars>>

-------------------------------------------------------------------------------
\* clear() while the writer is kept out of push(): the writer is idle, and
\* does not start before clear() has returned.
Next ==
    \/ rpc # "clear" /\ Writer
    \/ Reader
    \/ wpc = "idle" /\ ClearRead
    \/ ClearWrite
    \/ \E size \in Sizes : Resize(size)

Spec == Init /\ [][Next]_vars

-------------------------------------------------------------------------------
\* Type invariant: both positions stay inside the ring.
TypeOK ==
    /\ slots \in Nat \ {0}
    /\ slots - 1 \in Sizes
    /\ data \in [0 .. slots - 1 -> Values]
    /\ readPos \in 0 .. slots - 1
    /\ writePos \in 0 .. slots - 1
    /\ wpc \in {"idle", "test", "write", "publish"}
    /\ element \in Values
    /\ nextPos \in Nat
    /\ pushed \in BOOLEAN
    /\ rpc \in {"idle", "copy", "advance", "front", "clear"}
    /\ result \in Values
    /\ popped \in [ok : BOOLEAN, value : Values]

\* The writer never stores into the slot that the reader is copying: the slots
\* are plain memory, so this is what makes push(), pop() and getFront() free of
\* data races.
NoSlotRace ==
    ~ /\ wpc = "write"
      /\ rpc \in {"copy", "front"}
      /\ writePos = readPos

\* The elements between the two positions, oldest first.
Count == IF writePos >= readPos THEN writePos - readPos
                                ELSE writePos + slots - readPos
Slot(i) == IF readPos + i - 1 >= slots THEN readPos + i - 1 - slots
                                       ELSE readPos + i - 1
Contents == [i \in 1 .. Count |-> data[Slot(i)]]

\* The ring buffer implements the bounded FIFO queue: push() takes effect when
\* it stores _writePos, pop() when it stores _readPos, clear() with its first
\* store; no element is lost, duplicated, overwritten or reordered.
Abstract == INSTANCE BoundedFifo
    WITH items <- IF rpc = "clear" THEN <<>> ELSE Contents,
         capacity <- slots - 1
ImplementsFifo == Abstract!Spec
===============================================================================
