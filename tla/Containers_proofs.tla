-------------------------- MODULE Containers_proofs --------------------------
(***************************************************************************)
(* Proofs about the containers that use no other component.                *)
(*                                                                         *)
(* LFQueue, for any set of values and any capacity: its type invariant,    *)
(* the absence of races on the slots, and that the ring buffer implements  *)
(* the bounded FIFO queue BoundedFifo.                                     *)
(*                                                                         *)
(* Pool, for any number of threads and items: an item has one owner.       *)
(*                                                                         *)
(* Buffer, for any number of buffers, elements and sizes: a buffer holds   *)
(* what was put into it.                                                   *)
(***************************************************************************)
EXTENDS LFQueue, Pool, Buffer, TLAPS

(***************************************************************************)
(* Facts about sequences.                                                  *)
(***************************************************************************)
\* A sequence is a function on its positions.
LEMMA SequenceIsFunction ==
    ASSUME NEW S, NEW s \in Seq(S)
    PROVE  Len(s) \in Nat /\ s \in [1 .. Len(s) -> S] /\ DOMAIN s = 1 .. Len(s)
  OBVIOUS

\* What is behind the first element.
LEMMA TailOfSequence ==
    ASSUME NEW S, NEW s \in Seq(S), s # <<>>
    PROVE  /\ Tail(s) \in Seq(S) /\ Len(Tail(s)) = Len(s) - 1
           /\ \A i \in 1 .. Len(Tail(s)) : Tail(s)[i] = s[i + 1]
  OBVIOUS

\* Two sequences, one behind the other.
LEMMA Concatenation ==
    ASSUME NEW S, NEW s \in Seq(S), NEW t \in Seq(S)
    PROVE  /\ Len(s \o t) = Len(s) + Len(t)
           /\ \A i \in 1 .. Len(s) + Len(t) :
                 (s \o t)[i] = IF i <= Len(s) THEN s[i] ELSE t[i - Len(s)]
  OBVIOUS

(***************************************************************************)
(* LFQueue.  The writer alone moves writePos and the reader alone readPos, *)
(* so what one of them has tested stays true until it has moved its own:   *)
(* the slot of the writer is never one of those that hold an element.      *)
(***************************************************************************)
\* The position after p in the ring.
Succ(p) == IF p + 1 = slots THEN 0 ELSE p + 1

\* What each thread relies on while it is inside of an operation.
WriterOK ==
    /\ wpc # "idle" => nextPos = Succ(writePos)
    /\ wpc \in {"write", "publish"} => nextPos # readPos
    /\ wpc = "publish" => data[writePos] = element

ReaderOK ==
    /\ rpc \in {"copy", "advance", "front"} => readPos # writePos
    /\ rpc = "advance" => result = data[readPos]
    /\ rpc = "clear" => wpc = "idle" /\ readPos = 0

\* The inductive invariant.
IInv == TypeOK /\ WriterOK /\ ReaderOK

-------------------------------------------------------------------------------
\* The modulo of push() and pop() wraps exactly at the end of the ring.
LEMMA Wrap ==
    ASSUME NEW n \in Nat \ {0}, NEW p \in 0 .. n - 1
    PROVE  (p + 1) % n = IF p + 1 = n THEN 0 ELSE p + 1
<1>1. CASE p + 1 = n
  BY <1>1, SMTT(30)
<1>2. CASE p + 1 < n
  BY <1>2, SMTT(30)
<1> QED
  BY <1>1, <1>2

\* The queue is constructed empty, with size + 1 slots.
LEMMA InitIInv == Init => IInv
<1> SUFFICES ASSUME Init PROVE IInv
  OBVIOUS
<1>1. PICK size \in Sizes :
          slots = size + 1 /\ data = [i \in 0 .. size |-> Zero]
  BY DEF Init
<1>2. size \in Nat
  BY SizesAssumption
<1>3. TypeOK
  <2>1. slots \in Nat \ {0} /\ slots - 1 = size
    BY <1>1, <1>2
  <2>2. data \in [0 .. slots - 1 -> Values]
    BY <1>1, <2>1, ZeroAssumption
  <2>3. popped \in [ok : BOOLEAN, value : Values]
    BY ZeroAssumption DEF Init
  <2>4. /\ readPos \in 0 .. slots - 1 /\ writePos \in 0 .. slots - 1
        /\ nextPos \in Nat
    BY <2>1 DEF Init
  <2>5. /\ element \in Values /\ result \in Values /\ pushed \in BOOLEAN
        /\ wpc = "idle" /\ rpc = "idle"
    BY ZeroAssumption, Zenon DEF Init
  <2> QED
    BY <1>1, <2>1, <2>2, <2>3, <2>4, <2>5 DEF TypeOK
<1>4. wpc = "idle" /\ rpc = "idle"
  BY DEF Init
<1> QED
  BY <1>3, <1>4 DEF IInv, WriterOK, ReaderOK

\* The steps of push().
LEMMA WriterIInv ==
    ASSUME IInv, rpc # "clear", Writer
    PROVE  IInv'
<1> USE DEF IInv, ringVars, readerVars, writerVars
<1>1. (writePos + 1) % slots = Succ(writePos) /\ Succ(writePos) \in 0 .. slots - 1
  <2>1. slots \in Nat \ {0} /\ writePos \in 0 .. slots - 1
    BY DEF TypeOK
  <2>2. (writePos + 1) % slots = Succ(writePos)
    BY <2>1, Wrap, Zenon DEF Succ
  <2>3. Succ(writePos) \in 0 .. slots - 1
    BY <2>1 DEF Succ
  <2> QED
    BY <2>2, <2>3
<1>2. ASSUME NEW e \in Values, PushNext(e)
      PROVE  IInv'
  BY <1>1, <1>2 DEF PushNext, TypeOK, WriterOK, ReaderOK, Succ
<1>3. CASE PushTest
  <2>1. TypeOK' /\ ReaderOK'
    BY <1>3, Zenon DEF PushTest, TypeOK, ReaderOK
  <2>2. WriterOK'
    BY <1>3 DEF PushTest, WriterOK, Succ
  <2> QED
    BY <2>1, <2>2
<1>4. CASE PushWrite
  <2>1. TypeOK'
    BY <1>4 DEF PushWrite, TypeOK
  <2>2. WriterOK'
    BY <1>4 DEF PushWrite, TypeOK, WriterOK, Succ
  <2>3. ReaderOK'
    BY <1>4 DEF PushWrite, TypeOK, ReaderOK
  <2> QED
    BY <2>1, <2>2, <2>3
<1>5. CASE PushPublish
  BY <1>1, <1>5 DEF PushPublish, TypeOK, WriterOK, ReaderOK, Succ
<1> QED
  BY <1>2, <1>3, <1>4, <1>5 DEF Writer

\* The steps of pop() and getFront().
LEMMA ReaderIInv ==
    ASSUME IInv, Reader
    PROVE  IInv'
<1> USE DEF IInv, ringVars, readerVars, writerVars
<1>1. (readPos + 1) % slots = Succ(readPos) /\ Succ(readPos) \in 0 .. slots - 1
  <2>1. slots \in Nat \ {0} /\ readPos \in 0 .. slots - 1
    BY DEF TypeOK
  <2>2. (readPos + 1) % slots = Succ(readPos)
    BY <2>1, Wrap, Zenon DEF Succ
  <2>3. Succ(readPos) \in 0 .. slots - 1
    BY <2>1 DEF Succ
  <2> QED
    BY <2>2, <2>3
<1>2. CASE PopTest \/ FrontTest
  <2>1. /\ UNCHANGED <<ringVars, writerVars, result>>
        /\ rpc' \in {"idle", "copy", "front"}
        /\ rpc' # "idle" => readPos # writePos
    BY <1>2 DEF PopTest, FrontTest, Test
  <2>2. popped' \in [ok : BOOLEAN, value : Values]
    <3>1. popped.value \in Values /\ popped \in [ok : BOOLEAN, value : Values]
      BY DEF TypeOK
    <3>2. popped' = [ok |-> FALSE, value |-> popped.value] \/ popped' = popped
      BY <1>2 DEF PopTest, FrontTest, Test
    <3>3. [ok |-> FALSE, value |-> popped.value] \in [ok : BOOLEAN, value : Values]
      BY <3>1
    <3> QED
      BY <3>1, <3>2, <3>3, Zenon
  <2>3. TypeOK'
    BY <2>1, <2>2 DEF TypeOK
  <2>4. WriterOK' /\ ReaderOK'
    BY <2>1 DEF WriterOK, ReaderOK, Succ
  <2> QED
    BY <2>3, <2>4
<1>3. CASE PopCopy
  BY <1>3 DEF PopCopy, TypeOK, WriterOK, ReaderOK, Succ
<1>4. CASE PopAdvance
  <2>1. TypeOK'
    BY <1>1, <1>4 DEF PopAdvance, TypeOK
  <2>2. ReaderOK'
    BY <1>4 DEF PopAdvance, ReaderOK
  <2>3. WriterOK'
    BY <1>1, <1>4 DEF PopAdvance, TypeOK, WriterOK, ReaderOK, Succ
  <2> QED
    BY <2>1, <2>2, <2>3
<1>5. CASE FrontCopy
  BY <1>5 DEF FrontCopy, TypeOK, WriterOK, ReaderOK, Succ
<1> QED
  BY <1>2, <1>3, <1>4, <1>5 DEF Reader

\* clear() without the writer, and resize() of an empty queue.
LEMMA ResetIInv ==
    ASSUME IInv,
           \/ wpc = "idle" /\ ClearRead
           \/ ClearWrite
           \/ \E size \in Sizes : Resize(size)
    PROVE  IInv'
<1> USE DEF IInv, ringVars, readerVars, writerVars
<1>1. CASE wpc = "idle" /\ ClearRead
  BY <1>1 DEF ClearRead, TypeOK, WriterOK, ReaderOK, Succ
<1>2. CASE ClearWrite
  BY <1>2 DEF ClearWrite, TypeOK, WriterOK, ReaderOK, Succ
<1>3. ASSUME NEW size \in Sizes, Resize(size)
      PROVE  IInv'
  <2>1. size \in Nat
    BY SizesAssumption
  <2>2. TypeOK'
    BY <1>3, <2>1, ZeroAssumption DEF Resize, TypeOK
  <2> QED
    BY <1>3, <2>2 DEF Resize, WriterOK, ReaderOK
<1> QED
  BY <1>1, <1>2, <1>3

\* Every step keeps the inductive invariant.
LEMMA NextIInv == IInv /\ [Next]_vars => IInv'
<1> SUFFICES ASSUME IInv, [Next]_vars PROVE IInv'
  OBVIOUS
<1>1. CASE Next
  BY <1>1, WriterIInv, ReaderIInv, ResetIInv DEF Next
<1>2. CASE UNCHANGED vars
  BY <1>2 DEF vars, ringVars, readerVars, writerVars, IInv, TypeOK, WriterOK,
              ReaderOK, Succ
<1> QED
  BY <1>1, <1>2

\* The inductive invariant holds in every state of the queue.
THEOREM Invariance == Spec => []IInv
BY InitIInv, NextIInv, PTL DEF Spec

\* Both positions of the queue stay inside the ring, for every capacity.
THEOREM TypeCorrect == Spec => []TypeOK
<1>1. IInv => TypeOK
  BY DEF IInv
<1> QED
  BY <1>1, Invariance, PTL

\* The writer never stores into a slot that the reader is copying.
THEOREM NoSlotRaceHolds == Spec => []NoSlotRace
<1>1. IInv => NoSlotRace
  BY DEF IInv, ReaderOK, NoSlotRace
<1> QED
  BY <1>1, Invariance, PTL

-------------------------------------------------------------------------------
\* The contents of the ring are a sequence of values no longer than its
\* capacity; the queue is full when the next position is the read position.
LEMMA ContentsShape ==
    ASSUME TypeOK
    PROVE  /\ Count \in 0 .. slots - 1
           /\ Contents \in Seq(Values)
           /\ Len(Contents) = Count
           /\ Contents = <<>> <=> readPos = writePos
           /\ Succ(writePos) = readPos <=> Count = slots - 1
<1>1. Count \in 0 .. slots - 1
  BY DEF TypeOK, Count
<1>2. \A i \in 1 .. Count : Slot(i) \in 0 .. slots - 1
  BY DEF TypeOK, Count, Slot
<1>3. Contents \in [1 .. Count -> Values]
  BY <1>1, <1>2 DEF TypeOK, Contents
<1>4. Contents \in Seq(Values) /\ Len(Contents) = Count
  BY <1>1, <1>3
<1>5. Contents = <<>> <=> readPos = writePos
  BY <1>1, <1>4 DEF TypeOK, Count
<1>6. Succ(writePos) = readPos <=> Count = slots - 1
  BY DEF TypeOK, Count, Succ
<1> QED
  BY <1>1, <1>4, <1>5, <1>6

\* The store of _writePos appends the element that push() has written.
LEMMA PublishAppends ==
    ASSUME IInv, rpc # "clear", PushPublish
    PROVE  Contents' = Append(Contents, element) /\ Count < slots - 1
<1> USE DEF IInv, PushPublish
<1>1. writePos' = Succ(writePos) /\ Succ(writePos) # readPos
  BY DEF WriterOK
<1>2. Count < slots - 1 /\ Count' = Count + 1
  BY <1>1, ContentsShape DEF TypeOK, Count, Succ
<1>3. \A i \in Nat : Slot(i)' = Slot(i)
  BY DEF Slot
<1>4. Slot(Count + 1) = writePos
  BY DEF TypeOK, Count, Slot
<1>5. \A i \in 1 .. Count + 1 :
          data'[Slot(i)'] = IF i <= Count THEN Contents[i] ELSE element
  BY <1>2, <1>3, <1>4, ContentsShape DEF Contents, WriterOK
<1>6. Contents' = [i \in 1 .. Count + 1 |->
                      IF i <= Count THEN Contents[i] ELSE element]
  BY <1>2, <1>5 DEF Contents
<1>7. Append(Contents, element) = [i \in 1 .. Count + 1 |->
                      IF i <= Count THEN Contents[i] ELSE element]
  <2>1. Contents \in Seq(Values) /\ Len(Contents) = Count /\ element \in Values
    BY ContentsShape DEF TypeOK
  <2>2. Append(Contents, element) \in Seq(Values)
        /\ Len(Append(Contents, element)) = Count + 1
        /\ \A i \in 1 .. Count + 1 : Append(Contents, element)[i] =
              IF i <= Count THEN Contents[i] ELSE element
    BY <2>1
  <2> QED
    BY <1>2, <2>2, SequenceIsFunction, Zenon
<1> QED
  BY <1>2, <1>6, <1>7

\* The store of _readPos removes the oldest element, which pop() returns.
LEMMA AdvanceRemoves ==
    ASSUME IInv, PopAdvance
    PROVE  /\ Contents # <<>>
           /\ Contents' = Tail(Contents)
           /\ result = Head(Contents)
<1> USE DEF IInv, PopAdvance
<1>1. readPos' = Succ(readPos) /\ readPos # writePos
  BY Wrap, Zenon DEF TypeOK, ReaderOK, Succ
<1>2. Count > 0 /\ Count' = Count - 1
  BY <1>1 DEF TypeOK, Count, Succ
<1>3. \A i \in 1 .. Count - 1 : Slot(i)' = Slot(i + 1)
  BY <1>1 DEF TypeOK, Count, Slot, Succ
<1>4. Slot(1) = readPos
  BY DEF TypeOK, Slot
<1>5. Contents[1] = result
  BY <1>2, <1>4, ContentsShape DEF Contents, ReaderOK
<1>6. Contents' = [i \in 1 .. Count - 1 |-> Contents[i + 1]]
  <2>1. \A i \in 1 .. Count - 1 : data'[Slot(i)'] = Contents[i + 1]
    BY <1>2, <1>3, ContentsShape DEF Contents
  <2> QED
    BY <1>2, <2>1 DEF Contents
<1>7. Contents \in Seq(Values) /\ Len(Contents) = Count /\ Contents # <<>>
  BY <1>1, ContentsShape
<1>8. Tail(Contents) = [i \in 1 .. Count - 1 |-> Contents[i + 1]]
  BY <1>2, <1>7, TailOfSequence, SequenceIsFunction, Zenon
<1> QED
  BY <1>5, <1>6, <1>7, <1>8

\* The store into a slot is not visible: the slot is not part of the contents.
LEMMA WriteInvisible ==
    ASSUME IInv, PushWrite
    PROVE  Contents' = Contents
<1> USE DEF IInv, PushWrite
<1>1. Count' = Count /\ \A i \in 1 .. Count : Slot(i)' = Slot(i)
  BY DEF Count, Slot
<1>2. \A i \in 1 .. Count : Slot(i) \in 0 .. slots - 1 /\ Slot(i) # writePos
  BY DEF TypeOK, Count, Slot
<1>3. \A i \in 1 .. Count : data[Slot(i)]' = data[Slot(i)]
  BY <1>1, <1>2 DEF TypeOK
<1> QED
  BY <1>1, <1>3 DEF Contents

\* A step that changes neither the ring nor the return values is invisible.
LEMMA SameRing ==
    ASSUME UNCHANGED ringVars
    PROVE  Contents' = Contents
BY DEF ringVars, Contents, Count, Slot

\* Every step of the ring buffer is a step of the FIFO queue or invisible.
LEMMA StepRefines ==
    IInv /\ [Next]_vars => [Abstract!Next]_(Abstract!fifoVars)
<1> SUFFICES ASSUME IInv, [Next]_vars
             PROVE  [Abstract!Next]_(Abstract!fifoVars)
  OBVIOUS
<1> USE DEF Abstract!Next, Abstract!fifoVars
<1>1. TypeOK
  BY DEF IInv
<1>2. ASSUME rpc # "clear", NEW e \in Values, PushNext(e)
      PROVE  UNCHANGED Abstract!fifoVars
  BY <1>2, SameRing DEF PushNext, ringVars, readerVars
<1>3. ASSUME rpc # "clear", PushTest
      PROVE  Abstract!PushFull \/ UNCHANGED Abstract!fifoVars
  <2>1. Contents' = Contents /\ slots' = slots /\ rpc' = rpc /\ popped' = popped
    BY <1>3, SameRing DEF PushTest, ringVars, readerVars
  <2>2. CASE nextPos = readPos
    <3>1. Len(Contents) = slots - 1
      BY <1>1, <1>3, <2>2, ContentsShape DEF PushTest, IInv, WriterOK
    <3> QED
      BY <1>3, <2>1, <2>2, <3>1 DEF PushTest, Abstract!PushFull
  <2>3. CASE nextPos # readPos
    BY <1>3, <2>1, <2>3 DEF PushTest
  <2> QED
    BY <2>2, <2>3
<1>4. ASSUME rpc # "clear", PushWrite
      PROVE  UNCHANGED Abstract!fifoVars
  BY <1>4, WriteInvisible DEF PushWrite, readerVars
<1>5. ASSUME rpc # "clear", PushPublish
      PROVE  Abstract!Push(element)
  <2>1. Contents' = Append(Contents, element) /\ Count < slots - 1
    BY <1>5, PublishAppends
  <2>2. Len(Contents) < slots - 1
    BY <1>1, <2>1, ContentsShape
  <2>3. rpc' = rpc /\ pushed' = TRUE /\ slots' = slots /\ popped' = popped
    BY <1>5 DEF PushPublish, readerVars
  <2> QED
    BY <1>5, <2>1, <2>2, <2>3 DEF Abstract!Push
<1>6. ASSUME PopTest \/ FrontTest
      PROVE  Abstract!Empty \/ UNCHANGED Abstract!fifoVars
  <2>1. /\ Contents' = Contents /\ slots' = slots /\ pushed' = pushed
        /\ rpc = "idle" /\ rpc' # "clear"
    BY <1>6, SameRing DEF PopTest, FrontTest, Test, ringVars, writerVars
  <2>2. CASE readPos = writePos
    <3>1. Contents = <<>>
      BY <1>1, <2>2, ContentsShape
    <3>2. popped' = [ok |-> FALSE, value |-> popped.value]
      BY <1>1, <1>6, <2>2 DEF PopTest, FrontTest, Test, TypeOK
    <3> QED
      BY <2>1, <3>1, <3>2 DEF Abstract!Empty
  <2>3. CASE readPos # writePos
    BY <1>6, <2>1, <2>3 DEF PopTest, FrontTest, Test
  <2> QED
    BY <2>2, <2>3
<1>7. ASSUME PopCopy
      PROVE  UNCHANGED Abstract!fifoVars
  BY <1>7, SameRing DEF PopCopy, ringVars, writerVars
<1>8. ASSUME PopAdvance
      PROVE  Abstract!Pop
  BY <1>8, AdvanceRemoves, Zenon DEF PopAdvance, writerVars, Abstract!Pop
<1>9. ASSUME FrontCopy
      PROVE  Abstract!GetFront
  <2>1. Contents' = Contents /\ slots' = slots /\ pushed' = pushed
    BY <1>9, SameRing DEF FrontCopy, ringVars, writerVars
  <2>2. Contents # <<>> /\ Count > 0
    BY <1>1, <1>9, ContentsShape DEF FrontCopy, IInv, ReaderOK
  <2>3. Slot(1) = readPos
    BY <1>1 DEF TypeOK, Slot
  <2>4. Head(Contents) = data[readPos]
    BY <1>1, <2>2, <2>3, ContentsShape DEF Contents
  <2> QED
    BY <1>9, <2>1, <2>2, <2>4, Zenon DEF FrontCopy, Abstract!GetFront
<1>10. ASSUME wpc = "idle", ClearRead
       PROVE  Abstract!Clear
  BY <1>10 DEF ClearRead, writerVars, Abstract!Clear
<1>11. ASSUME ClearWrite
       PROVE  UNCHANGED Abstract!fifoVars
  <2>1. readPos' = 0 /\ writePos' = 0
    BY <1>11 DEF ClearWrite, IInv, ReaderOK
  <2>2. Count' = 0
    BY <2>1 DEF Count
  <2>3. Contents' = <<>>
    BY <2>2 DEF Contents
  <2> QED
    BY <1>11, <2>3 DEF ClearWrite, writerVars
<1>12. ASSUME NEW size \in Sizes, Resize(size)
       PROVE  Abstract!Resize(size)
  <2>1. Contents = <<>> /\ Contents' = <<>>
    BY <1>1, <1>12 DEF Resize, TypeOK, Contents, Count
  <2>2. slots' - 1 = size
    BY <1>12, SizesAssumption DEF Resize
  <2> QED
    BY <1>12, <2>1, <2>2 DEF Resize, writerVars, readerVars, Abstract!Resize
<1>13. ASSUME UNCHANGED vars
       PROVE  UNCHANGED Abstract!fifoVars
  BY <1>13, SameRing DEF vars, ringVars, writerVars, readerVars
<1>14. element \in Values
  BY <1>1 DEF TypeOK
<1> QED
  BY <1>2, <1>3, <1>4, <1>5, <1>6, <1>7, <1>8, <1>9, <1>10, <1>11, <1>12,
     <1>13, <1>14 DEF Next, Writer, Reader

\* The lock-free ring buffer implements the bounded FIFO queue.
THEOREM Refinement == Spec => ImplementsFifo
<1>1. Init => Abstract!Init
  <2> SUFFICES ASSUME Init PROVE Abstract!Init
    OBVIOUS
  <2>1. PICK size \in Sizes : slots = size + 1
    BY DEF Init
  <2>2. slots - 1 \in Sizes
    BY <2>1, SizesAssumption
  <2>3. Contents = <<>>
    BY <2>1, SizesAssumption DEF Init, Contents, Count
  <2> QED
    BY <2>2, <2>3, ZeroAssumption DEF Init, Abstract!Init
<1> QED
  BY <1>1, StepRefines, Invariance, PTL DEF Spec, ImplementsFifo, Abstract!Spec

-------------------------------------------------------------------------------
(***************************************************************************)
(* Pool.  The lock makes alloc(), release() and flush() exclude each       *)
(* other, so what one of them has read of the cache is still so when it    *)
(* changes it, and an item on its way into the cache is in no other place. *)
(***************************************************************************)
PoolTypeOK ==
    /\ cache \in Seq(Nat)
    /\ made \in Nat
    /\ pc \in [PoolThreads -> {"idle", "alloc", "pop", "release", "flush"}]
    /\ held \in [PoolThreads -> SUBSET Nat]
    /\ item \in [PoolThreads -> Nat]
    /\ deleted \subseteq Nat

\* A thread inside of a scope has the lock.
Locked == \A t \in PoolThreads : pc[t] # "idle" => poolLock = t

\* No item has a number that new will give out.
Numbered ==
    /\ \A i \in DOMAIN cache : cache[i] <= made
    /\ \A t \in PoolThreads : \A i \in held[t] : i <= made
    /\ \A i \in deleted : i <= made

\* What alloc() has read is still the last item when it is removed.
PopOK == \A t \in PoolThreads : pc[t] = "pop" => cache # <<>> /\ item[t] = cache[Len(cache)]

\* What release() is about to cache is in no other place.
ReleaseOK ==
    \A t \in PoolThreads : pc[t] = "release" =>
        /\ item[t] <= made /\ item[t] \notin deleted
        /\ \A u \in PoolThreads : item[t] \notin held[u]
        /\ \A i \in DOMAIN cache : cache[i] # item[t]

\* ItemsHaveOneOwner with the elements of the sequence spelt out.
OneOwner ==
    /\ \A t, u \in PoolThreads : t # u => held[t] \intersect held[u] = {}
    /\ \A t \in PoolThreads, i \in DOMAIN cache : cache[i] \notin held[t]
    /\ \A t \in PoolThreads : held[t] \intersect deleted = {}
    /\ \A i, j \in DOMAIN cache : cache[i] = cache[j] => i = j
    /\ \A i \in DOMAIN cache : cache[i] \notin deleted

\* The inductive invariant.
PoolInv == PoolTypeOK /\ Locked /\ Numbered /\ PopOK /\ ReleaseOK /\ OneOwner

\* Entering a scope to allocate or to flush disturbs nothing.
LEMMA EnterKeeps ==
    ASSUME PoolInv, NEW t \in PoolThreads, Alloc(t) \/ Flush(t)
    PROVE  PoolInv'
<1>1. \A u \in PoolThreads : pc[u] = "idle"
  BY NobodyAssumption DEF PoolInv, Locked, Alloc, Flush, Enter
<1>2. PoolTypeOK'
  BY Zenon DEF PoolInv, PoolTypeOK, Alloc, Flush, Enter
<1>3. Locked' /\ PopOK' /\ ReleaseOK'
  BY <1>1 DEF PoolInv, PoolTypeOK, Locked, PopOK, ReleaseOK, Alloc, Flush, Enter
<1>4. Numbered' /\ OneOwner'
  BY DEF PoolInv, Numbered, OneOwner, Alloc, Flush, Enter
<1> QED
  BY <1>2, <1>3, <1>4 DEF PoolInv

\* Entering release() takes the item from the thread.
LEMMA ReleaseKeeps ==
    ASSUME PoolInv, NEW t \in PoolThreads, Release(t)
    PROVE  PoolInv'
<1>1. \A u \in PoolThreads : pc[u] = "idle"
  BY NobodyAssumption DEF PoolInv, Locked, Release, Enter
<1>2. PICK i \in held[t] :
          /\ Enter(t, "release")
          /\ held' = [held EXCEPT ![t] = @ \ {i}]
          /\ item' = [item EXCEPT ![t] = i]
          /\ UNCHANGED <<cache, made, deleted>>
  BY Zenon DEF Release
<1>3. i \in Nat
  BY DEF PoolInv, PoolTypeOK
<1>4. PoolTypeOK'
  BY <1>2, <1>3 DEF PoolInv, PoolTypeOK, Enter
<1>5. Locked' /\ PopOK'
  BY <1>1, <1>2 DEF PoolInv, PoolTypeOK, Locked, PopOK, Enter
<1>6. \A u \in PoolThreads : held'[u] \subseteq held[u] /\ i \notin held'[u]
  BY <1>2 DEF PoolInv, PoolTypeOK, OneOwner
<1>7. ReleaseOK'
  <2>1. \A u \in PoolThreads : pc'[u] = "release" => u = t /\ item'[u] = i
    BY <1>1, <1>2 DEF PoolInv, PoolTypeOK, Enter
  <2>2. i <= made /\ i \notin deleted /\ \A k \in DOMAIN cache : cache[k] # i
    BY DEF PoolInv, Numbered, OneOwner
  <2> QED
    BY <1>2, <1>6, <2>1, <2>2 DEF ReleaseOK
<1>8. Numbered' /\ OneOwner'
  BY <1>2, <1>6 DEF PoolInv, Numbered, OneOwner
<1> QED
  BY <1>4, <1>5, <1>7, <1>8 DEF PoolInv

\* Leaving a scope: nobody is inside of one afterwards.
LEMMA LeaveLocked ==
    ASSUME PoolInv, NEW t \in PoolThreads, pc[t] # "idle", Leave(t)
    PROVE  \A u \in PoolThreads : pc'[u] = "idle"
  BY DEF PoolInv, PoolTypeOK, Locked, Leave

\* The item of new is nobody's.
LEMMA NewKeeps ==
    ASSUME PoolInv, NEW t \in PoolThreads, New(t)
    PROVE  PoolInv'
<1>1. \A u \in PoolThreads : pc'[u] = "idle"
  BY LeaveLocked DEF New
<1>2. PoolTypeOK'
  BY DEF PoolInv, PoolTypeOK, New, Leave
<1>3. Locked' /\ PopOK' /\ ReleaseOK'
  BY <1>1 DEF Locked, PopOK, ReleaseOK
<1>4. \A u \in PoolThreads : held'[u] = IF u = t THEN held[t] \cup {made + 1} ELSE held[u]
  BY DEF PoolInv, PoolTypeOK, New
<1>5. made' = made + 1 /\ cache' = cache /\ deleted' = deleted
  BY DEF New
<1>6. Numbered'
  BY <1>4, <1>5, SMTT(30) DEF PoolInv, PoolTypeOK, Numbered
<1>7. /\ \A u \in PoolThreads : made + 1 \notin held[u]
      /\ made + 1 \notin deleted
      /\ \A i \in DOMAIN cache : cache[i] # made + 1
  BY DEF PoolInv, PoolTypeOK, Numbered
<1>8. OneOwner'
  BY <1>4, <1>5, <1>7 DEF PoolInv, OneOwner
<1> QED
  BY <1>2, <1>3, <1>6, <1>8 DEF PoolInv

\* Reading the last item moves nothing.
LEMMA BackKeeps ==
    ASSUME PoolInv, NEW t \in PoolThreads, Back(t)
    PROVE  PoolInv'
<1>1. \A u \in PoolThreads \ {t} : pc[u] = "idle" /\ pc'[u] = "idle"
  BY DEF PoolInv, PoolTypeOK, Locked, Back
<1>2. cache[Len(cache)] \in Nat
  BY DEF PoolInv, PoolTypeOK, Back
<1>3. PoolTypeOK'
  BY <1>2 DEF PoolInv, PoolTypeOK, Back
<1>4. Locked' /\ PopOK' /\ ReleaseOK'
  BY <1>1 DEF PoolInv, PoolTypeOK, Locked, PopOK, ReleaseOK, Back
<1>5. Numbered' /\ OneOwner'
  BY DEF PoolInv, Numbered, OneOwner, Back
<1> QED
  BY <1>3, <1>4, <1>5 DEF PoolInv

\* The last item goes from the cache to the thread that has read it.
LEMMA PopBackKeeps ==
    ASSUME PoolInv, NEW t \in PoolThreads, PopBack(t)
    PROVE  PoolInv'
<1>1. \A u \in PoolThreads : pc'[u] = "idle"
  BY LeaveLocked DEF PopBack
<1>2. item[t] = cache[Len(cache)] /\ item[t] \in Nat /\ Len(cache) \in DOMAIN cache
  BY DEF PoolInv, PoolTypeOK, PopOK, PopBack
<1>3. /\ cache' \in Seq(Nat)
      /\ DOMAIN cache' = 1 .. Len(cache) - 1
      /\ \A i \in DOMAIN cache' : cache'[i] = cache[i] /\ i \in DOMAIN cache /\ i # Len(cache)
  BY SMTT(30) DEF PoolInv, PoolTypeOK, PopBack
<1>4. PoolTypeOK'
  BY <1>2, <1>3 DEF PoolInv, PoolTypeOK, PopBack, Leave
<1>5. Locked' /\ PopOK' /\ ReleaseOK'
  BY <1>1 DEF Locked, PopOK, ReleaseOK
<1>6. \A u \in PoolThreads : held'[u] = IF u = t THEN held[t] \cup {item[t]} ELSE held[u]
  BY DEF PoolInv, PoolTypeOK, PopBack
<1>7. made' = made /\ deleted' = deleted
  BY DEF PopBack
<1>8. Numbered'
  BY <1>2, <1>3, <1>6, <1>7 DEF PoolInv, Numbered
<1>9. OneOwner'
  BY <1>2, <1>3, <1>6, <1>7 DEF PoolInv, OneOwner
<1> QED
  BY <1>4, <1>5, <1>8, <1>9 DEF PoolInv

\* A released item, which was in no other place, is cached.
LEMMA PushBackKeeps ==
    ASSUME PoolInv, NEW t \in PoolThreads, PushBack(t)
    PROVE  PoolInv'
<1>1. \A u \in PoolThreads : pc'[u] = "idle"
  BY LeaveLocked DEF PushBack
<1>2. /\ cache' \in Seq(Nat)
      /\ DOMAIN cache' = 1 .. Len(cache) + 1
      /\ \A i \in DOMAIN cache' : \/ i \in DOMAIN cache /\ cache'[i] = cache[i]
                                  \/ i = Len(cache) + 1 /\ cache'[i] = item[t]
  BY DEF PoolInv, PoolTypeOK, PushBack
<1>3. PoolTypeOK'
  BY <1>2 DEF PoolInv, PoolTypeOK, PushBack, Leave
<1>4. Locked' /\ PopOK' /\ ReleaseOK'
  BY <1>1 DEF Locked, PopOK, ReleaseOK
<1>5. made' = made /\ deleted' = deleted /\ held' = held
  BY DEF PushBack
<1>6. /\ item[t] <= made /\ item[t] \notin deleted
      /\ \A u \in PoolThreads : item[t] \notin held[u]
      /\ \A i \in DOMAIN cache : cache[i] # item[t]
  BY DEF PoolInv, ReleaseOK, PushBack
<1>7. Numbered' /\ OneOwner'
  BY <1>2, <1>5, <1>6 DEF PoolInv, Numbered, OneOwner
<1> QED
  BY <1>3, <1>4, <1>7 DEF PoolInv

\* What flush() deletes was nobody's.
LEMMA DeleteAllKeeps ==
    ASSUME PoolInv, NEW t \in PoolThreads, DeleteAll(t)
    PROVE  PoolInv'
<1>1. \A u \in PoolThreads : pc'[u] = "idle"
  BY LeaveLocked DEF DeleteAll
<1>2. cache' = <<>> /\ made' = made /\ held' = held
  BY DEF DeleteAll
<1>3. \A i \in deleted' : i \in deleted \/ \E k \in DOMAIN cache : i = cache[k]
  BY DEF DeleteAll, Range
<1>4. PoolTypeOK'
  <2>1. \A k \in DOMAIN cache : cache[k] \in Nat
    BY DEF PoolInv, PoolTypeOK
  <2>2. \A i \in deleted' : i \in Nat
    BY <1>3, <2>1, Zenon DEF PoolInv, PoolTypeOK
  <2>3. pc' \in [PoolThreads -> {"idle", "alloc", "pop", "release", "flush"}] /\ item' = item
    BY DEF PoolInv, PoolTypeOK, DeleteAll, Leave
  <2>4. deleted' \subseteq Nat
    BY <2>2, Zenon
  <2> QED
    BY <1>2, <2>3, <2>4 DEF PoolInv, PoolTypeOK
<1>5. Locked' /\ PopOK' /\ ReleaseOK'
  BY <1>1 DEF Locked, PopOK, ReleaseOK
<1>6. Numbered' /\ OneOwner'
  BY <1>2, <1>3 DEF PoolInv, Numbered, OneOwner
<1> QED
  BY <1>4, <1>5, <1>6 DEF PoolInv

\* The invariant says what the property says.
LEMMA PoolInvImplies == PoolInv => ItemsHaveOneOwner
  BY DEF PoolInv, OneOwner, ItemsHaveOneOwner, Range, IsInjective

\* pool.h: an item that alloc() has returned is held by one thread until that
\* thread releases it, whatever the other threads allocate, release and flush.
THEOREM OwnersHold == PoolSpec => []ItemsHaveOneOwner
<1>1. PoolInit => PoolInv
  BY DEF PoolInit, PoolInv, PoolTypeOK, Locked, Numbered, PopOK, ReleaseOK, OneOwner
<1>2. PoolInv /\ [PoolNext]_poolVars => PoolInv'
  <2> SUFFICES ASSUME PoolInv, [PoolNext]_poolVars PROVE PoolInv'
    OBVIOUS
  <2>1. CASE UNCHANGED poolVars
    BY <2>1 DEF poolVars, PoolInv, PoolTypeOK, Locked, Numbered, PopOK, ReleaseOK, OneOwner
  <2>2. ASSUME NEW t \in PoolThreads,
               \/ Alloc(t) \/ Release(t) \/ Flush(t)
               \/ New(t) \/ Back(t) \/ PopBack(t) \/ PushBack(t) \/ DeleteAll(t)
        PROVE  PoolInv'
    BY <2>2, EnterKeeps, ReleaseKeeps, NewKeeps, BackKeeps, PopBackKeeps, PushBackKeeps, DeleteAllKeeps
  <2> QED
    BY <2>1, <2>2 DEF PoolNext
<1> QED
  BY <1>1, <1>2, PoolInvImplies, PTL DEF PoolSpec

-------------------------------------------------------------------------------
(***************************************************************************)
(* Buffer.  A buffer with a block owns as many cells as it believes to and *)
(* keeps every element with a promised value, call by call.                *)
(***************************************************************************)
\* What a cell of a block holds.
Cells == BufferElements \union {ZeroElement, Garbage}

\* The members of a buffer agree with each other ...
BlockOK(r) ==
    /\ r \in [data : Seq(Cells), size : Nat, max : Nat]
    /\ Len(r.data) = r.max
    /\ r.size <= r.max

\* ... and the promised elements are in its cells.
Keeps(r, w) ==
    /\ w \in Seq(Cells)
    /\ Len(w) = r.size
    /\ \A i \in 1 .. r.size : w[i] # Garbage => r.data[i] = w[i]

BufferOK(r, w) == BlockOK(r) /\ Keeps(r, w)

\* The inductive invariant.
BufferInv ==
    /\ buf = [b \in Buffers |-> buf[b]]
    /\ want = [b \in Buffers |-> want[b]]
    /\ \A b \in Buffers \ broken : BufferOK(buf[b], want[b])

\* A function on 1 .. n is a sequence.
LEMMA FunctionIsSequence ==
    ASSUME NEW S, NEW n \in Nat, NEW f \in [1 .. n -> S]
    PROVE  f \in Seq(S) /\ Len(f) = n
  OBVIOUS

\* The prefix of a sequence, with Garbage behind its end.
LEMMA ResizedSequence ==
    ASSUME NEW s \in Seq(Cells), NEW n \in Nat
    PROVE  /\ Resized(s, n) \in Seq(Cells)
           /\ Len(Resized(s, n)) = n
           /\ \A i \in 1 .. n : Resized(s, n)[i] = IF i <= Len(s) THEN s[i] ELSE Garbage
<1>1. Resized(s, n) \in [1 .. n -> Cells]
  BY DEF Resized, Cells
<1>2. Resized(s, n) \in Seq(Cells) /\ Len(Resized(s, n)) = n
  BY <1>1
<1> QED
  BY <1>2 DEF Resized

\* realloc() to a block that still has room for the size.
LEMMA ReallocatedBlock ==
    ASSUME NEW r, r \in [data : Seq(Cells), size : Nat, max : Nat], Len(r.data) = r.max,
           NEW cells \in Nat, r.size <= cells,
           NEW new, new = Reallocated(r, cells)
    PROVE  /\ BlockOK(new) /\ new.size = r.size /\ new.max = cells
           /\ \A i \in 1 .. cells : i <= r.max => new.data[i] = r.data[i]
<1>1. new = [data |-> Resized(r.data, cells), size |-> r.size, max |-> cells]
  BY DEF Reallocated
<1>2. /\ Resized(r.data, cells) \in Seq(Cells)
      /\ Len(Resized(r.data, cells)) = cells
      /\ \A i \in 1 .. cells : i <= r.max => Resized(r.data, cells)[i] = r.data[i]
  BY ResizedSequence, Zenon
<1> QED
  BY <1>1, <1>2 DEF BlockOK

\* resize() keeps what it promises to keep, and grow() is a resize().
LEMMA ResizedBufferOK ==
    ASSUME NEW r, NEW w, BufferOK(r, w), NEW n \in Nat,
           NEW new, new = ResizedBuffer(r, n)
    PROVE  BufferOK(new, Resized(w, n)) /\ new.size = n
<1>1. PICK s : s = [r EXCEPT !.size = n]
  BY Zenon
<1>2. PICK m \in Nat : m = n + n \div Growth /\ n <= m
  BY BufferAssumption
<1>3. /\ s = [data |-> r.data, size |-> n, max |-> r.max]
      /\ r.data \in Seq(Cells) /\ r.max \in Nat /\ r.size \in Nat
      /\ Len(r.data) = r.max /\ r.size <= r.max
  BY <1>1 DEF BufferOK, BlockOK
<1>4. /\ Resized(w, n) \in Seq(Cells) /\ Len(Resized(w, n)) = n
      /\ \A i \in 1 .. n : Resized(w, n)[i] = IF i <= r.size THEN w[i] ELSE Garbage
  BY ResizedSequence, Zenon DEF BufferOK, Keeps
<1>5. \A i \in 1 .. r.size : w[i] # Garbage => r.data[i] = w[i]
  BY DEF BufferOK, Keeps
<1>6. CASE n > r.max
  <2>1. new = Reallocated(s, m)
    BY <1>1, <1>2, <1>6 DEF ResizedBuffer
  <2>2. /\ BlockOK(new) /\ new.size = n
        /\ \A i \in 1 .. m : i <= r.max => new.data[i] = r.data[i]
    BY <1>2, <1>3, <2>1, ReallocatedBlock
  <2> QED
    <3>1. ASSUME NEW i \in 1 .. n, Resized(w, n)[i] # Garbage
          PROVE  new.data[i] = Resized(w, n)[i]
      <4>1. i \in 1 .. r.size /\ i \in 1 .. m /\ i <= r.max
        BY <1>2, <1>3, <1>4, <3>1
      <4> QED
        BY <1>4, <1>5, <2>2, <3>1, <4>1, Zenon
    <3> QED
      BY <1>4, <2>2, <3>1, Zenon DEF BufferOK, Keeps
<1>7. CASE ~(n > r.max)
  <2>1. new = s
    BY <1>1, <1>7 DEF ResizedBuffer
  <2>2. BlockOK(new)
    BY <1>3, <1>7, <2>1 DEF BlockOK
  <2> QED
    BY <1>3, <1>4, <1>5, <1>7, <2>1, <2>2 DEF BufferOK, Keeps
<1> QED
  BY <1>6, <1>7

\* reserve() only ever enlarges the block.
LEMMA ReservedBlock ==
    ASSUME NEW r, BlockOK(r), NEW n \in Nat, NEW new, new = ReservedBuffer(r, n)
    PROVE  /\ BlockOK(new) /\ new.size = r.size /\ n <= new.max /\ r.max <= new.max
           /\ \A i \in 1 .. r.max : new.data[i] = r.data[i]
<1>1. /\ r \in [data : Seq(Cells), size : Nat, max : Nat]
      /\ Len(r.data) = r.max /\ r.size <= r.max
  BY DEF BlockOK
<1>2. CASE n > r.max
  <2>1. new = Reallocated(r, n)
    BY <1>2 DEF ReservedBuffer
  <2>2. /\ BlockOK(new) /\ new.size = r.size /\ new.max = n
        /\ \A i \in 1 .. n : i <= r.max => new.data[i] = r.data[i]
    BY <1>1, <1>2, <2>1, ReallocatedBlock
  <2> QED
    BY <1>1, <1>2, <2>2
<1>3. CASE ~(n > r.max)
  BY <1>1, <1>3 DEF ReservedBuffer
<1> QED
  BY <1>2, <1>3

\* What memcpy() leaves: the cells it is given are written, and no other.
Written(new, r, at, s) ==
    /\ new.size = r.size /\ new.max = r.max
    /\ \A i \in 1 .. r.max :
          new.data[i] = IF i > at /\ i <= at + Len(s) THEN s[i - at] ELSE r.data[i]

\* memcpy() writes the cells it is given and no other.
LEMMA CopiedBlock ==
    ASSUME NEW r, BlockOK(r), NEW at \in Nat, NEW s \in Seq(Cells),
           NEW new, new = Copied(r, at, s)
    PROVE  BlockOK(new) /\ Written(new, r, at, s)
<1>1. /\ r \in [data : Seq(Cells), size : Nat, max : Nat]
      /\ Len(r.data) = r.max /\ r.size <= r.max /\ r.max \in Nat
  BY DEF BlockOK
<1>2. PICK d : d = [i \in 1 .. r.max |-> IF i > at /\ i <= at + Len(s)
                                         THEN s[i - at] ELSE r.data[i]]
  BY Zenon
<1>3. d \in [1 .. r.max -> Cells]
  BY <1>1, <1>2
<1>4. d \in Seq(Cells) /\ Len(d) = r.max
  BY <1>1, <1>3, FunctionIsSequence, Zenon
<1>5. DOMAIN r.data = 1 .. r.max
  BY <1>1
<1>6. new = [r EXCEPT !.data = d]
  BY <1>2, <1>5 DEF Copied
<1>7. new = [data |-> d, size |-> r.size, max |-> r.max]
  BY <1>1, <1>6
<1> QED
  BY <1>1, <1>2, <1>4, <1>7, SMTT(30) DEF BlockOK, Written

\* append() adds the elements behind the promised ones.
LEMMA AppendedBufferOK ==
    ASSUME NEW r, NEW w, BufferOK(r, w), NEW s \in Seq(Cells),
           NEW new, new = AppendedBuffer(r, s)
    PROVE  BufferOK(new, w \o s)
<1>1. /\ r.size \in Nat /\ w \in Seq(Cells) /\ Len(w) = r.size
      /\ \A i \in 1 .. r.size : w[i] # Garbage => r.data[i] = w[i]
  BY DEF BufferOK, BlockOK, Keeps
<1>2. PICK n \in Nat : n = r.size + Len(s)
  BY <1>1
<1>3. PICK m : m = ResizedBuffer(r, n)
  BY Zenon
<1>4. BlockOK(m) /\ Keeps(m, Resized(w, n)) /\ m.size = n
  BY <1>3, ResizedBufferOK, Zenon DEF BufferOK
<1>5. m.max \in Nat /\ n <= m.max
  BY <1>4 DEF BlockOK
<1>6. \A i \in 1 .. n : Resized(w, n)[i] = IF i <= r.size THEN w[i] ELSE Garbage
  BY <1>1, ResizedSequence, Zenon
<1>7. \A i \in 1 .. r.size : w[i] # Garbage => m.data[i] = w[i]
  <2>1. \A i \in 1 .. r.size : i \in 1 .. n /\ i <= r.size
    BY <1>1, <1>2
  <2> QED
    BY <1>1, <1>4, <1>6, <2>1, Zenon DEF Keeps
<1>8. new = Copied(m, r.size, s)
  BY <1>2, <1>3 DEF AppendedBuffer
<1>9. BlockOK(new) /\ Written(new, m, r.size, s)
  BY <1>1, <1>4, <1>8, CopiedBlock
<1>10. /\ w \o s \in Seq(Cells) /\ Len(w \o s) = n
       /\ \A i \in 1 .. n : (w \o s)[i] = IF i <= r.size THEN w[i] ELSE s[i - r.size]
  BY <1>1, <1>2
<1>11. Keeps(new, w \o s)
  BY <1>1, <1>2, <1>4, <1>5, <1>7, <1>9, <1>10, SMTT(30) DEF Keeps, Written
<1> QED
  BY <1>9, <1>11 DEF BufferOK

\* replace() with elements that keep what is promised of v.
LEMMA ReplacedBufferOK ==
    ASSUME NEW r, BlockOK(r), NEW s \in Seq(Cells), NEW v \in Seq(Cells), Len(v) = Len(s),
           \A i \in 1 .. Len(s) : v[i] # Garbage => s[i] = v[i],
           NEW new, new = ReplacedBuffer(r, s)
    PROVE  BufferOK(new, v)
<1>1. PICK n \in Nat : n = Len(s)
  OBVIOUS
<1>2. PICK m : m = ReservedBuffer(r, n)
  BY Zenon
<1>3. BlockOK(m) /\ n <= m.max
  BY <1>2, ReservedBlock, Zenon
<1>4. PICK c : c = Copied(m, 0, s)
  BY Zenon
<1>5. BlockOK(c) /\ Written(c, m, 0, s)
  BY <1>3, <1>4, CopiedBlock
<1>6. \A i \in 1 .. n : c.data[i] = s[i]
  BY <1>1, <1>3, <1>5 DEF BlockOK, Written
<1>7. new = [c EXCEPT !.size = n]
  BY <1>1, <1>2, <1>4 DEF ReplacedBuffer
<1>8. new = [data |-> c.data, size |-> n, max |-> c.max]
  <2>1. c \in [data : Seq(Cells), size : Nat, max : Nat]
    BY <1>5, Zenon DEF BlockOK
  <2> QED
    BY <1>7, <2>1
<1>9. BlockOK(new)
  BY <1>3, <1>5, <1>8 DEF BlockOK, Written
<1>10. Keeps(new, v)
  BY <1>1, <1>6, <1>8 DEF Keeps
<1> QED
  BY <1>9, <1>10 DEF BufferOK

\* A call that leaves a good buffer, or one that is known to be broken.
LEMMA AllocatingKeeps ==
    ASSUME BufferInv, NEW b \in Buffers, NEW new, NEW wanted, BufferOK(new, wanted),
           Allocating(b, new, wanted)
    PROVE  BufferInv'
  BY DEF BufferInv, Allocating

\* A call that does not allocate and leaves a good buffer.
LEMMA SettingKeeps ==
    ASSUME BufferInv, NEW b \in Buffers, NEW new, NEW wanted, BufferOK(new, wanted),
           buf' = [buf EXCEPT ![b] = new], want' = [want EXCEPT ![b] = wanted],
           broken' \in {broken, broken \ {b}}
    PROVE  BufferInv'
  BY Zenon DEF BufferInv

\* The calls on one buffer that allocate.
LEMMA AllocationKeeps ==
    ASSUME BufferInv, NEW b \in Buffers, b \notin broken,
           NEW n \in Nat, NEW s \in Seq(Cells),
           \/ ResizeTo(b, n) \/ Reserve(b, n) \/ ResetTo(b, n)
           \/ AppendTo(b, s) \/ Replace(b, s)
    PROVE  BufferInv'
<1>1. /\ BufferOK(buf[b], want[b]) /\ BlockOK(buf[b]) /\ Keeps(buf[b], want[b])
      /\ \A i \in 1 .. buf[b].size : want[b][i] # Garbage => buf[b].data[i] = want[b][i]
      /\ want[b] \in Seq(Cells) /\ Len(want[b]) = buf[b].size
  BY ZenonT(30) DEF BufferInv, BufferOK, Keeps
<1>2. CASE ResizeTo(b, n)
  <2>1. PICK new : new = ResizedBuffer(buf[b], n)
    BY ZenonT(30)
  <2>2. BufferOK(new, Resized(want[b], n))
    BY <1>1, <2>1, ResizedBufferOK
  <2> QED
    BY <1>2, <2>1, <2>2, AllocatingKeeps DEF ResizeTo
<1>3. PICK res : res = ReservedBuffer(buf[b], n)
  BY Zenon
<1>4. /\ BlockOK(res) /\ res.size = buf[b].size /\ n <= res.max
      /\ buf[b].max <= res.max
      /\ \A i \in 1 .. buf[b].max : res.data[i] = buf[b].data[i]
  BY <1>1, <1>3, ReservedBlock, ZenonT(30)
<1>5. CASE Reserve(b, n)
  <2>1. 1 .. buf[b].size \subseteq 1 .. buf[b].max
    <3>1. BlockOK(buf[b])
      BY <1>1, ZenonT(30)
    <3> QED
      BY <3>1 DEF BlockOK
  <2>2. Keeps(res, want[b])
    BY <1>1, <1>4, <2>1 DEF Keeps
  <2> QED
    BY <1>3, <1>4, <1>5, <2>2, AllocatingKeeps DEF Reserve, BufferOK
<1>6. CASE ResetTo(b, n)
  <2>1. PICK new : new = [res EXCEPT !.size = n]
    BY Zenon
  <2>2. new = [data |-> res.data, size |-> n, max |-> res.max]
    BY <1>4, <2>1 DEF BlockOK
  <2>3. BlockOK(new)
    BY <1>4, <2>2 DEF BlockOK
  <2>4. /\ Resized(<<>>, n) \in Seq(Cells) /\ Len(Resized(<<>>, n)) = n
        /\ \A i \in 1 .. n : Resized(<<>>, n)[i] = Garbage
    BY DEF Resized, Cells
  <2>5. Keeps(new, Resized(<<>>, n))
    BY <2>2, <2>4 DEF Keeps
  <2> QED
    BY <1>3, <1>6, <2>1, <2>3, <2>5, AllocatingKeeps DEF ResetTo, BufferOK
<1>7. CASE AppendTo(b, s)
  <2>1. PICK new : new = AppendedBuffer(buf[b], s)
    BY Zenon
  <2>2. BufferOK(new, want[b] \o s)
    BY <1>1, <2>1, AppendedBufferOK, Zenon
  <2> QED
    BY <1>7, <2>1, <2>2, AllocatingKeeps DEF AppendTo
<1>8. CASE Replace(b, s)
  <2>1. PICK new : new = ReplacedBuffer(buf[b], s)
    BY Zenon
  <2>2. BufferOK(new, s)
    BY <1>1, <2>1, ReplacedBufferOK, Zenon
  <2> QED
    BY <1>8, <2>1, <2>2, AllocatingKeeps DEF Replace
<1> QED
  BY <1>2, <1>5, <1>6, <1>7, <1>8

\* setSize() within the capacity, and pack().
LEMMA SizeKeeps ==
    ASSUME BufferInv, NEW b \in Buffers, b \notin broken, NEW n \in Nat,
           SetSize(b, n) \/ Pack(b)
    PROVE  BufferInv'
<1>1. BlockOK(buf[b]) /\ Keeps(buf[b], want[b])
  BY DEF BufferInv, BufferOK
<1>2. /\ buf[b] \in [data : Seq(Cells), size : Nat, max : Nat]
      /\ Len(buf[b].data) = buf[b].max /\ buf[b].size <= buf[b].max
      /\ want[b] \in Seq(Cells) /\ Len(want[b]) = buf[b].size
      /\ \A i \in 1 .. buf[b].size : want[b][i] # Garbage => buf[b].data[i] = want[b][i]
  BY <1>1 DEF BlockOK, Keeps
<1>3. CASE SetSize(b, n)
  <2>1. PICK new : new = [buf[b] EXCEPT !.size = n]
    BY Zenon
  <2>2. new = [data |-> buf[b].data, size |-> n, max |-> buf[b].max]
    BY <1>2, <2>1
  <2>3. BlockOK(new)
    BY <1>2, <1>3, <2>2 DEF BlockOK, SetSize
  <2>4. /\ Resized(want[b], n) \in Seq(Cells) /\ Len(Resized(want[b], n)) = n
        /\ \A i \in 1 .. n :
              Resized(want[b], n)[i] = IF i <= buf[b].size THEN want[b][i] ELSE Garbage
    BY <1>2, ResizedSequence, Zenon
  <2>5. Keeps(new, Resized(want[b], n))
    BY <1>2, <2>2, <2>4 DEF Keeps
  <2> QED
    BY <1>3, <2>1, <2>3, <2>5, SettingKeeps, Zenon DEF SetSize, BufferOK
<1>4. CASE Pack(b)
  <2>1. PICK new : new = Reallocated(buf[b], buf[b].size)
    BY ZenonT(30)
  <2>2. /\ BlockOK(new) /\ new.size = buf[b].size
        /\ \A i \in 1 .. buf[b].size : i <= buf[b].max => new.data[i] = buf[b].data[i]
    BY <1>2, <2>1, ReallocatedBlock
  <2>3. Keeps(new, want[b])
    BY <1>2, <2>2 DEF Keeps
  <2>4. buf' = [buf EXCEPT ![b] = new] /\ want' = [want EXCEPT ![b] = want[b]]
    BY <1>4, <2>1 DEF Pack, BufferInv
  <2> QED
    BY <1>4, <2>2, <2>3, <2>4, SettingKeeps, Zenon DEF Pack, BufferOK
<1> QED
  BY <1>3, <1>4

\* setZero(), and a write of one element.
LEMMA ElementsKeep ==
    ASSUME BufferInv, NEW b \in Buffers, b \notin broken,
           \/ SetZero(b)
           \/ \E i \in 1 .. buf[b].size, e \in BufferElements : SetElement(b, i, e)
    PROVE  BufferInv'
<1>1. BlockOK(buf[b]) /\ Keeps(buf[b], want[b])
  BY DEF BufferInv, BufferOK
<1>2. /\ buf[b].size \in Nat /\ buf[b].max \in Nat
      /\ Len(buf[b].data) = buf[b].max /\ buf[b].size <= buf[b].max
      /\ want[b] \in Seq(Cells) /\ Len(want[b]) = buf[b].size
      /\ \A i \in 1 .. buf[b].size : want[b][i] # Garbage => buf[b].data[i] = want[b][i]
  BY <1>1 DEF BlockOK, Keeps
<1>3. CASE SetZero(b)
  <2>1. PICK s : s = [i \in 1 .. buf[b].size |-> ZeroElement]
    BY Zenon
  <2>2. /\ s \in Seq(Cells) /\ Len(s) = buf[b].size
        /\ \A i \in 1 .. buf[b].size : s[i] = ZeroElement
    BY <1>2, <2>1 DEF Cells
  <2>3. PICK new : new = Copied(buf[b], 0, s)
    BY ZenonT(30)
  <2>4. BlockOK(new) /\ Written(new, buf[b], 0, s)
    BY <1>1, <2>2, <2>3, CopiedBlock
  <2>5. [i \in DOMAIN want[b] |-> ZeroElement] = s
    BY <1>2, <2>1
  <2>6. Keeps(new, s)
    BY <1>2, <2>2, <2>4 DEF Keeps, Written
  <2> QED
    BY <1>3, <2>1, <2>3, <2>4, <2>5, <2>6, SettingKeeps, Zenon DEF SetZero, BufferOK
<1>4. ASSUME NEW i \in 1 .. buf[b].size, NEW e \in BufferElements, SetElement(b, i, e)
      PROVE  BufferInv'
  <2>1. <<e>> \in Seq(Cells) /\ Len(<<e>>) = 1 /\ <<e>>[1] = e /\ i - 1 \in Nat
    BY <1>2 DEF Cells
  <2>2. PICK new : new = Copied(buf[b], i - 1, <<e>>)
    BY Zenon
  <2>3. BlockOK(new) /\ Written(new, buf[b], i - 1, <<e>>)
    BY <1>1, <2>1, <2>2, CopiedBlock, Zenon
  <2>4. PICK w : w = [want[b] EXCEPT ![i] = e]
    BY Zenon
  <2>5. /\ w \in Seq(Cells) /\ Len(w) = buf[b].size
        /\ \A j \in 1 .. buf[b].size : w[j] = IF j = i THEN e ELSE want[b][j]
    BY <1>2, <2>4 DEF Cells
  <2>6. Keeps(new, w)
    BY <1>2, <2>1, <2>3, <2>5 DEF Keeps, Written
  <2> QED
    BY <1>4, <2>2, <2>3, <2>4, <2>6, SettingKeeps, Zenon DEF SetElement, BufferOK
<1> QED
  BY <1>3, <1>4

\* swap(), and the move operations that are made of it.
LEMMA SwapKeeps ==
    ASSUME BufferInv, NEW b \in Buffers, NEW c \in Buffers, Swap(b, c)
    PROVE  BufferInv'
<1>1. \A x \in Buffers : Other(b, c, x) \in Buffers
  BY DEF Other
<1>2. \A x \in Buffers \ broken' : Other(b, c, x) \in Buffers \ broken
  BY <1>1 DEF Swap
<1> QED
  BY <1>1, <1>2 DEF BufferInv, Swap

\* append() of an own element: a copy, or something else that nobody counts on.
LEMMA AppendOwnKeeps ==
    ASSUME BufferInv, NEW b \in Buffers, b \notin broken, NEW i \in 1 .. buf[b].size,
           AppendOwn(b, i)
    PROVE  BufferInv'
<1>1. BufferOK(buf[b], want[b]) /\ BlockOK(buf[b]) /\ want[b] \in Seq(Cells)
  BY DEF BufferInv, BufferOK, Keeps
<1>2. buf[b].data[i] \in Cells /\ Garbage \in Cells
  BY <1>1 DEF BlockOK, Cells
<1>3. CASE AppendTo(b, <<buf[b].data[i]>>)
  <2>1. <<buf[b].data[i]>> \in Seq(Cells) /\ 0 \in Nat
    BY <1>2
  <2> QED
    BY <1>3, <2>1, AllocationKeeps, Zenon
<1>4. ASSUME NEW read \in {buf[b].data[i], Garbage},
             Allocating(b, AppendedBuffer(buf[b], <<read>>), Append(want[b], Garbage))
      PROVE  BufferInv'
  <2>1. PICK s : s = <<read>>
    BY Zenon
  <2>2. s \in Seq(Cells) /\ Len(s) = 1 /\ s[1] = read /\ read \in Cells
    BY <1>2, <2>1
  <2>3. PICK new : new = AppendedBuffer(buf[b], s)
    BY Zenon
  <2>4. BufferOK(new, want[b] \o s)
    BY <1>1, <2>2, <2>3, AppendedBufferOK, Zenon
  <2>5. PICK w : w = Append(want[b], Garbage)
    BY Zenon
  <2>6. /\ w \in Seq(Cells) /\ Len(w) = Len(want[b] \o s)
        /\ \A x \in 1 .. Len(w) : w[x] # Garbage => w[x] = (want[b] \o s)[x]
    <3>1. /\ w \in Seq(Cells) /\ Len(w) = Len(want[b]) + 1
          /\ \A x \in 1 .. Len(want[b]) : w[x] = want[b][x]
          /\ w[Len(want[b]) + 1] = Garbage
      BY <1>1, <1>2, <2>5
    <3>2. PICK v : v = want[b] \o s
      BY Zenon
    <3>3. /\ Len(v) = Len(want[b]) + Len(s)
          /\ \A x \in 1 .. Len(want[b]) + Len(s) :
                v[x] = IF x <= Len(want[b]) THEN want[b][x] ELSE s[x - Len(want[b])]
      BY <1>1, <2>2, <3>2, Concatenation, ZenonT(30)
    <3>4. Len(want[b]) \in Nat
      BY <1>1
    <3> QED
      BY <2>2, <3>1, <3>2, <3>3, <3>4
  <2>7. BufferOK(new, w)
    BY <2>4, <2>6, ZenonT(30) DEF BufferOK, Keeps
  <2> QED
    BY <1>4, <2>1, <2>3, <2>5, <2>7, AllocatingKeeps, Zenon
<1> QED
  BY <1>3, <1>4 DEF AppendOwn

\* Copy assignment from a good buffer.
LEMMA AssignKeeps ==
    ASSUME BufferInv, NEW b \in Buffers \ broken, NEW c \in Buffers \ broken,
           AssignBuffer(b, c)
    PROVE  BufferInv'
<1>1. CASE b = c
  BY <1>1 DEF AssignBuffer, BufferInv, bufferVars
<1>2. CASE b # c
  <2>1. BlockOK(buf[b]) /\ BlockOK(buf[c]) /\ Keeps(buf[c], want[c])
    BY DEF BufferInv, BufferOK
  <2>2. /\ buf[c].size \in Nat /\ buf[c].max \in Nat /\ buf[c].data \in Seq(Cells)
        /\ Len(buf[c].data) = buf[c].max /\ buf[c].size <= buf[c].max
        /\ want[c] \in Seq(Cells) /\ Len(want[c]) = buf[c].size
        /\ \A i \in 1 .. buf[c].size : want[c][i] # Garbage => buf[c].data[i] = want[c][i]
    BY <2>1 DEF BlockOK, Keeps
  <2>3. PICK s : s = Content(buf[c])
    BY Zenon
  <2>4. /\ s \in Seq(Cells) /\ Len(s) = buf[c].size
        /\ \A i \in 1 .. buf[c].size : s[i] = buf[c].data[i]
    BY <2>2, <2>3 DEF Content
  <2>5. PICK new : new = ReplacedBuffer(buf[b], s)
    BY Zenon
  <2>6. /\ Len(want[c]) = Len(s)
        /\ \A i \in 1 .. Len(s) : want[c][i] # Garbage => s[i] = want[c][i]
    BY <2>2, <2>4, Zenon
  <2>7. BufferOK(new, want[c])
    BY <2>1, <2>2, <2>4, <2>5, <2>6, ReplacedBufferOK, ZenonT(30)
  <2> QED
    BY <1>2, <2>3, <2>5, <2>7, AllocatingKeeps DEF AssignBuffer
<1> QED
  BY <1>1, <1>2

\* No promised element yet, and no cell.
LEMMA NewBufferOK == BufferOK(NewBuffer, <<>>)
<1>1. NewBuffer.data = <<>> /\ NewBuffer.size = 0 /\ NewBuffer.max = 0
  BY DEF NewBuffer
<1>2. BlockOK(NewBuffer)
  BY DEF BlockOK, NewBuffer
<1>3. Keeps(NewBuffer, <<>>)
  BY <1>1 DEF Keeps
<1> QED
  BY <1>2, <1>3, Zenon DEF BufferOK

\* Every step keeps the invariant.
LEMMA BufferStep == BufferInv /\ [BufferNext]_bufferVars => BufferInv'
<1> SUFFICES ASSUME BufferInv, [BufferNext]_bufferVars
             PROVE  BufferInv'
  OBVIOUS
<1>1. CASE UNCHANGED bufferVars
  BY <1>1 DEF BufferInv, bufferVars
<1>2. ASSUME NEW b \in Buffers, ClearBuffer(b)
      PROVE  BufferInv'
  BY <1>2, NewBufferOK, SettingKeeps, Zenon DEF ClearBuffer
<1>3. ASSUME NEW b \in Buffers, NEW c \in Buffers,
             MoveAssign(b, c) \/ Swap(b, c) \/ MoveConstruct(b, c)
      PROVE  BufferInv'
  BY <1>1, <1>3, SwapKeeps DEF MoveAssign, MoveConstruct
<1>4. ASSUME NEW b \in Buffers, b \notin broken, NEW n \in 0 .. MaxSize,
             ResizeTo(b, n) \/ Grow(b, n) \/ Reserve(b, n) \/ ResetTo(b, n) \/ SetSize(b, n)
      PROVE  BufferInv'
  <2>1. n \in Nat /\ <<>> \in Seq(Cells)
    BY BufferAssumption
  <2> QED
    BY <1>4, <2>1, AllocationKeeps, SizeKeeps, Zenon DEF Grow
<1>5. ASSUME NEW b \in Buffers, b \notin broken, NEW e \in BufferElements, NEW k \in 1 .. 2,
             NEW s, s = [i \in 1 .. k |-> e], AppendTo(b, s) \/ Replace(b, s)
      PROVE  BufferInv'
  <2>1. s \in Seq(Cells) /\ 0 \in Nat
    BY <1>5 DEF Cells
  <2> QED
    BY <1>5, <2>1, AllocationKeeps
<1>6. ASSUME NEW b \in Buffers, b \notin broken, NEW i \in 1 .. buf[b].size, AppendOwn(b, i)
      PROVE  BufferInv'
  BY <1>6, AppendOwnKeeps
<1>7. ASSUME NEW b \in Buffers, b \notin broken,
             \/ SetZero(b) \/ Pack(b)
             \/ \E i \in 1 .. buf[b].size, e \in BufferElements : SetElement(b, i, e)
      PROVE  BufferInv'
  <2>1. 0 \in Nat
    OBVIOUS
  <2> QED
    BY <1>7, <2>1, ElementsKeep, SizeKeeps
<1>8. ASSUME NEW b \in Buffers \ broken, NEW c \in Buffers \ broken, AssignBuffer(b, c)
      PROVE  BufferInv'
  BY <1>8, AssignKeeps
<1>9. ASSUME NEW b \in Buffers \ broken, NEW c \in Buffers \ broken, CopyConstruct(b, c)
      PROVE  BufferInv'
  BY <1>1, <1>9, AssignKeeps, Zenon DEF CopyConstruct
<1> QED
  BY <1>1, <1>2, <1>3, <1>4, <1>5, <1>6, <1>7, <1>8, <1>9, ZenonT(30) DEF BufferNext

\* A buffer holds what was put into it, whatever calls that pass the assertions
\* are made on whatever number of buffers: buffer.ipp's members stay in agreement
\* through every reallocation, copy and swap.
THEOREM BufferIsSequenceHolds == BufferSpec => []BufferIsSequence
<1>1. BufferInit => BufferInv
  BY NewBufferOK DEF BufferInit, BufferInv
<1>2. BufferInv => BufferIsSequence
  BY DEF BufferInv, BufferIsSequence, BufferOK, BlockOK, Keeps
<1> QED
  BY <1>1, <1>2, BufferStep, PTL DEF BufferSpec
==============================================================================
