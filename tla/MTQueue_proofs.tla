---------------------------- MODULE MTQueue_proofs ----------------------------
(***************************************************************************)
(* Proofs about MTQueue for any queues, any finite set of threads and any  *)
(* calls: no queue exceeds its maximum size, although that size changes    *)
(* concurrently, and no wakeup is lost.                                    *)
(***************************************************************************)
EXTENDS MTQueue, FiniteSetTheorems, SequenceTheorems, TLAPS

\* What is known of the arguments of a call: the snapshot of operator= fits
\* its own maximum size, and a group is only used with one queue.
CallOK(c) ==
    /\ c \in CallRecords
    /\ c.op = "assignStore" => c.n \in MaxSizes /\ Len(c.v) <= c.n
    /\ c.op = "setMaxSize" => c.n \in MaxSizes
    /\ c.op \in {"push", "pushFront"} => Len(c.v) = 1
    /\ c.op \in {"popBarrier", "inBarrier"} =>
           \E d \in Calls : d.op = "popBarrier" /\ d.q = c.q

CallsOK == \A t \in Threads : CallOK(call[t])

\* An idle thread is in no call, and only the timed operations time out.
StatusOK ==
    \A t \in Threads :
        /\ status[t] = "idle" => call[t].op = "none"
        /\ status[t] = "expired" => call[t].op \in {"timedPop", "timedPopRange"}

\* The threads that wait in popBarrier() are counted.
Inside == {t \in Threads : call[t].op = "inBarrier"}
BarrierCount == Cardinality(Inside) <= waiting

\* The inductive invariant.
IInv ==
    /\ TypeOK
    /\ CallsOK
    /\ StatusOK
    /\ BarrierCount
    /\ SizeBound
    /\ NoLostWakeup

-------------------------------------------------------------------------------
\* A maximum size is a natural number that size_t can hold.
LEMMA SizesNat == \A n \in MaxSizes : n \in Nat /\ n < SizeMod
BY MaxSizesAssumption

\* size_t subtraction does not wrap around below the maximum size.
LEMMA NoWrap ==
    \A l, m, k \in Nat :
        /\ SizeMod \in Nat /\ l <= m /\ m < SizeMod
        /\ (m - l) % SizeMod >= k
        => l + k <= m
<1> SUFFICES ASSUME NEW l \in Nat, NEW m \in Nat, NEW k \in Nat, SizeMod \in Nat,
                    l <= m, m < SizeMod, (m - l) % SizeMod >= k
             PROVE  l + k <= m
  OBVIOUS
<1>1. (m - l) % SizeMod = m - l
  OBVIOUS
<1> QED
  BY <1>1

\* One element makes a sequence.
LEMMA Singleton == \A x \in Values : <<x>> \in Seq(Values)
OBVIOUS

\* A thread outside of any call has a harmless call record.
LEMMA NoCallOK == CallOK(NoCall) /\ NoCall.op = "none"
<1>1. AnyQueue \in Queues
  BY QueuesAssumption DEF AnyQueue
<1>2. << >> \in Seq(Values)
  OBVIOUS
<1> QED
  BY <1>1, <1>2 DEF NoCall, CallOK, CallRecords, Ops

\* The number of waiting threads is a natural number.
LEMMA InsideFinite == IsFiniteSet(Inside) /\ Cardinality(Inside) \in Nat
<1>1. Inside \in SUBSET Threads
  BY DEF Inside
<1> QED
  BY <1>1, ThreadsAssumption, FS_Subset, FS_CardinalityType

\* The predicate of a call does not become true while its queue is left alone,
\* as long as a participant of popBarrier() does not see waiting_ grow.
LEMMA ReadyStable ==
    ASSUME NEW c, CallOK(c), TypeOK, TypeOK',
           queue'[c.q] = queue[c.q], maxSize'[c.q] = maxSize[c.q],
           height' = height,
           c.op = "inBarrier" => waiting' <= waiting,
           ~Ready(c)
    PROVE  ~(Ready(c)')
<1>1. c.op = "inBarrier" => (waiting' >= height' => waiting >= height)
  BY DEF TypeOK
<1> QED
  BY <1>1 DEF Ready, FitsVector

\* After notify_all() no thread sleeps on the queue of t, and the others sleep
\* on queues that t did not touch.
LEMMA NotifySleepers ==
    ASSUME IInv, TypeOK', NEW t \in Threads, NEW e, ReturnNotify(t, e),
           \A q \in Queues : q # call[t].q =>
               queue'[q] = queue[q] /\ maxSize'[q] = maxSize[q],
           height' = height,
           waiting' <= waiting \/ call[t].op \in {"popBarrier", "inBarrier"}
    PROVE  NoLostWakeup'
<1> SUFFICES ASSUME NEW u \in Threads, status'[u] = "sleeping"
             PROVE  ~(Ready(call[u])')
  BY DEF NoLostWakeup
<1>1. u # t /\ status[u] = "sleeping" /\ call[u].q # call[t].q
  BY DEF ReturnNotify, IInv, TypeOK
<1>2. call'[u] = call[u]
  BY <1>1 DEF ReturnNotify, IInv, TypeOK
<1>3. CallOK(call[u]) /\ CallOK(call[t])
  BY DEF IInv, CallsOK
<1>4. call[u].q \in Queues
  BY <1>3 DEF CallOK, CallRecords
<1>5. call[u].op = "inBarrier" => waiting' <= waiting
  BY <1>1, <1>3, CallsAssumption DEF CallOK
<1>6. ~Ready(call[u])
  BY <1>1 DEF IInv, NoLostWakeup
<1>7. queue'[call[u].q] = queue[call[u].q] /\ maxSize'[call[u].q] = maxSize[call[u].q]
  BY <1>1, <1>4
<1>8. PICK c \in CallRecords : c = call[u]
  BY <1>3 DEF CallOK
<1>9. ~(Ready(c)')
  BY <1>3, <1>5, <1>6, <1>7, <1>8, ReadyStable DEF IInv
<1> QED
  BY <1>2, <1>8, <1>9 DEF Ready, FitsVector

\* A thread that returns leaves the barrier; the other calls are untouched.
LEMMA ReturnKeeps ==
    ASSUME IInv, NEW t \in Threads, NEW e \in Seq(Values),
           ReturnNotify(t, e) \/ Return(t, e)
    PROVE  /\ status' \in [Threads -> {"idle", "awake", "sleeping", "expired"}]
           /\ call' \in [Threads -> CallRecords]
           /\ got' \in [Threads -> Seq(Values)]
           /\ CallsOK'
           /\ StatusOK'
           /\ Inside' = Inside \ {t}
<1>1. CallOK(NoCall) /\ NoCall.op = "none" /\ NoCall \in CallRecords
  BY NoCallOK DEF CallOK
<1>2. /\ call' = [call EXCEPT ![t] = NoCall]
      /\ got' = [got EXCEPT ![t] = e]
  BY DEF ReturnNotify, Return
<1>3. status' \in [Threads -> {"idle", "awake", "sleeping", "expired"}]
  BY DEF ReturnNotify, Return, IInv, TypeOK
<1>4. call' \in [Threads -> CallRecords] /\ got' \in [Threads -> Seq(Values)]
  BY <1>1, <1>2 DEF IInv, TypeOK
<1>5. \A u \in Threads : call'[u] = IF u = t THEN NoCall ELSE call[u]
  BY <1>2 DEF IInv, TypeOK
<1>6. CallsOK'
  <2> SUFFICES ASSUME NEW u \in Threads PROVE CallOK(call'[u])
    BY DEF CallsOK, CallOK
  <2> QED
    BY <1>1, <1>5 DEF IInv, CallsOK
<1>7. Inside' = Inside \ {t}
  BY <1>1, <1>5 DEF Inside
<1>8. StatusOK'
  <2> SUFFICES ASSUME NEW u \in Threads
               PROVE  /\ status'[u] = "idle" => call'[u].op = "none"
                      /\ status'[u] = "expired" =>
                            call'[u].op \in {"timedPop", "timedPopRange"}
    BY DEF StatusOK
  <2>1. CASE u = t
    <3>1. status'[u] = "idle"
      BY <2>1 DEF ReturnNotify, Return, IInv, TypeOK
    <3> QED
      BY <1>1, <1>5, <2>1, <3>1
  <2>2. CASE u # t
    <3>1. status'[u] \in {"idle", "expired"} => status[u] = status'[u]
      BY <2>2 DEF ReturnNotify, Return, IInv, TypeOK
    <3> QED
      BY <1>5, <2>2, <3>1 DEF IInv, StatusOK
  <2> QED
    BY <2>1, <2>2
<1> QED
  BY <1>3, <1>4, <1>6, <1>7, <1>8

\* An operation that changes its queue, or its maximum size, and notifies.
LEMMA NotifyIInv ==
    ASSUME IInv, NEW t \in Threads, NEW e \in Seq(Values), ReturnNotify(t, e),
           queue' \in [Queues -> Seq(Values)], maxSize' \in [Queues -> MaxSizes],
           \A q \in Queues : q # call[t].q =>
               queue'[q] = queue[q] /\ maxSize'[q] = maxSize[q],
           Len(queue'[call[t].q]) <= maxSize'[call[t].q],
           height' = height, waiting' \in Nat,
           Cardinality(Inside \ {t}) <= waiting',
           waiting' <= waiting \/ call[t].op \in {"popBarrier", "inBarrier"}
    PROVE  IInv'
<1>1. TypeOK'
  BY ReturnKeeps DEF IInv, TypeOK
<1>2. CallsOK' /\ StatusOK'
  BY ReturnKeeps
<1>3. BarrierCount'
  BY ReturnKeeps DEF BarrierCount
<1>4. SizeBound'
  <2> SUFFICES ASSUME NEW q \in Queues PROVE Len(queue'[q]) <= maxSize'[q]
    BY DEF SizeBound
  <2>1. CASE q = call[t].q
    BY <2>1
  <2>2. CASE q # call[t].q
    BY <2>2 DEF IInv, SizeBound
  <2> QED
    BY <2>1, <2>2
<1>5. NoLostWakeup'
  BY <1>1, NotifySleepers
<1> QED
  BY <1>1, <1>2, <1>3, <1>4, <1>5 DEF IInv

\* The same for the operations that do not involve the barrier.
LEMMA PlainIInv ==
    ASSUME IInv, NEW t \in Threads, NEW e \in Seq(Values), ReturnNotify(t, e),
           call[t].op # "inBarrier",
           queue' \in [Queues -> Seq(Values)], maxSize' \in [Queues -> MaxSizes],
           \A q \in Queues : q # call[t].q =>
               queue'[q] = queue[q] /\ maxSize'[q] = maxSize[q],
           Len(queue'[call[t].q]) <= maxSize'[call[t].q],
           UNCHANGED <<height, waiting>>
    PROVE  IInv'
<1>1. Inside \ {t} = Inside
  BY DEF Inside
<1>2. waiting' \in Nat /\ waiting' <= waiting /\ Cardinality(Inside \ {t}) <= waiting'
  <2>1. waiting' = waiting /\ waiting \in Nat
    BY DEF IInv, TypeOK
  <2>2. Cardinality(Inside) <= waiting
    BY DEF IInv, BarrierCount
  <2>3. Cardinality(Inside \ {t}) <= waiting
    BY <1>1, <2>2, Zenon
  <2> QED
    BY <2>1, <2>3
<1> QED
  BY <1>2, NotifyIInv

\* An operation that only returns.
LEMMA QuietIInv ==
    ASSUME IInv, NEW t \in Threads, NEW e \in Seq(Values), Return(t, e),
           call[t].op # "inBarrier",
           UNCHANGED <<queue, maxSize, height, waiting>>
    PROVE  IInv'
<1>1. TypeOK'
  BY ReturnKeeps DEF IInv, TypeOK
<1>2. CallsOK' /\ StatusOK'
  BY ReturnKeeps
<1>3. BarrierCount'
  <2>1. Inside' = Inside
    BY ReturnKeeps DEF Inside
  <2> QED
    BY <2>1 DEF IInv, BarrierCount
<1>4. SizeBound'
  BY DEF IInv, SizeBound
<1>5. NoLostWakeup'
  <2> SUFFICES ASSUME NEW u \in Threads, status'[u] = "sleeping"
               PROVE  ~(Ready(call[u])')
    BY DEF NoLostWakeup
  <2>1. u # t /\ status[u] = "sleeping" /\ call'[u] = call[u]
    BY DEF Return, IInv, TypeOK
  <2>2. ~Ready(call[u])
    BY <2>1 DEF IInv, NoLostWakeup
  <2> QED
    BY <2>1, <2>2 DEF Ready, FitsVector
<1> QED
  BY <1>1, <1>2, <1>3, <1>4, <1>5 DEF IInv

-------------------------------------------------------------------------------
\* All queues are empty initially.
LEMMA InitIInv == Init => IInv
<1> SUFFICES ASSUME Init PROVE IInv
  OBVIOUS
<1>1. \A t \in Threads : call[t] = NoCall
  BY DEF Init
<1>2. << >> \in Seq(Values) /\ Len(<< >>) = 0
  OBVIOUS
<1>3. TypeOK
  <2>1. queue \in [Queues -> Seq(Values)] /\ got \in [Threads -> Seq(Values)]
    BY <1>2 DEF Init
  <2>2. call \in [Threads -> CallRecords]
    BY NoCallOK DEF Init, CallOK
  <2> QED
    BY <2>1, <2>2, HeightAssumption DEF Init, TypeOK
<1>4. CallsOK
  BY <1>1, NoCallOK DEF CallsOK
<1>5. BarrierCount
  <2>1. Inside = {}
    BY <1>1, NoCallOK DEF Inside
  <2> QED
    BY <2>1, FS_EmptySet DEF BarrierCount, Init
<1>6. SizeBound
  BY <1>2, SizesNat DEF SizeBound, Init
<1>7. NoLostWakeup /\ StatusOK
  BY <1>1, NoCallOK DEF NoLostWakeup, StatusOK, Init
<1> QED
  BY <1>3, <1>4, <1>5, <1>6, <1>7 DEF IInv

\* What the operations on a queue need: the shape of the queue of t's call.
LEMMA CallFacts ==
    ASSUME IInv, NEW t \in Threads
    PROVE  /\ call[t] \in CallRecords
           /\ call[t].q \in Queues /\ call[t].from \in Queues
           /\ call[t].v \in Seq(Values)
           /\ queue[call[t].q] \in Seq(Values)
           /\ Len(queue[call[t].q]) \in Nat
           /\ maxSize[call[t].q] \in Nat
           /\ maxSize[call[t].q] < SizeMod
           /\ Len(queue[call[t].q]) <= maxSize[call[t].q]
<1>1. call[t] \in CallRecords
  BY DEF IInv, TypeOK
<1>2. call[t].q \in Queues /\ call[t].from \in Queues /\ call[t].v \in Seq(Values)
  BY <1>1 DEF CallRecords
<1>3. queue[call[t].q] \in Seq(Values) /\ maxSize[call[t].q] \in MaxSizes
  BY <1>2 DEF IInv, TypeOK
<1> QED
  BY <1>1, <1>2, <1>3, SizesNat DEF IInv, SizeBound

\* Replacing the queue of t's call by a sequence that fits its maximum size.
LEMMA SetQueueIInv ==
    ASSUME IInv, NEW t \in Threads, NEW e \in Seq(Values), ReturnNotify(t, e),
           call[t].op # "inBarrier",
           NEW s \in Seq(Values), SetQueue(t, s), Len(s) <= maxSize[call[t].q],
           UNCHANGED <<maxSize, height, waiting>>
    PROVE  IInv'
<1>1. /\ queue' \in [Queues -> Seq(Values)]
      /\ \A q \in Queues : q # call[t].q => queue'[q] = queue[q]
      /\ queue'[call[t].q] = s
  BY CallFacts DEF IInv, TypeOK, SetQueue
<1>2. maxSize' \in [Queues -> MaxSizes] /\ maxSize' = maxSize
  BY DEF IInv, TypeOK
<1> QED
  BY <1>1, <1>2, PlainIInv

\* The elements of a pushed call fit: one below the maximum size, or a vector
\* for which the size_t subtraction says so.
LEMMA PushFits ==
    ASSUME IInv, NEW t \in Threads,
           Runs(t, {"push", "pushVector", "pushFront", "pushFrontVector"})
    PROVE  Len(queue[call[t].q]) + Len(call[t].v) <= maxSize[call[t].q]
<1> DEFINE l == Len(queue[call[t].q])
           m == maxSize[call[t].q]
<1>1. l \in Nat /\ m \in Nat /\ l <= m /\ m < SizeMod /\ SizeMod \in Nat
  BY CallFacts, MaxSizesAssumption
<1>2. CASE call[t].op \in {"push", "pushFront"}
  <2>1. Len(call[t].v) = 1
    BY <1>2 DEF IInv, CallsOK, CallOK
  <2>2. l < m
    BY <1>2 DEF Runs, Ready
  <2> QED
    BY <1>1, <2>1, <2>2
<1>3. CASE call[t].op \in {"pushVector", "pushFrontVector"}
  <2>1. (m - l) % SizeMod >= Len(call[t].v)
    BY <1>3 DEF Runs, Ready, FitsVector
  <2>2. Len(call[t].v) \in Nat
    BY CallFacts
  <2> QED
    BY <1>1, <2>1, <2>2, NoWrap, Zenon
<1> QED
  BY <1>2, <1>3 DEF Runs

\* The pushes, at either end.
LEMMA PushIInv ==
    ASSUME IInv, NEW t \in Threads, Push(t) \/ PushFront(t)
    PROVE  IInv'
<1> DEFINE s == queue[call[t].q]
           v == call[t].v
<1>1. s \in Seq(Values) /\ v \in Seq(Values)
  BY CallFacts
<1>2. /\ s \o v \in Seq(Values) /\ Len(s \o v) = Len(s) + Len(v)
      /\ v \o s \in Seq(Values) /\ Len(v \o s) = Len(s) + Len(v)
  <2> HIDE DEF s, v
  <2> QED
    BY <1>1, ConcatProperties
<1>3. Len(s) + Len(v) <= maxSize[call[t].q]
  BY PushFits DEF Push, PushFront, Runs
<1>4. call[t].op # "inBarrier" /\ << >> \in Seq(Values)
  BY DEF Push, PushFront, Runs
<1>5. CASE Push(t)
  BY <1>2, <1>3, <1>4, <1>5, SetQueueIInv DEF Push
<1>6. CASE PushFront(t)
  BY <1>2, <1>3, <1>4, <1>6, SetQueueIInv DEF PushFront
<1> QED
  BY <1>5, <1>6

\* A part of a queue fits where the queue did.
LEMMA Parts ==
    ASSUME IInv, NEW t \in Threads
    PROVE  /\ queue[call[t].q] # << >> =>
                /\ Tail(queue[call[t].q]) \in Seq(Values)
                /\ Len(Tail(queue[call[t].q])) <= maxSize[call[t].q]
                /\ <<Head(queue[call[t].q])>> \in Seq(Values)
           /\ \A k \in 0 .. Len(queue[call[t].q]) :
                LET s == queue[call[t].q]
                IN  /\ SubSeq(s, k + 1, Len(s)) \in Seq(Values)
                    /\ Len(SubSeq(s, k + 1, Len(s))) <= maxSize[call[t].q]
                    /\ SubSeq(s, 1, k) \in Seq(Values)
<1> DEFINE s == queue[call[t].q]
           m == maxSize[call[t].q]
<1> HIDE DEF s, m
<1>1. s \in Seq(Values) /\ Len(s) \in Nat /\ m \in Nat /\ Len(s) <= m
  BY CallFacts DEF s, m
<1>2. s # << >> => /\ Tail(s) \in Seq(Values) /\ Len(Tail(s)) <= m
                   /\ <<Head(s)>> \in Seq(Values)
  BY <1>1, HeadTailProperties
<1>3. \A k \in 0 .. Len(s) :
        /\ SubSeq(s, k + 1, Len(s)) \in Seq(Values)
        /\ Len(SubSeq(s, k + 1, Len(s))) <= m
        /\ SubSeq(s, 1, k) \in Seq(Values)
  BY <1>1
<1> QED
  BY <1>2, <1>3 DEF s, m

\* The operations that take elements from the front.
LEMMA TakeIInv ==
    ASSUME IInv, NEW t \in Threads, Pop(t) \/ TimedPopRange(t) \/ TryPop(t)
    PROVE  IInv'
<1> DEFINE s == queue[call[t].q]
<1>1. << >> \in Seq(Values) /\ Len(s) \in Nat
  BY CallFacts
<1>2. ASSUME NEW k \in 0 .. Len(s), TakeFront(t, k), call[t].op # "inBarrier",
             UNCHANGED <<maxSize, height, waiting>>
      PROVE  IInv'
  <2>1. /\ SubSeq(s, k + 1, Len(s)) \in Seq(Values)
        /\ Len(SubSeq(s, k + 1, Len(s))) <= maxSize[call[t].q]
        /\ SubSeq(s, 1, k) \in Seq(Values)
    BY <1>2, Parts
  <2> QED
    BY <1>2, <2>1, SetQueueIInv DEF TakeFront
<1>3. CASE Pop(t)
  <2>1. s # << >> /\ call[t].op # "inBarrier"
    BY <1>3 DEF Pop, Runs, Ready
  <2>2. /\ Tail(s) \in Seq(Values) /\ Len(Tail(s)) <= maxSize[call[t].q]
        /\ <<Head(s)>> \in Seq(Values)
    BY <2>1, Parts
  <2> QED
    BY <1>3, <2>1, <2>2, SetQueueIInv DEF Pop
<1>4. CASE TimedPopRange(t)
  <2>1. call[t].m \in Nat
    BY CallFacts DEF CallRecords
  <2>2. Smaller(call[t].m, Len(s)) \in 0 .. Len(s)
    BY <1>1, <2>1 DEF Smaller
  <2> QED
    BY <1>2, <1>4, <2>2 DEF TimedPopRange, Runs
<1>5. CASE TryPop(t)
  <2> DEFINE n == IF call[t].op = "tryPop" THEN 1 ELSE call[t].n
             k == Smaller(n, Len(s))
  <2>1. n \in Nat
    BY CallFacts DEF CallRecords
  <2>2. k \in 0 .. Len(s)
    BY <1>1, <2>1 DEF Smaller
  <2>3. call[t].op # "inBarrier" /\ UNCHANGED <<maxSize, height, waiting>>
    BY <1>5 DEF TryPop, Runs
  <2>4. CASE TakeFront(t, k)
    BY <1>2, <2>2, <2>3, <2>4
  <2>5. CASE Return(t, << >>) /\ UNCHANGED queue
    BY <1>1, <2>3, <2>5, QuietIInv
  <2> QED
    BY <1>5, <2>4, <2>5 DEF TryPop
<1> QED
  BY <1>3, <1>4, <1>5

\* The operations that only look, and the timeouts.
LEMMA LookIInv ==
    ASSUME IInv, NEW t \in Threads, Peek(t) \/ WaitSize(t) \/ TimedOut(t)
    PROVE  IInv'
<1> DEFINE s == queue[call[t].q]
<1>1. << >> \in Seq(Values) /\ s \in Seq(Values) /\ Len(s) \in Nat
  BY CallFacts
<1>2. CASE Peek(t)
  <2> DEFINE i == CASE call[t].op = "at"       -> call[t].n + 1
                    [] call[t].op = "getFront" -> 1
                    [] call[t].op = "getBack"  -> Len(s)
             e == IF s = << >> THEN << >> ELSE <<s[i]>>
  <2>1. call[t].n \in Nat
    BY CallFacts DEF CallRecords
  <2>2. call[t].op \in {"at", "getFront", "getBack"}
    BY <1>2, SMTT(30) DEF Peek, Runs
  <2>3. call[t].op = "at" => call[t].n < Len(s)
    BY <1>1, <1>2, <2>1 DEF Peek, Runs, Ready
  <2>4. s # << >> => Len(s) > 0
    BY <1>1, EmptySeq
  <2>5. s # << >> => i \in 1 .. Len(s)
    BY <1>1, <2>1, <2>2, <2>3, <2>4
  <2>6. e \in Seq(Values)
    <3>1. CASE s = << >>
      BY <3>1, <1>1
    <3>2. CASE s # << >>
      <4>1. s[i] \in Values
        BY <1>1, <2>5, <3>2, ElementOfSeq
      <4>2. <<s[i]>> \in Seq(Values)
        BY <4>1, Singleton, Zenon
      <4> QED
        BY <3>2, <4>2
    <3> QED
      BY <3>1, <3>2
  <2>7. Return(t, e) /\ UNCHANGED <<queue, maxSize, height, waiting>>
    BY <1>2 DEF Peek
  <2> QED
    BY <2>2, <2>6, <2>7, QuietIInv
<1>3. CASE WaitSize(t)
  BY <1>1, <1>3, QuietIInv DEF WaitSize, Runs
<1>4. CASE TimedOut(t)
  <2>1. call[t].op # "inBarrier"
    BY <1>4 DEF TimedOut, IInv, StatusOK
  <2> QED
    BY <1>1, <1>4, <2>1, QuietIInv DEF TimedOut
<1> QED
  BY <1>2, <1>3, <1>4

\* setMaxSize() and clear().
LEMMA ResetIInv ==
    ASSUME IInv, NEW t \in Threads, SetMaxSize(t) \/ Clear(t)
    PROVE  IInv'
<1>1. << >> \in Seq(Values) /\ Len(<< >>) = 0
  OBVIOUS
<1>2. CASE SetMaxSize(t)
  <2>1. call[t].op = "setMaxSize" /\ Len(queue[call[t].q]) <= call[t].n
    BY <1>2 DEF SetMaxSize, Runs, Ready
  <2>2. call[t].n \in MaxSizes
    BY <2>1 DEF IInv, CallsOK, CallOK
  <2>3. /\ maxSize' \in [Queues -> MaxSizes]
        /\ \A q \in Queues : q # call[t].q => maxSize'[q] = maxSize[q]
        /\ maxSize'[call[t].q] = call[t].n
    BY <1>2, <2>2, CallFacts DEF SetMaxSize, IInv, TypeOK
  <2>4. queue' = queue /\ queue' \in [Queues -> Seq(Values)]
    BY <1>2 DEF SetMaxSize, IInv, TypeOK
  <2> QED
    BY <1>1, <1>2, <2>1, <2>3, <2>4, PlainIInv DEF SetMaxSize
<1>3. CASE Clear(t)
  <2>1. call[t].op # "inBarrier"
    BY <1>3 DEF Clear, Runs
  <2>2. 0 <= maxSize[call[t].q]
    BY CallFacts
  <2> QED
    BY <1>1, <1>3, <2>1, <2>2, SetQueueIInv DEF Clear
<1> QED
  BY <1>2, <1>3

\* Replacing the record of one call by another legal one outside of the
\* barrier, while the thread is awake.
LEMMA SetCallIInv ==
    ASSUME IInv, NEW t \in Threads, NEW c, CallOK(c), c.op # "inBarrier",
           call[t].op # "inBarrier",
           call' = [call EXCEPT ![t] = c],
           status' = [status EXCEPT ![t] = "awake"],
           got' \in [Threads -> Seq(Values)],
           UNCHANGED <<queue, maxSize, height, waiting>>
    PROVE  IInv'
<1>1. c \in CallRecords
  BY DEF CallOK
<1>2. \A u \in Threads : call'[u] = IF u = t THEN c ELSE call[u]
  BY DEF IInv, TypeOK
<1>3. \A u \in Threads : status'[u] = IF u = t THEN "awake" ELSE status[u]
  BY DEF IInv, TypeOK
<1>4. TypeOK'
  BY <1>1 DEF IInv, TypeOK
<1>5. CallsOK'
  <2> SUFFICES ASSUME NEW u \in Threads PROVE CallOK(call'[u])
    BY DEF CallsOK, CallOK
  <2> QED
    BY <1>2 DEF IInv, CallsOK
<1>6. StatusOK'
  BY <1>2, <1>3 DEF IInv, StatusOK
<1>7. BarrierCount'
  <2>1. Inside' = Inside
    BY <1>2 DEF Inside
  <2> QED
    BY <2>1 DEF IInv, BarrierCount
<1>8. SizeBound'
  BY DEF IInv, SizeBound
<1>9. NoLostWakeup'
  <2> SUFFICES ASSUME NEW u \in Threads, status'[u] = "sleeping"
               PROVE  ~(Ready(call[u])')
    BY DEF NoLostWakeup
  <2>1. status[u] = "sleeping" /\ call'[u] = call[u]
    BY <1>2, <1>3
  <2>2. ~Ready(call[u])
    BY <2>1 DEF IInv, NoLostWakeup
  <2> QED
    BY <2>1, <2>2, SMTT(30) DEF Ready, FitsVector
<1> QED
  BY <1>4, <1>5, <1>6, <1>7, <1>8, <1>9 DEF IInv

\* A new call.
LEMMA CallIInv ==
    ASSUME IInv, NEW t \in Threads, NEW c \in Calls, Call(t, c)
    PROVE  IInv'
<1>1. CallOK(c) /\ c.op # "inBarrier"
  BY CallsAssumption DEF CallOK
<1>2. << >> \in Seq(Values)
  OBVIOUS
<1>3. got' \in [Threads -> Seq(Values)]
  BY <1>2 DEF Call, IInv, TypeOK
<1>4. call[t].op # "inBarrier"
  BY DEF Call, IInv, StatusOK
<1> QED
  BY <1>1, <1>3, <1>4, SetCallIInv DEF Call

\* operator=, both critical sections.
LEMMA AssignIInv ==
    ASSUME IInv, NEW t \in Threads, AssignCopy(t) \/ AssignStore(t)
    PROVE  IInv'
<1>1. << >> \in Seq(Values)
  OBVIOUS
<1>2. CASE AssignCopy(t) /\ Return(t, << >>)
  BY <1>1, <1>2, QuietIInv DEF AssignCopy, Runs
<1>3. CASE AssignCopy(t) /\ ~Return(t, << >>)
  <2> DEFINE f == call[t].from
             c == [op |-> "assignStore", q |-> call[t].q, from |-> f,
                   n |-> maxSize[f], m |-> call[t].m, v |-> queue[f]]
  <2>1. call' = [call EXCEPT ![t] = c] /\ UNCHANGED <<status, got>>
    BY <1>3 DEF AssignCopy
  <2>2. /\ call[t].q \in Queues /\ f \in Queues /\ call[t].m \in Nat
    BY CallFacts DEF CallRecords
  <2>3. maxSize[f] \in MaxSizes /\ maxSize[f] \in Nat /\ queue[f] \in Seq(Values)
    BY <2>2, SizesNat DEF IInv, TypeOK
  <2>4. Len(queue[f]) <= maxSize[f]
    BY <2>2 DEF IInv, SizeBound
  <2>5. c \in CallRecords
    BY <2>2, <2>3 DEF CallRecords, Ops
  <2>6. CallOK(c) /\ c.op # "inBarrier"
    BY <2>3, <2>4, <2>5, SMTT(30) DEF CallOK
  <2>7. call[t].op = "assign" /\ status[t] = "awake"
    BY <1>3 DEF AssignCopy, Runs, IInv, StatusOK
  <2>8. status' = [status EXCEPT ![t] = "awake"]
    BY <2>1, <2>7 DEF IInv, TypeOK
  <2>9. got' \in [Threads -> Seq(Values)] /\ UNCHANGED <<queue, maxSize, height, waiting>>
    BY <1>3, <2>1 DEF AssignCopy, IInv, TypeOK
  <2>10. PICK d \in CallRecords : d = c
    BY <2>5
  <2> HIDE DEF c
  <2> QED
    BY <2>1, <2>6, <2>7, <2>8, <2>9, <2>10, SetCallIInv
<1>4. CASE AssignStore(t)
  <2>1. call[t].op = "assignStore"
    BY <1>4 DEF AssignStore, Runs
  <2>2. call[t].n \in MaxSizes /\ Len(call[t].v) <= call[t].n
    BY <2>1 DEF IInv, CallsOK, CallOK
  <2>3. call[t].q \in Queues /\ call[t].v \in Seq(Values)
    BY CallFacts
  <2>4. /\ maxSize' \in [Queues -> MaxSizes]
        /\ \A q \in Queues : q # call[t].q => maxSize'[q] = maxSize[q]
        /\ maxSize'[call[t].q] = call[t].n
    BY <1>4, <2>2, <2>3 DEF AssignStore, IInv, TypeOK
  <2>5. /\ queue' \in [Queues -> Seq(Values)]
        /\ \A q \in Queues : q # call[t].q => queue'[q] = queue[q]
        /\ queue'[call[t].q] = call[t].v
    BY <1>4, <2>3 DEF AssignStore, SetQueue, IInv, TypeOK
  <2>6. Len(queue'[call[t].q]) <= maxSize'[call[t].q]
    BY <2>2, <2>4, <2>5
  <2> QED
    BY <1>1, <1>4, <2>1, <2>4, <2>5, <2>6, PlainIInv DEF AssignStore
<1> QED
  BY <1>2, <1>3, <1>4

\* popBarrier() that returns, with or without an element.
LEMMA BarrierIInv ==
    ASSUME IInv, NEW t \in Threads, BarrierTake(t) \/ BarrierAbort(t)
    PROVE  IInv'
<1> DEFINE s == queue[call[t].q]
<1>1. /\ << >> \in Seq(Values) /\ waiting \in Nat /\ call[t].q \in Queues
      /\ call[t].op \in {"popBarrier", "inBarrier"}
      /\ maxSize' = maxSize /\ maxSize \in [Queues -> MaxSizes] /\ height' = height
  BY CallFacts DEF BarrierTake, BarrierAbort, InPopBarrier, IInv, TypeOK
<1>2. /\ Cardinality(Inside \ {t}) \in Nat
      /\ call[t].op = "inBarrier" =>
            Cardinality(Inside \ {t}) <= waiting - 1 /\ waiting - 1 \in Nat
      /\ call[t].op = "popBarrier" => Cardinality(Inside \ {t}) <= waiting
  <2>1. IsFiniteSet(Inside) /\ Cardinality(Inside) \in Nat /\ Cardinality(Inside) <= waiting
    BY InsideFinite DEF IInv, BarrierCount
  <2>2. t \in Inside => Cardinality(Inside \ {t}) = Cardinality(Inside) - 1
    BY <2>1, FS_RemoveElement
  <2>3. IsFiniteSet(Inside \ {t}) /\ Cardinality(Inside \ {t}) \in Nat
    BY <2>1, FS_RemoveElement, FS_CardinalityType
  <2>4. call[t].op = "inBarrier" => t \in Inside
    BY DEF Inside
  <2>5. call[t].op = "popBarrier" => Inside \ {t} = Inside
    BY DEF Inside
  <2>6. ASSUME call[t].op = "inBarrier"
        PROVE  Cardinality(Inside \ {t}) <= waiting - 1 /\ waiting - 1 \in Nat
    BY <1>1, <2>1, <2>2, <2>3, <2>4, <2>6
  <2>7. ASSUME call[t].op = "popBarrier"
        PROVE  Cardinality(Inside \ {t}) <= waiting
    BY <2>1, <2>5, <2>7, Zenon
  <2> QED
    BY <2>3, <2>6, <2>7
<1>3. CASE BarrierTake(t)
  <2>1. /\ waiting' \in Nat /\ Cardinality(Inside \ {t}) <= waiting'
    BY <1>1, <1>2, <1>3 DEF BarrierTake, Counted
  <2>2. /\ Tail(s) \in Seq(Values) /\ Len(Tail(s)) <= maxSize[call[t].q]
        /\ <<Head(s)>> \in Seq(Values)
    BY <1>3, Parts, SMTT(30) DEF BarrierTake
  <2>3. /\ queue' \in [Queues -> Seq(Values)]
        /\ \A q \in Queues : q # call[t].q => queue'[q] = queue[q]
        /\ queue'[call[t].q] = Tail(s)
    BY <1>1, <1>3, <2>2 DEF BarrierTake, SetQueue, IInv, TypeOK
  <2> QED
    BY <1>1, <1>3, <2>1, <2>2, <2>3, NotifyIInv DEF BarrierTake
<1>4. CASE BarrierAbort(t)
  <2>1. /\ waiting' \in Nat /\ Cardinality(Inside \ {t}) <= waiting'
    BY <1>1, <1>2, <1>4 DEF BarrierAbort, Counted
  <2>2. queue' = queue /\ queue' \in [Queues -> Seq(Values)]
    BY <1>4 DEF BarrierAbort, IInv, TypeOK
  <2>3. Len(queue'[call[t].q]) <= maxSize'[call[t].q]
    BY <1>1, <2>2, CallFacts
  <2> QED
    BY <1>1, <1>4, <2>1, <2>2, <2>3, NotifyIInv, SMTT(30) DEF BarrierAbort
<1> QED
  BY <1>3, <1>4

\* A participant of popBarrier() goes to sleep: waiting_ stays below height_,
\* so nobody who already sleeps becomes ready.
LEMMA BarrierSleepIInv ==
    ASSUME IInv, NEW t \in Threads, BarrierSleep(t)
    PROVE  IInv'
<1>1. /\ call[t].op = "popBarrier" /\ waiting \in Nat /\ height \in Nat
      /\ waiting' = waiting + 1 /\ waiting' < height
      /\ queue[call[t].q] = << >>
      /\ UNCHANGED <<queue, maxSize, got, height>>
  BY DEF BarrierSleep, Counted, IInv, TypeOK
<1> DEFINE c == [op |-> "inBarrier", q |-> call[t].q, from |-> call[t].from,
                 n |-> call[t].n, m |-> call[t].m, v |-> call[t].v]
<1>2. CallOK(call[t]) /\ call[t] \in CallRecords
  BY CallFacts DEF IInv, CallsOK
<1>3. c \in CallRecords
  BY <1>2 DEF CallRecords, Ops
<1>4. CallOK(c) /\ c.op = "inBarrier" /\ c.q = call[t].q
  BY <1>1, <1>2, <1>3, SMTT(30) DEF CallOK
<1>5. \A u \in Threads : call'[u] = IF u = t THEN c ELSE call[u]
  BY DEF BarrierSleep, IInv, TypeOK
<1>6. \A u \in Threads : status'[u] = IF u = t THEN "sleeping" ELSE status[u]
  BY DEF BarrierSleep, IInv, TypeOK
<1>7. TypeOK'
  BY <1>1, <1>3 DEF BarrierSleep, IInv, TypeOK
<1> HIDE DEF c
<1>8. CallsOK'
  <2> SUFFICES ASSUME NEW u \in Threads PROVE CallOK(call'[u])
    BY DEF CallsOK, CallOK
  <2> QED
    BY <1>4, <1>5 DEF IInv, CallsOK
<1>9. StatusOK'
  BY <1>5, <1>6 DEF IInv, StatusOK
<1>10. BarrierCount'
  <2>1. Inside' = Inside \cup {t} /\ t \notin Inside
    BY <1>1, <1>4, <1>5 DEF Inside
  <2>2. Cardinality(Inside \cup {t}) = Cardinality(Inside) + 1
    BY <2>1, InsideFinite, FS_AddElement
  <2>3. Cardinality(Inside) \in Nat /\ Cardinality(Inside) <= waiting
    BY InsideFinite DEF IInv, BarrierCount
  <2> QED
    BY <1>1, <2>1, <2>2, <2>3 DEF BarrierCount
<1>11. SizeBound'
  BY <1>1 DEF IInv, SizeBound
<1>12. NoLostWakeup'
  <2> SUFFICES ASSUME NEW u \in Threads, status'[u] = "sleeping"
               PROVE  ~(Ready(call[u])')
    BY DEF NoLostWakeup
  <2>1. CASE u = t
    BY <1>1, <1>4, <1>5, <2>1 DEF Ready
  <2>2. CASE u # t
    <3>1. call'[u] = call[u] /\ ~Ready(call[u])
      BY <1>5, <1>6, <2>2 DEF IInv, NoLostWakeup
    <3>2. CASE call[u].op = "inBarrier"
      <4>1. queue[call[u].q] = << >>
        BY <3>1, <3>2 DEF Ready
      <4> QED
        BY <1>1, <3>1, <3>2, <4>1 DEF Ready
    <3>3. CASE call[u].op # "inBarrier"
      BY <1>1, <3>1, <3>3, SMTT(30) DEF Ready, FitsVector
    <3> QED
      BY <3>2, <3>3
  <2> QED
    BY <2>1, <2>2
<1> QED
  BY <1>7, <1>8, <1>9, <1>10, <1>11, <1>12 DEF IInv

\* The condition variable: going to sleep, waking up, and timing out.
LEMMA WaitIInv ==
    ASSUME IInv, NEW t \in Threads, Sleep(t) \/ SpuriousWakeup(t) \/ Expire(t)
    PROVE  IInv'
<1>1. UNCHANGED <<queue, maxSize, call, got, height, waiting>>
  BY DEF Sleep, SpuriousWakeup, Expire
<1>2. TypeOK'
  BY <1>1 DEF Sleep, SpuriousWakeup, Expire, IInv, TypeOK
<1>3. \A u \in Threads : u # t => status'[u] = status[u]
  BY DEF Sleep, SpuriousWakeup, Expire, IInv, TypeOK
<1>4. /\ status'[t] # "idle"
      /\ status'[t] = "sleeping" => ~Ready(call[t])
      /\ status'[t] = "expired" => call[t].op \in {"timedPop", "timedPopRange"}
  BY DEF Sleep, SpuriousWakeup, Expire, IInv, TypeOK
<1>5. CallsOK'
  BY <1>1 DEF IInv, CallsOK, CallOK
<1>6. StatusOK'
  BY <1>1, <1>3, <1>4 DEF IInv, StatusOK
<1>7. BarrierCount'
  BY <1>1 DEF IInv, BarrierCount, Inside
<1>8. SizeBound'
  BY <1>1 DEF IInv, SizeBound
<1>9. NoLostWakeup'
  <2> SUFFICES ASSUME NEW u \in Threads, status'[u] = "sleeping"
               PROVE  ~(Ready(call[u])')
    BY DEF NoLostWakeup
  <2>1. ~Ready(call[u])
    BY <1>3, <1>4 DEF IInv, NoLostWakeup
  <2> QED
    BY <1>1, <2>1, SMTT(30) DEF Ready, FitsVector
<1> QED
  BY <1>2, <1>5, <1>6, <1>7, <1>8, <1>9 DEF IInv

\* Every step preserves the inductive invariant.
LEMMA NextIInv == IInv /\ [Next]_vars => IInv'
<1> SUFFICES ASSUME IInv, [Next]_vars PROVE IInv'
  OBVIOUS
<1>1. CASE UNCHANGED vars
  <2>1. TypeOK'
    BY <1>1 DEF vars, IInv, TypeOK
  <2>2. CallsOK' /\ StatusOK'
    BY <1>1 DEF vars, IInv, CallsOK, CallOK, StatusOK
  <2>3. BarrierCount' /\ SizeBound'
    BY <1>1 DEF vars, IInv, BarrierCount, Inside, SizeBound
  <2>4. NoLostWakeup'
    BY <1>1, SMTT(30) DEF vars, IInv, NoLostWakeup, Ready, FitsVector
  <2> QED
    BY <2>1, <2>2, <2>3, <2>4 DEF IInv
<1>2. CASE Next
  <2>1. PICK t \in Threads : \/ \E c \in Calls : Call(t, c)
                             \/ Step(t) \/ SpuriousWakeup(t) \/ Expire(t)
    BY <1>2 DEF Next
  <2> QED
    BY <2>1, CallIInv, PushIInv, TakeIInv, LookIInv, ResetIInv, AssignIInv,
       BarrierIInv, BarrierSleepIInv, WaitIInv DEF Step
<1> QED
  BY <1>1, <1>2

-------------------------------------------------------------------------------
\* The inductive invariant holds in every reachable state of MTQueue.
THEOREM Invariance == Spec => []IInv
BY InitIInv, NextIInv, PTL DEF Spec

\* Type correctness; in particular waiting_ of a group never underflows.
THEOREM TypeCorrect == Spec => []TypeOK
<1>1. IInv => TypeOK
  BY DEF IInv
<1> QED
  BY <1>1, Invariance, PTL

\* A queue never exceeds its maximum size, for any number of threads, queues
\* and calls: setMaxSize() waits for the queue to fit, operator= moves a
\* snapshot together with the size it fits, and the pushes test both.
THEOREM SizeBoundHolds == Spec => []SizeBound
<1>1. IInv => SizeBound
  BY DEF IInv
<1> QED
  BY <1>1, Invariance, PTL

\* No wakeup is lost: at any time, a thread that sleeps on the condition
\* variable of a queue still has to sleep.
THEOREM NoLostWakeupHolds == Spec => []NoLostWakeup
<1>1. IInv => NoLostWakeup
  BY DEF IInv
<1> QED
  BY <1>1, Invariance, PTL
===============================================================================
