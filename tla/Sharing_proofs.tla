---------------------------- MODULE Sharing_proofs ----------------------------
(***************************************************************************)
(* Proofs about threads that share a lock, a variable, a value to wait for *)
(* or a queue of tasks.                                                    *)
(*                                                                         *)
(* SpinLock, for any finite set of threads: its type invariant, mutual     *)
(* exclusion, the exactness of the reader count, and that the CAS loops    *)
(* implement the abstract read-write lock RWLock.                          *)
(*                                                                         *)
(* AtomicLoops, for any number of variables and threads, any width and any *)
(* arguments: the compare-and-swap loops of atomic.h implement the atomic  *)
(* operations.                                                             *)
(*                                                                         *)
(* Monitor loses no wakeup, for any threads, monitors, widths and calls,   *)
(* and what a wait returns agrees with its condition.                      *)
(*                                                                         *)
(* ThreadPool, for any finite sets of workers and clients and any tasks:   *)
(* one notify_one() per posted task, called outside of the mutex, is       *)
(* enough, and the destructor leaves no worker asleep.                     *)
(***************************************************************************)
EXTENDS SpinLock, AtomicLoops, Monitor, ThreadPool, FiniteSetTheorems, SequenceTheorems, TLAPS

\* Types without the upper bound of the reader count, which follows from
\* StateCountsHolders.
WeakTypes ==
    /\ state \in Int
    /\ pc \in [Threads -> Locations]
    /\ expected \in [Threads -> Int]
    /\ retry \in [Threads -> BOOLEAN]

\* expected is a value _state can have; at the CAS of trySetRead() it is not
\* _writelocked, so that CAS never succeeds against a writer.
ExpectedOK ==
    \A t \in Threads :
        /\ expected[t] \in _writelocked .. Cardinality(Threads)
        /\ pc[t] = "casRead" => expected[t] >= 0

\* The inductive invariant.
IInv ==
    /\ WeakTypes
    /\ ExpectedOK
    /\ MutualExclusion
    /\ StateCountsHolders

-------------------------------------------------------------------------------
\* Any set of readers is finite, and has at most as many members as Threads.
LEMMA ReadersFinite ==
    /\ IsFiniteSet(Readers)
    /\ Cardinality(Readers) \in Nat
    /\ Cardinality(Readers) <= Cardinality(Threads)
    /\ Cardinality(Threads) \in Nat
<1>1. Readers \in SUBSET Threads
  BY DEF Readers
<1>2. IsFiniteSet(Readers) /\ Cardinality(Readers) <= Cardinality(Threads)
  BY <1>1, ThreadsFinite, FS_Subset
<1> QED
  BY <1>2, ThreadsFinite, FS_CardinalityType

\* _state stays between _writelocked and the number of threads.
LEMMA StateRange ==
    StateCountsHolders => state \in _writelocked .. Cardinality(Threads)
BY ReadersFinite DEF StateCountsHolders, _writelocked

\* A step that leaves the holders alone and does not write _state keeps the
\* two facts about them.
LEMMA SameHolders ==
    ASSUME MutualExclusion, StateCountsHolders,
           state' = state, Writers' = Writers, Readers' = Readers
    PROVE  MutualExclusion' /\ StateCountsHolders'
BY DEF MutualExclusion, StateCountsHolders

\* The lock starts free, with no holder.
LEMMA InitIInv == Init => IInv
<1> SUFFICES ASSUME Init PROVE IInv
  OBVIOUS
<1>1. Readers = {} /\ Writers = {}
  BY DEF Init, Readers, Writers
<1>2. Cardinality(Readers) = 0 /\ Cardinality(Threads) \in Nat
  BY <1>1, FS_EmptySet, ReadersFinite
<1>3. WeakTypes /\ ExpectedOK
  BY <1>2 DEF Init, WeakTypes, ExpectedOK, Locations, _unlocked, _writelocked
<1>4. MutualExclusion /\ StateCountsHolders
  BY <1>1, <1>2 DEF Init, MutualExclusion, StateCountsHolders, _unlocked
<1> QED
  BY <1>3, <1>4 DEF IInv

\* A successful CAS(0, -1) leaves exactly one holder, the writer.
LEMMA TrySetIInv ==
    ASSUME NEW t \in Threads, IInv, TrySet(t)
    PROVE  IInv'
<1> USE DEF IInv
<1>1. WeakTypes' /\ ExpectedOK'
  BY DEF TrySet, Goto, Failed, WeakTypes, ExpectedOK, Locations, _writelocked
<1>2. CASE state = _unlocked
  <2>1. Readers = {} /\ Writers = {}
    BY <1>2, ReadersFinite, FS_EmptySet
       DEF StateCountsHolders, _unlocked, _writelocked
  <2>2. state' = _writelocked /\ pc' = [pc EXCEPT ![t] = "write"]
    BY <1>2 DEF TrySet, Goto
  <2>3. Readers' = {} /\ Writers' = {t}
    BY <2>1, <2>2 DEF Readers, Writers, WeakTypes
  <2> QED
    BY <1>1, <2>2, <2>3 DEF MutualExclusion, StateCountsHolders
<1>3. CASE state # _unlocked
  <2>1. Readers' = Readers /\ Writers' = Writers /\ state' = state
    BY <1>3 DEF TrySet, Failed, Goto, Readers, Writers, WeakTypes
  <2> QED
    BY <1>1, <2>1, SameHolders
<1> QED
  BY <1>2, <1>3

\* The store of unset() is only reached by the one writer, and frees the lock.
LEMMA UnsetIInv ==
    ASSUME NEW t \in Threads, IInv, Unset(t)
    PROVE  IInv'
<1> USE DEF IInv
<1>1. WeakTypes' /\ ExpectedOK'
  BY DEF Unset, Goto, WeakTypes, ExpectedOK, Locations, _unlocked
<1>2. Writers = {t} /\ Readers = {}
  BY DEF Unset, MutualExclusion, Writers
<1>3. Writers' = {} /\ Readers' = {}
  BY <1>2 DEF Unset, Goto, Readers, Writers, WeakTypes
<1>4. state' = Cardinality(Readers')
  BY <1>3, FS_EmptySet DEF Unset, _unlocked
<1> QED
  BY <1>1, <1>3, <1>4 DEF MutualExclusion, StateCountsHolders

\* A successful CAS(n, n + 1) adds one reader while no writer holds the lock.
LEMMA TrySetReadIInv ==
    ASSUME NEW t \in Threads, IInv, TrySetRead(t)
    PROVE  IInv'
<1> USE DEF IInv
<1>1. WeakTypes' /\ ExpectedOK'
  BY DEF TrySetRead, Goto, Failed, WeakTypes, ExpectedOK, Locations
<1>2. CASE state = expected[t]
  <2>1. state >= 0 /\ t \notin Readers
    BY <1>2 DEF TrySetRead, ExpectedOK, Readers
  <2>2. Writers = {} /\ state = Cardinality(Readers)
    BY <2>1 DEF StateCountsHolders, _writelocked
  <2>3. state' = state + 1 /\ pc' = [pc EXCEPT ![t] = "read"]
    BY <1>2 DEF TrySetRead, Goto
  <2>4. Readers' = Readers \cup {t} /\ Writers' = {}
    BY <2>2, <2>3 DEF TrySetRead, Readers, Writers, WeakTypes
  <2>5. Cardinality(Readers') = Cardinality(Readers) + 1
    BY <2>1, <2>4, ReadersFinite, FS_AddElement
  <2> QED
    BY <1>1, <2>2, <2>3, <2>4, <2>5 DEF MutualExclusion, StateCountsHolders
<1>3. CASE state # expected[t]
  <2>1. Readers' = Readers /\ Writers' = Writers /\ state' = state
    BY <1>3 DEF TrySetRead, Failed, Goto, Readers, Writers, WeakTypes
  <2> QED
    BY <1>1, <2>1, SameHolders
<1> QED
  BY <1>2, <1>3

\* A successful CAS(n, n - 1) removes one reader: the caller holds the lock,
\* so n is positive and no writer can be inside.
LEMMA UnsetReadIInv ==
    ASSUME NEW t \in Threads, IInv, UnsetRead(t)
    PROVE  IInv'
<1> USE DEF IInv
<1>1. WeakTypes' /\ ExpectedOK'
  BY DEF UnsetRead, Goto, WeakTypes, ExpectedOK, Locations
<1>2. t \in Readers
  BY DEF UnsetRead, Readers
<1>3. Writers = {} /\ state = Cardinality(Readers)
  BY <1>2 DEF StateCountsHolders
<1>4. CASE state = expected[t]
  <2>1. state' = state - 1 /\ pc' = [pc EXCEPT ![t] = "idle"]
    BY <1>4 DEF UnsetRead, Goto
  <2>2. Readers' = Readers \ {t} /\ Writers' = {}
    BY <1>3, <2>1 DEF Readers, Writers, WeakTypes
  <2>3. Cardinality(Readers') = Cardinality(Readers) - 1
    BY <1>2, <2>2, ReadersFinite, FS_RemoveElement
  <2> QED
    BY <1>1, <1>3, <2>1, <2>2, <2>3 DEF MutualExclusion, StateCountsHolders
<1>5. CASE state # expected[t]
  <2>1. Readers' = Readers /\ Writers' = Writers /\ state' = state
    BY <1>5 DEF UnsetRead, Goto, Readers, Writers, WeakTypes
  <2> QED
    BY <1>1, <2>1, SameHolders
<1> QED
  BY <1>4, <1>5

\* The loads and the calls change neither _state nor who holds the lock.
LEMMA LocalStepIInv ==
    ASSUME NEW t \in Threads, IInv,
           \/ \E loop \in BOOLEAN : CallSet(t, loop) \/ CallSetRead(t, loop)
           \/ LoadRead(t)
           \/ CallUnsetRead(t)
           \/ LoadUnsetRead(t)
    PROVE  IInv'
<1> USE DEF IInv
<1>1. state' = state /\ Readers' = Readers /\ Writers' = Writers
  BY DEF CallSet, CallSetRead, LoadRead, CallUnsetRead, LoadUnsetRead, Goto,
         Readers, Writers, WeakTypes
<1>2. state \in _writelocked .. Cardinality(Threads)
  BY StateRange
<1>3. WeakTypes'
  BY DEF CallSet, CallSetRead, LoadRead, CallUnsetRead, LoadUnsetRead, Goto,
         WeakTypes, Locations
<1>4. ExpectedOK'
  BY <1>2, ReadersFinite
     DEF CallSet, CallSetRead, LoadRead, CallUnsetRead, LoadUnsetRead, Goto,
         WeakTypes, ExpectedOK, _writelocked
<1> QED
  BY <1>1, <1>3, <1>4, SameHolders

\* Every step of every thread keeps the inductive invariant.
LEMMA NextIInv == IInv /\ [Next]_vars => IInv'
<1> SUFFICES ASSUME IInv, [Next]_vars PROVE IInv'
  OBVIOUS
<1>1. CASE Next
  <2> PICK t \in Threads : Step(t) \/ Caller(t)
    BY <1>1 DEF Next
  <2> QED
    BY TrySetIInv, UnsetIInv, TrySetReadIInv, UnsetReadIInv, LocalStepIInv
       DEF Step, Caller
<1>2. CASE UNCHANGED vars
  BY <1>2 DEF vars, IInv, WeakTypes, ExpectedOK, MutualExclusion,
              StateCountsHolders, Readers, Writers
<1> QED
  BY <1>1, <1>2

\* The inductive invariant holds in every state of the lock.
THEOREM Invariance == Spec => []IInv
BY InitIInv, NextIInv, PTL DEF Spec

\* The type invariant, with the bound on _state that rules out an overflow of
\* the 32-bit reader count.
THEOREM TypeCorrect == Spec => []TypeOK
<1>1. IInv => TypeOK
  BY StateRange DEF IInv, WeakTypes, ExpectedOK, TypeOK
<1> QED
  BY <1>1, Invariance, PTL

\* A writer never shares the lock, for any number of threads.
THEOREM MutualExclusionHolds == Spec => []MutualExclusion
<1>1. IInv => MutualExclusion
  BY DEF IInv
<1> QED
  BY <1>1, Invariance, PTL

\* _state counts the readers exactly, for any number of threads.
THEOREM StateCountsHoldersHolds == Spec => []StateCountsHolders
<1>1. IInv => StateCountsHolders
  BY DEF IInv
<1> QED
  BY <1>1, Invariance, PTL

-------------------------------------------------------------------------------
\* Every step of SpinLock is a step of the abstract lock or leaves it alone.
LEMMA StepRefines ==
    IInv /\ [Next]_vars => [Abstract!Next]_(Abstract!lockVars)
<1> SUFFICES ASSUME IInv, [Next]_vars
             PROVE  [Abstract!Next]_(Abstract!lockVars)
  OBVIOUS
<1> USE DEF Abstract!Next, Abstract!lockVars
<1>1. ASSUME NEW t \in Threads, TrySet(t)
      PROVE  Abstract!AcquireWrite(t) \/ UNCHANGED Abstract!lockVars
  <2>1. CASE state = _unlocked
    <3>1. Readers = {} /\ Writers = {}
      BY <2>1, ReadersFinite, FS_EmptySet
         DEF IInv, StateCountsHolders, _unlocked, _writelocked
    <3>2. Readers' = {} /\ Writers' = {t}
      BY <1>1, <2>1, <3>1 DEF TrySet, Goto, Readers, Writers, IInv, WeakTypes
    <3> QED
      BY <3>1, <3>2 DEF Abstract!AcquireWrite
  <2>2. CASE state # _unlocked
    BY <1>1, <2>2 DEF TrySet, Failed, Goto, Readers, Writers, IInv, WeakTypes
  <2> QED
    BY <2>1, <2>2
<1>2. ASSUME NEW t \in Threads, Unset(t)
      PROVE  Abstract!ReleaseWrite(t)
  BY <1>2 DEF Abstract!ReleaseWrite, Unset, Goto, Readers, Writers, IInv,
              WeakTypes
<1>3. ASSUME NEW t \in Threads, TrySetRead(t)
      PROVE  Abstract!AcquireRead(t) \/ UNCHANGED Abstract!lockVars
  <2>1. CASE state = expected[t]
    <3>1. Writers = {} /\ t \notin Readers
      BY <1>3, <2>1 DEF TrySetRead, Readers, IInv, ExpectedOK,
                        StateCountsHolders, _writelocked
    <3>2. Readers' = Readers \cup {t} /\ Writers' = Writers
      BY <1>3, <2>1 DEF TrySetRead, Goto, Readers, Writers, IInv, WeakTypes
    <3> QED
      BY <3>1, <3>2 DEF Abstract!AcquireRead
  <2>2. CASE state # expected[t]
    BY <1>3, <2>2 DEF TrySetRead, Failed, Goto, Readers, Writers, IInv,
                      WeakTypes
  <2> QED
    BY <2>1, <2>2
<1>4. ASSUME NEW t \in Threads, UnsetRead(t)
      PROVE  Abstract!ReleaseRead(t) \/ UNCHANGED Abstract!lockVars
  <2>1. CASE state = expected[t]
    BY <1>4, <2>1 DEF Abstract!ReleaseRead, UnsetRead, Goto, Readers, Writers,
                      IInv, WeakTypes
  <2>2. CASE state # expected[t]
    BY <1>4, <2>2 DEF UnsetRead, Goto, Readers, Writers, IInv, WeakTypes
  <2> QED
    BY <2>1, <2>2
<1>5. ASSUME NEW t \in Threads,
             \/ \E loop \in BOOLEAN : CallSet(t, loop) \/ CallSetRead(t, loop)
             \/ LoadRead(t)
             \/ CallUnsetRead(t)
             \/ LoadUnsetRead(t)
      PROVE  UNCHANGED Abstract!lockVars
  BY <1>5 DEF CallSet, CallSetRead, LoadRead, CallUnsetRead, LoadUnsetRead,
              Goto, Readers, Writers, IInv, WeakTypes
<1>6. ASSUME UNCHANGED vars
      PROVE  UNCHANGED Abstract!lockVars
  BY <1>6 DEF vars, Readers, Writers
<1> QED
  BY <1>1, <1>2, <1>3, <1>4, <1>5, <1>6 DEF Next, Step, Caller

\* The CAS loops of SpinLock implement the abstract read-write lock.
THEOREM Refinement == Spec => ImplementsRWLock
<1>1. Init => Abstract!Init
  BY DEF Init, Abstract!Init, Readers, Writers
<1> QED
  BY <1>1, StepRefines, Invariance, PTL
     DEF Spec, ImplementsRWLock, Abstract!Spec

-------------------------------------------------------------------------------
(* The loops of atomic.h. *)

\* A swap that succeeds found the value the thread had read.
LEMMA SwapMeansUnchanged ==
    ASSUME NEW a, NEW b, NEW n, compareAndSwap(a, b, n).ret = 1
    PROVE  a = b
BY DEF compareAndSwap

\* The functions with a loop are not those that access two variables, and a
\* thread that is in one of them is in a call.
LEMMA LoopsAccessOne ==
    ASSUME NEW c, c.f \in Arithmetic
    PROVE  c # NoCall /\ c.f \notin TwoAccesses
<1>1. NoCall.f = "none"
  BY DEF NoCall
<1>2. c.f # "none" /\ c.f \notin TwoAccesses
  BY Zenon DEF Arithmetic, TwoAccesses
<1>. QED  BY <1>1, <1>2

\* The iteration that succeeds is the operation itself, on the value the
\* variable holds at that moment; the others change nothing a caller sees.
LEMMA SwapIsPerform ==
    ASSUME NEW t, TrySwap(t)
    PROVE  Perform(t) \/ UNCHANGED atomicVars
<1>. DEFINE c == pending[t]
            e == Effect(c, old[t][1])
            swapped == compareAndSwap(number[c.v], old[t][1], e.new).ret = 1
<1>1. CASE swapped
  <2>1. number[c.v] = old[t][1]
    BY <1>1, SwapMeansUnchanged
  <2>2. Take(t, c, Effect(c, number[c.v]))
    BY <1>1, <2>1 DEF TrySwap
  <2>3. c # NoCall /\ c.f \notin TwoAccesses
    BY LoopsAccessOne DEF TrySwap
  <2>. QED  BY <2>2, <2>3 DEF Perform
<1>2. CASE ~swapped
  BY <1>2 DEF TrySwap
<1>. QED  BY <1>1, <1>2

\* Every step of the loops is a step of the atomic operations or a stutter.
LEMMA LoopStepRefines == [LoopsNext]_loopVars => [AtomicNext]_atomicVars
<1>. SUFFICES ASSUME [LoopsNext]_loopVars
              PROVE  [AtomicNext]_atomicVars
  OBVIOUS
<1>1. CASE UNCHANGED loopVars
  BY <1>1 DEF loopVars
<1>2. ASSUME NEW t \in AtomicThreads, LoadOld(t)
      PROVE  [AtomicNext]_atomicVars
  BY <1>2 DEF LoadOld
<1>3. ASSUME NEW t \in AtomicThreads, TrySwap(t)
      PROVE  [AtomicNext]_atomicVars
  BY <1>3, SwapIsPerform DEF AtomicNext
<1>4. ASSUME NEW t \in AtomicThreads, Perform(t)
      PROVE  [AtomicNext]_atomicVars
  BY <1>4 DEF AtomicNext
<1>5. ASSUME NEW t \in AtomicThreads, Common(t)
      PROVE  [AtomicNext]_atomicVars
  BY <1>5 DEF AtomicNext
<1>. QED  BY <1>1, <1>2, <1>3, <1>4, <1>5 DEF LoopsNext

(* atomic.h, getAndAdd(), getAndSub(), addAndGet(), subAndGet(): every     *)
(* behaviour of the loops is one of atomic operations.                     *)
THEOREM LoopsAreAtomic == LoopsSpec => ImplementsAtomic
<1>1. LoopsInit => AtomicInit
  BY DEF LoopsInit
<1>2. [LoopsNext]_loopVars => [AtomicNext]_atomicVars
  BY LoopStepRefines
<1>. QED  BY <1>1, <1>2, PTL DEF LoopsSpec, AtomicSpec, ImplementsAtomic

-------------------------------------------------------------------------------
(***************************************************************************)
(* Monitor.  The proof about wakeups does not depend on what the           *)
(* predicates and the changes are, only on who is notified when; the one   *)
(* about answers needs their shape.                                        *)
(***************************************************************************)
\* The shape of the state, as far as the proof needs it.
MonitorShape ==
    /\ _value = [m \in Monitors |-> _value[m]]
    /\ status \in [MonitorThreads -> {"idle", "awake", "sleeping", "expired"}]
    /\ call = [t \in MonitorThreads |-> call[t]]
    /\ \A t \in MonitorThreads : call[t].m \in Monitors

\* The inductive invariant.
MonitorInv == MonitorShape /\ NoLostWakeup

\* A sleeping thread whose call and monitor are left alone has nothing to do
\* after a step either.
LEMMA StillFalse ==
    ASSUME NEW u \in MonitorThreads, NoLostWakeup, status[u] = "sleeping",
           call'[u] = call[u], _value'[call[u].m] = _value[call[u].m]
    PROVE  ~Ready(u)'
<1>1. ~Ready(u)
  BY DEF NoLostWakeup
<1> QED
  BY <1>1 DEF Ready

\* A thread outside of any call has some monitor in its call record.
LEMMA NoCallMonitor == NoMonitorCall.m \in Monitors
<1>1. AnyMonitor \in Monitors
  BY MonitorsAssumption DEF AnyMonitor
<1> QED
  BY <1>1 DEF NoMonitorCall

\* A step that changes no value and puts nobody to sleep.
LEMMA QuietStep ==
    ASSUME MonitorInv, NEW t \in MonitorThreads, NEW c, c.m \in Monitors, NEW s \in {"idle", "awake", "expired"},
           call' = [call EXCEPT ![t] = c], status' = [status EXCEPT ![t] = s],
           UNCHANGED _value
    PROVE  MonitorInv'
<1>1. MonitorShape'
  BY DEF MonitorInv, MonitorShape
<1>2. ASSUME NEW u \in MonitorThreads, status'[u] = "sleeping" PROVE ~Ready(u)'
  <2>1. u # t /\ status[u] = "sleeping" /\ call'[u] = call[u]
    BY <1>2 DEF MonitorInv, MonitorShape
  <2> QED
    BY <2>1, StillFalse DEF MonitorInv
<1> QED
  BY <1>1, <1>2 DEF MonitorInv, NoLostWakeup

\* A change of the value, with the notification of everybody who waits for it.
LEMMA ChangeIInv ==
    ASSUME MonitorInv, NEW t \in MonitorThreads, Change(t)
    PROVE  MonitorInv'
<1>1. PICK m \in Monitors : m = call[t].m
  BY DEF MonitorInv, MonitorShape
<1>2. \A k \in Monitors : k # m => _value'[k] = _value[k]
  BY <1>1 DEF Change, MonitorInv, MonitorShape
<1>3. \A u \in MonitorThreads : call'[u] = IF u = t THEN NoMonitorCall ELSE call[u]
  BY DEF Change, ReturnNotify, MonitorInv, MonitorShape
<1>4. MonitorShape'
  <2>1. _value' = [k \in Monitors |-> _value'[k]]
    BY DEF Change, MonitorInv, MonitorShape
  <2>2. status' \in [MonitorThreads -> {"idle", "awake", "sleeping", "expired"}]
    BY DEF Change, ReturnNotify, MonitorInv, MonitorShape
  <2>3. call' = [u \in MonitorThreads |-> call'[u]]
    BY DEF Change, ReturnNotify, MonitorInv, MonitorShape
  <2>4. \A u \in MonitorThreads : call'[u].m \in Monitors
    BY <1>3, NoCallMonitor DEF MonitorInv, MonitorShape
  <2> QED
    BY <2>1, <2>2, <2>3, <2>4 DEF MonitorShape
<1>5. ASSUME NEW u \in MonitorThreads, status'[u] = "sleeping" PROVE ~Ready(u)'
  <2>1. u # t /\ status[u] = "sleeping" /\ call[u].m # m
    BY <1>1, <1>5 DEF Change, ReturnNotify, MonitorInv, MonitorShape
  <2>2. call'[u] = call[u] /\ _value'[call[u].m] = _value[call[u].m]
    BY <1>2, <1>3, <2>1 DEF MonitorInv, MonitorShape
  <2> QED
    BY <2>1, <2>2, StillFalse DEF MonitorInv
<1> QED
  BY <1>4, <1>5 DEF MonitorInv, NoLostWakeup

\* Falling asleep with a false predicate.
LEMMA SleepIInv ==
    ASSUME MonitorInv, NEW t \in MonitorThreads, Sleep(t)
    PROVE  MonitorInv'
<1>1. MonitorShape'
  BY DEF Sleep, MonitorInv, MonitorShape
<1>2. ASSUME NEW u \in MonitorThreads, status'[u] = "sleeping" PROVE ~Ready(u)'
  <2>1. CASE u = t
    BY <2>1 DEF Sleep, Ready
  <2>2. CASE u # t
    <3>1. status[u] = "sleeping" /\ call'[u] = call[u] /\ _value' = _value
      BY <1>2, <2>2 DEF Sleep, MonitorInv, MonitorShape
    <3> QED
      BY <3>1, StillFalse DEF MonitorInv
  <2> QED
    BY <2>1, <2>2
<1> QED
  BY <1>1, <1>2 DEF MonitorInv, NoLostWakeup

\* Everything a thread can do.
LEMMA ThreadIInv ==
    ASSUME MonitorInv, NEW t \in MonitorThreads,
           (\E c \in Calls : MonitorCall(t, c)) \/ MonitorStep(t) \/ SpuriousWakeup(t) \/ Expire(t)
    PROVE  MonitorInv'
<1>0. call' = call => call' = [call EXCEPT ![t] = call[t]] /\ call[t].m \in Monitors
  BY DEF MonitorInv, MonitorShape
<1>1. ASSUME NEW c \in Calls, MonitorCall(t, c) PROVE MonitorInv'
  <2>1. c.m \in Monitors
    BY CallsAssumption DEF CallRecords
  <2> QED
    BY <1>1, <2>1, QuietStep, Zenon DEF MonitorCall
<1>2. CASE Change(t)
  BY <1>2, ChangeIInv
<1>3. CASE OrFalse(t)
  BY <1>3, QuietStep, NoCallMonitor, Zenon DEF OrFalse, Return
<1>4. CASE AssignRead(t)
  <2> DEFINE c == [op |-> "set", m |-> call[t].m, from |-> call[t].from,
                   v |-> _value[call[t].from], w |-> 0, timed |-> FALSE]
  <2>1. c.m \in Monitors
    BY DEF MonitorInv, MonitorShape
  <2>2. MonitorShape'
    BY <1>4, <2>1, Zenon DEF AssignRead, MonitorInv, MonitorShape
  <2>3. ASSUME NEW u \in MonitorThreads, status'[u] = "sleeping" PROVE ~Ready(u)'
    <3>1. u # t /\ status[u] = "sleeping" /\ call'[u] = call[u] /\ _value' = _value
      BY <1>4, <2>3 DEF AssignRead, MonitorInv, MonitorShape
    <3> QED
      BY <3>1, StillFalse DEF MonitorInv
  <2> QED
    BY <2>2, <2>3 DEF MonitorInv, NoLostWakeup
<1>5. CASE Sleep(t)
  BY <1>5, SleepIInv
<1>6. CASE WaitReturn(t)
  BY <1>6, QuietStep, NoCallMonitor, Zenon DEF WaitReturn, Return
<1>7. CASE TimedOut(t)
  BY <1>7, QuietStep, NoCallMonitor, Zenon DEF TimedOut, Return
<1>8. CASE SpuriousWakeup(t)
  BY <1>0, <1>8, QuietStep, Zenon DEF SpuriousWakeup
<1>9. CASE Expire(t)
  BY <1>0, <1>9, QuietStep, Zenon DEF Expire
<1>10. CASE Compare(t)
  BY <1>10, QuietStep, NoCallMonitor, Zenon DEF Compare, Return
<1>11. CASE Read(t)
  BY <1>11, QuietStep, NoCallMonitor, ZenonT(30) DEF Read, Return
<1> QED
  BY <1>1, <1>2, <1>3, <1>4, <1>5, <1>6, <1>7, <1>8, <1>9, <1>10, <1>11, SMTT(30) DEF MonitorStep

-------------------------------------------------------------------------------
\* Every reachable state satisfies the inductive invariant.
THEOREM MonitorInvariance == MonitorSpec => []MonitorInv
<1>1. MonitorInit => MonitorInv
  BY NoCallMonitor DEF MonitorInit, MonitorInv, MonitorShape, NoLostWakeup
<1>2. MonitorInv /\ [MonitorNext]_monitorVars => MonitorInv'
  <2>1. CASE MonitorNext
    BY <2>1, ThreadIInv DEF MonitorNext
  <2>2. CASE UNCHANGED monitorVars
    BY <2>2 DEF monitorVars, MonitorInv, MonitorShape, NoLostWakeup, Ready
  <2> QED
    BY <2>1, <2>2
<1> QED
  BY <1>1, <1>2, PTL DEF MonitorSpec

\* A thread that sleeps in any of the waits of a monitor has a condition that
\* is not fulfilled: ++, --, =, set(), |= and &= wake everybody they concern.
THEOREM NoLostWakeupHolds == MonitorSpec => []NoLostWakeup
<1>1. MonitorInv => NoLostWakeup
  BY DEF MonitorInv
<1> QED
  BY <1>1, MonitorInvariance, PTL

-------------------------------------------------------------------------------
\* Every thread has something its last call returned.
RetShape == ret = [t \in MonitorThreads |-> ret[t]]

\* A call that returns replaces what its own thread got.
LEMMA RetShapeIsKept == RetShape /\ [MonitorNext]_monitorVars => RetShape'
<1>1. ASSUME RetShape, NEW t \in MonitorThreads, NEW r, ret' = [ret EXCEPT ![t] = r]
      PROVE  RetShape'
  BY <1>1, Zenon DEF RetShape
<1>2. RetShape /\ UNCHANGED ret => RetShape'
  BY DEF RetShape
<1> QED
  BY <1>1, <1>2, ZenonT(30) DEF MonitorNext, monitorVars, MonitorCall, MonitorStep, Change, OrFalse, AssignRead, Compare, Read, Sleep, WaitReturn,
              TimedOut, SpuriousWakeup, Expire, Return, ReturnNotify

\* A thread that is in a wait gets back to idle only by a step of its own, in
\* which the predicate tells whether it returns success.
LEMMA StepTellsTruth == MonitorInv /\ RetShape /\ MonitorNext => WaitOutcome
<1> SUFFICES ASSUME MonitorInv, RetShape, MonitorNext, NEW u \in MonitorThreads,
                    call[u].op \in Waits, status[u] # "idle", status'[u] = "idle"
             PROVE  ret'[u].ok <=> Meets(call[u], ret'[u].value)
  BY DEF WaitOutcome
<1>1. PICK t \in MonitorThreads :
        (\E c \in Calls : MonitorCall(t, c)) \/ MonitorStep(t) \/ SpuriousWakeup(t) \/ Expire(t)
  BY DEF MonitorNext
<1>2. call[u].op \notin Changes \cup Tests \cup Reads \cup {"none", "assign"}
  BY SMTT(30) DEF Waits, Changes, Tests, Reads
<1>3. u = t
  BY <1>1 DEF MonitorInv, MonitorShape, MonitorCall, MonitorStep, Change, OrFalse, AssignRead, Compare, Read, Sleep, WaitReturn,
              TimedOut, SpuriousWakeup, Expire, Return, ReturnNotify
<1>4. WaitReturn(u) \/ TimedOut(u)
  BY <1>1, <1>2, <1>3, ZenonT(30) DEF MonitorInv, MonitorShape, Changes, MonitorCall, MonitorStep, Change, OrFalse, AssignRead, Compare, Read, Sleep,
              SpuriousWakeup, Expire
<1>5. CASE WaitReturn(u)
  <2>1. ret'[u] = [ok |-> TRUE, value |-> _value[call[u].m]]
    BY <1>5 DEF WaitReturn, Return, RetShape
  <2> QED
    BY <1>5, <2>1 DEF WaitReturn, Ready
<1>6. CASE TimedOut(u)
  <2>1. ret'[u] = [ok |-> FALSE, value |-> _value[call[u].m]]
    BY <1>6 DEF TimedOut, Return, RetShape
  <2> QED
    BY <1>6, <2>1 DEF TimedOut, Ready
<1> QED
  BY <1>4, <1>5, <1>6

\* monitor.h, _wait() and _timedWait(): whatever wakes the thread, and however a
\* change races with the timeout, a wait that returns success returns a value
\* that meets its condition, and one that returns failure a value that does not.
THEOREM WaitOutcomeHolds == MonitorSpec => [][WaitOutcome]_monitorVars
<1>1. MonitorInit => RetShape
  BY DEF MonitorInit, RetShape
<1>2. MonitorInv /\ RetShape /\ [MonitorNext]_monitorVars => [WaitOutcome]_monitorVars
  BY StepTellsTruth, SMTT(30)
<1> QED
  BY <1>1, <1>2, MonitorInvariance, RetShapeIsKept, PTL DEF MonitorSpec

-------------------------------------------------------------------------------
(***************************************************************************)
(* ThreadPool.  The three properties together are inductive.               *)
(***************************************************************************)
\* The inductive invariant.
PoolInv ==
    /\ PoolTypeOK
    /\ WakeupsSuffice
    /\ StopWakesAll

-------------------------------------------------------------------------------
\* Sets of threads are finite.
LEMMA ThreadSetsFinite ==
    ASSUME PoolTypeOK
    PROVE  /\ IsFiniteSet(notifying) /\ Cardinality(notifying) \in Nat
           /\ IsFiniteSet(In("wait")) /\ Cardinality(In("wait")) \in Nat
           /\ Len(tasks) \in Nat
<1>1. IsFiniteSet(Posters)
  BY WorkersAssumption, ClientsAssumption, FS_Union, Zenon DEF Posters
<1>2. notifying \in SUBSET Posters /\ In("wait") \in SUBSET Workers
  BY DEF PoolTypeOK, In
<1>3. IsFiniteSet(notifying) /\ IsFiniteSet(In("wait"))
  BY <1>1, <1>2, WorkersAssumption, FS_Subset
<1> QED
  BY <1>3, FS_CardinalityType DEF PoolTypeOK

\* The number of workers before the predicate grows by one that arrives there,
\* and shrinks by one that leaves.
LEMMA CountWaiting ==
    ASSUME PoolTypeOK, NEW w \in Workers
    PROVE  /\ worker[w] # "wait" =>
                Cardinality(In("wait") \cup {w}) = Cardinality(In("wait")) + 1
           /\ worker[w] = "wait" =>
                Cardinality(In("wait") \ {w}) = Cardinality(In("wait")) - 1
<1>1. w \in In("wait") <=> worker[w] = "wait"
  BY DEF In
<1> QED
  BY <1>1, ThreadSetsFinite, FS_AddElement, FS_RemoveElement, Zenon

\* The pool starts with nothing to do and nobody asleep.
LEMMA PoolInitInv == PoolInit => PoolInv
<1> SUFFICES ASSUME PoolInit PROVE PoolInv
  OBVIOUS
<1>1. PoolTypeOK
  <2>1. left \in [Posters -> SUBSET Tasks]
    BY PostsAssumption DEF PoolInit, Posters
  <2>2. stop \in BOOLEAN
    BY Zenon DEF PoolInit
  <2> QED
    BY <2>1, <2>2 DEF PoolInit, PoolTypeOK
<1>2. In("sleeping") = {}
  BY DEF PoolInit, In
<1> QED
  BY <1>1, <1>2 DEF PoolInv, WakeupsSuffice, StopWakesAll

\* post() and notify_one().
LEMMA PosterIInv ==
    ASSUME PoolInv, NEW p \in Posters, PosterStep(p)
    PROVE  PoolInv'
<1> USE DEF PoolInv
<1>1. ASSUME NEW k \in Tasks, Post(p, k) PROVE PoolInv'
  <2>1. PoolTypeOK'
    BY <1>1 DEF Post, PoolTypeOK
  <2>2. In("sleeping")' = In("sleeping") /\ In("wait")' = In("wait")
    BY <1>1 DEF Post, In
  <2>3. Cardinality(notifying') = Cardinality(notifying) + 1
    BY <1>1, ThreadSetsFinite, FS_AddElement, Zenon DEF Post
  <2>4. Len(tasks') = Len(tasks) + 1
    BY <1>1 DEF Post, PoolTypeOK
  <2>5. WakeupsSuffice'
    BY <2>2, <2>3, <2>4, ThreadSetsFinite DEF WakeupsSuffice
  <2>6. StopWakesAll'
    BY <1>1, <2>2 DEF StopWakesAll, Post
  <2> QED
    BY <2>1, <2>5, <2>6
<1>2. CASE NotifyOne(p)
  <2>1. PoolTypeOK'
    BY <1>2 DEF NotifyOne, PoolTypeOK, In
  <2>2. /\ Cardinality(notifying') = Cardinality(notifying) - 1
        /\ tasks' = tasks /\ stop' = stop
    BY <1>2, ThreadSetsFinite, FS_RemoveElement, Zenon DEF NotifyOne
  <2>3. CASE In("sleeping") = {} /\ UNCHANGED worker
    <3>1. In("sleeping")' = {}
      BY <2>3 DEF In
    <3> QED
      BY <2>1, <3>1 DEF WakeupsSuffice, StopWakesAll
  <2>4. ASSUME NEW w \in In("sleeping"), worker' = [worker EXCEPT ![w] = "wait"]
        PROVE  PoolInv'
    <3>1. w \in Workers /\ worker[w] = "sleeping"
      BY <2>4 DEF In
    <3>2. /\ In("wait")' = In("wait") \cup {w}
          /\ In("sleeping")' = In("sleeping") \ {w}
      BY <2>4, <3>1, SMTT(30) DEF In, PoolTypeOK
    <3>3. Cardinality(In("wait")') = Cardinality(In("wait")) + 1
      BY <3>1, <3>2, CountWaiting, Zenon
    <3>4. WakeupsSuffice'
      BY <2>2, <3>1, <3>2, <3>3, ThreadSetsFinite DEF WakeupsSuffice
    <3>5. StopWakesAll'
      BY <2>2, <3>2 DEF StopWakesAll
    <3> QED
      BY <2>1, <3>4, <3>5
  <2> QED
    BY <1>2, <2>3, <2>4 DEF NotifyOne
<1> QED
  BY <1>1, <1>2 DEF PosterStep

\* work() and spurious wakeups.
LEMMA WorkerIInv ==
    ASSUME PoolInv, NEW w \in Workers, WorkerStep(w) \/ WorkerWakeup(w)
    PROVE  PoolInv'
<1> USE DEF PoolInv
<1>0. w \in Posters
  BY DEF Posters
<1>1. CASE WorkerWait(w)
  <2>1. PoolTypeOK'
    BY <1>1 DEF WorkerWait, PoolTypeOK
  <2>2. Len(tasks') = 0 /\ notifying' = notifying
    BY <1>1 DEF WorkerWait
  <2>3. Cardinality(In("wait")') \in Nat /\ Cardinality(notifying') \in Nat
    <3>1. In("wait")' = In("wait") \ {w}
      BY <1>1, SMTT(30) DEF WorkerWait, In, PoolTypeOK
    <3>2. IsFiniteSet(In("wait") \ {w})
      BY ThreadSetsFinite, FS_RemoveElement
    <3> QED
      BY <2>2, <3>1, <3>2, ThreadSetsFinite, FS_CardinalityType
  <2>4. WakeupsSuffice'
    BY <2>2, <2>3 DEF WakeupsSuffice
  <2>5. StopWakesAll'
    BY <1>1 DEF WorkerWait, StopWakesAll
  <2> QED
    BY <2>1, <2>4, <2>5
<1>2. CASE WorkerWakeup(w)
  <2>1. PoolTypeOK'
    BY <1>2 DEF WorkerWakeup, PoolTypeOK
  <2>2. In("wait")' = In("wait") \cup {w} /\ In("sleeping")' = In("sleeping") \ {w}
    BY <1>2, SMTT(30) DEF WorkerWakeup, In, PoolTypeOK
  <2>3. Cardinality(In("wait")') = Cardinality(In("wait")) + 1
    BY <1>2, <2>2, CountWaiting, Zenon DEF WorkerWakeup
  <2>4. WakeupsSuffice'
    BY <1>2, <2>2, <2>3, ThreadSetsFinite DEF WorkerWakeup, WakeupsSuffice
  <2>5. StopWakesAll'
    BY <1>2, <2>2 DEF WorkerWakeup, StopWakesAll
  <2> QED
    BY <2>1, <2>4, <2>5
<1>3. CASE TakeTask(w)
  <2>1. Head(tasks) \in Tasks /\ Tail(tasks) \in Seq(Tasks) /\ Len(Tail(tasks)) = Len(tasks) - 1
    BY <1>3, HeadTailProperties DEF TakeTask, PoolTypeOK
  <2>2. PoolTypeOK'
    BY <1>0, <1>3, <2>1, PostsAssumption DEF TakeTask, PoolTypeOK
  <2>3. In("wait")' = In("wait") \ {w} /\ In("sleeping")' = In("sleeping") \ {w}
    BY <1>3, SMTT(30) DEF TakeTask, In, PoolTypeOK
  <2>4. Cardinality(In("wait")') = Cardinality(In("wait")) - 1
    BY <1>3, <2>3, CountWaiting, Zenon DEF TakeTask
  <2>5. WakeupsSuffice'
    BY <1>3, <2>1, <2>3, <2>4, ThreadSetsFinite DEF TakeTask, WakeupsSuffice
  <2>6. StopWakesAll'
    BY <1>3, <2>3 DEF TakeTask, StopWakesAll
  <2> QED
    BY <2>2, <2>5, <2>6
<1>4. CASE FinishTask(w)
  <2>1. PoolTypeOK'
    BY <1>4 DEF FinishTask, PoolTypeOK
  <2>2. In("wait")' = In("wait") \cup {w} /\ In("sleeping")' = In("sleeping") \ {w}
    BY <1>4, SMTT(30) DEF FinishTask, In, PoolTypeOK
  <2>3. Cardinality(In("wait")') = Cardinality(In("wait")) + 1
    BY <1>4, <2>2, CountWaiting, Zenon DEF FinishTask
  <2>4. WakeupsSuffice'
    BY <1>4, <2>2, <2>3, ThreadSetsFinite DEF FinishTask, WakeupsSuffice
  <2>5. StopWakesAll'
    BY <1>4, <2>2 DEF FinishTask, StopWakesAll
  <2> QED
    BY <2>1, <2>4, <2>5
<1>5. CASE Exit(w)
  <2>1. PoolTypeOK'
    BY <1>5 DEF Exit, PoolTypeOK
  <2>2. In("sleeping")' = {}
    <3>1. In("sleeping") = {}
      BY <1>5 DEF Exit, StopWakesAll
    <3>2. In("sleeping")' = In("sleeping") \ {w}
      BY <1>5, SMTT(30) DEF Exit, In, PoolTypeOK
    <3> QED
      BY <3>1, <3>2
  <2> QED
    BY <2>1, <2>2 DEF WakeupsSuffice, StopWakesAll
<1> QED
  BY <1>1, <1>2, <1>3, <1>4, <1>5 DEF WorkerStep

\* The destructor.
LEMMA DestroyIInv == ASSUME PoolInv, Destroy \/ JoinAll PROVE PoolInv'
<1> USE DEF PoolInv
<1>1. CASE Destroy
  <2>1. PoolTypeOK'
    BY <1>1 DEF Destroy, PoolTypeOK
  <2>2. In("sleeping")' = {}
    BY <1>1 DEF Destroy, In
  <2> QED
    BY <2>1, <2>2 DEF WakeupsSuffice, StopWakesAll
<1>2. CASE JoinAll
  BY <1>2 DEF JoinAll, PoolTypeOK, WakeupsSuffice, StopWakesAll, In
<1> QED
  BY <1>1, <1>2

\* Every step preserves the inductive invariant.
LEMMA PoolNextInv == PoolInv /\ [PoolNext]_poolVars => PoolInv'
<1> SUFFICES ASSUME PoolInv, [PoolNext]_poolVars PROVE PoolInv'
  OBVIOUS
<1>1. CASE PoolNext
  BY <1>1, PosterIInv, WorkerIInv, DestroyIInv DEF PoolNext
<1>2. CASE UNCHANGED poolVars
  BY <1>2 DEF poolVars, PoolInv, PoolTypeOK, WakeupsSuffice, StopWakesAll, In
<1> QED
  BY <1>1, <1>2

-------------------------------------------------------------------------------
\* Type correctness.
THEOREM PoolTypeCorrect == PoolSpec => []PoolTypeOK
<1>1. PoolInv => PoolTypeOK
  BY DEF PoolInv
<1> QED
  BY <1>1, PoolInitInv, PoolNextInv, PTL DEF PoolSpec

\* While a worker of the pool sleeps, every queued task has a worker or a
\* notification on its way, for any number of workers, clients and tasks.
THEOREM WakeupsSufficeHolds == PoolSpec => []WakeupsSuffice
<1>1. PoolInv => WakeupsSuffice
  BY DEF PoolInv
<1> QED
  BY <1>1, PoolInitInv, PoolNextInv, PTL DEF PoolSpec

\* No worker sleeps once the destructor has started to stop the pool.
THEOREM StopWakesAllHolds == PoolSpec => []StopWakesAll
<1>1. PoolInv => StopWakesAll
  BY DEF PoolInv
<1> QED
  BY <1>1, PoolInitInv, PoolNextInv, PTL DEF PoolSpec
===============================================================================
