------------------------------- MODULE RefCount -------------------------------
(***************************************************************************)
(* Reference-counted objects: lunchbox::Referenced (referenced.h, .cpp),   *)
(* the pointers to them, lunchbox::RefPtr (refPtr.h), and the one kind of  *)
(* object whose destruction does something, lunchbox::FutureFunction       *)
(* (futureFunction.h), which a Future (future.h) holds in a RefPtr.        *)
(*                                                                         *)
(* Every thread has pointers of its own.  One more pointer is shared; it   *)
(* is in a Lockable (lockable.h) and only used with its lock set.  An      *)
(* object may have a RefPtr as a member, set when it is constructed.       *)
(*                                                                         *)
(* A call leaves the steps it still has to do in todo: the accesses to the *)
(* atomic counter, to the pointers and to the function.  A destructor adds *)
(* its own in front of them.                                               *)
(***************************************************************************)
EXTENDS Integers, Sequences, FiniteSets, FiniteSetsExt, SequencesExt

CONSTANTS
    Threads,
    MaxObjects,     \* number of objects that are constructed at most
    PerThread,      \* PerThread[t]: number of pointers of t
    MaxThrows       \* number of times a function throws at most

VARIABLES
    ptr,        \* ptr[p]: p._ptr
    count,      \* count[o]: o._refCount
    life,       \* life[o]: raw (not constructed), live, dying (in its destructor), dead
    func,       \* func[o]: pending or empty for a FutureFunction, ready for a FutureBool,
                \* none for an object that is no future
    runs,       \* runs[o]: how often o.func_() has returned (history)
    lock,       \* the thread that has set Lockable::lock, if any
    todo,       \* todo[t]: what t still has to do in its call
    throws,     \* number of exceptions
    terminated  \* std::terminate() has been called

refVars == <<ptr, count, life, func, runs, lock, todo, throws, terminated>>

Objects == 1 .. MaxObjects
Null == 0

\* The pointers: those of a thread, the shared one, the members of objects.
Own(t) == {<<"own", t, i>> : i \in 1 .. PerThread[t]}
Shared == <<"shared">>
Member(o) == <<"member", o>>
Pointers == UNION {Own(t) : t \in Threads} \cup {Shared} \cup {Member(o) : o \in Objects}

RefInit ==
    /\ ptr = [p \in Pointers |-> Null]
    /\ count = [o \in Objects |-> 0]
    /\ life = [o \in Objects |-> "raw"]
    /\ func = [o \in Objects |-> "none"]
    /\ runs = [o \in Objects |-> 0]
    /\ lock = {}
    /\ todo = [t \in Threads |-> <<>>]
    /\ throws = 0
    /\ terminated = FALSE

\* A step on object o, and one on pointer p that concerns o.
On(op, o) == [op |-> op, p |-> Shared, o |-> o]
At(op, p, o) == [op |-> op, p |-> p, o |-> o]

\* The steps on o, which may be the null pointer: then there are none.
IfNotNull(op, o) == IF o = Null THEN <<>> ELSE <<On(op, o)>>

-------------------------------------------------------------------------------
\* The steps of a call.  A thread does the first one and continues with the
\* steps that it leads to and the rest.

Doing(t, op) == ~terminated /\ todo[t] # <<>> /\ Head(todo[t]).op = op
Arg(t) == Head(todo[t])
Continue(t, steps) == todo' = [todo EXCEPT ![t] = steps \o Tail(@)]

\* Referenced::ref()
Ref(t) ==
    /\ Doing(t, "ref")
    /\ count' = [count EXCEPT ![Arg(t).o] = @ + 1]
    /\ Continue(t, <<>>)
    /\ UNCHANGED <<ptr, life, func, runs, lock, throws, terminated>>

\* What notifyFree() does: the destructors of a FutureFunction (it has no
\* members to release) and of an object with a RefPtr, and ~Referenced().
Destruction(o) ==
    (IF func[o] \in {"none", "ready"} THEN <<>> ELSE <<On("wait", o)>>)
        \o <<At("destroy", Member(o), Null), On("free", o)>>

\* unref() that counts in two steps, with the test on what is read first.
MutantUnref(t) ==
    \/ /\ Doing(t, "unref")
       /\ todo' = [todo EXCEPT ![t][1] = On(IF count[@.o] = 1 THEN "last" ELSE "notlast", @.o)]
       /\ UNCHANGED <<ptr, count, life, func, runs, lock, throws, terminated>>
    \/ /\ Doing(t, "last") \/ Doing(t, "notlast")
       /\ count' = [count EXCEPT ![Arg(t).o] = @ - 1]
       /\ life' = [life EXCEPT ![Arg(t).o] = IF Arg(t).op = "last" THEN "dying" ELSE @]
       /\ Continue(t, IF Arg(t).op = "last" THEN Destruction(Arg(t).o) ELSE <<>>)
       /\ UNCHANGED <<ptr, func, runs, lock, throws, terminated>>

\* Referenced::unref(): --_refCount is one atomic operation, and who makes it
\* zero destructs the object.
Unref(t) ==
    /\ Doing(t, "unref")
    /\ count' = [count EXCEPT ![Arg(t).o] = @ - 1]
    /\ \/ /\ count[Arg(t).o] = 1
          /\ life' = [life EXCEPT ![Arg(t).o] = "dying"]
          /\ Continue(t, Destruction(Arg(t).o))
       \/ /\ count[Arg(t).o] # 1
          /\ life' = life
          /\ Continue(t, <<>>)
    /\ UNCHANGED <<ptr, func, runs, lock, throws, terminated>>

\* RefPtr::operator=
Assign(t) ==
    /\ Doing(t, "assign")
    /\ \/ /\ ptr[Arg(t).p] = Arg(t).o
          /\ ptr' = ptr
          /\ Continue(t, <<>>)
       \/ /\ ptr[Arg(t).p] # Arg(t).o
          /\ ptr' = [ptr EXCEPT ![Arg(t).p] = Arg(t).o]
          /\ Continue(t, IfNotNull("ref", Arg(t).o) \o IfNotNull("unref", ptr[Arg(t).p]))
    /\ UNCHANGED <<count, life, func, runs, lock, throws, terminated>>

\* A constructor sets the pointer before it references the object.
Set(t) ==
    /\ Doing(t, "set")
    /\ ptr' = [ptr EXCEPT ![Arg(t).p] = Arg(t).o]
    /\ Continue(t, IfNotNull("ref", Arg(t).o))
    /\ UNCHANGED <<count, life, func, runs, lock, throws, terminated>>

\* ~RefPtr(): _unref(), then ...
Destroy(t) ==
    /\ Doing(t, "destroy")
    /\ Continue(t, IfNotNull("unref", ptr[Arg(t).p]) \o <<At("zero", Arg(t).p, Null)>>)
    /\ UNCHANGED <<ptr, count, life, func, runs, lock, throws, terminated>>

\* ... _ptr = 0.
ZeroPtr(t) ==
    /\ Doing(t, "zero")
    /\ ptr' = [ptr EXCEPT ![Arg(t).p] = Null]
    /\ Continue(t, <<>>)
    /\ UNCHANGED <<count, life, func, runs, lock, throws, terminated>>

\* ~Referenced(), and the memory is released.
Free(t) ==
    /\ Doing(t, "free")
    /\ life' = [life EXCEPT ![Arg(t).o] = "dead"]
    /\ Continue(t, <<>>)
    /\ UNCHANGED <<ptr, count, func, runs, lock, throws, terminated>>

\* FutureFunction::wait() that always calls the function.
MutantWaitFunction(t) ==
    /\ Doing(t, "wait")
    /\ Continue(t, <<On("call", Arg(t).o)>>)
    /\ UNCHANGED <<ptr, count, life, func, runs, lock, throws, terminated>>

\* FutureFunction::wait() tests the function (that of a FutureBool has none), ...
WaitFunction(t) ==
    /\ Doing(t, "wait")
    /\ Continue(t, IF func[Arg(t).o] = "pending" THEN <<On("call", Arg(t).o)>> ELSE <<>>)
    /\ UNCHANGED <<ptr, count, life, func, runs, lock, throws, terminated>>

\* ... calls it ...
Call(t) ==
    /\ Doing(t, "call")
    /\ runs' = [runs EXCEPT ![Arg(t).o] = @ + 1]
    /\ Continue(t, <<On("clear", Arg(t).o)>>)
    /\ UNCHANGED <<ptr, count, life, func, lock, throws, terminated>>

\* ... (which may throw: wait() is left by the exception and the lock is
\* unset, but a destructor does not let it pass) ...
CallThrows(t) ==
    /\ Doing(t, "call")
    /\ throws < MaxThrows
    /\ throws' = throws + 1
    /\ terminated' = (life[Arg(t).o] = "dying")
    /\ Continue(t, <<>>)
    /\ UNCHANGED <<ptr, count, life, func, runs, lock>>

\* ... and clears it.
Clear(t) ==
    /\ Doing(t, "clear")
    /\ func' = [func EXCEPT ![Arg(t).o] = "empty"]
    /\ Continue(t, <<>>)
    /\ UNCHANGED <<ptr, count, life, runs, lock, throws, terminated>>

\* ~UniqueLock()
Unlock(t) ==
    /\ Doing(t, "unlock")
    /\ lock' = {}
    /\ Continue(t, <<>>)
    /\ UNCHANGED <<ptr, count, life, func, runs, throws, terminated>>

Step(t) ==
    \/ Ref(t) \/ Unref(t)
    \/ Assign(t) \/ Set(t) \/ Destroy(t) \/ ZeroPtr(t) \/ Free(t)
    \/ WaitFunction(t) \/ Call(t) \/ CallThrows(t) \/ Clear(t)
    \/ Unlock(t)

-------------------------------------------------------------------------------
\* The calls a thread makes.

Idle(t) == ~terminated /\ todo[t] = <<>>
Begin(t, steps) == todo' = [todo EXCEPT ![t] = steps]

\* p = new T( q ): Referenced() starts with no references, the member is a
\* copy of q.
New(t, p, m, f) ==
    /\ Idle(t)
    /\ \E o \in Objects :
        /\ life[o] = "raw"
        /\ \A x \in Objects : x < o => life[x] # "raw"
        /\ life' = [life EXCEPT ![o] = "live"]
        /\ func' = [func EXCEPT ![o] = f]
        /\ Begin(t, (IF m = Null THEN <<>> ELSE <<At("set", Member(o), m)>>)
                        \o <<At("assign", p, o)>>)
    /\ UNCHANGED <<ptr, count, runs, lock, throws, terminated>>

\* A Future with a function, and one with a known value.
NewFunction(t, p) == New(t, p, Null, "pending")
MakeReady(t, p) == New(t, p, Null, "ready")

\* p = q, p = 0 and p = p->member
Copy(t, p, o) ==
    /\ Idle(t)
    /\ Begin(t, <<At("assign", p, o)>>)
    /\ UNCHANGED <<ptr, count, life, func, runs, lock, throws, terminated>>

\* RefPtr< O > p( q ): the parameter is a copy of q.
Convert(t, p, q) ==
    /\ Idle(t)
    /\ ptr[p] = Null
    /\ ptr[q] # Null
    /\ Begin(t, <<On("ref", ptr[q]), At("set", p, ptr[q]), On("unref", ptr[q])>>)
    /\ UNCHANGED <<ptr, count, life, func, runs, lock, throws, terminated>>

\* os << p, with a copy of p
PrintPtr(t, p) ==
    /\ Idle(t)
    /\ ptr[p] # Null
    /\ Begin(t, <<On("ref", ptr[p]), On("unref", ptr[p])>>)
    /\ UNCHANGED <<ptr, count, life, func, runs, lock, throws, terminated>>

\* The end of the scope of p
Leave(t, p) ==
    /\ Idle(t)
    /\ Begin(t, <<At("destroy", p, Null)>>)
    /\ UNCHANGED <<ptr, count, life, func, runs, lock, throws, terminated>>

\* The uses of the Lockable: *shared = p, p = *shared, and wait() of a future,
\* which is "not thread safe" (futureFunction.h:28), one thread at a time.
Locked(t, steps) ==
    /\ Idle(t)
    /\ lock = {}
    /\ lock' = {t}
    /\ Begin(t, steps \o <<At("unlock", Shared, Null)>>)
    /\ UNCHANGED <<ptr, count, life, func, runs, throws, terminated>>

Publish(t, p) == Locked(t, <<At("assign", Shared, ptr[p])>>)
Fetch(t, p) == Locked(t, <<At("assign", p, ptr[Shared])>>)
Wait(t, p) == ptr[p] # Null /\ func[ptr[p]] # "none" /\ Locked(t, <<On("wait", ptr[p])>>)

RefCall(t) ==
    \E p \in Own(t) :
        \/ \E m \in {ptr[q] : q \in Own(t)} \cup {Null} : New(t, p, m, "none")
        \/ NewFunction(t, p) \/ MakeReady(t, p)
        \/ \E q \in Own(t) \ {p} : Copy(t, p, ptr[q]) \/ Convert(t, p, q)
        \/ Copy(t, p, Null)
        \/ ptr[p] # Null /\ Copy(t, p, ptr[Member(ptr[p])])
        \/ PrintPtr(t, p) \/ Leave(t, p)
        \/ Publish(t, p) \/ Fetch(t, p) \/ Wait(t, p)

RefNext == \E t \in Threads : Step(t) \/ RefCall(t)

RefSpec == RefInit /\ [][RefNext]_refVars

-------------------------------------------------------------------------------
\* The steps op on object o that threads still have to do.
Pending(op, o) ==
    UNION {{<<t, i>> : i \in {j \in DOMAIN todo[t] : todo[t][j].op = op /\ todo[t][j].o = o}}
              : t \in Threads}

\* The pointers that hold o; a pointer that is being destructed does not.
Leaving == UNION {{todo[t][i].p : i \in {j \in DOMAIN todo[t] : todo[t][j].op = "zero"}}
                     : t \in Threads}
Holders(o) == {p \in Pointers \ Leaving : ptr[p] = o}

\* The counter of an object is the number of pointers that hold the object, up
\* to the ref() and unref() calls that threads are about to make for a pointer
\* they have changed.
CountsHolders ==
    \A o \in Objects :
        count[o] = Cardinality(Holders(o)) + Cardinality(Pending("unref", o))
                       - Cardinality(Pending("ref", o))

\* An object lives as long as it is held, and no longer: the counter is exact,
\* ref(), unref() and wait() are called for live objects (wait() also by the
\* destructor), no pointer is left dangling, an object is destructed once, and
\* when no thread is in a call the objects that live are those that are held.
LivesWhileHeld ==
    /\ CountsHolders
    /\ \A o \in Objects : life[o] \in {"raw", "dying", "dead"} => Holders(o) = {}
    /\ \A t \in Threads : todo[t] # <<>> =>
        LET s == Head(todo[t])
        IN  /\ s.op \in {"ref", "unref"} => life[s.o] = "live"
            /\ s.op \in {"wait", "call", "clear"} =>
                   \/ life[s.o] = "live"
                   \/ life[s.o] = "dying" /\ On("free", s.o) \in Range(todo[t])
            /\ s.op = "free" => life[s.o] = "dying" /\ count[s.o] = 0
    /\ (\A t \in Threads : todo[t] = <<>>) =>
           \A o \in Objects : life[o] = "live" <=> Holders(o) # {}

\* The function of a future is called until it returns, and not again: by
\* wait(), or by the destructor if nobody has waited.
FunctionRunsOnce ==
    \A o \in Objects :
        /\ runs[o] <= 1
        /\ life[o] = "dead" /\ func[o] \in {"pending", "empty"} => runs[o] = 1
===============================================================================
