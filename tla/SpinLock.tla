------------------------------- MODULE SpinLock -------------------------------
(***************************************************************************)
(* lunchbox::SpinLock (spinLock.cpp): a read-write spin lock kept in one   *)
(* atomic 32-bit integer, -1 when write-locked, 0 when free, n > 0 when n  *)
(* readers hold it.  Each load and each compare-and-swap of the integer is *)
(* one step, so all interleavings of the CAS loops are explored.  A member *)
(* of Threads is one holder: a thread that nests two read locks counts as  *)
(* two members.                                                            *)
(***************************************************************************)
EXTENDS Integers, FiniteSets

CONSTANT Threads

ASSUME ThreadsFinite == IsFiniteSet(Threads)

_unlocked    == 0
_writelocked == -1

VARIABLES
    state,      \* Impl::_state
    pc,         \* pc[t]: where thread t is in its current operation
    expected,   \* expected[t]: the local of trySetRead() and unsetRead()
    retry       \* retry[t]: in set()/setRead(), which loop, not in trySet*()

vars == <<state, pc, expected, retry>>

Locations ==
    {"idle", "cas", "write", "load", "casRead", "read", "unload", "casUnread"}

\* Threads between a successful trySet() and the store of unset().
Writers == {t \in Threads : pc[t] = "write"}

\* Threads between the successful CAS of trySetRead() and that of unsetRead().
Readers == {t \in Threads : pc[t] \in {"read", "unload", "casUnread"}}

Init ==
    /\ state = _unlocked
    /\ pc = [t \in Threads |-> "idle"]
    /\ expected = [t \in Threads |-> 0]
    /\ retry = [t \in Threads |-> FALSE]

Goto(t, l) == pc' = [pc EXCEPT ![t] = l]

\* A failed attempt: set() and setRead() yield and try again, the try
\* variants return false to the caller.
Failed(t, l) == Goto(t, IF retry[t] THEN l ELSE "idle")

\* set() (loop = TRUE) or trySet() (loop = FALSE) is called.
CallSet(t, loop) ==
    /\ pc[t] = "idle"
    /\ Goto(t, "cas")
    /\ retry' = [retry EXCEPT ![t] = loop]
    /\ UNCHANGED <<state, expected>>

\* compareAndSwap( _unlocked, _writelocked ) of trySet().
TrySet(t) ==
    /\ pc[t] = "cas"
    /\ \/ /\ state = _unlocked
          /\ state' = _writelocked
          /\ Goto(t, "write")
       \/ /\ state # _unlocked
          /\ Failed(t, "cas")
          /\ UNCHANGED state
    /\ UNCHANGED <<expected, retry>>

\* A release that forgets the store.
MutantUnset(t) ==
    /\ pc[t] = "write"
    /\ Goto(t, "idle")
    /\ UNCHANGED <<state, expected, retry>>

Unset(t) ==
    /\ pc[t] = "write"
    /\ state' = _unlocked
    /\ Goto(t, "idle")
    /\ UNCHANGED <<expected, retry>>

\* setRead() (loop = TRUE) or trySetRead() (loop = FALSE) is called.
CallSetRead(t, loop) ==
    /\ pc[t] = "idle"
    /\ Goto(t, "load")
    /\ retry' = [retry EXCEPT ![t] = loop]
    /\ UNCHANGED <<state, expected>>

\* expected = state of trySetRead() without the test for _writelocked.
MutantLoadRead(t) ==
    /\ pc[t] = "load"
    /\ expected' = [expected EXCEPT ![t] = state]
    /\ Goto(t, "casRead")
    /\ UNCHANGED <<state, retry>>

\* The load of _state in trySetRead(), and the choice of the expected value.
LoadRead(t) ==
    /\ pc[t] = "load"
    /\ expected' =
         [expected EXCEPT ![t] = IF state = _writelocked THEN 0 ELSE state]
    /\ Goto(t, "casRead")
    /\ UNCHANGED <<state, retry>>

\* compareAndSwap( expected, expected + 1 ) of trySetRead().
TrySetRead(t) ==
    /\ pc[t] = "casRead"
    /\ \/ /\ state = expected[t]
          /\ state' = expected[t] + 1
          /\ Goto(t, "read")
       \/ /\ state # expected[t]
          /\ Failed(t, "load")
          /\ UNCHANGED state
    /\ UNCHANGED <<expected, retry>>

CallUnsetRead(t) ==
    /\ pc[t] = "read"
    /\ Goto(t, "unload")
    /\ UNCHANGED <<state, expected, retry>>

\* The load of _state in the loop of unsetRead().
LoadUnsetRead(t) ==
    /\ pc[t] = "unload"
    /\ expected' = [expected EXCEPT ![t] = state]
    /\ Goto(t, "casUnread")
    /\ UNCHANGED <<state, retry>>

\* compareAndSwap( expected, expected - 1 ) of unsetRead().
UnsetRead(t) ==
    /\ pc[t] = "casUnread"
    /\ \/ /\ state = expected[t]
          /\ state' = expected[t] - 1
          /\ Goto(t, "idle")
       \/ /\ state # expected[t]
          /\ Goto(t, "unload")
          /\ UNCHANGED state
    /\ UNCHANGED <<expected, retry>>

\* What the code of the lock itself does once an operation has been called.
Step(t) ==
    \/ TrySet(t)
    \/ LoadRead(t)
    \/ TrySetRead(t)
    \/ LoadUnsetRead(t)
    \/ UnsetRead(t)

\* The callers: they ask for the lock and give back what they hold.
Caller(t) ==
    \/ \E loop \in BOOLEAN : CallSet(t, loop) \/ CallSetRead(t, loop)
    \/ Unset(t)
    \/ CallUnsetRead(t)

Next == \E t \in Threads : Step(t) \/ Caller(t)

Spec == Init /\ [][Next]_vars

\* A running thread is scheduled again and a holder releases the lock, as
\* every ScopedFastRead and ScopedFastWrite does.
Fairness ==
    \A t \in Threads : /\ WF_vars(Step(t))
                       /\ WF_vars(Unset(t))
                       /\ WF_vars(CallUnsetRead(t))

FairSpec == Spec /\ Fairness

-------------------------------------------------------------------------------
\* Type invariant: _state is never below _writelocked and never above the
\* number of holders, so its 32 bits cannot overflow.
TypeOK ==
    /\ state \in _writelocked .. Cardinality(Threads)
    /\ pc \in [Threads -> Locations]
    /\ expected \in [Threads -> _writelocked .. Cardinality(Threads)]
    /\ retry \in [Threads -> BOOLEAN]

\* A write lock excludes every other holder; the asserts of unset(), trySet(),
\* trySetRead() and unsetRead() (spinLock.cpp:52,60,78,97) rest on it.
MutualExclusion ==
    \A t \in Writers : Writers = {t} /\ Readers = {}

\* _state encodes the holders exactly: no acquisition or release of a CAS loop
\* is lost or counted twice, however the loads and the swaps interleave.
StateCountsHolders ==
    \/ state = _writelocked /\ Writers # {} /\ Readers = {}
    \/ state = Cardinality(Readers) /\ Writers = {}

\* SpinLock implements the abstract read-write lock: the CAS of trySet(),
\* trySetRead() and unsetRead() and the store of unset() are its only
\* visible steps.
Abstract == INSTANCE RWLock WITH writers <- Writers, readers <- Readers
ImplementsRWLock == Abstract!Spec

\* Somebody gets in: while a thread spins in set() or setRead() the lock does
\* not stay free forever (single threads may starve, spinLock.h:31-32).
SomebodyGetsIn ==
    (\E t \in Threads : retry[t] /\ pc[t] \in {"cas", "load", "casRead"})
        ~> (Writers \cup Readers # {})
===============================================================================
