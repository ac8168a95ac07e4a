--------------------------- MODULE AtomicVariable ----------------------------
(***************************************************************************)
(* What lunchbox::Atomic (atomic.h) promises, which is also what it is     *)
(* where the compiler has atomic instructions for everything (GCC): every  *)
(* arithmetic operation and every compareAndSwap() takes effect at one     *)
(* instant between its call and its return.  The operations that name two  *)
(* variables, which the header calls not thread-safe, are two accesses.    *)
(* Boolean results are 1 and 0.  The barriers make the accesses of a       *)
(* thread happen in program order, which the interleaving semantics gives. *)
(***************************************************************************)
EXTENDS Integers

CONSTANTS
    Variables,      \* the Atomic objects
    AtomicThreads,  \* the threads that use them
    Width,          \* the bits of T
    Amounts,        \* the arguments of the calls, values of T
    Swaps           \* the arguments of compareAndSwap(): <<expected, new>>

VARIABLES
    number,         \* _value of every object
    pending,        \* the call a thread is in
    reg,            \* the value of the first access of a two-variable operation
    result          \* what the thread's last call returned

atomicVars == <<number, pending, reg, result>>

\* Addition of T: the instructions wrap.
Wrap(n) == ((n + 2^(Width - 1)) % 2^Width) - 2^(Width - 1)

NoCall == [f |-> "none"]
-----------------------------------------------------------------------------
\* The static functions: the new value of the variable and the value returned.
getAndAdd(old, i) == [new |-> Wrap(old + i), ret |-> old]

getAndSub(old, i) == [new |-> Wrap(old - i), ret |-> old]

addAndGet(old, i) == [new |-> Wrap(old + i), ret |-> Wrap(old + i)]

subAndGet(old, i) == [new |-> Wrap(old - i), ret |-> Wrap(old - i)]

compareAndSwap(old, expected, new) ==
    IF old = expected THEN [new |-> new, ret |-> 1] ELSE [new |-> old, ret |-> 0]

\* incAndGet() and decAndGet() add and subtract 1.
incAndGet(x) == [f |-> "addAndGet", v |-> x, i |-> 1]

decAndGet(x) == [f |-> "subAndGet", v |-> x, i |-> 1]
-----------------------------------------------------------------------------
\* The members, as calls of the static functions: operator+=, operator-=, ++v,
\* --v, v++ and v--.
AddAssign(x, i) == [f |-> "addAndGet", v |-> x, i |-> i]

SubAssign(x, i) == [f |-> "subAndGet", v |-> x, i |-> i]

PreIncrement(x) == incAndGet(x)

PreDecrement(x) == decAndGet(x)

PostIncrement(x) == [f |-> "getAndAdd", v |-> x, i |-> 1]

PostDecrement(x) == [f |-> "getAndSub", v |-> x, i |-> 1]

\* compareAndSwap(), the conversion to T and the assignment of a T: one access.
SwapMember(x, expected, new) == [f |-> "compareAndSwap", v |-> x, i |-> expected, n |-> new]

Load(x) == [f |-> "load", v |-> x]

Store(x, i) == [f |-> "store", v |-> x, i |-> i]

\* Two variables: the assignment and the copy of an Atomic, == and !=.
Assign(x, y) == [f |-> "assign", v |-> x, w |-> y]

Equal(x, y) == [f |-> "equal", v |-> x, w |-> y]

NotEqual(x, y) == [f |-> "not equal", v |-> x, w |-> y]

ArithmeticCalls == UNION {{AddAssign(x, i), SubAssign(x, i), PreIncrement(x), PreDecrement(x),
                           PostIncrement(x), PostDecrement(x)} : x \in Variables, i \in Amounts}

OtherCalls ==
    UNION {{SwapMember(x, s[1], s[2]), Load(x), Store(x, i)} :
               x \in Variables, i \in Amounts, s \in Swaps}

PairCalls == UNION {UNION {{Assign(x, y), Equal(x, y), NotEqual(x, y)} :
                               y \in Variables \ {x}} : x \in Variables}

\* The functions with a computation between a read and a write, and those that
\* access two variables.
Arithmetic == {"getAndAdd", "getAndSub", "addAndGet", "subAndGet"}

TwoAccesses == {"assign", "equal", "not equal"}
-----------------------------------------------------------------------------
AtomicInit ==
    /\ number = [x \in Variables |-> 0]
    /\ pending = [t \in AtomicThreads |-> NoCall]
    /\ reg = [t \in AtomicThreads |-> <<>>]
    /\ result = [t \in AtomicThreads |-> <<>>]

Call(t, c) ==
    /\ pending[t] = NoCall
    /\ pending' = [pending EXCEPT ![t] = c]
    /\ result' = [result EXCEPT ![t] = <<>>]
    /\ UNCHANGED <<number, reg>>

\* What a call does when the variable holds old.
Effect(c, old) ==
    CASE c.f = "getAndAdd" -> getAndAdd(old, c.i)
      [] c.f = "getAndSub" -> getAndSub(old, c.i)
      [] c.f = "addAndGet" -> addAndGet(old, c.i)
      [] c.f = "subAndGet" -> subAndGet(old, c.i)
      [] c.f = "compareAndSwap" -> compareAndSwap(old, c.i, c.n)
      [] c.f = "load" -> [new |-> old, ret |-> old]
      [] c.f = "store" -> [new |-> c.i, ret |-> c.i]

\* The variable gets the new value and the call returns.
Take(t, c, e) ==
    /\ number' = [number EXCEPT ![c.v] = e.new]
    /\ result' = [result EXCEPT ![t] = <<e.ret>>]
    /\ pending' = [pending EXCEPT ![t] = NoCall]
    /\ UNCHANGED reg

\* An operation on one variable, at one instant.
Perform(t) ==
    LET c == pending[t]
    IN  c # NoCall /\ c.f \notin TwoAccesses /\ Take(t, c, Effect(c, number[c.v]))

\* Two variables: the order of the two reads of a comparison is unspecified.
ReadFirst(t, x) ==
    /\ pending[t].f \in TwoAccesses /\ reg[t] = <<>>
    /\ x = pending[t].w \/ (x = pending[t].v /\ pending[t].f # "assign")
    /\ reg' = [reg EXCEPT ![t] = <<number[x], x>>]
    /\ UNCHANGED <<number, pending, result>>

Compared(c, same) == IF (c.f = "equal") = same THEN 1 ELSE 0

Finish(t) ==
    /\ pending[t].f \in TwoAccesses /\ reg[t] # <<>>
    /\ LET c == pending[t]
           read == reg[t][1]
           other == IF reg[t][2] = c.w THEN c.v ELSE c.w
       IN  IF c.f = "assign"
           THEN /\ number' = [number EXCEPT ![c.v] = read]
                /\ result' = [result EXCEPT ![t] = <<read>>]
           ELSE /\ result' = [result EXCEPT ![t] = <<Compared(c, read = number[other])>>]
                /\ UNCHANGED number
    /\ pending' = [pending EXCEPT ![t] = NoCall]
    /\ reg' = [reg EXCEPT ![t] = <<>>]

\* What all compilers have in common: calls, and accesses to two variables.
Common(t) ==
    \/ \E c \in ArithmeticCalls \cup OtherCalls \cup PairCalls : Call(t, c)
    \/ \E x \in Variables : ReadFirst(t, x)
    \/ Finish(t)

AtomicNext == \E t \in AtomicThreads : Common(t) \/ Perform(t)

AtomicSpec == AtomicInit /\ [][AtomicNext]_atomicVars
=============================================================================
