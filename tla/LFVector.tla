-------------------------------- MODULE LFVector ------------------------------
(***************************************************************************)
(* lunchbox::LFVector (lfVector.ipp): a vector whose elements never move   *)
(* while it grows.  Slot s holds 2^s elements, so element i is element     *)
(* i+1-2^s of the slot s of the highest bit of i+1.                        *)
(*                                                                         *)
(* Operations that change the size hold lock_, a SpinLock, which is        *)
(* abstracted to its owner here.  All others take no lock: a step below is *)
(* what such a reader can tell apart, that is, a change of size_ or of an  *)
(* element below it.  size_ and the slots are plain memory; stores become  *)
(* visible in program order, as on x86.                                    *)
(***************************************************************************)
EXTENDS Integers, Sequences, SequencesExt

CONSTANTS
    Threads,
    Vectors,
    NSlots,         \* NSlots[v]: the number of slots of v
    Items,          \* the elements
    Default,        \* T(): an element of a new slot, or one that was removed
    Null,           \* no slot, no owner
    Calls,          \* Calls[t]: the calls thread t makes
    Constructs,     \* the vectors constructed: <<vector, size, element>>
    Writes,         \* the elements assigned: <<vector, position, element>>
    ErasesAlone     \* nobody else removes elements during erase( iterator )

ASSUME ThreadsAssumption == Null \notin Threads
ASSUME NSlotsAssumption == NSlots \in [Vectors -> Nat \ {0}]

Grows == {"push", "batch", "expand"}
Removes == {"pop", "erasePos", "eraseItem", "resize", "clear", "assign"}

\* v.op( item ), with the size or position n; from is the other vector.
\* batch is n push_back( item, false ) after a getWriteLock().
CallRecords == [op : Grows \cup Removes \cup {"copy", "none"}, v : Vectors,
                from : Vectors, item : Items \cup {Default}, n : Nat]

ASSUME CallsAssumption ==
    /\ Calls \in [Threads -> SUBSET CallRecords]
    /\ \A t \in Threads : \A c \in Calls[t] : c.op = "assign" => NSlots[c.v] = NSlots[c.from]

VARIABLES
    slots,      \* slots[v][s]: v.slots_[s]
    size,       \* size[v]: v.size_
    alive,      \* the vectors that are constructed
    owner,      \* owner[v]: the thread that holds v.lock_
    pc, call,   \* where thread t is, and in which call
    pos,        \* pos[t]: the position erase() or the copy has reached
    before,     \* before[v]: the contents when lock_ was taken (history)
    written,    \* written[v]: the positions assigned to since then (history)
    ret         \* what the last call to return returned (history)

vars == <<slots, size, alive, owner, pc, call, pos, before, written, ret>>

-------------------------------------------------------------------------------
IndexOfLastBit(x) == CHOOSE s \in 0 .. x : 2 ^ s <= x /\ x < 2 ^ (s + 1)

Slot(i) == IndexOfLastBit(i + 1)
Index(i) == (i + 1) - 2 ^ Slot(i)
SlotsOf(v) == 0 .. NSlots[v] - 1
MaxSize(v) == 2 ^ NSlots[v] - 1

NewSlot(s) == [k \in 0 .. 2 ^ s - 1 |-> Default]
NoSlots(v) == [s \in SlotsOf(v) |-> Null]

\* (*this)[i], and the contents as a sequence.
At(v, i) == slots[v][Slot(i)][Index(i)]
Contents(v) == [k \in 1 .. size[v] |-> At(v, k - 1)]

\* The slots ss of some vector after (*this)[i] = x, in a new slot if need be.
Put(ss, i, x) ==
    IF ss[Slot(i)] = Null
    THEN [ss EXCEPT ![Slot(i)] = [NewSlot(Slot(i)) EXCEPT ![Index(i)] = x]]
    ELSE [ss EXCEPT ![Slot(i)][Index(i)] = x]

\* Deletes the slot that still holds an element.
MutantTrim(ss, n) ==
    [s \in DOMAIN ss |-> IF s = IndexOfLastBit(n + 1) THEN Null ELSE ss[s]]

\* trim_() at size n: delete the slot after the next one to be used.
Trim(ss, n) ==
    [s \in DOMAIN ss |-> IF s = IndexOfLastBit(n + 1) + 1 THEN Null ELSE ss[s]]

NoCall == [op |-> "none", v |-> CHOOSE v \in Vectors : TRUE,
           from |-> CHOOSE v \in Vectors : TRUE, item |-> Default, n |-> 0]

Init ==
    /\ slots = [v \in Vectors |-> NoSlots(v)]
    /\ size = [v \in Vectors |-> 0]
    /\ alive = {}
    /\ owner = [v \in Vectors |-> Null]
    /\ pc = [t \in Threads |-> "idle"]
    /\ call = [t \in Threads |-> NoCall]
    /\ pos = [t \in Threads |-> 0]
    /\ before = [v \in Vectors |-> <<>>]
    /\ written = [v \in Vectors |-> {}]
    /\ ret = <<"ok">>

-------------------------------------------------------------------------------
Busy(v) == \E t \in Threads : pc[t] # "idle" /\ v \in {call[t].v, call[t].from}

\* What the callers see to: the vectors exist, and are not in construction.
Contract(t, c) ==
    /\ IF c.op = "copy" THEN c.v \notin alive /\ ~Busy(c.v) ELSE c.v \in alive
    /\ c.from \in alive
    /\ ErasesAlone =>
        \A u \in Threads : pc[u] # "idle" /\ call[u].v = c.v =>
            ~(/\ {c.op, call[u].op} \subseteq Removes
              /\ "erasePos" \in {c.op, call[u].op})

\* erase( iterator ) looks at the size before it takes the lock; a copy
\* constructor locks the source only; a self-assignment returns.
Begin(t, c) ==
    /\ pc[t] = "idle"
    /\ Contract(t, c)
    /\ call' = [call EXCEPT ![t] = c]
    /\ pc' = [pc EXCEPT ![t] = CASE c.op = "erasePos" -> "check"
                                 [] c.op = "copy"     -> "lock2"
                                 [] c.op = "assign" /\ c.v = c.from -> "self"
                                 [] OTHER             -> "lock"]
    /\ ret' = <<"ok">>
    /\ UNCHANGED <<slots, size, alive, owner, pos, before, written>>

\* LFVector() for n = 0, else LFVector( n, item ).
Construct(v, n, item) ==
    /\ v \notin alive /\ ~Busy(v)
    /\ slots' = [slots EXCEPT ![v] = [s \in SlotsOf(v) |->
                    IF n = 0 \/ s > IndexOfLastBit(n) THEN Null
                    ELSE [k \in 0 .. 2 ^ s - 1 |-> IF 2 ^ s + k <= n THEN item ELSE Default]]]
    /\ size' = [size EXCEPT ![v] = n]
    /\ alive' = alive \cup {v}
    /\ UNCHANGED <<owner, pc, call, pos, before, written, ret>>

\* ~LFVector()
Destroy(v) ==
    /\ v \in alive /\ ~Busy(v)
    /\ slots' = [slots EXCEPT ![v] = NoSlots(v)]
    /\ size' = [size EXCEPT ![v] = 0]
    /\ alive' = alive \ {v}
    /\ UNCHANGED <<owner, pc, call, pos, before, written, ret>>

\* (*this)[i] = x of some other thread, without a lock, while nobody copies or
\* removes elements.
Write(v, i, x) ==
    /\ v \in alive /\ i < size[v]
    /\ \A t \in Threads :
        v \in {call[t].v, call[t].from} => pc[t] = "idle" \/ call[t].op \in Grows
    /\ slots' = [slots EXCEPT ![v] = Put(@, i, x)]
    /\ written' = [written EXCEPT ![v] = IF owner[v] = Null THEN {} ELSE @ \cup {i}]
    /\ UNCHANGED <<size, alive, owner, pc, call, pos, before, ret>>

-------------------------------------------------------------------------------
\* t returns x, and releases the locks it holds.
Finish(t, x) ==
    /\ pc' = [pc EXCEPT ![t] = "idle"]
    /\ call' = [call EXCEPT ![t] = NoCall]
    /\ ret' = x
    /\ owner' = [v \in Vectors |-> IF owner[v] = t THEN Null ELSE owner[v]]
    /\ before' = [v \in Vectors |-> IF owner[v] = t THEN <<>> ELSE before[v]]
    /\ written' = [v \in Vectors |-> IF owner[v] = t THEN {} ELSE written[v]]

SelfAssign(t) ==
    /\ pc[t] = "self"
    /\ Finish(t, <<"ok">>)
    /\ UNCHANGED <<slots, size, alive, pos>>

Check(t) ==
    /\ pc[t] = "check"
    /\ IF call[t].n >= size[call[t].v]
       THEN Finish(t, <<"at", size[call[t].v]>>)
       ELSE pc' = [pc EXCEPT ![t] = "lock"] /\ UNCHANGED <<owner, call, before, written, ret>>
    /\ UNCHANGED <<slots, size, alive, pos>>

Lock(t) ==
    LET v == call[t].v IN
    /\ pc[t] = "lock"
    /\ owner[v] = Null
    /\ owner' = [owner EXCEPT ![v] = t]
    /\ before' = [before EXCEPT ![v] = Contents(v)]
    /\ written' = [written EXCEPT ![v] = {}]
    /\ pc' = [pc EXCEPT ![t] = CASE call[t].op \in Grows                -> "grow"
                                 [] call[t].op \in {"resize", "clear"}  -> "shrink"
                                 [] call[t].op = "assign"               -> "lock2"
                                 [] OTHER                               -> "remove"]
    /\ UNCHANGED <<slots, size, alive, call, pos, ret>>

\* The size that push_back() and the loops of expand() and resize() grow to.
Goal(t) ==
    CASE call[t].op = "push"  -> Len(before[call[t].v]) + 1
      [] call[t].op = "batch" -> Len(before[call[t].v]) + call[t].n
      [] OTHER                -> call[t].n

\* push_back_unlocked_() up to the increment of size_.
Push(t) ==
    LET v == call[t].v IN
    /\ pc[t] = "grow"
    /\ size[v] < Goal(t)
    /\ Slot(size[v]) \in SlotsOf(v)
    /\ slots' = [slots EXCEPT ![v] = Put(slots[v], size[v], call[t].item)]
    /\ pc' = [pc EXCEPT ![t] = "pushed"]
    /\ UNCHANGED <<size, alive, owner, call, pos, before, written, ret>>

\* Forgets the element again.
MutantPushSize(t) ==
    /\ pc[t] = "pushed"
    /\ pc' = [pc EXCEPT ![t] = "grow"]
    /\ UNCHANGED <<slots, size, alive, owner, call, pos, before, written, ret>>

PushSize(t) ==
    /\ pc[t] = "pushed"
    /\ size' = [size EXCEPT ![call[t].v] = @ + 1]
    /\ pc' = [pc EXCEPT ![t] = "grow"]
    /\ UNCHANGED <<slots, alive, owner, call, pos, before, written, ret>>

\* "LFVector full"
Throw(t) ==
    /\ pc[t] = "grow"
    /\ size[call[t].v] < Goal(t)
    /\ Slot(size[call[t].v]) \notin SlotsOf(call[t].v)
    /\ Finish(t, <<"full">>)
    /\ UNCHANGED <<slots, size, alive, pos>>

Grown(t) ==
    /\ pc[t] = "grow"
    /\ size[call[t].v] >= Goal(t)
    /\ Finish(t, <<"ok">>)
    /\ UNCHANGED <<slots, size, alive, pos>>

-------------------------------------------------------------------------------
\* pop_back( element )
Pop(t) ==
    LET v == call[t].v
        n == size[v] - 1
    IN  /\ pc[t] = "remove" /\ call[t].op = "pop"
        /\ IF size[v] = 0
           THEN Finish(t, <<"empty">>) /\ UNCHANGED <<slots, size>>
           ELSE /\ Finish(t, <<"item", At(v, n)>>)
                /\ size' = [size EXCEPT ![v] = n]
                /\ slots' = [slots EXCEPT ![v] = Trim(Put(@, n, Default), n)]
        /\ UNCHANGED <<alive, pos>>

\* The positions that hold the element of erase( element ).
Found(t) == {i \in 0 .. size[call[t].v] - 1 : At(call[t].v, i) = call[t].item}

\* erase( element ) that finds nothing.
EraseNothing(t) ==
    /\ pc[t] = "remove" /\ call[t].op = "eraseItem"
    /\ Found(t) = {}
    /\ Finish(t, <<"at", size[call[t].v]>>)
    /\ UNCHANGED <<slots, size, alive, pos>>

\* Removes the first occurrence.
MutantErasePos(t) ==
    IF call[t].op = "erasePos" THEN call[t].n
    ELSE CHOOSE i \in Found(t) : \A j \in Found(t) : i <= j

\* The position to remove: the last occurrence for erase( element ).
ErasePos(t) ==
    IF call[t].op = "erasePos" THEN call[t].n
    ELSE CHOOSE i \in Found(t) : \A j \in Found(t) : i >= j

\* Both erase(): "The vector's size is decremented first" (lfVector.h:175).
\* Without ErasesAlone there may be nothing left to decrement; size_ then wraps
\* around and the vector is undefined, which the model does not follow.
EraseSize(t) ==
    LET v == call[t].v IN
    /\ pc[t] = "remove"
    /\ call[t].op \in {"erasePos", "eraseItem"}
    /\ call[t].op = "eraseItem" => Found(t) # {}
    /\ size[v] > 0
    /\ pos' = [pos EXCEPT ![t] = ErasePos(t)]
    /\ call' = [call EXCEPT ![t].n = ErasePos(t)]
    /\ size' = [size EXCEPT ![v] = @ - 1]
    /\ pc' = [pc EXCEPT ![t] = "move"]
    /\ UNCHANGED <<slots, alive, owner, before, written, ret>>

\* One assignment of std::copy( pos + 1, end() + 1, pos ).
Move(t) ==
    LET v == call[t].v IN
    /\ pc[t] = "move"
    /\ pos[t] < size[v]
    /\ slots' = [slots EXCEPT ![v] = Put(@, pos[t], At(v, pos[t] + 1))]
    /\ pos' = [pos EXCEPT ![t] = @ + 1]
    /\ UNCHANGED <<size, alive, owner, pc, call, before, written, ret>>

Erased(t) ==
    LET v == call[t].v IN
    /\ pc[t] = "move"
    /\ pos[t] >= size[v]
    /\ slots' = [slots EXCEPT ![v] = Trim(Put(@, size[v], Default), size[v])]
    /\ pos' = [pos EXCEPT ![t] = 0]
    /\ Finish(t, <<"at", call[t].n>>)
    /\ UNCHANGED <<size, alive>>

\* One round of the loops of resize() and clear().
Shrink(t) ==
    LET v == call[t].v
        n == size[v] - 1
    IN  /\ pc[t] = "shrink"
        /\ size[v] > (IF call[t].op = "resize" THEN call[t].n ELSE 0)
        /\ size' = [size EXCEPT ![v] = n]
        /\ slots' = [slots EXCEPT ![v] = Put(@, n, Default)]
        /\ UNCHANGED <<alive, owner, pc, call, pos, before, written, ret>>

ResizeTrim(t) ==
    LET v == call[t].v IN
    /\ pc[t] = "shrink" /\ call[t].op = "resize"
    /\ size[v] <= call[t].n
    /\ slots' = [slots EXCEPT ![v] = Trim(@, size[v])]
    /\ pc' = [pc EXCEPT ![t] = "grow"]
    /\ UNCHANGED <<size, alive, owner, call, pos, before, written, ret>>

Cleared(t) ==
    LET v == call[t].v IN
    /\ pc[t] = "shrink" /\ call[t].op = "clear"
    /\ size[v] = 0
    /\ slots' = [slots EXCEPT ![v] = NoSlots(v)]
    /\ Finish(t, <<"ok">>)
    /\ UNCHANGED <<size, alive, pos>>

-------------------------------------------------------------------------------
\* operator= takes the second lock and empties this vector; a copy constructor
\* takes the lock of its source.
Lock2(t) ==
    LET v == call[t].v IN
    /\ pc[t] = "lock2"
    /\ owner[call[t].from] = Null
    /\ owner' = [owner EXCEPT ![call[t].from] = t]
    /\ size' = [size EXCEPT ![v] = 0]
    /\ pc' = [pc EXCEPT ![t] = "copy"]
    /\ UNCHANGED <<slots, alive, call, pos, before, written, ret>>

\* The elements that fit into this vector.
ToCopy(t) ==
    IF size[call[t].from] <= MaxSize(call[t].v) THEN size[call[t].from] ELSE MaxSize(call[t].v)

CopyItem(t) ==
    LET v == call[t].v IN
    /\ pc[t] = "copy"
    /\ size[v] < ToCopy(t)
    /\ slots' = [slots EXCEPT ![v] = Put(@, size[v], At(call[t].from, size[v]))]
    /\ size' = [size EXCEPT ![v] = @ + 1]
    /\ UNCHANGED <<alive, owner, pc, call, pos, before, written, ret>>

\* The slots of this vector become those of the source: operator= frees and
\* allocates one by one, the constructor stops at the first that is missing.
Copied(t) ==
    LET v == call[t].v
        Has(s) == s \in SlotsOf(call[t].from) /\ slots[call[t].from][s] # Null
        Wanted(s) == IF call[t].op = "copy" THEN \A r \in 0 .. s : Has(r) ELSE Has(s)
    IN  /\ pc[t] = "copy"
        /\ size[v] = ToCopy(t)
        /\ slots' = [slots EXCEPT ![v] = [s \in SlotsOf(v) |->
                        CASE ~Wanted(s) -> Null
                          [] Wanted(s) /\ slots[v][s] = Null -> NewSlot(s)
                          [] OTHER -> slots[v][s]]]
        /\ alive' = alive \cup {v}
        /\ Finish(t, <<"ok">>)
        /\ UNCHANGED <<size, pos>>

-------------------------------------------------------------------------------
Step(t) ==
    \/ SelfAssign(t) \/ Check(t) \/ Lock(t)
    \/ Push(t) \/ PushSize(t) \/ Throw(t) \/ Grown(t)
    \/ Pop(t) \/ EraseNothing(t) \/ EraseSize(t) \/ Move(t) \/ Erased(t)
    \/ Shrink(t) \/ ResizeTrim(t) \/ Cleared(t)
    \/ Lock2(t) \/ CopyItem(t) \/ Copied(t)

Next ==
    \/ \E t \in Threads : (\E c \in Calls[t] : Begin(t, c)) \/ Step(t)
    \/ \E k \in Constructs : Construct(k[1], k[2], k[3])
    \/ \E v \in Vectors : Destroy(v)
    \/ \E w \in Writes : Write(w[1], w[2], w[3])

Spec == Init /\ [][Next]_vars

\* A thread that is not blocked is scheduled.
FairSpec == Spec /\ \A t \in Threads : WF_vars(Step(t))

-------------------------------------------------------------------------------
\* Type invariant; in particular no push exceeds the slots.
TypeOK ==
    /\ \A v \in Vectors :
        /\ size[v] \in 0 .. MaxSize(v)
        /\ DOMAIN slots[v] = SlotsOf(v)
        /\ \A s \in SlotsOf(v) : slots[v][s] = Null \/ DOMAIN slots[v][s] = 0 .. 2 ^ s - 1
    /\ alive \subseteq Vectors
    /\ owner \in [Vectors -> Threads \cup {Null}]
    /\ pc \in [Threads -> {"idle", "self", "check", "lock", "grow", "pushed", "remove", "move",
                           "shrink", "lock2", "copy"}]
    /\ call \in [Threads -> CallRecords]
    /\ pos \in [Threads -> Nat]

\* "The size is updated after the element is inserted, so size() followed by a
\* read is thread-safe" (lfVector.h:135): at any moment, every element below the
\* size is in a slot that exists and was assigned to.
ReadsAreSafe ==
    /\ TypeOK
    /\ \A v \in alive : \A i \in 0 .. size[v] - 1 :
        slots[v][Slot(i)] # Null /\ At(v, i) # Default

\* push_back() and expand() are "Completely thread-save with read operations"
\* (lfVector.h:134): they leave the elements that exist where and as they are.
GrowthMovesNothing ==
    [][\A t \in Threads, v \in Vectors :
        v = call[t].v /\ pc[t] \in {"grow", "pushed"} /\ pc'[t] # pc[t] =>
            \A i \in 0 .. size[v] - 1 : At(v, i)' = At(v, i)]_vars

\* The elements that an operation removes are reset: "Needed to reset RefPtr"
\* (lfVector.ipp:226), as no reference may stay behind the end.
RemovedAreReset ==
    [][\A t \in Threads, v \in Vectors :
        /\ v = call[t].v
        /\ pc[t] \in {"remove", "move", "shrink"} /\ pc'[t] \in {"idle", "grow"}
        => \A i \in size'[v] .. Len(before[v]) - 1 :
            slots'[v][Slot(i)] = Null \/ At(v, i)' = Default]_vars

\* s after growing to n elements, as far as the slots of v allow.
Extended(v, s, n, x) ==
    LET m == IF n <= MaxSize(v) THEN n ELSE MaxSize(v)
    IN  IF m <= Len(s) THEN s ELSE s \o [k \in 1 .. m - Len(s) |-> x]

\* The reference: what call c makes of the sequence s and of the other sequence
\* f, and what it returns.
Result(c, s, f) ==
    LET n == CASE c.op = "push" -> Len(s) + 1 [] c.op = "batch" -> Len(s) + c.n [] OTHER -> c.n
        status == IF n <= MaxSize(c.v) THEN <<"ok">> ELSE <<"full">>
        last == SelectLastInSeq(s, LAMBDA x : x = c.item)
    IN  CASE c.op \in Grows -> <<Extended(c.v, s, n, c.item), status>>
          [] c.op = "resize" -> IF c.n <= Len(s) THEN <<SubSeq(s, 1, c.n), <<"ok">> >>
                                ELSE <<Extended(c.v, s, c.n, c.item), status>>
          [] c.op = "pop" -> IF s = <<>> THEN <<s, <<"empty">> >> ELSE <<Front(s), <<"item", Last(s)>> >>
          [] c.op = "erasePos" -> IF c.n < Len(s) THEN <<RemoveAt(s, c.n + 1), <<"at", c.n>> >>
                                  ELSE <<s, <<"at", Len(s)>> >>
          [] c.op = "eraseItem" -> IF last = 0 THEN <<s, <<"at", Len(s)>> >> ELSE <<RemoveAt(s, last), <<"at", last - 1>> >>
          [] c.op = "clear" -> << <<>>, <<"ok">> >>
          [] c.op \in {"assign", "copy"} -> <<SubSeq(f, 1, Len(Extended(c.v, <<>>, Len(f), Default))), <<"ok">> >>

\* "The whole operation is atomic with other operations changing the size of
\* the vector" (lfVector.h:162): whatever the other threads do, an operation
\* makes of the contents at the time it got the lock what the same operation
\* of a sequence does, and returns the same.  Elements that other threads have
\* assigned to meanwhile keep what was assigned.  On the way it does not disturb
\* what may be read meanwhile, and it resets what it removes.
OperationsAreAtomic ==
    /\ GrowthMovesNothing
    /\ RemovedAreReset
    /\ [][\A t \in Threads, v \in Vectors :
           v = call[t].v /\ pc[t] \notin {"idle", "self", "check", "lock"} /\ pc'[t] = "idle" =>
               LET r == Result(call[t], before[v], Contents(call[t].from))
               IN  /\ size'[v] = Len(r[1])
                   /\ \A i \in 0 .. size'[v] - 1 : At(v, i)' = r[1][i + 1] \/ i \in written[v]
                   /\ ret' = r[2]]_vars

\* Every operation that has its locks ends and gives them back.
LockIsReleased ==
    \A t \in Threads : pc[t] \notin {"idle", "self", "check", "lock", "lock2"} ~> pc[t] = "idle"
===============================================================================
