------------------------------- MODULE Buffer -------------------------------
(***************************************************************************)
(* lunchbox::Buffer<T> (buffer.h, buffer.ipp): a memory block that is      *)
(* reallocated on demand, a size, and the capacity the buffer believes to  *)
(* have (_maxSize).  A block is a sequence of cells; Garbage is the value  *)
(* of a cell nobody wrote.  realloc() may fail, which the code does not    *)
(* test: the buffer is then left without a block.                          *)
(*                                                                         *)
(* want[b] is the sequence a user of the buffer counts on, as the comments *)
(* of buffer.h describe each operation: "Existing data is retained" or     *)
(* "may be deleted"; Garbage in it stands for an element with no promised  *)
(* value.  broken holds the buffers with a failed allocation.              *)
(*                                                                         *)
(* The assertions of append() and replace(), that there is data to copy,   *)
(* are preconditions.  So the copy assignment from an empty buffer is not  *)
(* among the steps: a debug build aborts in it, where the copy constructor *)
(* tests for an empty buffer first.                                        *)
(***************************************************************************)
EXTENDS Naturals, Sequences, FiniteSets

CONSTANTS
    Buffers,        \* the buffer objects
    BufferElements, \* the values stored in them
    ZeroElement,    \* the element made of zero bytes
    Garbage,        \* the content of uninitialised memory
    MaxSize,        \* bound: the largest size asked for
    Growth,         \* the code's 8: a resize allocates 1/Growth more than asked
    MaxFailures     \* bound: the number of allocations that fail

ASSUME BufferAssumption == MaxSize \in Nat /\ Growth \in Nat \ {0}

VARIABLES
    buf,      \* the three members of each buffer: _data, _size and _maxSize
    want,     \* history: the sequence each buffer has to hold
    broken,   \* history: the buffers whose last allocation failed
    failures  \* history: how many allocations failed

bufferVars == <<buf, want, broken, failures>>
-----------------------------------------------------------------------------
NewBuffer == [data |-> <<>>, size |-> 0, max |-> 0]

BufferInit ==
    /\ buf = [b \in Buffers |-> NewBuffer]
    /\ want = [b \in Buffers |-> <<>>]
    /\ broken = {}
    /\ failures = 0

\* The first n elements of s, as many as there are, and then Garbage.
Resized(s, n) == [i \in 1..n |-> IF i <= Len(s) THEN s[i] ELSE Garbage]

\* realloc(): the block keeps its cells up to the new size.
Reallocated(r, cells) == [data |-> Resized(r.data, cells), size |-> r.size, max |-> cells]

MutantResizedBuffer(r, newSize) ==
    IF newSize > r.max
    THEN [Reallocated([r EXCEPT !.data = <<>>], newSize + newSize \div Growth) EXCEPT !.size = newSize]
    ELSE [r EXCEPT !.size = newSize]

\* resize(): the size is set before the block is made large enough for it.
ResizedBuffer(r, newSize) ==
    LET s == [r EXCEPT !.size = newSize]
    IN  IF newSize > r.max THEN Reallocated(s, newSize + newSize \div Growth) ELSE s

\* reserve(): the capacity grows to exactly what is asked for.
ReservedBuffer(r, newSize) == IF newSize > r.max THEN Reallocated(r, newSize) ELSE r

\* memcpy() of the elements to the cells after the first `at` ones.
Copied(r, at, elements) ==
    [r EXCEPT !.data = [i \in DOMAIN r.data |-> IF i > at /\ i <= at + Len(elements)
                                                THEN elements[i - at] ELSE r.data[i]]]

\* append() and replace() of foreign data.
AppendedBuffer(r, elements) ==
    Copied(ResizedBuffer(r, r.size + Len(elements)), r.size, elements)

ReplacedBuffer(r, elements) ==
    [Copied(ReservedBuffer(r, Len(elements)), 0, elements) EXCEPT !.size = Len(elements)]

Content(r) == SubSeq(r.data, 1, r.size)
-----------------------------------------------------------------------------
\* A call that may allocate leaves new; it allocates when the capacity grows,
\* and when that fails there is no block.
Allocating(b, new, wanted) ==
    \/ /\ buf' = [buf EXCEPT ![b] = new]
       /\ want' = [want EXCEPT ![b] = wanted]
       /\ UNCHANGED <<broken, failures>>
    \/ /\ new.max > buf[b].max /\ failures < MaxFailures
       /\ buf' = [buf EXCEPT ![b] = [new EXCEPT !.data = <<>>]]
       /\ want' = [want EXCEPT ![b] = wanted]
       /\ broken' = broken \union {b}
       /\ failures' = failures + 1

ResizeTo(b, n) == Allocating(b, ResizedBuffer(buf[b], n), Resized(want[b], n))

\* grow(): only ever enlarges.
Grow(b, n) == n > buf[b].size /\ ResizeTo(b, n)

Reserve(b, n) == Allocating(b, ReservedBuffer(buf[b], n), want[b])

\* reset(): reserve() and setSize().
ResetTo(b, n) ==
    Allocating(b, [ReservedBuffer(buf[b], n) EXCEPT !.size = n], Resized(<<>>, n))

AppendTo(b, s) == Allocating(b, AppendedBuffer(buf[b], s), want[b] \o s)

\* append(b[i]): the reference points into the block.  A reallocation may move
\* the block and leave the reference dangling; then the copy may be of anything,
\* and no value is promised for it.
AppendOwn(b, i) ==
    IF buf[b].size < buf[b].max
    THEN AppendTo(b, <<buf[b].data[i]>>)
    ELSE \E read \in {buf[b].data[i], Garbage} :
            Allocating(b, AppendedBuffer(buf[b], <<read>>), Append(want[b], Garbage))

Replace(b, s) == Allocating(b, ReplacedBuffer(buf[b], s), s)

\* Copy assignment: to itself it does nothing, otherwise it is replace(), which
\* asserts that the other buffer is not empty.
AssignBuffer(b, c) ==
    IF b = c THEN UNCHANGED bufferVars
    ELSE /\ buf[c].size > 0
         /\ Allocating(b, ReplacedBuffer(buf[b], Content(buf[c])), want[c])

\* The copy constructor assigns to the new buffer unless there is nothing to copy.
CopyConstruct(b, c) ==
    /\ buf[b] = NewBuffer
    /\ IF buf[c].size = 0 THEN UNCHANGED bufferVars ELSE AssignBuffer(b, c)

\* swap() exchanges the three members.
Other(b, c, x) == IF x = b THEN c ELSE IF x = c THEN b ELSE x

Swap(b, c) ==
    /\ buf' = [x \in Buffers |-> buf[Other(b, c, x)]]
    /\ want' = [x \in Buffers |-> want[Other(b, c, x)]]
    /\ broken' = {x \in Buffers : Other(b, c, x) \in broken}
    /\ UNCHANGED failures

\* The move assignment exchanges them too, unless it is to itself; the move
\* constructor leaves an empty buffer behind, as if it exchanged with a new one.
MoveAssign(b, c) == IF b = c THEN UNCHANGED bufferVars ELSE Swap(b, c)

MoveConstruct(b, c) == buf[b] = NewBuffer /\ Swap(b, c)

\* setSize(): refused when the capacity is smaller.
SetSize(b, n) ==
    /\ n <= buf[b].max
    /\ buf' = [buf EXCEPT ![b] = [@ EXCEPT !.size = n]]
    /\ want' = [want EXCEPT ![b] = Resized(want[b], n)]
    /\ UNCHANGED <<broken, failures>>

\* pack(): the block shrinks to the size; realloc() to nothing frees it.
Pack(b) ==
    /\ buf[b].max # buf[b].size
    /\ buf' = [buf EXCEPT ![b] = Reallocated(@, @.size)]
    /\ UNCHANGED <<want, broken, failures>>

\* clear(), and the destructor: the block is freed.
ClearBuffer(b) ==
    /\ buf' = [buf EXCEPT ![b] = NewBuffer]
    /\ want' = [want EXCEPT ![b] = <<>>]
    /\ broken' = broken \ {b}
    /\ UNCHANGED failures

\* setZero(), and a write of one element through operator[] or the iterators.
SetZero(b) ==
    /\ buf' = [buf EXCEPT ![b] = Copied(@, 0, [i \in 1..@.size |-> ZeroElement])]
    /\ want' = [want EXCEPT ![b] = [i \in DOMAIN @ |-> ZeroElement]]
    /\ UNCHANGED <<broken, failures>>

SetElement(b, i, e) ==
    /\ buf' = [buf EXCEPT ![b] = Copied(@, i - 1, <<e>>)]
    /\ want' = [want EXCEPT ![b] = [@ EXCEPT ![i] = e]]
    /\ UNCHANGED <<broken, failures>>

\* A buffer without its block is not read or written any more: that would be a
\* null pointer access.  What is left is clear(), swap() and the destructor.
BufferNext ==
    \E b \in Buffers :
        \/ ClearBuffer(b)
        \/ \E c \in Buffers : MoveAssign(b, c)
        \/ \E c \in Buffers \ {b} : Swap(b, c) \/ MoveConstruct(b, c)
        \/ b \notin broken /\
            \/ \E n \in 0..MaxSize :
                ResizeTo(b, n) \/ Grow(b, n) \/ Reserve(b, n) \/ ResetTo(b, n) \/ SetSize(b, n)
            \/ \E e \in BufferElements, k \in 1..2 :
                LET s == [i \in 1..k |-> e]
                IN  (buf[b].size + k <= MaxSize /\ AppendTo(b, s)) \/ Replace(b, s)
            \/ \E i \in 1..buf[b].size :
                \/ buf[b].size < MaxSize /\ AppendOwn(b, i)
                \/ \E e \in BufferElements : SetElement(b, i, e)
            \/ \E c \in Buffers \ broken : AssignBuffer(b, c)
            \/ \E c \in Buffers \ (broken \union {b}) : CopyConstruct(b, c)
            \/ Pack(b)
            \/ SetZero(b)

BufferSpec == BufferInit /\ [][BufferNext]_bufferVars
-----------------------------------------------------------------------------
(* The members agree with each other and the content is the promised one:  *)
(* through any sequence of calls that pass the assertions, on buffers that *)
(* copy from and swap with each other, a buffer whose allocations all      *)
(* succeeded owns as many cells as _maxSize says, has a size within them,  *)
(* and holds in every element with a promised value just that value.  An   *)
(* own element that append() copied while it reallocated has none.         *)
BufferIsSequence ==
    \A b \in Buffers \ broken :
        /\ Len(buf[b].data) = buf[b].max
        /\ buf[b].size <= buf[b].max
        /\ buf[b].size = Len(want[b])
        /\ \A i \in DOMAIN want[b] :
              want[b][i] # Garbage => buf[b].data[i] = want[b][i]
=============================================================================
