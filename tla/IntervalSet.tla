------------------------------ MODULE IntervalSet -----------------------------
(***************************************************************************)
(* lunchbox::IntervalSet (intervalSet.ipp): a set of unsigned integers,    *)
(* kept as the ordered edges of its intervals and the number of elements.  *)
(*                                                                         *)
(* _intervals, a std::multiset of edges, is the sequence of its elements   *)
(* in their order.  Elements and size_t have the same width, and their     *)
(* arithmetic wraps around.  The class is not thread-safe: every operation *)
(* is one step.                                                            *)
(***************************************************************************)
EXTENDS Integers, Sequences, FiniteSets, SequencesExt

CONSTANTS
    Sets,       \* the interval sets
    Width,      \* the number of bits of an element
    Elements    \* Elements[s]: the elements that are inserted into and erased from s

VARIABLES
    intervals,  \* intervals[s]: s._intervals
    size,       \* size[s]: s._size
    content,    \* content[s]: the elements s should have (history)
    spoilt      \* sets that swap() or insert( set ) left wrong; they are only cleared (history)

vars == <<intervals, size, content, spoilt>>

Wrap(n) == n % 2 ^ Width
T == 0 .. 2 ^ Width - 1

\* An edge: the start or the end of an interval.
Edge(x, start) == [first |-> x, second |-> start]
Edges == [first : T, second : BOOLEAN]

\* EdgeCompare
Less(p, q) == p.first < q.first \/ (p.first = q.first /\ p.second /\ ~q.second)

\* The index of the first edge that is not less than q; Len(e) + 1 is end().
LowerBound(e, q) == SelectInSeq(Append(e, q), LAMBDA p : ~Less(p, q))

-------------------------------------------------------------------------------
\* The loops of insert() and erase(): the edges from position k on that are not
\* behind hi, and what they make of inside, overlappingStart and the
\* overlapping portion.
Passed(e, k, hi) == SelectSeq(SubSeq(e, k, Len(e)), LAMBDA p : p.first <= hi)

\* Overlapping elements are counted twice.
MutantScan(edges, inside, start) ==
    [inside |-> IF edges = <<>> THEN inside ELSE Last(edges).second,
     start |-> start, portion |-> 0]

Scan(edges, inside, start) ==
    FoldLeft(LAMBDA a, p : [inside  |-> p.second,
                            start   |-> IF a.inside THEN a.start ELSE p.first,
                            portion |-> IF a.inside THEN Wrap(a.portion + p.first - a.start + 1)
                                        ELSE a.portion],
             [inside |-> inside, start |-> start, portion |-> 0], edges)

\* Without the n edges from position k on.
Without(e, k, n) == SubSeq(e, 1, k - 1) \o SubSeq(e, k + n, Len(e))

\* The edge before lo, 0 if there is none.
PreviousToStart(e, lo) ==
    LET k == LowerBound(e, Edge(lo, TRUE))
    IN  CASE k > Len(e) -> Len(e)
          [] k = 1      -> IF Len(e) > 0 /\ lo < e[1].first THEN 0 ELSE 1
          [] OTHER      -> k - 1

\* The interval that ends at edge prev and the one that starts at lo are one.
Joins(e, prev, lo) == Wrap(e[prev].first + 1) = lo

\* Adding the start edge behind edge prev: the edges, the position reached, and
\* whether it is in an interval.
InsertStart(e, prev, lo) ==
    CASE prev = 0 -> [e |-> <<Edge(lo, TRUE)>> \o e, at |-> 1, inside |-> FALSE]
      [] prev > 0 /\ e[prev].second -> [e |-> e, at |-> prev, inside |-> TRUE]
      [] prev > 0 /\ ~e[prev].second /\ Joins(e, prev, lo) ->
            [e |-> RemoveAt(e, prev), at |-> prev - 1, inside |-> FALSE]
      [] OTHER -> [e |-> InsertAt(e, prev + 1, Edge(lo, TRUE)), at |-> prev + 1, inside |-> FALSE]

\* Adding the end edge at position k of the edges that are left, after a Scan a.
InsertEnd(rest, k, a, n, lo, hi) ==
    LET joins == k <= Len(rest) /\ rest[k] = Edge(Wrap(hi + 1), TRUE)
    IN  CASE joins -> [e |-> RemoveAt(rest, k), n |-> Wrap(n + hi - lo + 1 - a.portion)]
          [] ~joins /\ ~a.inside ->
                [e |-> InsertAt(rest, k, Edge(hi, FALSE)), n |-> Wrap(n + hi - lo + 1 - a.portion)]
          [] OTHER ->
                [e |-> rest, n |-> Wrap(n + hi - lo + 1 - a.portion - (hi - a.start + 1))]

\* Between the two, the edges up to hi are dropped.
InsertRest(s, passed, n, lo, hi) ==
    InsertEnd(Without(s.e, s.at + 1, Len(passed)), s.at + 1, Scan(passed, s.inside, lo), n, lo, hi)

\* insert( lo, hi ) into the edges e with n elements.
InsertInto(e, n, lo, hi) ==
    LET s == InsertStart(e, PreviousToStart(e, lo), lo)
    IN  IF e = <<>> THEN [e |-> <<Edge(lo, TRUE), Edge(hi, FALSE)>>, n |-> Wrap(hi - lo + 1)]
        ELSE InsertRest(s, Passed(s.e, s.at + 1, hi), n, lo, hi)

\* Erasing from position k on, with an end edge inserted before k if an interval
\* is cut.
EraseRest(e, k, cut, n, lo, hi) ==
    LET passed == Passed(e, k, hi)
        rest == Without(e, k, Len(passed))
        a == Scan(passed, cut, lo)
    IN  IF a.inside
        THEN [e |-> InsertAt(rest, k, Edge(Wrap(hi + 1), TRUE)),
              n |-> Wrap(n - a.portion - (hi - a.start + 1))]
        ELSE [e |-> rest, n |-> Wrap(n - a.portion)]

\* erase( lo, hi ) from the edges e with n elements.
EraseFrom(e, n, lo, hi) ==
    LET next == LowerBound(e, Edge(lo, TRUE))
        cut == next > 1 /\ e[next - 1].second
    IN  CASE e = <<>> \/ (next > 1 /\ next > Len(e)) -> [e |-> e, n |-> n]
          [] e # <<>> /\ (next = 1 \/ next <= Len(e)) /\ cut ->
                EraseRest(InsertAt(e, next, Edge(Wrap(lo - 1), FALSE)), next + 1, TRUE, n, lo, hi)
          [] OTHER -> EraseRest(e, next, FALSE, n, lo, hi)

\* find( x ) # end()
Exists(e, x) ==
    LET next == LowerBound(e, Edge(x, FALSE))
    IN  /\ next <= Len(e) /\ next > 1
        /\ e[next - 1].second

-------------------------------------------------------------------------------
\* The iterator: its start edge and its value; after the last interval it is end().
Begin(e) == IF e = <<>> THEN [edge |-> 1, value |-> 0] ELSE [edge |-> 1, value |-> e[1].first]
AtEnd(e, i) == i.edge > Len(e)

Increment(e, i) ==
    IF AtEnd(e, i) THEN i
    ELSE IF i.value >= e[i.edge].first /\ i.value < e[i.edge + 1].first
    THEN [i EXCEPT !.value = @ + 1]
    ELSE [edge |-> i.edge + 2,
          value |-> IF i.edge + 2 <= Len(e) THEN e[i.edge + 2].first ELSE i.value]

\* The iterator after n increments.
Iterator(e) ==
    LET it[n \in Nat] == IF n = 0 THEN Begin(e) ELSE Increment(e, it[n - 1])
    IN  it

-------------------------------------------------------------------------------
Init ==
    /\ intervals = [s \in Sets |-> <<>>]
    /\ size = [s \in Sets |-> 0]
    /\ content = [s \in Sets |-> {}]
    /\ spoilt = {}

Insert(s, lo, hi) ==
    LET r == InsertInto(intervals[s], size[s], lo, hi) IN
    /\ spoilt = {}
    /\ intervals' = [intervals EXCEPT ![s] = r.e]
    /\ size' = [size EXCEPT ![s] = r.n]
    /\ content' = [content EXCEPT ![s] = @ \cup lo .. hi]
    /\ UNCHANGED spoilt

Erase(s, lo, hi) ==
    LET r == EraseFrom(intervals[s], size[s], lo, hi) IN
    /\ spoilt = {}
    /\ intervals' = [intervals EXCEPT ![s] = r.e]
    /\ size' = [size EXCEPT ![s] = r.n]
    /\ content' = [content EXCEPT ![s] = @ \ (lo .. hi)]
    /\ UNCHANGED spoilt

\* insert( rhs ) passes the edges' values and types on as if they were intervals:
\* insert( first, 1 ) for a start and insert( first, 0 ) for an end.  An interval
\* whose start is behind its end fails the assertion of insert(), and the
\* result is not followed any further.
InsertSet(s, rhs) ==
    LET r == FoldLeft(LAMBDA a, p : InsertInto(a.e, a.n, p.first, IF p.second THEN 1 ELSE 0),
                      [e |-> intervals[s], n |-> size[s]], intervals[rhs])
    IN  /\ s # rhs /\ spoilt = {}
        /\ content' = [content EXCEPT ![s] = @ \cup content[rhs]]
        /\ IF \A k \in DOMAIN intervals[rhs] :
                intervals[rhs][k].first <= (IF intervals[rhs][k].second THEN 1 ELSE 0)
           THEN /\ intervals' = [intervals EXCEPT ![s] = r.e]
                /\ size' = [size EXCEPT ![s] = r.n]
           ELSE UNCHANGED <<intervals, size>>
        /\ spoilt' = IF intervals[rhs] = <<>> THEN spoilt ELSE spoilt \cup {s}

clear(s) ==
    /\ intervals' = [intervals EXCEPT ![s] = <<>>]
    /\ size' = [size EXCEPT ![s] = 0]
    /\ content' = [content EXCEPT ![s] = {}]
    /\ spoilt' = spoilt \ {s}

\* swap() exchanges the intervals and leaves the sizes.
swap(s, rhs) ==
    /\ s # rhs /\ spoilt = {}
    /\ intervals' = [intervals EXCEPT ![s] = intervals[rhs], ![rhs] = intervals[s]]
    /\ content' = [content EXCEPT ![s] = content[rhs], ![rhs] = content[s]]
    /\ spoilt' = IF size[s] = size[rhs] THEN spoilt ELSE spoilt \cup {s, rhs}
    /\ UNCHANGED size

Next ==
    \E s \in Sets :
        \/ \E lo, hi \in Elements[s] : lo <= hi /\ (Insert(s, lo, hi) \/ Erase(s, lo, hi))
        \/ clear(s)
        \/ \E rhs \in Sets : InsertSet(s, rhs) \/ swap(s, rhs)

Spec == Init /\ [][Next]_vars

-------------------------------------------------------------------------------
\* Type invariant.
TypeOK ==
    /\ intervals \in [Sets -> Seq(Edges)]
    /\ size \in [Sets -> T]
    /\ content \in [Sets -> SUBSET T]
    /\ spoilt \subseteq Sets

\* The edges are those of disjoint intervals that cannot be joined: starts and
\* ends alternate, and at least one element is missing between two intervals.
IntervalsAreMaximal ==
    /\ TypeOK
    /\ \A s \in Sets \ spoilt :
        LET e == intervals[s] IN
        /\ Len(e) % 2 = 0
        /\ \A k \in DOMAIN e : e[k].second <=> k % 2 = 1
        /\ \A k \in 1 .. Len(e) - 1 :
            IF e[k].second THEN e[k].first <= e[k + 1].first ELSE e[k].first + 1 < e[k + 1].first

\* exists() and find() answer for exactly the elements that were inserted and
\* not erased since.
ContentIsRight ==
    \A s \in Sets \ spoilt : content[s] = {x \in T : Exists(intervals[s], x)}

\* size() is the number of elements, however the inserted and erased intervals
\* overlap.
SizeIsCount ==
    \A s \in Sets \ spoilt : size[s] = Wrap(Cardinality(content[s]))

\* The iteration from begin() visits every element once, in ascending order,
\* and then is at end().
IterationVisitsAll ==
    \A s \in Sets \ spoilt :
        LET e == intervals[s]
            it == Iterator(e)
            n == Cardinality(content[s])
        IN  /\ {it[k].value : k \in 0 .. n - 1} = content[s]
            /\ \A k \in 0 .. n - 1 : ~AtEnd(e, it[k])
            /\ AtEnd(e, it[n])
            /\ \A k \in 1 .. n - 1 : it[k - 1].value < it[k].value

\* All of this together: the set is exact in every respect, whatever intervals
\* were inserted and erased.
SetIsExact == IntervalsAreMaximal /\ ContentIsRight /\ SizeIsCount /\ IterationVisitsAll
===============================================================================
