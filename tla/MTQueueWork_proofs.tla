-------------------------- MODULE MTQueueWork_proofs --------------------------
(***************************************************************************)
(* Proofs about the workers of MCMTQueueWork, for any finite number of     *)
(* them, any number of items and any maximum size of the queue: the queue  *)
(* is first-in first-out, push( vector ) is atomic, and popBarrier()       *)
(* returns false only when all items have been processed.                  *)
(*                                                                         *)
(* The argument for the last one: every child of a processed item is in    *)
(* the queue, processed, or with a worker that is about to push it.  The   *)
(* barrier counts the workers that wait in it, so when it lets the first   *)
(* one go all are inside, none of them carries an item, and the queue is   *)
(* empty: the processed items contain the root of the tree and are closed  *)
(* under children.  Then there is no least item that is missing.           *)
(***************************************************************************)
EXTENDS MCMTQueueWork, FiniteSetTheorems, WellFoundedInduction, TLAPS

\* What a worker pushes at a time: the root, or the children of an item.
Batch(s) == s = <<>> \/ s = <<1>> \/ \E n \in WValues : s = Children(n)

Shape ==
    /\ queue = [x \in Queues |-> queue[x]]
    /\ call = [u \in Threads |-> call[u]]
    /\ status = [u \in Threads |-> status[u]]
    /\ got = [u \in Threads |-> got[u]]
    /\ todo = [u \in Threads |-> todo[u]]
    /\ queue[workQueue] \in Seq(WValues) /\ consumed \in Seq(WValues)
    /\ height = Height
    /\ aborted \subseteq Threads

\* Where a worker is, and that it carries items at one place only.
WorkerOK(u) ==
    /\ call[u].op \in {"none", "popBarrier", "inBarrier", "pushVector"}
    /\ call[u].op # "none" => call[u].q = workQueue
    /\ status[u] \in {"idle", "awake", "sleeping"}
    /\ status[u] = "idle" <=> call[u].op = "none"
    /\ status[u] # "idle" => got[u] = <<>>
    /\ todo[u] # <<>> => call[u].op = "none"
    /\ u \in aborted => call[u].op = "none" /\ todo[u] = <<>>
    /\ Batch(todo[u])
    /\ call[u].op = "pushVector" => Batch(call[u].v)

\* The barrier counts those that wait in it and those that have left it for good.
Group == {u \in Threads : call[u].op = "inBarrier"} \union aborted
Counts == waiting = Cardinality(Group)

\* Item c is with a worker that is about to push it, or has been pushed.
Carries(u, c) ==
    \/ \E i \in 1 .. Len(todo[u]) : todo[u][i] = c
    \/ call[u].op = "pushVector" /\ \E i \in 1 .. Len(call[u].v) : call[u].v[i] = c
Known(c) ==
    \/ \E i \in 1 .. Len(consumed) : consumed[i] = c
    \/ \E i \in 1 .. Len(queue[workQueue]) : queue[workQueue][i] = c
    \/ \E u \in Threads : Carries(u, c)

\* The children of a processed item are known, and so is the root.
Accounted ==
    /\ Known(1)
    /\ \A i \in 1 .. Len(consumed) : \A c \in {2 * consumed[i], 2 * consumed[i] + 1} :
          c <= Items => Known(c)

\* Once a worker has left the barrier nothing is left to do.
Done ==
    /\ AbortOnlyWhenDone
    /\ aborted # {} => queue[workQueue] = <<>>

\* The inductive invariant.
WInv ==
    /\ Shape
    /\ \A u \in Threads : WorkerOK(u)
    /\ Counts
    /\ Accounted
    /\ VectorsStayTogether
    /\ Done

-------------------------------------------------------------------------------
\* A set of natural numbers has a least element.
LEMMA Least ==
    ASSUME NEW T, T \subseteq Nat, T # {}
    PROVE  \E x \in T : \A y \in T : x <= y
<1>1. PICK R : R = OpToRel(<, Nat)
  BY Zenon
<1>2. IsWellFoundedOn(R, Nat)
  BY <1>1, NatLessThanWellFounded, Zenon
<1>3. PICK x \in T : \A y \in T : <<y, x>> \notin R
  BY <1>2, WFMin, Zenon
<1>4. \A y \in Nat, z \in Nat : y < z => <<y, z>> \in R
  BY <1>1 DEF OpToRel
<1>5. x \in Nat /\ \A y \in T : y \in Nat /\ ~(y < x)
  BY <1>3, <1>4, Zenon
<1>6. \A y \in T : x <= y
  BY <1>5
<1> QED
  BY <1>6

\* A set of items with the root and with the children of its members has all items.
LEMMA ClosedIsComplete ==
    ASSUME NEW S, S \subseteq WValues, 1 \in S,
           \A n \in S : \A c \in {2 * n, 2 * n + 1} : c <= Items => c \in S
    PROVE  S = WValues
<1> SUFFICES ASSUME WValues \ S # {} PROVE FALSE
  BY Zenon
<1>1. WValues \ S \subseteq Nat
  BY WorkAssumption DEF WValues
<1>2. PICK x \in WValues \ S : \A y \in WValues \ S : x <= y
  BY <1>1, Least, Zenon
<1>3. x \in Nat /\ x > 1 /\ x <= Items
  BY <1>2, WorkAssumption DEF WValues
<1>4. PICK n \in Nat : n >= 1 /\ n < x /\ (x = 2 * n \/ x = 2 * n + 1)
  <2>1. x \div 2 \in Nat /\ x \div 2 >= 1 /\ x \div 2 < x
    BY <1>3
  <2>2. x = 2 * (x \div 2) \/ x = 2 * (x \div 2) + 1
    BY <1>3
  <2> QED
    BY <2>1, <2>2
<1>5. n \in WValues /\ ~(x <= n)
  BY <1>3, <1>4, WorkAssumption DEF WValues
<1>6. n \in S
  BY <1>2, <1>5, Zenon
<1>7. x \in S
  BY <1>3, <1>4, <1>6
<1> QED
  BY <1>2, <1>7

\* A batch is a sequence of items.
LEMMA BatchType == \A s : Batch(s) => s \in Seq(WValues)
<1>1. ASSUME NEW n \in WValues PROVE Children(n) \in Seq(WValues)
  <2>1. n \in Nat /\ n >= 1 /\ Items \in Nat
    BY WorkAssumption DEF WValues
  <2>2. CASE 2 * n < Items
    <3>1. 2 * n \in WValues /\ 2 * n + 1 \in WValues
      BY <2>1, <2>2 DEF WValues
    <3> QED
      BY <2>2, <3>1 DEF Children
  <2>3. CASE 2 * n = Items
    <3>1. 2 * n \in WValues /\ ~(2 * n < Items)
      BY <2>1, <2>3 DEF WValues
    <3> QED
      BY <2>3, <3>1 DEF Children
  <2>4. CASE ~(2 * n < Items) /\ 2 * n # Items
    BY <2>4 DEF Children
  <2> QED
    BY <2>2, <2>3, <2>4, Zenon
<1>2. <<>> \in Seq(WValues) /\ <<1>> \in Seq(WValues)
  BY WorkAssumption DEF WValues
<1> QED
  BY <1>1, <1>2, Zenon DEF Batch

\* The children of an item are among its batch.
LEMMA ChildrenCarried ==
    ASSUME NEW n \in WValues, NEW c \in {2 * n, 2 * n + 1}, c <= Items
    PROVE  \E i \in 1 .. Len(Children(n)) : Children(n)[i] = c
<1>1. CASE 2 * n < Items
  <2>1. Children(n) = <<2 * n, 2 * n + 1>>
    BY <1>1 DEF Children
  <2> QED
    BY <2>1
<1>2. CASE 2 * n = Items
  <2>1. Children(n) = <<2 * n>>
    BY <1>2, WorkAssumption DEF Children, WValues
  <2>2. c = 2 * n
    BY <1>2, WorkAssumption DEF WValues
  <2> QED
    BY <2>1, <2>2
<1> QED
  BY <1>1, <1>2, WorkAssumption DEF WValues

\* What t's return with a notification leaves of each worker.
LEMMA Notified ==
    ASSUME Shape, NEW w \in Threads, NEW e, ReturnNotify(w, e)
    PROVE  /\ call' = [u \in Threads |-> call'[u]] /\ status' = [u \in Threads |-> status'[u]]
           /\ got' = [u \in Threads |-> got'[u]]
           /\ call'[w].op = "none" /\ status'[w] = "idle" /\ got'[w] = e
           /\ \A u \in Threads \ {w} :
                 /\ call'[u] = call[u] /\ got'[u] = got[u]
                 /\ status'[u] \in {status[u], "awake"}
                 /\ status'[u] = "idle" <=> status[u] = "idle"
<1>1. NoCall.op = "none"
  BY DEF NoCall
<1>2. call' = [call EXCEPT ![w] = NoCall] /\ got' = [got EXCEPT ![w] = e]
  BY DEF ReturnNotify
<1>3. /\ call' = [u \in Threads |-> call'[u]] /\ got' = [u \in Threads |-> got'[u]]
      /\ call'[w] = NoCall /\ got'[w] = e
      /\ \A u \in Threads \ {w} : call'[u] = call[u] /\ got'[u] = got[u]
  BY <1>2, Zenon DEF Shape
<1>4. /\ status' = [u \in Threads |-> status'[u]] /\ status'[w] = "idle"
      /\ \A u \in Threads \ {w} : /\ status'[u] \in {status[u], "awake"}
                                  /\ status'[u] = "idle" <=> status[u] = "idle"
  BY DEF ReturnNotify
<1> QED
  BY <1>1, <1>3, <1>4

-------------------------------------------------------------------------------
\* What a step makes of the passed items: it adds the items of one batch.
Grows == \E s : Batch(s) /\ Passed' = Passed \o s

\* The parts of the invariant after a step, and what the step does to the items.
StepOK ==
    /\ Shape'
    /\ \A u \in Threads : WorkerOK(u)'
    /\ Counts'
    /\ Accounted'
    /\ Grows
    /\ Done'

\* The passed items are a sequence of items.
LEMMA PassedType ==
    ASSUME Shape
    PROVE  Passed \in Seq(WValues)
BY DEF Shape, Passed

\* A step that leaves both the queue and the processed items adds the empty batch.
LEMMA SameGrows ==
    ASSUME Shape, Passed' = Passed
    PROVE  Grows
<1>1. Passed = Passed \o <<>>
  BY PassedType
<1>2. Batch(<<>>)
  BY Zenon DEF Batch
<1> QED
  BY <1>1, <1>2, Zenon DEF Grows

\* Growth by a batch keeps the passed items where they are.
LEMMA GrowsExtends ==
    ASSUME Shape, Grows
    PROVE  Extends
<1>1. PICK s : Batch(s) /\ Passed' = Passed \o s
  BY Zenon DEF Grows
<1>2. s \in Seq(WValues) /\ Passed \in Seq(WValues)
  BY <1>1, BatchType, PassedType, Zenon
<1>3. PICK p : p = Passed
  BY Zenon
<1>4. Len(p) <= Len(p \o s) /\ \A i \in 1 .. Len(p) : (p \o s)[i] = p[i]
  BY <1>2, <1>3
<1> QED
  BY <1>1, <1>3, <1>4, Zenon DEF Extends

\* Two siblings are in one batch, one after the other.
LEMMA BatchTogether ==
    ASSUME NEW s, Batch(s)
    PROVE  \A i \in 1 .. Len(s) : s[i] > 1 /\ s[i] % 2 = 0 /\ s[i] < Items =>
              i < Len(s) /\ s[i + 1] = s[i] + 1
<1>1. CASE s = <<>>
  BY <1>1
<1>2. CASE s = <<1>>
  BY <1>2
<1>3. ASSUME NEW n \in WValues, s = Children(n)
      PROVE  \A i \in 1 .. Len(s) : s[i] > 1 /\ s[i] % 2 = 0 /\ s[i] < Items =>
                i < Len(s) /\ s[i + 1] = s[i] + 1
  <2>1. n \in Nat /\ Items \in Nat
    BY WorkAssumption DEF WValues
  <2>2. CASE 2 * n < Items
    <3>1. s = <<2 * n, 2 * n + 1>>
      BY <1>3, <2>2 DEF Children
    <3>2. (2 * n + 1) % 2 # 0
      BY <2>1
    <3> QED
      BY <2>1, <3>1, <3>2
  <2>3. CASE 2 * n = Items
    <3>1. s = <<2 * n>>
      BY <1>3, <2>1, <2>3 DEF Children
    <3> QED
      BY <2>1, <2>3, <3>1
  <2>4. CASE ~(2 * n < Items) /\ 2 * n # Items
    <3>1. s = <<>>
      BY <1>3, <2>4 DEF Children
    <3> QED
      BY <3>1
  <2> QED
    BY <2>2, <2>3, <2>4, Zenon
<1> QED
  BY <1>1, <1>2, <1>3, Zenon DEF Batch

\* Growth by a batch keeps siblings together.
LEMMA GrowsTogether ==
    ASSUME Shape, VectorsStayTogether, Grows
    PROVE  VectorsStayTogether'
<1>1. PICK s : Batch(s) /\ Passed' = Passed \o s
  BY Zenon DEF Grows
<1>2. PICK p : p = Passed
  BY Zenon
<1>3. s \in Seq(WValues) /\ p \in Seq(WValues)
  BY <1>1, <1>2, BatchType, PassedType, Zenon
<1>4. \A i \in 1 .. Len(p) : p[i] > 1 /\ p[i] % 2 = 0 /\ p[i] < Items =>
         i < Len(p) /\ p[i + 1] = p[i] + 1
  BY <1>2, <1>3 DEF VectorsStayTogether
<1>5. \A i \in 1 .. Len(s) : s[i] > 1 /\ s[i] % 2 = 0 /\ s[i] < Items =>
         i < Len(s) /\ s[i + 1] = s[i] + 1
  BY <1>1, BatchTogether, Zenon
<1>6. PICK r : r = p \o s
  BY Zenon
<1>7. /\ DOMAIN r = 1 .. Len(p) + Len(s) /\ Len(r) = Len(p) + Len(s)
      /\ Len(p) \in Nat /\ Len(s) \in Nat
      /\ \A i \in 1 .. Len(p) : r[i] = p[i]
      /\ \A i \in 1 .. Len(s) : r[Len(p) + i] = s[i]
  BY <1>3, <1>6
<1>8. ASSUME NEW i \in DOMAIN r, r[i] > 1 /\ r[i] % 2 = 0 /\ r[i] < Items
      PROVE  i < Len(r) /\ r[i + 1] = r[i] + 1
  <2>1. CASE i <= Len(p)
    <3>1. i \in 1 .. Len(p) /\ r[i] = p[i]
      BY <1>7, <2>1
    <3>2. i < Len(p) /\ p[i + 1] = p[i] + 1
      BY <1>4, <1>8, <3>1
    <3>3. i + 1 \in 1 .. Len(p)
      BY <1>7, <3>1, <3>2
    <3> QED
      BY <1>7, <3>1, <3>2, <3>3
  <2>2. CASE ~(i <= Len(p))
    <3>1. PICK j \in 1 .. Len(s) : i = Len(p) + j
      <4>1. i - Len(p) \in 1 .. Len(s) /\ i = Len(p) + (i - Len(p))
        BY <1>7, <2>2
      <4> QED
        BY <4>1
    <3>2. r[i] = s[j]
      BY <1>7, <3>1
    <3>3. j < Len(s) /\ s[j + 1] = s[j] + 1
      BY <1>5, <1>8, <3>2
    <3>4. j + 1 \in 1 .. Len(s) /\ i + 1 = Len(p) + (j + 1) /\ i < Len(r)
      BY <1>7, <3>1, <3>3
    <3>5. r[i + 1] = s[j + 1]
      BY <1>7, <3>4
    <3> QED
      BY <3>2, <3>3, <3>4, <3>5
  <2> QED
    BY <2>1, <2>2, Zenon
<1>9. Passed' = r
  BY <1>1, <1>2, <1>6, Zenon
<1> QED
  BY <1>8, <1>9, Zenon DEF VectorsStayTogether

\* If what is known stays known, the children of the old items stay accounted for.
LEMMA KnownAccounts ==
    ASSUME Accounted, consumed' = consumed, \A c : Known(c) => Known(c)'
    PROVE  Accounted'
BY Zenon DEF Accounted

\* A worker that a step of another one only wakes up.
LEMMA OtherOK ==
    ASSUME NEW u, WorkerOK(u), call'[u] = call[u], got'[u] = got[u], todo'[u] = todo[u],
           status'[u] \in {status[u], "awake"}, status'[u] = "idle" <=> status[u] = "idle",
           u \in aborted' <=> u \in aborted
    PROVE  WorkerOK(u)'
BY DEF WorkerOK

\* The same items are known if only w moves them.
LEMMA KnownStays ==
    ASSUME NEW w \in Threads, NEW c,
           \A u \in Threads \ {w} : call'[u] = call[u] /\ todo'[u] = todo[u],
           Known(c),
           \A i \in 1 .. Len(consumed) : consumed[i] = c => Known(c)',
           \A i \in 1 .. Len(queue[workQueue]) : queue[workQueue][i] = c => Known(c)',
           Carries(w, c) => Known(c)'
    PROVE  Known(c)'
<1>1. ASSUME NEW u \in Threads \ {w}, Carries(u, c) PROVE Carries(u, c)'
  BY <1>1, Zenon DEF Carries
<1> QED
  BY <1>1, Zenon DEF Known

-------------------------------------------------------------------------------
\* Falling asleep, and waking up for no reason.
LEMMA QuietStep ==
    ASSUME WInv, NEW w \in Threads, NEW x \in {"awake", "sleeping"},
           status[w] # "idle", status' = [status EXCEPT ![w] = x],
           UNCHANGED <<queue, call, got, height, waiting, todo, consumed, aborted>>
    PROVE  StepOK
<1>1. Shape'
  BY Zenon DEF WInv, Shape
<1>2. status'[w] = x /\ \A u \in Threads \ {w} : status'[u] = status[u]
  BY DEF WInv, Shape
<1>3. ASSUME NEW u \in Threads PROVE WorkerOK(u)'
  BY <1>2 DEF WInv, WorkerOK
<1>4. Counts'
  BY DEF WInv, Counts, Group
<1>5. Accounted'
  BY DEF WInv, Accounted, Known, Carries
<1>6. Grows
  BY SameGrows DEF WInv, Passed
<1>7. Done'
  BY DEF WInv, Done, AbortOnlyWhenDone
<1> QED
  BY <1>1, <1>3, <1>4, <1>5, <1>6, <1>7, Zenon DEF StepOK

\* What a call of worker w does to the workers.
LEMMA Called ==
    ASSUME Shape, NEW w \in Threads, NEW c, Call(w, c)
    PROVE  /\ call' = [u \in Threads |-> call'[u]] /\ status' = [u \in Threads |-> status'[u]]
           /\ got' = [u \in Threads |-> got'[u]]
           /\ call'[w] = c /\ status'[w] = "awake" /\ got'[w] = <<>>
           /\ \A u \in Threads \ {w} :
                 call'[u] = call[u] /\ got'[u] = got[u] /\ status'[u] = status[u]
           /\ status[w] = "idle"
           /\ queue' = queue /\ height' = height /\ waiting' = waiting
BY Zenon DEF Shape, Call

\* A worker begins to push its items.
LEMMA PushItemsStep ==
    ASSUME WInv, NEW w \in Threads, PushItems(w)
    PROVE  StepOK
<1> PICK c : c = WCall("pushVector", todo[w])
  BY Zenon
<1>1. c.op = "pushVector" /\ c.q = workQueue /\ c.v = todo[w]
  BY DEF WCall
<1>2. Call(w, c) /\ todo[w] # <<>> /\ Shape
  BY Zenon DEF PushItems, WInv
<1>3. /\ call' = [u \in Threads |-> call'[u]] /\ status' = [u \in Threads |-> status'[u]]
      /\ got' = [u \in Threads |-> got'[u]]
      /\ call'[w] = c /\ status'[w] = "awake" /\ got'[w] = <<>>
      /\ \A u \in Threads \ {w} :
            call'[u] = call[u] /\ got'[u] = got[u] /\ status'[u] = status[u]
      /\ status[w] = "idle"
      /\ queue' = queue /\ height' = height /\ waiting' = waiting
  BY <1>2, Called, Zenon
<1>4. /\ todo' = [u \in Threads |-> todo'[u]] /\ todo'[w] = <<>>
      /\ \A u \in Threads \ {w} : todo'[u] = todo[u]
      /\ consumed' = consumed /\ aborted' = aborted
  BY <1>2, Zenon DEF PushItems, Shape
<1>5. call[w].op = "none" /\ WorkerOK(w) /\ w \notin aborted
  BY <1>2, <1>3 DEF WInv, WorkerOK
<1>6. Shape'
  BY <1>2, <1>3, <1>4 DEF Shape
<1>7. ASSUME NEW u \in Threads PROVE WorkerOK(u)'
  <2>1. CASE u = w
    <3>1. Batch(<<>>)
      BY Zenon DEF Batch
    <3> QED
      BY <1>1, <1>3, <1>4, <1>5, <2>1, <3>1 DEF WorkerOK
  <2>2. CASE u # w
    BY <1>3, <1>4, <2>2, OtherOK DEF WInv
  <2> QED
    BY <2>1, <2>2, Zenon
<1>8. Counts'
  <2>1. Group' = Group
    BY <1>1, <1>3, <1>4, <1>5 DEF Group
  <2> QED
    BY <1>3, <2>1 DEF WInv, Counts
<1>9. ASSUME NEW d, Known(d) PROVE Known(d)'
  <2>1. Carries(w, d) => Carries(w, d)'
    BY <1>1, <1>3, <1>5 DEF Carries
  <2>2. Carries(w, d) => Known(d)'
    BY <2>1, Zenon DEF Known
  <2>3. \A i \in 1 .. Len(consumed) : consumed[i] = d => Known(d)'
    BY <1>4, Zenon DEF Known
  <2>4. \A i \in 1 .. Len(queue[workQueue]) : queue[workQueue][i] = d => Known(d)'
    BY <1>3, Zenon DEF Known
  <2> QED
    BY <1>3, <1>4, <1>9, <2>2, <2>3, <2>4, KnownStays, Zenon
<1>10. Accounted'
  BY <1>4, <1>9, KnownAccounts, Zenon DEF WInv
<1>11. Grows
  BY <1>2, <1>3, <1>4, SameGrows DEF Passed
<1>12. Done'
  <2>1. aborted = {}
    BY <1>2, <1>5, Zenon DEF WInv, Done, AbortOnlyWhenDone
  <2> QED
    BY <1>4, <2>1, Zenon DEF Done, AbortOnlyWhenDone
<1> QED
  BY <1>6, <1>7, <1>8, <1>10, <1>11, <1>12, Zenon DEF StepOK

\* A worker begins to wait for an item.
LEMMA EnterStep ==
    ASSUME WInv, NEW w \in Threads, Enter(w)
    PROVE  StepOK
<1> PICK c : c = WCall("popBarrier", <<>>)
  BY Zenon
<1>1. c.op = "popBarrier" /\ c.q = workQueue
  BY DEF WCall
<1>2. Call(w, c) /\ todo[w] = <<>> /\ Shape /\ w \notin aborted
  BY Zenon DEF Enter, WInv
<1>3. /\ call' = [u \in Threads |-> call'[u]] /\ status' = [u \in Threads |-> status'[u]]
      /\ got' = [u \in Threads |-> got'[u]]
      /\ call'[w] = c /\ status'[w] = "awake" /\ got'[w] = <<>>
      /\ \A u \in Threads \ {w} :
            call'[u] = call[u] /\ got'[u] = got[u] /\ status'[u] = status[u]
      /\ status[w] = "idle"
      /\ queue' = queue /\ height' = height /\ waiting' = waiting
  BY <1>2, Called, Zenon
<1>4. todo' = todo /\ consumed' = consumed /\ aborted' = aborted
  BY DEF Enter
<1>5. call[w].op = "none" /\ WorkerOK(w)
  BY <1>2, <1>3 DEF WInv, WorkerOK
<1>6. Shape'
  BY <1>2, <1>3, <1>4 DEF Shape
<1>7. ASSUME NEW u \in Threads PROVE WorkerOK(u)'
  <2>1. CASE u = w
    BY <1>1, <1>2, <1>3, <1>4, <1>5, <2>1 DEF WorkerOK
  <2>2. CASE u # w
    BY <1>3, <1>4, <2>2, OtherOK DEF WInv
  <2> QED
    BY <2>1, <2>2, Zenon
<1>8. Counts'
  <2>1. Group' = Group
    BY <1>1, <1>3, <1>4, <1>5 DEF Group
  <2> QED
    BY <1>3, <2>1 DEF WInv, Counts
<1>9. ASSUME NEW d, Known(d) PROVE Known(d)'
  <2>1. Carries(w, d) => Carries(w, d)'
    BY <1>4, <1>5 DEF Carries
  <2>2. Carries(w, d) => Known(d)'
    BY <2>1, Zenon DEF Known
  <2>3. \A i \in 1 .. Len(consumed) : consumed[i] = d => Known(d)'
    BY <1>4, Zenon DEF Known
  <2>4. \A i \in 1 .. Len(queue[workQueue]) : queue[workQueue][i] = d => Known(d)'
    BY <1>3, Zenon DEF Known
  <2> QED
    BY <1>3, <1>4, <1>9, <2>2, <2>3, <2>4, KnownStays, Zenon
<1>10. Accounted'
  BY <1>4, <1>9, KnownAccounts, Zenon DEF WInv
<1>11. Grows
  BY <1>2, <1>3, <1>4, SameGrows DEF Passed
<1>12. Done'
  <2>1. call[w].op # "inBarrier"
    BY <1>5
  <2>2. aborted = {}
    BY <1>2, <2>1, Zenon DEF WInv, Done, AbortOnlyWhenDone
  <2> QED
    BY <1>4, <2>2, Zenon DEF Done, AbortOnlyWhenDone
<1> QED
  BY <1>6, <1>7, <1>8, <1>10, <1>11, <1>12, Zenon DEF StepOK

-------------------------------------------------------------------------------
\* push( vector ) inserts the items at the end of the queue.
LEMMA PushStep ==
    ASSUME WInv, NEW w \in Threads, Push(w), Advance(w)
    PROVE  StepOK
<1>1. Shape /\ WorkerOK(w)
  BY Zenon DEF WInv
<1>2. call[w].op = "pushVector" /\ call[w].q = workQueue /\ todo[w] = <<>> /\ w \notin aborted
  BY <1>1 DEF Push, Runs, WorkerOK
<1>3. ReturnNotify(w, <<>>)
  BY Zenon DEF Push
<1>4. /\ call' = [u \in Threads |-> call'[u]] /\ status' = [u \in Threads |-> status'[u]]
      /\ got' = [u \in Threads |-> got'[u]]
      /\ call'[w].op = "none" /\ status'[w] = "idle" /\ got'[w] = <<>>
      /\ \A u \in Threads \ {w} :
            /\ call'[u] = call[u] /\ got'[u] = got[u]
            /\ status'[u] \in {status[u], "awake"}
            /\ status'[u] = "idle" <=> status[u] = "idle"
  BY <1>1, <1>3, Notified, Zenon
<1>5. PICK s : s = call[w].v
  BY Zenon
<1>6. Batch(s) /\ s \in Seq(WValues)
  BY <1>1, <1>2, <1>5, BatchType, Zenon DEF WorkerOK
<1>7. /\ queue' = [x \in Queues |-> queue'[x]] /\ queue'[workQueue] = queue[workQueue] \o s
      /\ height' = height /\ waiting' = waiting
  BY <1>1, <1>2, <1>5, WorkAssumption, Zenon DEF Push, SetQueue, Shape
<1>8. todo' = todo /\ aborted' = aborted /\ consumed' = consumed
  <2>1. consumed \o <<>> = consumed
    BY <1>1 DEF Shape
  <2> QED
    BY <1>2, <1>4, <2>1 DEF Advance
<1>9. Shape'
  BY <1>1, <1>4, <1>6, <1>7, <1>8 DEF Shape
<1>10. ASSUME NEW u \in Threads PROVE WorkerOK(u)'
  <2>1. CASE u = w
    BY <1>1, <1>2, <1>4, <1>8, <2>1 DEF WorkerOK
  <2>2. CASE u # w
    BY <1>4, <1>8, <2>2, OtherOK DEF WInv
  <2> QED
    BY <2>1, <2>2, Zenon
<1>11. Counts'
  <2>1. Group' = Group
    BY <1>2, <1>4, <1>8 DEF Group
  <2> QED
    BY <1>7, <2>1 DEF WInv, Counts
<1>12. PICK q : q = queue[workQueue]
  BY Zenon
<1>13. /\ \A i \in 1 .. Len(q) : i \in 1 .. Len(q \o s) /\ (q \o s)[i] = q[i]
       /\ \A i \in 1 .. Len(s) : Len(q) + i \in 1 .. Len(q \o s) /\ (q \o s)[Len(q) + i] = s[i]
  BY <1>1, <1>6, <1>12, SMTT(30) DEF Shape
<1>14. ASSUME NEW d, Known(d) PROVE Known(d)'
  <2>1. \A i \in 1 .. Len(q \o s) : (q \o s)[i] = d => Known(d)'
    BY <1>7, <1>12, Zenon DEF Known
  <2>2. \A i \in 1 .. Len(q) : q[i] = d => Known(d)'
    BY <1>13, <2>1, Zenon
  <2>3. \A i \in 1 .. Len(s) : s[i] = d => Known(d)'
    BY <1>13, <2>1, Zenon
  <2>4. Carries(w, d) => Known(d)'
    <3>1. ~ \E i \in 1 .. Len(todo[w]) : todo[w][i] = d
      BY <1>2
    <3> QED
      BY <1>5, <2>3, <3>1, Zenon DEF Carries
  <2>5. \A i \in 1 .. Len(consumed) : consumed[i] = d => Known(d)'
    BY <1>8, Zenon DEF Known
  <2> QED
    BY <1>4, <1>8, <1>12, <1>14, <2>2, <2>4, <2>5, KnownStays, Zenon
<1>15. Accounted'
  BY <1>8, <1>14, KnownAccounts, Zenon DEF WInv
<1>16. Grows
  <2>1. PICK p : p = consumed
    BY Zenon
  <2>2. p \o (q \o s) = (p \o q) \o s
    <3>1. p \in Seq(WValues) /\ q \in Seq(WValues) /\ s \in Seq(WValues)
      BY <1>1, <1>6, <1>12, <2>1, Zenon DEF Shape
    <3>2. Len(p \o (q \o s)) = Len((p \o q) \o s)
      BY <3>1
    <3>3. \A i \in 1 .. Len((p \o q) \o s) : (p \o (q \o s))[i] = ((p \o q) \o s)[i]
      BY <3>1
    <3> QED
      BY <3>1, <3>2, <3>3
  <2>3. Passed' = Passed \o s
    BY <1>7, <1>8, <1>12, <2>1, <2>2, Zenon DEF Passed
  <2> QED
    BY <1>6, <2>3, Zenon DEF Grows
<1>17. Done'
  <2>1. call[w].op # "inBarrier"
    BY <1>2
  <2>2. aborted = {}
    BY <1>2, <2>1, Zenon DEF WInv, Done, AbortOnlyWhenDone
  <2> QED
    BY <1>8, <2>2, Zenon DEF Done, AbortOnlyWhenDone
<1> QED
  BY <1>9, <1>10, <1>11, <1>15, <1>16, <1>17, Zenon DEF StepOK

\* The group is finite, and what it is without one of its members.
LEMMA GroupSize ==
    ASSUME WInv
    PROVE  Group \subseteq Threads /\ IsFiniteSet(Group) /\ waiting \in Nat
<1>1. Group \subseteq Threads
  BY Zenon DEF WInv, Shape, Group
<1>2. IsFiniteSet(Group)
  BY <1>1, ThreadsAssumption, FS_Subset, Zenon
<1>3. Cardinality(Group) \in Nat
  BY <1>2, FS_CardinalityType, Zenon
<1> QED
  BY <1>1, <1>2, <1>3 DEF WInv, Counts

\* popBarrier() returns the first item; its children are the next ones to push.
LEMMA TakeStep ==
    ASSUME WInv, NEW w \in Threads, BarrierTake(w), Advance(w)
    PROVE  StepOK
<1>1. Shape /\ WorkerOK(w)
  BY Zenon DEF WInv
<1>2. /\ call[w].op \in {"popBarrier", "inBarrier"} /\ call[w].q = workQueue
      /\ todo[w] = <<>> /\ w \notin aborted
  BY <1>1 DEF BarrierTake, InPopBarrier, WorkerOK
<1>3. PICK q : q = queue[workQueue]
  BY Zenon
<1>4. q \in Seq(WValues) /\ q # <<>> /\ consumed \in Seq(WValues)
  BY <1>1, <1>2, <1>3 DEF BarrierTake, Shape
<1>5. PICK n : n = Head(q)
  BY Zenon
<1>6. /\ n \in WValues /\ Tail(q) \in Seq(WValues) /\ q = <<n>> \o Tail(q)
      /\ \A i \in 1 .. Len(q) : i = 1 \/ (i - 1 \in 1 .. Len(Tail(q)) /\ Tail(q)[i - 1] = q[i])
      /\ q[1] = n
  BY <1>4, <1>5
<1>7. ReturnNotify(w, <<n>>)
  BY <1>2, <1>3, <1>5, Zenon DEF BarrierTake
<1>8. /\ call' = [u \in Threads |-> call'[u]] /\ status' = [u \in Threads |-> status'[u]]
      /\ got' = [u \in Threads |-> got'[u]]
      /\ call'[w].op = "none" /\ status'[w] = "idle" /\ got'[w] = <<n>>
      /\ \A u \in Threads \ {w} :
            /\ call'[u] = call[u] /\ got'[u] = got[u]
            /\ status'[u] \in {status[u], "awake"}
            /\ status'[u] = "idle" <=> status[u] = "idle"
  BY <1>1, <1>7, Notified, Zenon
<1>9. /\ queue' = [x \in Queues |-> queue'[x]] /\ queue'[workQueue] = Tail(q)
      /\ height' = height /\ waiting' = Counted(w) - 1
  BY <1>1, <1>2, <1>3, WorkAssumption, Zenon DEF BarrierTake, SetQueue, Shape
<1>10. /\ consumed' = consumed \o <<n>> /\ aborted' = aborted
       /\ todo' = [todo EXCEPT ![w] = Children(n)]
  <2>1. <<n>> # <<>> /\ <<n>>[1] = n /\ call[w].op # "pushVector"
    BY <1>2
  <2> QED
    BY <1>8, <2>1, Zenon DEF Advance
<1>11. /\ todo' = [u \in Threads |-> todo'[u]] /\ todo'[w] = Children(n)
       /\ \A u \in Threads \ {w} : todo'[u] = todo[u]
  BY <1>1, <1>10, Zenon DEF Shape
<1>12. Shape'
  <2>1. consumed \o <<n>> \in Seq(WValues)
    BY <1>4, <1>6
  <2> QED
    BY <1>1, <1>6, <1>8, <1>9, <1>10, <1>11, <2>1 DEF Shape
<1>13. ASSUME NEW u \in Threads PROVE WorkerOK(u)'
  <2>1. CASE u = w
    <3>1. Batch(Children(n))
      BY <1>6, Zenon DEF Batch
    <3> QED
      BY <1>2, <1>8, <1>10, <1>11, <2>1, <3>1 DEF WorkerOK
  <2>2. CASE u # w
    BY <1>8, <1>10, <1>11, <2>2, OtherOK DEF WInv
  <2> QED
    BY <2>1, <2>2, Zenon
<1>14. Counts'
  <2>1. Group' = Group \ {w}
    BY <1>2, <1>8, <1>10 DEF Group
  <2>2. w \in Group <=> call[w].op = "inBarrier"
    BY <1>2 DEF Group
  <2>3. Cardinality(Group \ {w}) = IF w \in Group THEN Cardinality(Group) - 1 ELSE Cardinality(Group)
    BY GroupSize, FS_RemoveElement, Zenon
  <2>4. waiting = Cardinality(Group) /\ waiting \in Nat
    BY GroupSize, Zenon DEF WInv, Counts
  <2>5. Counted(w) = IF w \in Group THEN waiting ELSE waiting + 1
    BY <1>2, <2>2 DEF Counted
  <2> QED
    BY <1>9, <2>1, <2>3, <2>4, <2>5 DEF Counts
<1>15. PICK p : p = consumed
  BY Zenon
<1>16. /\ \A i \in 1 .. Len(p) : i \in 1 .. Len(p \o <<n>>) /\ (p \o <<n>>)[i] = p[i]
       /\ Len(p) + 1 \in 1 .. Len(p \o <<n>>) /\ (p \o <<n>>)[Len(p) + 1] = n
       /\ \A i \in 1 .. Len(p \o <<n>>) : i = Len(p) + 1 \/ i \in 1 .. Len(p)
  BY <1>4, <1>15
<1>17. ASSUME NEW d, Known(d) PROVE Known(d)'
  <2>1. \A i \in 1 .. Len(p \o <<n>>) : (p \o <<n>>)[i] = d => Known(d)'
    BY <1>10, <1>15, Zenon DEF Known
  <2>2. \A i \in 1 .. Len(consumed) : consumed[i] = d => Known(d)'
    BY <1>15, <1>16, <2>1, Zenon
  <2>3. \A i \in 1 .. Len(Tail(q)) : Tail(q)[i] = d => Known(d)'
    BY <1>9, Zenon DEF Known
  <2>4. \A i \in 1 .. Len(q) : q[i] = d => Known(d)'
    BY <1>6, <1>16, <2>1, <2>3, Zenon
  <2>5. ~Carries(w, d)
    BY <1>2 DEF Carries
  <2> QED
    BY <1>3, <1>8, <1>11, <1>17, <2>2, <2>4, <2>5, KnownStays, Zenon
<1>18. Accounted'
  <2>1. Known(1)'
    BY <1>17, Zenon DEF WInv, Accounted
  <2>2. ASSUME NEW c \in {2 * n, 2 * n + 1}, c <= Items PROVE Known(c)'
    <3>1. \E i \in 1 .. Len(Children(n)) : Children(n)[i] = c
      BY <1>6, <2>2, ChildrenCarried, Zenon
    <3>2. Carries(w, c)'
      BY <1>11, <3>1, Zenon DEF Carries
    <3> QED
      BY <3>2, Zenon DEF Known
  <2>3. ASSUME NEW i \in 1 .. Len(p), NEW c \in {2 * p[i], 2 * p[i] + 1}, c <= Items
        PROVE  Known(c)'
    BY <1>15, <1>17, <2>3, Zenon DEF WInv, Accounted
  <2>4. ASSUME NEW i \in 1 .. Len(p \o <<n>>),
               NEW c \in {2 * (p \o <<n>>)[i], 2 * (p \o <<n>>)[i] + 1}, c <= Items
        PROVE  Known(c)'
    <3>1. CASE i = Len(p) + 1
      BY <1>16, <2>2, <2>4, <3>1, Zenon
    <3>2. CASE i \in 1 .. Len(p)
      BY <1>16, <2>3, <2>4, <3>2, Zenon
    <3> QED
      BY <1>16, <3>1, <3>2, Zenon
  <2> QED
    BY <1>10, <1>15, <2>1, <2>4, Zenon DEF Accounted
<1>19. Grows
  <2>1. (p \o <<n>>) \o Tail(q) = p \o (<<n>> \o Tail(q))
    BY <1>4, <1>6, <1>15
  <2>2. Passed' = Passed
    BY <1>3, <1>6, <1>9, <1>10, <1>15, <2>1, Zenon DEF Passed
  <2> QED
    BY <1>1, <2>2, SameGrows, Zenon
<1>20. Done'
  <2>1. aborted = {}
    BY <1>3, <1>4, Zenon DEF WInv, Done
  <2> QED
    BY <1>10, <2>1, Zenon DEF Done, AbortOnlyWhenDone
<1> QED
  BY <1>12, <1>13, <1>14, <1>18, <1>19, <1>20, Zenon DEF StepOK

\* popBarrier() waits: the worker is counted from now on.
LEMMA BarrierSleepStep ==
    ASSUME WInv, NEW w \in Threads, BarrierSleep(w), Advance(w)
    PROVE  StepOK
<1>1. Shape /\ WorkerOK(w)
  BY Zenon DEF WInv
<1>2. /\ call[w].op = "popBarrier" /\ call[w].q = workQueue /\ status[w] = "awake"
      /\ todo[w] = <<>> /\ w \notin aborted /\ got[w] = <<>>
  BY <1>1 DEF BarrierSleep, WorkerOK
<1>3. /\ call' = [u \in Threads |-> call'[u]]
      /\ call'[w].op = "inBarrier" /\ call'[w].q = workQueue
      /\ \A u \in Threads \ {w} : call'[u] = call[u]
  <2>1. PICK c : c = [op |-> "inBarrier", q |-> call[w].q, from |-> call[w].from,
                      n |-> call[w].n, m |-> call[w].m, v |-> call[w].v]
    BY Zenon
  <2>2. c.op = "inBarrier" /\ c.q = workQueue
    BY <1>2, <2>1
  <2>3. call' = [call EXCEPT ![w] = c]
    BY <2>1, Zenon DEF BarrierSleep
  <2>4. /\ call' = [u \in Threads |-> call'[u]] /\ call'[w] = c
        /\ \A u \in Threads \ {w} : call'[u] = call[u]
    BY <1>1, <2>3, Zenon DEF Shape
  <2> QED
    BY <2>2, <2>4, Zenon
<1>4. /\ status' = [u \in Threads |-> status'[u]] /\ status'[w] = "sleeping"
      /\ \A u \in Threads \ {w} : status'[u] = status[u]
  BY <1>1, Zenon DEF BarrierSleep, Shape
<1>5. queue' = queue /\ got' = got /\ height' = height /\ waiting' = waiting + 1
  BY <1>2 DEF BarrierSleep, Counted
<1>6. todo' = todo /\ aborted' = aborted /\ consumed' = consumed
  <2>1. consumed \o <<>> = consumed /\ status'[w] # "idle"
    BY <1>1, <1>4 DEF Shape
  <2> QED
    BY <1>2, <1>5, <2>1, Zenon DEF Advance
<1>7. Shape'
  BY <1>1, <1>3, <1>4, <1>5, <1>6 DEF Shape
<1>8. ASSUME NEW u \in Threads PROVE WorkerOK(u)'
  <2>1. CASE u = w
    BY <1>1, <1>2, <1>3, <1>4, <1>5, <1>6, <2>1 DEF WorkerOK
  <2>2. CASE u # w
    BY <1>3, <1>4, <1>5, <1>6, <2>2, OtherOK DEF WInv
  <2> QED
    BY <2>1, <2>2, Zenon
<1>9. Counts'
  <2>1. Group' = Group \union {w}
    BY <1>2, <1>3, <1>6 DEF Group
  <2>2. w \notin Group
    BY <1>2 DEF Group
  <2>3. Cardinality(Group \union {w}) =
          IF w \in Group THEN Cardinality(Group) ELSE Cardinality(Group) + 1
    BY GroupSize, FS_AddElement, Zenon
  <2> QED
    BY <1>5, <2>1, <2>2, <2>3 DEF WInv, Counts
<1>10. ASSUME NEW d, Known(d) PROVE Known(d)'
  <2>1. ~Carries(w, d)
    BY <1>2 DEF Carries
  <2>2. \A i \in 1 .. Len(consumed) : consumed[i] = d => Known(d)'
    BY <1>6, Zenon DEF Known
  <2>3. \A i \in 1 .. Len(queue[workQueue]) : queue[workQueue][i] = d => Known(d)'
    BY <1>5, Zenon DEF Known
  <2> QED
    BY <1>3, <1>6, <1>10, <2>1, <2>2, <2>3, KnownStays, Zenon
<1>11. Accounted'
  BY <1>6, <1>10, KnownAccounts, Zenon DEF WInv
<1>12. Grows
  BY <1>1, <1>5, <1>6, SameGrows, Zenon DEF Passed
<1>13. Done'
  <2>1. call[w].op # "inBarrier"
    BY <1>2
  <2>2. aborted = {}
    BY <1>2, <2>1, Zenon DEF WInv, Done, AbortOnlyWhenDone
  <2> QED
    BY <1>6, <2>2, Zenon DEF Done, AbortOnlyWhenDone
<1> QED
  BY <1>7, <1>8, <1>9, <1>11, <1>12, <1>13, Zenon DEF StepOK

\* When the queue is empty and no worker carries an item, all are processed.
LEMMA NothingLeft ==
    ASSUME WInv, queue[workQueue] = <<>>,
           \A u \in Threads : todo[u] = <<>> /\ call[u].op # "pushVector"
    PROVE  Range(consumed) = WValues
<1>1. consumed \in Seq(WValues)
  BY Zenon DEF WInv, Shape
<1>2. DOMAIN consumed = 1 .. Len(consumed)
  BY <1>1
<1>3. PICK S : S = Range(consumed)
  BY Zenon
<1>4. \A c : c \in S <=> \E i \in 1 .. Len(consumed) : consumed[i] = c
  BY <1>2, <1>3, Zenon DEF Range
<1>5. S \subseteq WValues
  BY <1>1, <1>4
<1>6. ASSUME NEW c, Known(c) PROVE c \in S
  <2>1. ~ \E i \in 1 .. Len(queue[workQueue]) : queue[workQueue][i] = c
    OBVIOUS
  <2>2. ASSUME NEW u \in Threads PROVE ~Carries(u, c)
    BY DEF Carries
  <2> QED
    BY <1>4, <1>6, <2>1, <2>2, Zenon DEF Known
<1>7. 1 \in S
  BY <1>6, Zenon DEF WInv, Accounted
<1>8. ASSUME NEW n \in S, NEW c \in {2 * n, 2 * n + 1}, c <= Items PROVE c \in S
  <2>1. PICK i \in 1 .. Len(consumed) : consumed[i] = n
    BY <1>4, Zenon
  <2>2. Known(c)
    BY <1>8, <2>1, Zenon DEF WInv, Accounted
  <2> QED
    BY <1>6, <2>2, Zenon
<1>9. \A n \in S : \A c \in {2 * n, 2 * n + 1} : c <= Items => c \in S
  BY <1>8, Zenon
<1> QED
  BY <1>3, <1>5, <1>7, <1>9, ClosedIsComplete

\* popBarrier() returns false: the whole group is in the barrier, or has left it.
LEMMA AbortStep ==
    ASSUME WInv, NEW w \in Threads, BarrierAbort(w), Advance(w)
    PROVE  StepOK
<1>1. Shape /\ WorkerOK(w)
  BY Zenon DEF WInv
<1>2. /\ call[w].op \in {"popBarrier", "inBarrier"} /\ call[w].q = workQueue
      /\ todo[w] = <<>> /\ w \notin aborted
  BY <1>1 DEF BarrierAbort, InPopBarrier, WorkerOK
<1>3. /\ queue[workQueue] = <<>> /\ queue' = queue /\ height' = height
      /\ waiting' = Counted(w) /\ Counted(w) >= Height
  BY <1>1, <1>2, Zenon DEF BarrierAbort, Shape
<1>4. ReturnNotify(w, <<>>)
  BY Zenon DEF BarrierAbort
<1>5. /\ call' = [u \in Threads |-> call'[u]] /\ status' = [u \in Threads |-> status'[u]]
      /\ got' = [u \in Threads |-> got'[u]]
      /\ call'[w].op = "none" /\ status'[w] = "idle" /\ got'[w] = <<>>
      /\ \A u \in Threads \ {w} :
            /\ call'[u] = call[u] /\ got'[u] = got[u]
            /\ status'[u] \in {status[u], "awake"}
            /\ status'[u] = "idle" <=> status[u] = "idle"
  BY <1>1, <1>4, Notified, Zenon
<1>6. todo' = todo /\ aborted' = aborted \union {w} /\ consumed' = consumed
  <2>1. consumed \o <<>> = consumed /\ call[w].op # "pushVector"
    BY <1>1, <1>2 DEF Shape
  <2> QED
    BY <1>5, <2>1, Zenon DEF Advance
<1>7. Shape'
  BY <1>1, <1>3, <1>5, <1>6 DEF Shape
<1>8. ASSUME NEW u \in Threads PROVE WorkerOK(u)'
  <2>1. CASE u = w
    BY <1>1, <1>2, <1>5, <1>6, <2>1 DEF WorkerOK
  <2>2. CASE u # w
    BY <1>5, <1>6, <2>2, OtherOK DEF WInv
  <2> QED
    BY <2>1, <2>2, Zenon
<1>9. Group' = Group \union {w}
  BY <1>2, <1>5, <1>6 DEF Group
<1>10. w \in Group <=> call[w].op = "inBarrier"
  BY <1>2 DEF Group
<1>11. waiting' = Cardinality(Group \union {w}) /\ waiting' \in Nat
  <2>1. Cardinality(Group \union {w}) =
          IF w \in Group THEN Cardinality(Group) ELSE Cardinality(Group) + 1
    BY GroupSize, FS_AddElement, Zenon
  <2>2. waiting = Cardinality(Group) /\ waiting \in Nat
    BY GroupSize, Zenon DEF WInv, Counts
  <2>3. Counted(w) = IF w \in Group THEN waiting ELSE waiting + 1
    BY <1>2, <1>10 DEF Counted
  <2> QED
    BY <1>3, <2>1, <2>2, <2>3
<1>12. Counts'
  BY <1>9, <1>11, Zenon DEF Counts
<1>13. Group \union {w} = Threads /\ waiting' = Height
  <2>1. Group \union {w} \subseteq Threads
    BY GroupSize, Zenon
  <2>2. Cardinality(Group \union {w}) <= Cardinality(Threads)
    BY <2>1, ThreadsAssumption, FS_Subset, Zenon
  <2>3. Height = Cardinality(Threads) /\ Height \in Nat
    BY WorkAssumption, HeightAssumption, Zenon
  <2>4. Cardinality(Group \union {w}) = Cardinality(Threads) /\ waiting' = Height
    BY <1>3, <1>11, <2>2, <2>3
  <2> QED
    BY <2>1, <2>4, ThreadsAssumption, FS_Subset, Zenon
<1>14. ASSUME NEW d, Known(d) PROVE Known(d)'
  <2>1. ~Carries(w, d)
    BY <1>2 DEF Carries
  <2>2. \A i \in 1 .. Len(consumed) : consumed[i] = d => Known(d)'
    BY <1>6, Zenon DEF Known
  <2>3. \A i \in 1 .. Len(queue[workQueue]) : queue[workQueue][i] = d => Known(d)'
    BY <1>3, Zenon DEF Known
  <2> QED
    BY <1>5, <1>6, <1>14, <2>1, <2>2, <2>3, KnownStays, Zenon
<1>15. Accounted'
  BY <1>6, <1>14, KnownAccounts, Zenon DEF WInv
<1>16. Grows
  BY <1>1, <1>3, <1>6, SameGrows, Zenon DEF Passed
<1>17. Done'
  <2>1. ASSUME NEW u \in Threads
        PROVE  todo[u] = <<>> /\ call[u].op # "pushVector" /\
               (u # w /\ u \notin aborted => call[u].op = "inBarrier")
    <3>1. CASE u = w
      BY <1>2, <3>1
    <3>2. CASE u \in aborted
      BY <3>2 DEF WInv, WorkerOK
    <3>3. CASE u # w /\ u \notin aborted
      <4>1. call[u].op = "inBarrier"
        BY <1>13, <3>3, Zenon DEF Group
      <4> QED
        BY <4>1 DEF WInv, WorkerOK
    <3> QED
      BY <3>1, <3>2, <3>3, Zenon
  <2>2. Range(consumed) = WValues
    BY <1>3, <2>1, NothingLeft, Zenon
  <2>3. ASSUME NEW u \in Threads \ aborted' PROVE todo'[u] = <<>> /\ call'[u].op = "inBarrier"
    BY <1>5, <1>6, <2>1, Zenon
  <2>4. waiting' = height' /\ queue'[workQueue] = <<>>
    BY <1>1, <1>3, <1>13, Zenon DEF Shape
  <2> QED
    BY <1>6, <2>2, <2>3, <2>4, Zenon DEF Done, AbortOnlyWhenDone
<1> QED
  BY <1>7, <1>8, <1>12, <1>15, <1>16, <1>17, Zenon DEF StepOK

-------------------------------------------------------------------------------
\* The invariant holds initially: one worker has the root to push.
LEMMA WInitInv ==
    ASSUME WInit
    PROVE  WInv
<1>1. PICK w \in Threads : todo = [u \in Threads |-> IF u = w THEN <<1>> ELSE <<>>]
  BY Zenon DEF WInit
<1>2. /\ queue = [x \in Queues |-> <<>>] /\ status = [u \in Threads |-> "idle"]
      /\ call = [u \in Threads |-> NoCall] /\ got = [u \in Threads |-> <<>>]
      /\ height = Height /\ waiting = 0 /\ consumed = <<>> /\ aborted = {}
  BY Zenon DEF WInit, Init
<1>3. NoCall.op = "none"
  BY DEF NoCall
<1>4. Shape
  BY <1>1, <1>2, WorkAssumption DEF Shape
<1>5. ASSUME NEW u \in Threads PROVE WorkerOK(u)
  <2>1. Batch(<<>>) /\ Batch(<<1>>)
    BY Zenon DEF Batch
  <2>2. todo[u] \in {<<>>, <<1>>} /\ call[u].op = "none" /\ status[u] = "idle"
    BY <1>1, <1>2, <1>3
  <2> QED
    BY <1>2, <2>1, <2>2 DEF WorkerOK
<1>6. Counts
  <2>1. Group = {}
    BY <1>2, <1>3 DEF Group
  <2> QED
    BY <1>2, <2>1, FS_EmptySet DEF Counts
<1>7. Accounted
  <2>1. 1 \in 1 .. Len(todo[w]) /\ todo[w][1] = 1
    BY <1>1
  <2>2. Known(1)
    BY <2>1, Zenon DEF Known, Carries
  <2> QED
    BY <1>2, <2>2 DEF Accounted
<1>8. VectorsStayTogether
  <2>1. Passed = <<>>
    BY <1>2, WorkAssumption DEF Passed
  <2> QED
    BY <2>1 DEF VectorsStayTogether
<1>9. Done
  BY <1>2, Zenon DEF Done, AbortOnlyWhenDone
<1> QED
  BY <1>4, <1>5, <1>6, <1>7, <1>8, <1>9, Zenon DEF WInv

\* Of the operations of MTQueue the workers only use two.
LEMMA WorkersSteps ==
    ASSUME WInv, NEW w \in Threads, Step(w)
    PROVE  Sleep(w) \/ Push(w) \/ BarrierTake(w) \/ BarrierAbort(w) \/ BarrierSleep(w)
<1>1. /\ call[w].op \in {"none", "popBarrier", "inBarrier", "pushVector"}
      /\ status[w] \in {"idle", "awake", "sleeping"}
      /\ status[w] = "idle" <=> call[w].op = "none"
  BY Zenon DEF WInv, WorkerOK
<1>2. ~PushFront(w) /\ ~Pop(w) /\ ~TimedOut(w) /\ ~TimedPopRange(w) /\ ~TryPop(w)
  BY <1>1 DEF PushFront, Pop, TimedOut, TimedPopRange, TryPop, Runs
<1>3. ~Peek(w) /\ ~WaitSize(w) /\ ~SetMaxSize(w) /\ ~Clear(w) /\ ~AssignCopy(w) /\ ~AssignStore(w)
  BY <1>1 DEF Peek, WaitSize, SetMaxSize, Clear, AssignCopy, AssignStore, Runs
<1> QED
  BY <1>2, <1>3, Zenon DEF Step

\* A step of a worker inside of a call.
LEMMA AdvanceStep ==
    ASSUME WInv, NEW w \in Threads, Advance(w)
    PROVE  StepOK
<1>1. CASE Sleep(w)
  <2>1. status[w] = "awake" /\ status' = [status EXCEPT ![w] = "sleeping"]
    BY <1>1, Zenon DEF Sleep
  <2>2. UNCHANGED <<queue, call, got, height, waiting>>
    BY <1>1 DEF Sleep
  <2>3. status'[w] = "sleeping" /\ got[w] = <<>> /\ consumed \in Seq(WValues)
    BY <2>1 DEF WInv, Shape, WorkerOK
  <2>4. consumed \o <<>> = consumed /\ status'[w] # "idle"
    BY <2>3
  <2>5. UNCHANGED <<todo, consumed, aborted>>
    BY <2>2, <2>3, <2>4 DEF Advance
  <2> QED
    BY <2>1, <2>2, <2>5, QuietStep, Zenon
<1> QED
  BY <1>1, WorkersSteps, PushStep, TakeStep, AbortStep, BarrierSleepStep, Zenon DEF Advance

\* Every step keeps the parts of the invariant.
LEMMA WStep ==
    ASSUME WInv, [WNext]_wvars
    PROVE  StepOK
<1>1. ASSUME NEW w \in Threads, SpuriousWakeup(w), UNCHANGED <<todo, consumed, aborted>>
      PROVE  StepOK
  BY <1>1, QuietStep, Zenon DEF SpuriousWakeup
<1>2. ASSUME UNCHANGED wvars PROVE StepOK
  <2>1. UNCHANGED <<queue, call, got, status, height, waiting, todo, consumed, aborted>>
    BY <1>2 DEF wvars, vars
  <2>2. Shape' /\ Counts'
    BY <2>1 DEF WInv, Shape, Counts, Group
  <2>3. Accounted'
    BY <2>1 DEF WInv, Accounted, Known, Carries
  <2>4. Done'
    BY <2>1 DEF WInv, Done, AbortOnlyWhenDone
  <2>5. \A u \in Threads : WorkerOK(u)'
    BY <2>1 DEF WInv, WorkerOK
  <2>6. Grows
    BY <2>1, SameGrows DEF WInv, Passed
  <2> QED
    BY <2>2, <2>3, <2>4, <2>5, <2>6, Zenon DEF StepOK
<1> QED
  BY <1>1, <1>2, PushItemsStep, EnterStep, AdvanceStep, Zenon DEF WNext

\* The inductive invariant is one.
THEOREM WInvariance == WSpec => []WInv
<1>1. WInit => WInv
  BY WInitInv, Zenon
<1>2. WInv /\ [WNext]_wvars => WInv'
  <2> SUFFICES ASSUME WInv, [WNext]_wvars PROVE WInv'
    OBVIOUS
  <2>1. StepOK
    BY WStep, Zenon
  <2>2. VectorsStayTogether'
    BY <2>1, GrowsTogether, Zenon DEF WInv, StepOK
  <2> QED
    BY <2>1, <2>2, Zenon DEF WInv, StepOK
<1> QED
  BY <1>1, <1>2, PTL DEF WSpec

\* push( vector ) is atomic: the items of a vector are neighbours in the queue.
THEOREM VectorsStayTogetherHolds == WSpec => []VectorsStayTogether
<1>1. WInv => VectorsStayTogether
  BY Zenon DEF WInv
<1> QED
  BY <1>1, WInvariance, PTL

\* popBarrier() returns false to a worker only when all items are processed.
THEOREM AbortOnlyWhenDoneHolds == WSpec => []AbortOnlyWhenDone
<1>1. WInv => AbortOnlyWhenDone
  BY Zenon DEF WInv, Done
<1> QED
  BY <1>1, WInvariance, PTL

\* No step loses, repeats or reorders what has entered the queue.
THEOREM FifoOrderHolds == WSpec => FifoOrder
<1>1. WInv /\ [WNext]_wvars => [Extends]_wvars
  <2> SUFFICES ASSUME WInv, [WNext]_wvars PROVE Extends
    OBVIOUS
  <2> QED
    BY WStep, GrowsExtends, Zenon DEF WInv, StepOK
<1> QED
  BY <1>1, WInvariance, PTL DEF WSpec, FifoOrder

===============================================================================
