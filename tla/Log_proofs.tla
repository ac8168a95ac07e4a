------------------------------- MODULE Log_proofs -----------------------------
(***************************************************************************)
(* Proofs about the log: what the steps of the threads keep.  The module   *)
(* Thread_proofs uses them for the log and the threads together.           *)
(***************************************************************************)
EXTENDS Log, TLAPS

(***************************************************************************)
(* The steps a thread has left to do say what it will still do to its Log  *)
(* and to the streams, so the invariant is about their order: the text is  *)
(* written first, a Log is deleted after a sync(), and a file is deleted   *)
(* after the Log of the main thread.                                       *)
(*                                                                         *)
(* In the lemmas m is the thread that redirects the log, X are the threads *)
(* that may have ended in the middle of a write, and A those that may have *)
(* left their Log behind.                                                  *)
(***************************************************************************)
Ops == {"instance", "line", "sync", "write", "unlock", "exit", "delete", "file", "stream",
        "count", "mismatch"}
StepRecs == [op : Ops, arg : Files \cup {Console, NoFile}]

\* Only the main thread does these.
MainOps == {"file", "stream", "count", "mismatch"}

Logs == [out : Files \cup {Console, Dangling, NoFile}, text : Nat, blocked : Nat, owed : Nat]

LogTypes ==
    /\ stream \in Files \cup {Console, Dangling}
    /\ file \in Files \cup {NoFile}
    /\ log \in [LogThreads -> Logs]
    /\ \A x \in LogThreads : log[x].out = NoFile => log[x] = NoLog
    /\ steps \in [LogThreads -> Seq(StepRecs)]

\* The order of the steps s.
Order(s) ==
    /\ \A i \in 1 .. Len(s) : s[i].op = "delete" => i = 1 \/ s[i - 1].op \in {"sync", "unlock"}
    /\ \A i \in 1 .. Len(s) : s[i].op = "file" => i = 1 \/ s[i - 1].op \in {"exit", "delete"}
    /\ \A i \in 1 .. Len(s) : s[i].op = "file" /\ s[i].arg = NoFile =>
            i < Len(s) /\ s[i + 1] = With("stream", Console)
    /\ \A i, j \in 1 .. Len(s) : s[i].op = "file" /\ s[j].op = "file" => i = j

\* What the first of the steps of x relies on.
FirstOK(x) ==
    steps[x] # <<>> =>
        /\ Doing(x, "delete") => log[x].text = 0 \/ log[x].blocked > 0
        /\ Doing(x, "file") => log[x] = NoLog

\* No text is being written, or all but the u - 1 last pieces have been.
NoFlush(s) == \A i \in 1 .. Len(s) : s[i].op \notin {"write", "unlock"}
FlushTo(s, u) ==
    /\ s[u].op = "unlock"
    /\ \A i \in 1 .. u - 1 : s[i].op = "write"
    /\ \A i \in u + 1 .. Len(s) : s[i].op \notin {"write", "unlock"}

\* Who writes has the lock, and what is owed are the pieces it has left.
Flushes(x, u, X) ==
    /\ FlushTo(steps[x], u)
    /\ writeLock = {x}
    /\ u - 1 <= log[x].text
    /\ u - 1 < log[x].text => last = <<x, log[x].text - (u - 1)>>
    /\ x \notin X => log[x].owed = u - 1

Rests(x, X) == NoFlush(steps[x]) /\ (x \notin X => log[x].text = log[x].owed)

FlushOK(x, X) == Rests(x, X) \/ \E u \in 1 .. Len(steps[x]) : Flushes(x, u, X)

\* A new file is not the old one, and the output is the new one before the old
\* one is deleted.
FileOK(m) ==
    LET s == steps[m]
    IN  \A i \in 1 .. Len(s) : s[i].op = "file" /\ s[i].arg # NoFile =>
            /\ s[i].arg # file
            /\ \A j \in 1 .. Len(s) : s[j].op = "stream" => s[j].arg = s[i].arg /\ j < i
            /\ stream = s[i].arg \/ \E j \in 1 .. Len(s) : s[j].op = "stream"

\* The output is a stream, and what is deleted a file.
ArgsOK(m) ==
    \A i \in 1 .. Len(steps[m]) :
        /\ steps[m][i].op = "stream" => steps[m][i].arg # NoFile
        /\ steps[m][i].op = "file" => steps[m][i].arg # Console

\* The output is deleted only within reset().
StreamOK(m) == stream = Dangling => steps[m] # <<>> /\ Head(steps[m]) = With("stream", Console)

\* The main thread redirects the log.
Redirecting(m) == \E i \in 1 .. Len(steps[m]) : steps[m][i].op \in MainOps \cup {"exit"}

\* What holds of every thread, and of the main thread.
ThreadOK(x, m, X, A) ==
    /\ Order(steps[x])
    /\ FirstOK(x)
    /\ FlushOK(x, X)
    /\ x # m => \A i \in 1 .. Len(steps[x]) : steps[x][i].op \notin MainOps
    /\ x \notin A => log[x].out # Dangling

MainOK(m) == FileOK(m) /\ ArgsOK(m) /\ StreamOK(m)

\* The invariant of the log.
LogOK(m, X, A) ==
    /\ LogTypes
    /\ \A x \in LogThreads : ThreadOK(x, m, X, A)
    /\ MainOK(m)
    /\ broken \subseteq X

\* What the application takes care of: nobody uses the log while the main
\* thread redirects it.
Quiet(m, A) ==
    steps[m] # <<>> /\ Head(steps[m]).op \in MainOps =>
        \A y \in LogThreads \ (A \cup {m}) : log[y] = NoLog /\ steps[y] = <<>>

\* A step of x leaves the others where they are, and does not begin to redirect.
Keeps(x, m) ==
    /\ \A y \in LogThreads \ {x} : steps'[y] = steps[y] /\ (log[y] = NoLog => log'[y] = NoLog)
    /\ Redirecting(m)' => Redirecting(m)

-------------------------------------------------------------------------------
\* The steps r are w followed by those of s without the first.
Follows(r, w, s) ==
    /\ r \in Seq(StepRecs)
    /\ Len(r) = Len(w) + Len(s) - 1
    /\ \A i \in 1 .. Len(w) : r[i] = w[i]
    /\ \A i \in Len(w) + 1 .. Len(r) : r[i] = s[i - Len(w) + 1]

\* What a thread continues with.
LEMMA Moved ==
    ASSUME NEW s \in Seq(StepRecs), s # <<>>, NEW w \in Seq(StepRecs)
    PROVE  /\ Follows(w \o Tail(s), w, s)
           /\ Len(s) \in Nat /\ Len(s) >= 1 /\ Head(s) = s[1]
           /\ \A i \in 1 .. Len(s) : s[i] \in StepRecs
<1>1. /\ Len(s) \in Nat /\ Len(s) >= 1 /\ Head(s) = s[1]
      /\ \A i \in 1 .. Len(s) : s[i] \in StepRecs
  OBVIOUS
<1>2. /\ Tail(s) \in Seq(StepRecs) /\ Len(Tail(s)) = Len(s) - 1
      /\ \A i \in 1 .. Len(s) - 1 : Tail(s)[i] = s[i + 1]
  OBVIOUS
<1>3. PICK v \in Seq(StepRecs) : v = Tail(s)
  BY <1>2, Zenon
<1>4. /\ w \o v \in Seq(StepRecs) /\ Len(w \o v) = Len(w) + Len(v)
      /\ \A i \in 1 .. Len(w) + Len(v) :
            (w \o v)[i] = IF i <= Len(w) THEN w[i] ELSE v[i - Len(w)]
  OBVIOUS
<1> QED
  BY <1>1, <1>2, <1>3, <1>4 DEF Follows

\* Two sequences of steps, one after the other.
LEMMA Joined ==
    ASSUME NEW p \in Seq(StepRecs), NEW q \in Seq(StepRecs)
    PROVE  /\ p \o q \in Seq(StepRecs) /\ Len(p \o q) = Len(p) + Len(q)
           /\ \A i \in 1 .. Len(p) : (p \o q)[i] = p[i]
           /\ \A i \in Len(p) + 1 .. Len(p) + Len(q) : (p \o q)[i] = q[i - Len(p)]
OBVIOUS

\* The steps a call starts with.
Fresh(r) ==
    /\ r \in Seq(StepRecs)
    /\ Order(r)
    /\ NoFlush(r)
    /\ \A i \in 1 .. Len(r) : i = 1 => r[i].op \notin {"delete", "file"}

\* Those that any thread may do.
Common(r) == \A i \in 1 .. Len(r) : r[i].op \notin MainOps \cup {"exit"}

\* The calls of every thread.
LEMMA CommonCalls ==
    /\ Fresh(Line) /\ Common(Line)
    /\ Fresh(DeleteLog) /\ Common(DeleteLog)
    /\ Fresh(<<Do("instance")>>) /\ Common(<<Do("instance")>>)
    /\ Fresh(<<>>) /\ Common(<<>>)
<1>1. Fresh(Line) /\ Common(Line)
  BY DEF Line, Do, With, Fresh, Order, NoFlush, Common, MainOps, StepRecs, Ops
<1>2. Fresh(DeleteLog) /\ Common(DeleteLog)
  BY DEF DeleteLog, Do, With, Fresh, Order, NoFlush, Common, MainOps, StepRecs, Ops
<1>3. Fresh(<<Do("instance")>>) /\ Common(<<Do("instance")>>)
  BY DEF Do, With, Fresh, Order, NoFlush, Common, MainOps, StepRecs, Ops
<1>4. Fresh(<<>>) /\ Common(<<>>)
  BY DEF Fresh, Order, NoFlush, Common
<1> QED
  BY <1>1, <1>2, <1>3, <1>4

\* exit() of a child.
LEMMA FlushCall ==
    Fresh(<<Do("sync"), Do("exit")>>) /\ \A i \in 1 .. 2 : <<Do("sync"), Do("exit")>>[i].op \notin MainOps
BY DEF Do, With, Fresh, Order, NoFlush, MainOps, StepRecs, Ops

\* setOutput() without a file, reset(), and init().
LEMMA ResetCalls ==
    /\ Fresh(<<With("stream", Console), Do("exit")>>)
    /\ Fresh(Reset)
    /\ Fresh(<<Do("count")>>)
<1>1. Fresh(<<With("stream", Console), Do("exit")>>)
  BY DEF Do, With, Fresh, Order, NoFlush, StepRecs, Ops
<1>2. Fresh(Reset)
  BY DEF Reset, Do, With, Fresh, Order, NoFlush, StepRecs, Ops
<1>3. Fresh(<<Do("count")>>)
  BY DEF Do, With, Fresh, Order, NoFlush, StepRecs, Ops
<1> QED
  BY <1>1, <1>2, <1>3

-------------------------------------------------------------------------------
\* Where the steps of r come from, and where those of s go.
Comes(r, w, s, i) ==
    \/ i \in 1 .. Len(w) /\ r[i] = w[i]
    \/ \E k \in 2 .. Len(s) : i = k + Len(w) - 1 /\ r[i] = s[k]
Goes(r, w, s, k) == k + Len(w) - 1 \in 1 .. Len(r) /\ r[k + Len(w) - 1] = s[k]

LEMMA Positions ==
    ASSUME NEW r, NEW w, NEW s, Follows(r, w, s), Len(w) \in Nat, Len(s) \in Nat, Len(s) >= 1
    PROVE  (\A i \in 1 .. Len(r) : Comes(r, w, s, i)) /\ (\A k \in 2 .. Len(s) : Goes(r, w, s, k))
<1>1. Len(r) = Len(w) + Len(s) - 1
  BY DEF Follows
<1>2. ASSUME NEW i \in 1 .. Len(r), i > Len(w)
      PROVE  \E k \in 2 .. Len(s) : i = k + Len(w) - 1 /\ r[i] = s[k]
  <2>1. i \in Len(w) + 1 .. Len(r) /\ i - Len(w) + 1 \in 2 .. Len(s)
        /\ i = (i - Len(w) + 1) + Len(w) - 1
    BY <1>1, <1>2
  <2>2. r[i] = s[i - Len(w) + 1]
    BY <2>1 DEF Follows
  <2> QED
    BY <2>1, <2>2
<1>3. ASSUME NEW i \in 1 .. Len(r), i <= Len(w)
      PROVE  i \in 1 .. Len(w) /\ r[i] = w[i]
  BY <1>1, <1>3 DEF Follows
<1>4. ASSUME NEW k \in 2 .. Len(s)
      PROVE  k + Len(w) - 1 \in 1 .. Len(r) /\ r[k + Len(w) - 1] = s[k]
  <2>1. /\ k + Len(w) - 1 \in Len(w) + 1 .. Len(r) /\ k + Len(w) - 1 \in 1 .. Len(r)
        /\ (k + Len(w) - 1) - Len(w) + 1 = k
    BY <1>1
  <2>2. r[k + Len(w) - 1] = s[(k + Len(w) - 1) - Len(w) + 1]
    BY <2>1, Zenon DEF Follows
  <2> QED
    BY <2>1, <2>2
<1>5. ASSUME NEW i \in 1 .. Len(r)
      PROVE  Comes(r, w, s, i)
  <2>1. i <= Len(w) \/ i > Len(w)
    BY <1>1
  <2> QED
    BY <1>2, <1>3, <2>1, Zenon DEF Comes
<1> QED
  BY <1>4, <1>5, Zenon DEF Goes

\* The order is kept when the first step is replaced by steps that end as it.
LEMMA OrderFollows ==
    ASSUME NEW s \in Seq(StepRecs), s # <<>>, Order(s), NEW w \in Seq(StepRecs),
           NEW r, Follows(r, w, s),
           \A i \in 1 .. Len(w) :
              w[i].op # "file" /\ (w[i].op = "delete" => i = 1 \/ w[i - 1].op \in {"sync", "unlock"}),
           Len(w) > 0 => /\ s[1].op \in {"sync", "unlock"} => w[Len(w)].op \in {"sync", "unlock"}
                         /\ s[1].op \in {"exit", "delete"} => w[Len(w)].op \in {"exit", "delete"}
    PROVE  Order(r)
<1>1. Len(s) \in Nat /\ Len(s) >= 1 /\ Len(w) \in Nat /\ Len(r) = Len(w) + Len(s) - 1
  BY DEF Follows
<1>2. ASSUME NEW i \in 1 .. Len(r), i > Len(w)
      PROVE  /\ i - Len(w) + 1 \in 2 .. Len(s) /\ r[i] = s[i - Len(w) + 1]
             /\ i > Len(w) + 1 => r[i - 1] = s[i - Len(w)]
             /\ i = Len(w) + 1 /\ i > 1 => r[i - 1] = w[Len(w)]
             /\ i < Len(r) => r[i + 1] = s[i - Len(w) + 2]
             /\ i - Len(w) + 1 \in 1 .. Len(s) /\ i - Len(w) + 1 # 1
             /\ (i - Len(w) + 1) - 1 = i - Len(w) /\ (i - Len(w) + 1) + 1 = i - Len(w) + 2
  <2>1. i \in Len(w) + 1 .. Len(r)
    BY <1>1, <1>2
  <2>2. i > Len(w) + 1 => i - 1 \in Len(w) + 1 .. Len(r) /\ (i - 1) - Len(w) + 1 = i - Len(w)
    BY <1>1, <1>2
  <2>3. i = Len(w) + 1 /\ i > 1 => i - 1 \in 1 .. Len(w) /\ i - 1 = Len(w)
    BY <1>1, <1>2
  <2>4. i < Len(r) => i + 1 \in Len(w) + 1 .. Len(r) /\ (i + 1) - Len(w) + 1 = i - Len(w) + 2
    BY <1>1, <1>2
  <2>5. /\ i - Len(w) + 1 \in 2 .. Len(s) /\ i - Len(w) + 1 \in 1 .. Len(s) /\ i - Len(w) + 1 # 1
        /\ (i - Len(w) + 1) - 1 = i - Len(w) /\ (i - Len(w) + 1) + 1 = i - Len(w) + 2
    BY <1>1, <1>2
  <2> QED
    BY <1>1, <1>2, <2>1, <2>2, <2>3, <2>4, <2>5 DEF Follows
<1>3. ASSUME NEW i \in 1 .. Len(r), i <= Len(w)
      PROVE  r[i] = w[i] /\ (i > 1 => r[i - 1] = w[i - 1])
  <2>1. i \in 1 .. Len(w) /\ (i > 1 => i - 1 \in 1 .. Len(w))
    BY <1>1, <1>3
  <2> QED
    BY <2>1 DEF Follows
<1>0. ASSUME NEW i \in 1 .. Len(r), r[i].op = "file" PROVE i > Len(w)
  BY <1>1, <1>3, <1>0
<1>4. ASSUME NEW i \in 1 .. Len(r), r[i].op = "delete"
      PROVE  i = 1 \/ r[i - 1].op \in {"sync", "unlock"}
  <2>1. CASE i <= Len(w)
    BY <2>1, <1>1, <1>3, <1>4
  <2>2. CASE i > Len(w)
    <3>1. s[i - Len(w)].op \in {"sync", "unlock"}
      <4>1. s[(i - Len(w) + 1) - 1].op \in {"sync", "unlock"}
        BY <2>2, <1>2, <1>4, Zenon DEF Order
      <4> QED
        BY <2>2, <1>2, <4>1
    <3>2. CASE i = Len(w) + 1
      <4>1. s[1].op \in {"sync", "unlock"}
        BY <3>1, <3>2, <1>1
      <4> QED
        BY <2>2, <3>2, <4>1, <1>1, <1>2
    <3>3. CASE i > Len(w) + 1
      BY <2>2, <3>1, <3>3, <1>1, <1>2
    <3> QED
      BY <2>2, <3>2, <3>3, <1>1
  <2> QED
    BY <1>1, <2>1, <2>2
<1>5. ASSUME NEW i \in 1 .. Len(r), r[i].op = "file"
      PROVE  i = 1 \/ r[i - 1].op \in {"exit", "delete"}
  <2>1. i > Len(w)
    BY <1>0, <1>5, Zenon
  <2>2. s[i - Len(w)].op \in {"exit", "delete"}
    <3>1. s[(i - Len(w) + 1) - 1].op \in {"exit", "delete"}
      BY <2>1, <1>2, <1>5, Zenon DEF Order
    <3> QED
      BY <2>1, <1>2, <3>1
  <2>3. CASE i = Len(w) + 1
    <3>1. s[1].op \in {"exit", "delete"}
      BY <2>2, <2>3, <1>1
    <3> QED
      BY <2>1, <2>3, <3>1, <1>1, <1>2
  <2>4. CASE i > Len(w) + 1
    BY <2>1, <2>2, <2>4, <1>1, <1>2
  <2> QED
    BY <2>1, <2>3, <2>4, <1>1
<1>6. ASSUME NEW i \in 1 .. Len(r), r[i].op = "file", r[i].arg = NoFile
      PROVE  i < Len(r) /\ r[i + 1] = With("stream", Console)
  <2>1. i > Len(w)
    BY <1>0, <1>6, Zenon
  <2>2. i - Len(w) + 1 < Len(s) /\ s[i - Len(w) + 2] = With("stream", Console)
    <3>1. i - Len(w) + 1 < Len(s) /\ s[(i - Len(w) + 1) + 1] = With("stream", Console)
      BY <2>1, <1>2, <1>6, Zenon DEF Order
    <3> QED
      BY <2>1, <1>2, <3>1
  <2> QED
    BY <2>1, <2>2, <1>1, <1>2
<1>7. ASSUME NEW i \in 1 .. Len(r), NEW j \in 1 .. Len(r), r[i].op = "file", r[j].op = "file"
      PROVE  i = j
  <2>1. i > Len(w) /\ j > Len(w)
    BY <1>0, <1>7, Zenon
  <2>2. PICK k, l \in 2 .. Len(s) : k = i - Len(w) + 1 /\ l = j - Len(w) + 1
    BY <2>1, <1>2, Zenon
  <2>3. s[k].op = "file" /\ s[l].op = "file"
    BY <2>1, <2>2, <1>2, <1>7, Zenon
  <2>4. k = l
    BY <2>3, <1>1 DEF Order
  <2> QED
    BY <2>2, <2>4, <1>1
<1> QED
  BY <1>4, <1>5, <1>6, <1>7 DEF Order

\* A thread whose steps and Log are left alone, apart from the stream, when it
\* is not the one that writes or nobody else does.
LEMMA ThreadStays ==
    ASSUME NEW y \in LogThreads, NEW X, Order(steps[y]), FirstOK(y), FlushOK(y, X),
           log[y] \in Logs, log'[y] \in Logs,
           steps'[y] = steps[y], log[y] = NoLog => log'[y] = NoLog,
           log'[y].text = log[y].text, log'[y].blocked = log[y].blocked, log'[y].owed = log[y].owed,
           writeLock = {y} => writeLock' = writeLock /\ last' = last
    PROVE  Order(steps[y])' /\ FirstOK(y)' /\ FlushOK(y, X)'
<1>1. Order(steps[y])' /\ FirstOK(y)'
  BY DEF FirstOK, Doing, LogIdle
<1>2. Rests(y, X) => Rests(y, X)'
  BY DEF Rests
<1>3. ASSUME NEW u \in 1 .. Len(steps[y]), Flushes(y, u, X)
      PROVE  Flushes(y, u, X)'
  BY <1>3 DEF Flushes
<1> QED
  BY <1>1, <1>2, <1>3 DEF FlushOK

\* The main thread and the streams.
LEMMA MainStays ==
    ASSUME NEW m, MainOK(m), steps'[m] = steps[m], UNCHANGED <<stream, file>>
    PROVE  MainOK(m)'
BY DEF MainOK, FileOK, ArgsOK, StreamOK

\* What a step of a thread leaves to be shown: that this thread is good.
LEMMA OneMoves ==
    ASSUME NEW m \in LogThreads, NEW X, NEW A, LogOK(m, X, A),
           NEW x \in LogThreads, NEW r \in Seq(StepRecs), NEW l \in Logs,
           l.out = NoFile => l = NoLog,
           steps' = [steps EXCEPT ![x] = r], log' = [log EXCEPT ![x] = l],
           stream' \in Files \cup {Console, Dangling}, file' \in Files \cup {NoFile},
           x # m => UNCHANGED <<stream, file>>, broken' \subseteq X,
           \A y \in LogThreads \ {x} : writeLock = {y} => writeLock' = writeLock /\ last' = last,
           ThreadOK(x, m, X, A)', x = m => MainOK(m)'
    PROVE  LogOK(m, X, A)'
<1>1. LogTypes'
  BY DEF LogOK, LogTypes
<1>2. ASSUME NEW y \in LogThreads, y # x
      PROVE  ThreadOK(y, m, X, A)'
  <2>1. steps'[y] = steps[y] /\ log'[y] = log[y] /\ log[y] \in Logs
    BY <1>2 DEF LogOK, LogTypes
  <2>2. ThreadOK(y, m, X, A)
    BY DEF LogOK
  <2>3. Order(steps[y])' /\ FirstOK(y)' /\ FlushOK(y, X)'
    BY <1>2, <2>1, <2>2, ThreadStays DEF ThreadOK
  <2> QED
    BY <2>1, <2>2, <2>3 DEF ThreadOK
<1>3. MainOK(m)'
  <2>1. x # m => steps'[m] = steps[m]
    BY DEF LogOK, LogTypes
  <2> QED
    BY <2>1, MainStays DEF LogOK
<1> QED
  BY <1>1, <1>2, <1>3 DEF LogOK

\* Steps that go in front of the others: what sync(), exit() and init() add.
Prefix(w, first) ==
    /\ w \in Seq(StepRecs)
    /\ \A i \in 1 .. Len(w) :
          /\ w[i].op \notin MainOps \cup {"exit"}
          /\ w[i].op = "delete" => i = 1 \/ w[i - 1].op \in {"sync", "unlock"}
    /\ Len(w) > 0 => /\ first \in {"sync", "unlock"} => w[Len(w)].op \in {"sync", "unlock"}
                     /\ first \in {"exit", "delete"} => w[Len(w)].op \in {"exit", "delete"}

\* The steps that are left of a call of thread x, in front of them w.
LEMMA StepsLeft ==
    ASSUME NEW m \in LogThreads, NEW X, NEW A, LogOK(m, X, A),
           NEW x \in LogThreads, steps[x] # <<>>, NEW w, Prefix(w, Head(steps[x]).op)
    PROVE  /\ Follows(w \o Tail(steps[x]), w, steps[x])
           /\ w \o Tail(steps[x]) \in Seq(StepRecs)
           /\ Order(w \o Tail(steps[x]))
           /\ Order(steps[x])
           /\ Len(steps[x]) \in Nat /\ Len(steps[x]) >= 1 /\ Head(steps[x]) = steps[x][1]
           /\ Len(w) \in Nat
<1>1. steps[x] \in Seq(StepRecs) /\ Order(steps[x]) /\ w \in Seq(StepRecs)
  BY DEF LogOK, LogTypes, ThreadOK, Prefix
<1>2. PICK s \in Seq(StepRecs) : s = steps[x]
  BY <1>1
<1>3. /\ Follows(w \o Tail(s), w, s)
      /\ Len(s) \in Nat /\ Len(s) >= 1 /\ Head(s) = s[1]
  BY <1>1, <1>2, Moved
<1>4. PICK r : r = w \o Tail(s)
  BY Zenon
<1>5. Prefix(w, s[1].op)
  BY <1>2, <1>3
<1>6. /\ \A i \in 1 .. Len(w) :
           w[i].op # "file" /\ (w[i].op = "delete" => i = 1 \/ w[i - 1].op \in {"sync", "unlock"})
      /\ Len(w) > 0 => /\ s[1].op \in {"sync", "unlock"} => w[Len(w)].op \in {"sync", "unlock"}
                       /\ s[1].op \in {"exit", "delete"} => w[Len(w)].op \in {"exit", "delete"}
  BY <1>5 DEF Prefix, MainOps
<1>7. Order(r) /\ Follows(r, w, s)
  BY <1>1, <1>2, <1>3, <1>4, <1>6, OrderFollows
<1>8. Len(w) \in Nat /\ r \in Seq(StepRecs)
  BY <1>1, <1>7 DEF Follows
<1> QED
  BY <1>1, <1>2, <1>3, <1>4, <1>7, <1>8

\* A thread other than the main thread has only such steps to do.
LEMMA OtherMovesOn ==
    ASSUME NEW m \in LogThreads, NEW X, NEW A, LogOK(m, X, A),
           NEW x \in LogThreads, x # m, steps[x] # <<>>, NEW w, Prefix(w, Head(steps[x]).op),
           NEW r, r = w \o Tail(steps[x]), NEW i \in 1 .. Len(r)
    PROVE  r[i].op \notin MainOps
<1>1. PICK s : s = steps[x]
  BY Zenon
<1>2. Follows(r, w, s) /\ Len(s) \in Nat /\ Len(w) \in Nat /\ Len(s) >= 1
  BY <1>1, StepsLeft
<1>3. Comes(r, w, s, i)
  BY <1>2, Positions, Zenon
<1>4. \A k \in 1 .. Len(s) : s[k].op \notin MainOps
  BY <1>1, Zenon DEF LogOK, ThreadOK
<1>5. \A k \in 1 .. Len(w) : w[k].op \notin MainOps
  BY DEF Prefix
<1>6. \A k \in 2 .. Len(s) : k \in 1 .. Len(s)
  BY <1>2
<1> QED
  BY <1>3, <1>4, <1>5, <1>6, Zenon DEF Comes

\* A step of the main thread that neither sets a stream nor deletes a file.
LEMMA MainMovesOn ==
    ASSUME NEW m \in LogThreads, NEW X, NEW A, LogOK(m, X, A),
           steps[m] # <<>>, NEW w, Prefix(w, Head(steps[m]).op),
           Head(steps[m]).op \notin {"stream", "file"},
           steps'[m] = w \o Tail(steps[m]), UNCHANGED <<stream, file>>
    PROVE  MainOK(m)' /\ (Redirecting(m)' => Redirecting(m))
<1>1. MainOK(m)
  BY DEF LogOK
<1>2. PICK s, r : s = steps[m] /\ r = w \o Tail(steps[m])
  BY Zenon
<1>3. /\ Len(s) \in Nat /\ Len(w) \in Nat /\ Len(s) >= 1
      /\ s[1].op \notin {"stream", "file"}
      /\ \A i \in 1 .. Len(r) : Comes(r, w, s, i)
      /\ \A k \in 2 .. Len(s) : Goes(r, w, s, k)
  <2>1. /\ Follows(r, w, s) /\ Len(s) \in Nat /\ Len(w) \in Nat /\ Len(s) >= 1
        /\ s[1].op \notin {"stream", "file"}
    BY <1>1, <1>2, StepsLeft
  <2> QED
    BY <2>1, Positions
<1>4. ASSUME NEW i \in 1 .. Len(r), r[i].op \in MainOps \cup {"exit"}
      PROVE  \E k \in 2 .. Len(s) : i = k + Len(w) - 1 /\ r[i] = s[k]
  <2>1. \A k \in 1 .. Len(w) : w[k].op \notin MainOps \cup {"exit"}
    BY DEF Prefix
  <2> QED
    BY <1>3, <1>4, <2>1, Zenon DEF Comes
<1>5. ASSUME NEW j \in 1 .. Len(s), s[j].op = "stream"
      PROVE  \E i \in 1 .. Len(r) : r[i].op = "stream"
  <2>1. j \in 2 .. Len(s)
    BY <1>3, <1>5
  <2> QED
    BY <2>1, <1>3, <1>5, Zenon DEF Goes
<1>6. stream # Dangling
  BY <1>1 DEF MainOK, StreamOK, With
<1>7. Redirecting(m)' => Redirecting(m)
  <2>1. ASSUME NEW i \in 1 .. Len(r), r[i].op \in MainOps \cup {"exit"}
        PROVE  \E k \in 1 .. Len(s) : s[k].op \in MainOps \cup {"exit"}
    <3>1. PICK k \in 2 .. Len(s) : r[i] = s[k]
      BY <1>4, <2>1
    <3> QED
      BY <1>3, <2>1, <3>1
  <2> QED
    BY <1>2, <2>1 DEF Redirecting
<1>8. ASSUME NEW i \in 1 .. Len(r), r[i].op = "file", r[i].arg # NoFile
      PROVE  /\ r[i].arg # file
             /\ \A j \in 1 .. Len(r) : r[j].op = "stream" => r[j].arg = r[i].arg /\ j < i
             /\ stream = r[i].arg \/ \E j \in 1 .. Len(r) : r[j].op = "stream"
  <2>1. PICK k \in 2 .. Len(s) : i = k + Len(w) - 1 /\ r[i] = s[k]
    BY <1>4, <1>8, Zenon DEF MainOps
  <2>2. /\ s[k].arg # file
        /\ \A j \in 1 .. Len(s) : s[j].op = "stream" => s[j].arg = s[k].arg /\ j < k
        /\ stream = s[k].arg \/ \E j \in 1 .. Len(s) : s[j].op = "stream"
    BY <1>1, <1>2, <1>3, <1>8, <2>1 DEF MainOK, FileOK
  <2>3. ASSUME NEW j \in 1 .. Len(r), r[j].op = "stream" PROVE r[j].arg = r[i].arg /\ j < i
    <3>1. PICK l \in 2 .. Len(s) : j = l + Len(w) - 1 /\ r[j] = s[l]
      BY <1>4, <2>3 DEF MainOps
    <3>2. s[l].arg = s[k].arg /\ l < k
      BY <1>3, <2>2, <2>3, <3>1
    <3> QED
      BY <1>3, <2>1, <3>1, <3>2
  <2> QED
    BY <1>5, <2>1, <2>2, <2>3, Zenon
<1>9. FileOK(m)'
  <2>1. stream' = stream /\ file' = file /\ steps'[m] = r
    BY <1>2
  <2> QED
    BY <1>8, <2>1, ZenonT(30) DEF FileOK
<1>10. ArgsOK(m)'
  <2>1. ASSUME NEW i \in 1 .. Len(r), r[i].op \in {"stream", "file"}
        PROVE  (r[i].op = "stream" => r[i].arg # NoFile) /\ (r[i].op = "file" => r[i].arg # Console)
    <3>1. PICK k \in 2 .. Len(s) : r[i] = s[k]
      BY <1>4, <2>1, Zenon DEF MainOps
    <3>2. k \in 1 .. Len(s)
      BY <1>3
    <3> QED
      BY <1>1, <1>2, <3>1, <3>2 DEF MainOK, ArgsOK
  <2> QED
    BY <1>2, <2>1 DEF ArgsOK
<1> QED
  BY <1>6, <1>7, <1>9, <1>10 DEF MainOK, StreamOK

\* What a step that neither sets a stream nor deletes a file leaves to be shown.
LEMMA MovesOn ==
    ASSUME NEW m \in LogThreads, NEW X, NEW A, LogOK(m, X, A), Quiet(m, A),
           NEW x \in LogThreads, steps[x] # <<>>, NEW w, Prefix(w, Head(steps[x]).op),
           Head(steps[x]).op \notin {"stream", "file"},
           NEW l \in Logs, l.out = NoFile => l = NoLog, l.out \in {log[x].out, stream, NoFile},
           steps' = [steps EXCEPT ![x] = w \o Tail(steps[x])], log' = [log EXCEPT ![x] = l],
           UNCHANGED <<stream, file>>, broken' \subseteq X,
           \A y \in LogThreads \ {x} : writeLock = {y} => writeLock' = writeLock /\ last' = last,
           FirstOK(x)', FlushOK(x, X)'
    PROVE  LogOK(m, X, A)' /\ Keeps(x, m)
<1>1. PICK r : r = w \o Tail(steps[x])
  BY Zenon
<1>2. r \in Seq(StepRecs) /\ Order(r)
  BY <1>1, StepsLeft
<1>3. /\ steps'[x] = r /\ log'[x] = l /\ ThreadOK(x, m, X, A)
      /\ \A y \in LogThreads \ {x} : steps'[y] = steps[y] /\ log'[y] = log[y]
  BY <1>1 DEF LogOK, LogTypes
<1>4. x # m => \A i \in 1 .. Len(r) : r[i].op \notin MainOps
  BY <1>1, OtherMovesOn, Zenon
<1>5. x = m => MainOK(m)' /\ (Redirecting(m)' => Redirecting(m))
  BY <1>1, <1>3, MainMovesOn, Zenon
<1>6. x \notin A => stream # Dangling
  <2>1. SUFFICES ASSUME x \notin A, stream = Dangling PROVE FALSE
    OBVIOUS
  <2>2. steps[m] # <<>> /\ Head(steps[m]) = With("stream", Console)
    BY <2>1 DEF LogOK, MainOK, StreamOK
  <2>3. x # m /\ Head(steps[m]).op \in MainOps
    BY <2>2 DEF With, MainOps
  <2> QED
    BY <2>1, <2>2, <2>3 DEF Quiet
<1>7. x \notin A => l.out # Dangling
  BY <1>3, <1>6 DEF ThreadOK, Dangling, NoFile
<1>8. ThreadOK(x, m, X, A)'
  BY <1>2, <1>3, <1>4, <1>7, Zenon DEF ThreadOK
<1>9. steps' = [steps EXCEPT ![x] = r]
  BY <1>1
<1>10. stream' \in Files \cup {Console, Dangling} /\ file' \in Files \cup {NoFile}
  BY DEF LogOK, LogTypes
<1>11. LogOK(m, X, A)'
  BY <1>2, <1>5, <1>8, <1>9, <1>10, OneMoves, Zenon
<1>12. Redirecting(m)' => Redirecting(m)
  BY <1>3, <1>5 DEF Redirecting
<1> QED
  BY <1>3, <1>11, <1>12, Zenon DEF Keeps

\* A thread whose next step is not one of a flush does not flush.
LEMMA Resting ==
    ASSUME NEW m \in LogThreads, NEW X, NEW A, LogOK(m, X, A),
           NEW x \in LogThreads, steps[x] # <<>>,
           Head(steps[x]).op \notin {"write", "unlock"}
    PROVE  Rests(x, X)
<1>1. PICK s \in Seq(StepRecs) : s = steps[x]
  BY DEF LogOK, LogTypes
<1>2. Len(s) \in Nat /\ Len(s) >= 1 /\ Head(s) = s[1]
  BY <1>1
<1>3. ASSUME NEW u \in 1 .. Len(s), FlushTo(s, u) PROVE s[1].op \in {"write", "unlock"}
  BY <1>2, <1>3 DEF FlushTo
<1>4. FlushOK(x, X)
  BY DEF LogOK, ThreadOK
<1> QED
  BY <1>1, <1>2, <1>3, <1>4 DEF FlushOK, Flushes

\* The steps that are left of a call that does not flush.
LEMMA NoFlushLeft ==
    ASSUME NEW r, NEW w, NEW s, Follows(r, w, s), Len(w) \in Nat, Len(s) \in Nat, Len(s) >= 1,
           NoFlush(w), \A i \in 2 .. Len(s) : s[i].op \notin {"write", "unlock"}
    PROVE  NoFlush(r)
<1>1. \A i \in 1 .. Len(r) : Comes(r, w, s, i)
  BY Positions
<1> QED
  BY <1>1, Zenon DEF Comes, NoFlush

\* When a step adds no others, the next one was the second.
LEMMA FirstLeft ==
    ASSUME NEW m \in LogThreads, NEW X, NEW A, LogOK(m, X, A),
           NEW x \in LogThreads, steps[x] # <<>>, steps'[x] = <<>> \o Tail(steps[x])
    PROVE  /\ Doing(x, "delete")' => Head(steps[x]).op \in {"sync", "unlock"}
           /\ Doing(x, "file")' => Head(steps[x]).op \in {"exit", "delete"}
<1>1. PICK s \in Seq(StepRecs) : s = steps[x]
  BY DEF LogOK, LogTypes
<1>2. Order(s)
  BY <1>1 DEF LogOK, ThreadOK
<1>3. PICK v : v = Tail(s)
  BY Zenon
<1>4. Len(s) \in Nat /\ Len(s) >= 1 /\ Head(s) = s[1]
  BY <1>1
<1>5. v # <<>> => Head(v) = s[2] /\ 2 \in 1 .. Len(s)
  BY <1>1, <1>3
<1>6. /\ 2 \in 1 .. Len(s) /\ s[2].op = "delete" => s[1].op \in {"sync", "unlock"}
      /\ 2 \in 1 .. Len(s) /\ s[2].op = "file" => s[1].op \in {"exit", "delete"}
  <2>1. /\ \A i \in 1 .. Len(s) : s[i].op = "delete" => i = 1 \/ s[i - 1].op \in {"sync", "unlock"}
        /\ \A i \in 1 .. Len(s) : s[i].op = "file" => i = 1 \/ s[i - 1].op \in {"exit", "delete"}
    BY <1>2, Zenon DEF Order
  <2>2. 2 - 1 = 1 /\ 2 # 1
    OBVIOUS
  <2> QED
    BY <2>1, <2>2, Zenon
<1>7. <<>> \o v = v
  BY <1>1, <1>3
<1>8. steps'[x] = v
  BY <1>1, <1>3, <1>7, Zenon
<1> QED
  BY <1>1, <1>4, <1>5, <1>6, <1>8, Zenon DEF Doing, LogIdle

\* Otherwise it is the first of those.
LEMMA FirstNew ==
    ASSUME NEW m \in LogThreads, NEW X, NEW A, LogOK(m, X, A),
           NEW x \in LogThreads, steps[x] # <<>>, NEW w \in Seq(StepRecs), w # <<>>,
           steps'[x] = w \o Tail(steps[x])
    PROVE  steps'[x] # <<>> /\ Head(steps'[x]) = w[1]
<1>1. PICK s \in Seq(StepRecs) : s = steps[x]
  BY DEF LogOK, LogTypes
<1>2. PICK v \in Seq(StepRecs) : v = Tail(s)
  <2>1. s # <<>>
    BY <1>1
  <2>2. Tail(s) \in Seq(StepRecs)
    BY <2>1
  <2> QED
    BY <2>2, Zenon
<1>3. w \o v # <<>> /\ Head(w \o v) = w[1]
  OBVIOUS
<1> QED
  BY <1>1, <1>2, <1>3

\* What a step puts in front.
LEMMA Prefixes ==
    /\ \A a : Prefix(<<>>, a) /\ NoFlush(<<>>)
    /\ Prefix(Line, "count") /\ NoFlush(Line) /\ Line # <<>> /\ Line[1].op = "line"
    /\ Prefix(DeleteLog, "exit") /\ NoFlush(DeleteLog) /\ DeleteLog # <<>> /\ DeleteLog[1].op = "sync"
<1>1. \A a : Prefix(<<>>, a) /\ NoFlush(<<>>)
  BY DEF Prefix, NoFlush
<1>2. Prefix(Line, "count") /\ NoFlush(Line) /\ Line # <<>> /\ Line[1].op = "line"
  BY DEF Prefix, NoFlush, Line, Do, MainOps, StepRecs, Ops
<1>3. Prefix(DeleteLog, "exit") /\ NoFlush(DeleteLog) /\ DeleteLog # <<>> /\ DeleteLog[1].op = "sync"
  BY DEF Prefix, NoFlush, DeleteLog, Do, MainOps, StepRecs, Ops
<1> QED
  BY <1>1, <1>2, <1>3, Zenon

\* A step of a thread that does not flush.
LEMMA PlainStep ==
    ASSUME NEW m \in LogThreads, NEW X, NEW A, LogOK(m, X, A), Quiet(m, A),
           NEW x \in LogThreads, steps[x] # <<>>, NEW w, Prefix(w, Head(steps[x]).op), NoFlush(w),
           Head(steps[x]).op \notin {"write", "unlock", "stream", "file"},
           NEW l \in Logs, l.out = NoFile => l = NoLog, l.out \in {log[x].out, stream, NoFile},
           log[x].text = log[x].owed => l.text = l.owed,
           steps' = [steps EXCEPT ![x] = w \o Tail(steps[x])], log' = [log EXCEPT ![x] = l],
           UNCHANGED <<stream, file, broken, writeLock, last>>, FirstOK(x)'
    PROVE  LogOK(m, X, A)' /\ Keeps(x, m)
<1>1. PICK s, r : s = steps[x] /\ r = w \o Tail(steps[x])
  BY Zenon
<1>2. Rests(x, X)
  BY Resting
<1>3. Follows(r, w, s) /\ Len(s) \in Nat /\ Len(s) >= 1 /\ Len(w) \in Nat
  BY <1>1, StepsLeft
<1>4. \A i \in 2 .. Len(s) : s[i].op \notin {"write", "unlock"}
  BY <1>1, <1>2, <1>3 DEF Rests, NoFlush
<1>5. NoFlush(r)
  BY <1>3, <1>4, NoFlushLeft
<1>6. steps'[x] = r /\ log'[x] = l
  BY <1>1 DEF LogOK, LogTypes
<1>7. FlushOK(x, X)'
  BY <1>2, <1>5, <1>6, Zenon DEF FlushOK, Rests
<1>8. broken' \subseteq X
  BY DEF LogOK
<1> QED
  BY <1>7, <1>8, MovesOn, Zenon

\* instance() and a line of text
LEMMA InstanceInv ==
    ASSUME NEW m \in LogThreads, NEW X, NEW A, LogOK(m, X, A), Quiet(m, A),
           NEW x \in LogThreads, Instance(x) \/ Put(x)
    PROVE  LogOK(m, X, A)' /\ Keeps(x, m)
<1>1. PICK k \in Logs : k = InstanceOf(x) /\ k.out \in {log[x].out, stream} /\ k.out # NoFile
                        /\ (log[x].text = log[x].owed => k.text = k.owed)
  <2>1. log[x] \in Logs /\ stream \in Files \cup {Console, Dangling} /\ (log[x].out = NoFile => log[x] = NoLog)
    BY DEF LogOK, LogTypes
  <2>2. stream # NoFile
    BY <2>1, LogAssumption DEF Console, Dangling, NoFile
  <2>3. CASE log[x] = NoLog
    <3>1. InstanceOf(x) = [out |-> stream, text |-> 0, blocked |-> 0, owed |-> 0]
      BY <2>3 DEF InstanceOf, IsNull, Get, NoLog
    <3> QED
      BY <2>1, <2>2, <3>1 DEF Logs
  <2>4. CASE log[x] # NoLog
    BY <2>1, <2>4 DEF InstanceOf, IsNull, Get
  <2> QED
    BY <2>3, <2>4
<1>2. /\ steps[x] # <<>> /\ Head(steps[x]).op \in {"instance", "line"}
      /\ steps' = [steps EXCEPT ![x] = <<>> \o Tail(steps[x])]
      /\ UNCHANGED <<stream, file, broken, writeLock, last>>
  BY DEF Instance, Put, Doing, LogIdle, Continue, history
<1>3. PICK l \in Logs : /\ log' = [log EXCEPT ![x] = l]
                        /\ l.out = k.out
                        /\ (k.text = k.owed => l.text = l.owed)
  <2>1. CASE Instance(x)
    BY <1>1, <2>1, Zenon DEF Instance
  <2>2. CASE Put(x)
    <3>1. PICK l : l = [k EXCEPT !.text = @ + 2, !.owed = @ + 2]
      BY Zenon
    <3>2. log' = [log EXCEPT ![x] = l]
      BY <1>1, <2>2, <3>1 DEF Put
    <3>3. l = [out |-> k.out, text |-> k.text + 2, blocked |-> k.blocked, owed |-> k.owed + 2]
      BY <1>1, <3>1, Zenon DEF Logs
    <3>4. l \in Logs /\ l.out = k.out /\ (k.text = k.owed => l.text = l.owed)
      BY <3>3 DEF Logs
    <3> QED
      BY <3>2, <3>4, Zenon
  <2> QED
    BY <2>1, <2>2
<1>4. steps'[x] = <<>> \o Tail(steps[x])
  BY <1>2 DEF LogOK, LogTypes
<1>5. FirstOK(x)'
  BY <1>2, <1>4, FirstLeft DEF FirstOK
<1>6. Prefix(<<>>, Head(steps[x]).op) /\ NoFlush(<<>>)
  BY Prefixes
<1> QED
  BY <1>1, <1>2, <1>3, <1>5, <1>6, PlainStep, Zenon

\* sync() while flushing is disabled
LEMMA SyncBlockedInv ==
    ASSUME NEW m \in LogThreads, NEW X, NEW A, LogOK(m, X, A), Quiet(m, A),
           NEW x \in LogThreads, Sync(x), log[x].blocked > 0
    PROVE  LogOK(m, X, A)' /\ Keeps(x, m)
<1>1. /\ steps[x] # <<>> /\ Head(steps[x]).op = "sync"
      /\ steps' = [steps EXCEPT ![x] = <<>> \o Tail(steps[x])]
      /\ UNCHANGED <<stream, file, log, broken, writeLock, last>>
      /\ log[x] \in Logs /\ (log[x].out = NoFile => log[x] = NoLog)
  BY DEF Sync, Doing, LogIdle, Continue, history, LogOK, LogTypes, Logs
<1>2. steps'[x] = <<>> \o Tail(steps[x]) /\ log' = [log EXCEPT ![x] = log[x]]
  BY <1>1 DEF LogOK, LogTypes
<1>3. FirstOK(x)'
  BY <1>1, <1>2, FirstLeft DEF FirstOK
<1>4. Prefix(<<>>, Head(steps[x]).op) /\ NoFlush(<<>>)
  BY Prefixes
<1> QED
  BY <1>1, <1>2, <1>3, <1>4, PlainStep, Zenon

\* Log::exit()
LEMMA ExitLogInv ==
    ASSUME NEW m \in LogThreads, NEW X, NEW A, LogOK(m, X, A), Quiet(m, A),
           NEW x \in LogThreads, ExitLog(x)
    PROVE  LogOK(m, X, A)' /\ Keeps(x, m)
<1>1. /\ steps[x] # <<>> /\ Head(steps[x]).op = "exit"
      /\ UNCHANGED <<stream, file, log, broken, writeLock, last>>
      /\ log[x] \in Logs /\ (log[x].out = NoFile => log[x] = NoLog)
  BY DEF ExitLog, Doing, LogIdle, history, LogOK, LogTypes
<1>2. log' = [log EXCEPT ![x] = log[x]] /\ log'[x] = log[x]
  BY <1>1 DEF LogOK, LogTypes
<1>3. CASE log[x] = NoLog
  <2>1. steps' = [steps EXCEPT ![x] = <<>> \o Tail(steps[x])]
    BY <1>3 DEF ExitLog, Continue, IsNull, Get
  <2>2. steps'[x] = <<>> \o Tail(steps[x])
    BY <2>1 DEF LogOK, LogTypes
  <2>3. FirstOK(x)'
    BY <1>1, <1>2, <1>3, <2>2, FirstLeft DEF FirstOK
  <2>4. Prefix(<<>>, Head(steps[x]).op) /\ NoFlush(<<>>)
    BY Prefixes
  <2> QED
    BY <1>1, <1>2, <2>1, <2>3, <2>4, PlainStep, Zenon
<1>4. CASE log[x] # NoLog
  <2>1. steps' = [steps EXCEPT ![x] = DeleteLog \o Tail(steps[x])]
    BY <1>4 DEF ExitLog, Continue, IsNull, Get
  <2>2. steps'[x] = DeleteLog \o Tail(steps[x])
    BY <2>1 DEF LogOK, LogTypes
  <2>3. Prefix(DeleteLog, Head(steps[x]).op) /\ NoFlush(DeleteLog)
    BY <1>1, Prefixes
  <2>4. Head(steps'[x]).op = "sync"
    BY <1>1, <2>2, <2>3, Prefixes, FirstNew DEF Prefix
  <2>5. FirstOK(x)'
    BY <2>4 DEF FirstOK, Doing, LogIdle
  <2> QED
    BY <1>1, <1>2, <2>1, <2>3, <2>5, PlainStep, Zenon
<1> QED
  BY <1>3, <1>4

\* ~Log()
LEMMA DeleteInv ==
    ASSUME NEW m \in LogThreads, NEW X, NEW A, LogOK(m, X, A), Quiet(m, A),
           NEW x \in LogThreads, Delete(x)
    PROVE  LogOK(m, X, A)' /\ Keeps(x, m)
<1>1. /\ steps[x] # <<>> /\ Head(steps[x]).op = "delete"
      /\ steps' = [steps EXCEPT ![x] = <<>> \o Tail(steps[x])]
      /\ log' = [log EXCEPT ![x] = NoLog]
      /\ UNCHANGED <<stream, file, writeLock, last>>
      /\ log[x] \in Logs
  BY DEF Delete, Doing, LogIdle, Continue, LogOK, LogTypes
<1>2. FirstOK(x)
  BY DEF LogOK, ThreadOK
<1>3. broken' = broken
  BY <1>1, <1>2 DEF FirstOK, Delete, Doing, LogIdle, Logs
<1>4. steps'[x] = <<>> \o Tail(steps[x]) /\ log'[x] = NoLog
  BY <1>1 DEF LogOK, LogTypes
<1>5. FirstOK(x)'
  BY <1>4 DEF FirstOK, NoLog
<1>6. Prefix(<<>>, Head(steps[x]).op) /\ NoFlush(<<>>)
  BY Prefixes
<1>7. NoLog \in Logs /\ NoLog.out = NoFile /\ NoLog.text = NoLog.owed
  BY DEF NoLog, Logs
<1> QED
  BY <1>1, <1>3, <1>5, <1>6, <1>7, PlainStep, Zenon

\* The counter of init() and exit()
LEMMA CountInv ==
    ASSUME NEW m \in LogThreads, NEW X, NEW A, LogOK(m, X, A), Quiet(m, A),
           NEW x \in LogThreads, CountInit(x) \/ Mismatch(x)
    PROVE  LogOK(m, X, A)' /\ Keeps(x, m)
<1>1. /\ steps[x] # <<>> /\ Head(steps[x]).op \in {"count", "mismatch"}
      /\ UNCHANGED <<stream, file, log, broken, writeLock, last>>
      /\ log[x] \in Logs /\ (log[x].out = NoFile => log[x] = NoLog)
  BY DEF CountInit, Mismatch, Doing, LogIdle, history, LogOK, LogTypes
<1>2. log' = [log EXCEPT ![x] = log[x]]
  BY <1>1 DEF LogOK, LogTypes
<1>3. CASE steps' = [steps EXCEPT ![x] = <<>> \o Tail(steps[x])]
  <2>1. steps'[x] = <<>> \o Tail(steps[x])
    BY <1>3 DEF LogOK, LogTypes
  <2>2. FirstOK(x)'
    BY <1>1, <2>1, FirstLeft DEF FirstOK
  <2>3. Prefix(<<>>, Head(steps[x]).op) /\ NoFlush(<<>>)
    BY Prefixes
  <2> QED
    BY <1>1, <1>2, <1>3, <2>2, <2>3, PlainStep, Zenon
<1>4. CASE Doing(x, "count") /\ steps' = [steps EXCEPT ![x] = Line \o Tail(steps[x])]
  <2>1. steps'[x] = Line \o Tail(steps[x]) /\ Head(steps[x]).op = "count"
    BY <1>4 DEF LogOK, LogTypes, Doing
  <2>2. Prefix(Line, Head(steps[x]).op) /\ NoFlush(Line)
    BY <2>1, Prefixes
  <2>3. Head(steps'[x]).op = "line"
    BY <1>1, <2>1, <2>2, Prefixes, FirstNew DEF Prefix
  <2>4. FirstOK(x)'
    BY <2>3 DEF FirstOK, Doing, LogIdle
  <2> QED
    BY <1>1, <1>2, <1>4, <2>2, <2>4, PlainStep, Zenon
<1> QED
  BY <1>3, <1>4, Zenon DEF CountInit, Mismatch, Continue

\* The pieces of text and the end of the flush
LEMMA TextSteps ==
    ASSUME NEW x, log[x] \in Logs
    PROVE  /\ Prefix(WriteText(x), "sync") /\ WriteText(x) # <<>>
           /\ Len(WriteText(x)) = log[x].text + 1
           /\ \A i \in 1 .. log[x].text : WriteText(x)[i].op = "write"
           /\ WriteText(x)[log[x].text + 1].op = "unlock"
           /\ WriteText(x)[1].op \in {"write", "unlock"}
<1>1. PICK n \in Nat : n = log[x].text
  BY DEF Logs
<1>2. PICK v, q : v = [i \in 1 .. n |-> Do("write")] /\ q = <<Do("unlock")>>
  BY Zenon
<1>3. Do("write") \in StepRecs /\ Do("unlock") \in StepRecs /\ Do("write").op = "write" /\ Do("unlock").op = "unlock"
  BY DEF Do, StepRecs, Ops
<1>4. v \in Seq(StepRecs) /\ Len(v) = n /\ \A i \in 1 .. n : v[i] = Do("write")
  BY <1>2, <1>3
<1>5. q \in Seq(StepRecs) /\ Len(q) = 1 /\ q[1] = Do("unlock")
  BY <1>2, <1>3
<1>6. PICK w : w = v \o q
  BY Zenon
<1>7. /\ w \in Seq(StepRecs) /\ Len(w) = n + 1
      /\ \A i \in 1 .. n : w[i] = Do("write")
      /\ w[n + 1] = Do("unlock")
  <2>1. /\ w \in Seq(StepRecs) /\ Len(w) = Len(v) + Len(q)
        /\ \A i \in 1 .. Len(v) : w[i] = v[i]
        /\ \A i \in Len(v) + 1 .. Len(v) + Len(q) : w[i] = q[i - Len(v)]
    BY <1>4, <1>5, <1>6, Joined, Zenon
  <2>2. n + 1 \in Len(v) + 1 .. Len(v) + Len(q) /\ (n + 1) - Len(v) = 1
    BY <1>4, <1>5
  <2>3. w[n + 1] = q[1]
    BY <2>1, <2>2, Zenon
  <2> QED
    BY <1>4, <1>5, <2>1, <2>3
<1>8. \A i \in 1 .. Len(w) : w[i].op \in {"write", "unlock"}
  BY <1>3, <1>7
<1>9. w[Len(w)].op = "unlock"
  BY <1>3, <1>7
<1>10. Prefix(w, "sync")
  BY <1>7, <1>8, <1>9 DEF Prefix, MainOps
<1>11. w = WriteText(x)
  BY <1>1, <1>2, <1>6, Zenon DEF WriteText
<1>12. w # <<>> /\ w[1].op \in {"write", "unlock"}
  BY <1>7, <1>8
<1>13. (\A i \in 1 .. n : w[i].op = "write") /\ w[n + 1].op = "unlock"
  BY <1>3, <1>7
<1> QED
  BY <1>1, <1>7, <1>10, <1>11, <1>12, <1>13, Zenon

\* sync() sets the lock.
LEMMA SyncFlushInv ==
    ASSUME NEW m \in LogThreads, NEW X, NEW A, LogOK(m, X, A), Quiet(m, A),
           NEW x \in LogThreads, Sync(x), log[x].blocked = 0
    PROVE  LogOK(m, X, A)' /\ Keeps(x, m)
<1>1. /\ steps[x] # <<>> /\ Head(steps[x]).op = "sync"
      /\ steps' = [steps EXCEPT ![x] = WriteText(x) \o Tail(steps[x])]
      /\ UNCHANGED <<stream, file, log, broken, last>>
      /\ writeLock = {} /\ writeLock' = {x}
      /\ log[x] \in Logs /\ (log[x].out = NoFile => log[x] = NoLog)
  BY SMTT(30) DEF Sync, Doing, LogIdle, Continue, history, LogOK, LogTypes, Logs
<1>2. PICK w, s, r : w = WriteText(x) /\ s = steps[x] /\ r = w \o Tail(s)
  BY Zenon
<1>3. PICK n \in Nat : n = log[x].text
  BY <1>1 DEF Logs
<1>4. /\ Prefix(w, "sync") /\ w # <<>> /\ Len(w) = n + 1
      /\ \A i \in 1 .. n : w[i].op = "write"
      /\ w[n + 1].op = "unlock" /\ w[1].op \in {"write", "unlock"}
  BY <1>1, <1>2, <1>3, TextSteps, Zenon
<1>5. Follows(r, w, s) /\ Len(s) \in Nat /\ Len(s) >= 1
  BY <1>1, <1>2, <1>4, StepsLeft, Zenon
<1>6. Rests(x, X)
  BY <1>1, Resting
<1>7. steps'[x] = r /\ log' = [log EXCEPT ![x] = log[x]] /\ log'[x] = log[x]
  BY <1>1, <1>2 DEF LogOK, LogTypes
<1>8. FlushTo(r, n + 1) /\ n + 1 \in 1 .. Len(r)
  <2>1. \A k \in 2 .. Len(s) : s[k].op \notin {"write", "unlock"}
    BY <1>2, <1>5, <1>6 DEF Rests, NoFlush
  <2>2. /\ Len(r) = Len(w) + Len(s) - 1
        /\ \A i \in 1 .. Len(w) : r[i] = w[i]
    BY <1>5 DEF Follows
  <2>3. ASSUME NEW i \in n + 2 .. Len(r) PROVE r[i].op \notin {"write", "unlock"}
    <3>1. i \in 1 .. Len(r) /\ i \notin 1 .. Len(w)
      BY <1>4
    <3>2. Comes(r, w, s, i)
      BY <1>4, <1>5, <3>1, Positions
    <3> QED
      BY <2>1, <3>1, <3>2, Zenon DEF Comes
  <2>4. /\ n + 1 \in 1 .. Len(w) /\ n + 1 \in 1 .. Len(r)
        /\ \A i \in 1 .. n : i \in 1 .. Len(w)
        /\ (n + 1) - 1 = n /\ (n + 1) + 1 = n + 2
    <3>1. Len(w) = n + 1 /\ Len(s) \in Nat /\ Len(s) >= 1 /\ Len(r) = n + 1 + Len(s) - 1
      BY <1>4, <1>5, <2>2
    <3> QED
      BY <3>1
  <2>5. r[n + 1].op = "unlock" /\ \A i \in 1 .. n : r[i].op = "write"
    BY <1>4, <2>2, <2>4, Zenon
  <2>6. /\ \A i \in 1 .. (n + 1) - 1 : r[i].op = "write"
        /\ \A i \in (n + 1) + 1 .. Len(r) : r[i].op \notin {"write", "unlock"}
    BY <2>3, <2>4, <2>5
  <2> QED
    BY <2>4, <2>5, <2>6 DEF FlushTo
<1>9. FlushOK(x, X)'
  <2>1. x \notin X => log[x].owed = n
    BY <1>3, <1>6 DEF Rests
  <2>2. FlushTo(steps'[x], n + 1) /\ writeLock' = {x}
    BY <1>1, <1>7, <1>8, Zenon
  <2>3. (n + 1) - 1 = n /\ n <= n /\ ~(n < n)
    OBVIOUS
  <2>4. log'[x].text = n /\ (x \notin X => log'[x].owed = n)
    BY <1>3, <1>7, <2>1
  <2>5. Flushes(x, n + 1, X)'
    BY <2>2, <2>3, <2>4, Zenon DEF Flushes
  <2> QED
    BY <1>7, <1>8, <2>5 DEF FlushOK
<1>10. FirstOK(x)'
  <2>1. Head(steps'[x]).op \in {"write", "unlock"}
    BY <1>1, <1>2, <1>4, <1>7, FirstNew DEF Prefix
  <2> QED
    BY <2>1 DEF FirstOK, Doing, LogIdle
<1>11. broken' \subseteq X
  BY <1>1 DEF LogOK
<1>12. Prefix(w, Head(steps[x]).op) /\ steps' = [steps EXCEPT ![x] = w \o Tail(steps[x])]
       /\ \A y \in LogThreads \ {x} : writeLock # {y}
  BY <1>1, <1>2, <1>4
<1> QED
  BY <1>1, <1>7, <1>9, <1>10, <1>11, <1>12, MovesOn, Zenon

\* A thread whose next step is one of a flush.
LEMMA Flushing1 ==
    ASSUME NEW m \in LogThreads, NEW X, NEW A, LogOK(m, X, A),
           NEW x \in LogThreads, steps[x] # <<>>, Head(steps[x]).op \in {"write", "unlock"}
    PROVE  \E u \in 1 .. Len(steps[x]) : /\ Flushes(x, u, X)
                                         /\ Head(steps[x]).op = "write" => u >= 2
                                         /\ Head(steps[x]).op = "unlock" => u = 1
<1>1. PICK s \in Seq(StepRecs) : s = steps[x]
  BY DEF LogOK, LogTypes
<1>2. Len(s) \in Nat /\ Len(s) >= 1 /\ Head(s) = s[1] /\ 1 \in 1 .. Len(s)
  BY <1>1
<1>3. ~NoFlush(s)
  BY <1>1, <1>2 DEF NoFlush
<1>4. PICK u \in 1 .. Len(s) : Flushes(x, u, X)
  <2>1. FlushOK(x, X)
    BY DEF LogOK, ThreadOK
  <2> QED
    BY <1>1, <1>3, <2>1 DEF FlushOK, Rests
<1>5. s[u].op = "unlock" /\ \A i \in 1 .. u - 1 : s[i].op = "write"
  BY <1>1, <1>4, Zenon DEF Flushes, FlushTo
<1>6. (u = 1 => s[1].op = "unlock") /\ (u >= 2 => s[1].op = "write") /\ (u = 1 \/ u >= 2)
  BY <1>2, <1>5
<1> QED
  BY <1>1, <1>2, <1>4, <1>6

\* The steps of a flush after its first one.
LEMMA FlushLeft ==
    ASSUME NEW s, NEW r, Follows(r, <<>>, s), Len(s) \in Nat, Len(s) >= 1,
           NEW u \in 1 .. Len(s), FlushTo(s, u)
    PROVE  /\ u >= 2 => u - 1 \in 1 .. Len(r) /\ FlushTo(r, u - 1)
           /\ u = 1 => NoFlush(r)
<1>1. /\ Len(r) = Len(s) - 1
      /\ \A i \in 1 .. Len(r) : r[i] = s[i + 1]
  <2>1. Len(<<>>) = 0
    OBVIOUS
  <2> QED
    BY <2>1 DEF Follows
<1>2. /\ s[u].op = "unlock"
      /\ \A i \in 1 .. u - 1 : s[i].op = "write"
      /\ \A i \in u + 1 .. Len(s) : s[i].op \notin {"write", "unlock"}
  BY DEF FlushTo
<1>3. ASSUME u >= 2 PROVE u - 1 \in 1 .. Len(r) /\ FlushTo(r, u - 1)
  <2>1. u - 1 \in 1 .. Len(r) /\ (u - 1) + 1 = u
    BY <1>1, <1>3
  <2>2. r[u - 1].op = "unlock"
    BY <1>1, <1>2, <2>1
  <2>3. ASSUME NEW i \in 1 .. (u - 1) - 1 PROVE r[i].op = "write"
    <3>1. i \in 1 .. Len(r) /\ i + 1 \in 1 .. u - 1
      BY <2>1
    <3> QED
      BY <1>1, <1>2, <3>1
  <2>4. ASSUME NEW i \in (u - 1) + 1 .. Len(r) PROVE r[i].op \notin {"write", "unlock"}
    <3>1. i \in 1 .. Len(r) /\ i + 1 \in u + 1 .. Len(s)
      BY <1>1, <2>1
    <3> QED
      BY <1>1, <1>2, <3>1
  <2> QED
    BY <2>1, <2>2, <2>3, <2>4, Zenon DEF FlushTo
<1>4. ASSUME u = 1 PROVE NoFlush(r)
  <2>1. ASSUME NEW i \in 1 .. Len(r) PROVE r[i].op \notin {"write", "unlock"}
    <3>1. i + 1 \in u + 1 .. Len(s)
      BY <1>1, <1>4
    <3> QED
      BY <1>1, <1>2, <3>1
  <2> QED
    BY <2>1, Zenon DEF NoFlush
<1> QED
  BY <1>3, <1>4

\* The end of a flush.
LEMMA FlushEnd ==
    ASSUME NEW s \in Seq(StepRecs), NEW u \in 1 .. Len(s), FlushTo(s, u),
           NEW v \in DOMAIN s, s[v].op = "unlock"
    PROVE  v = u
<1>1. v \in 1 .. Len(s) /\ Len(s) \in Nat
  OBVIOUS
<1>2. (v < u => v \in 1 .. u - 1) /\ (v > u => v \in u + 1 .. Len(s))
  BY <1>1
<1>3. ~(v < u) /\ ~(v > u)
  BY <1>2 DEF FlushTo
<1> QED
  BY <1>1, <1>3

\* Another thread does not write.
LEMMA OneWriter ==
    ASSUME NEW x, writeLock = {x} PROVE \A y \in LogThreads \ {x} : writeLock # {y}
OBVIOUS

\* A piece of text is written.
LEMMA WriteInv ==
    ASSUME NEW m \in LogThreads, NEW X, NEW A, LogOK(m, X, A), Quiet(m, A),
           NEW x \in LogThreads, Write(x)
    PROVE  /\ LogOK(m, X, A)' /\ Keeps(x, m)
           /\ \E u \in 2 .. Len(steps[x]) :
                 /\ last' = <<x, log[x].text + 1 - (u - 1)>>
                 /\ u - 1 <= log[x].text
                 /\ u - 1 < log[x].text => last = <<x, log[x].text - (u - 1)>>
<1>1. /\ steps[x] # <<>> /\ Head(steps[x]).op = "write"
      /\ steps' = [steps EXCEPT ![x] = <<>> \o Tail(steps[x])]
      /\ UNCHANGED <<stream, file, writeLock>>
      /\ log[x] \in Logs /\ (log[x].out = NoFile => log[x] = NoLog)
  BY DEF Write, Doing, LogIdle, Continue, LogOK, LogTypes
<1>2. PICK s, r : s \in Seq(StepRecs) /\ s = steps[x] /\ r = <<>> \o Tail(s)
  BY Zenon DEF LogOK, LogTypes
<1>3. PICK u \in 1 .. Len(s) : Flushes(x, u, X) /\ u >= 2
  BY <1>1, <1>2, Flushing1
<1>4. /\ FlushTo(s, u) /\ writeLock = {x}
      /\ u - 1 <= log[x].text
      /\ u - 1 < log[x].text => last = <<x, log[x].text - (u - 1)>>
      /\ x \notin X => log[x].owed = u - 1
  BY <1>2, <1>3 DEF Flushes
<1>5. last' = <<x, log[x].text + 1 - (u - 1)>>
  <2>1. PICK v \in DOMAIN steps[x] : steps[x][v].op = "unlock" /\ last' = <<x, log[x].text + 2 - v>>
    BY Zenon DEF Write
  <2>2. v = u
    BY <1>2, <1>4, <2>1, FlushEnd, Zenon
  <2>3. log[x].text + 2 - u = log[x].text + 1 - (u - 1)
    BY <1>1 DEF Logs
  <2> QED
    BY <2>1, <2>2, <2>3, Zenon
<1>6. PICK l \in Logs : /\ log' = [log EXCEPT ![x] = l]
                        /\ l.out = log[x].out /\ l.text = log[x].text
                        /\ l.out = NoFile => l = NoLog
                        /\ x \notin X => l.owed = u - 2
                        /\ broken' \subseteq X
  <2>1. broken \subseteq X
    BY DEF LogOK
  <2>2. CASE log[x].owed > 0 /\ log' = [log EXCEPT ![x].owed = @ - 1] /\ broken' = broken
    <3>1. PICK l : l = [out |-> log[x].out, text |-> log[x].text, blocked |-> log[x].blocked, owed |-> log[x].owed - 1]
      BY Zenon
    <3>2. [log[x] EXCEPT !.owed = @ - 1] = l
      <4>1. log[x] \in Logs
        BY <1>1
      <4> QED
        BY <3>1, <4>1 DEF Logs
    <3>3. log' = [log EXCEPT ![x] = l]
      BY <2>2, <3>2, Zenon
    <3>4. l \in Logs /\ l.out = log[x].out /\ l.text = log[x].text /\ (x \notin X => l.owed = u - 2)
      BY <1>1, <1>4, <2>2, <3>1 DEF Logs
    <3>5. log[x].out # NoFile
      BY <1>1, <2>2 DEF NoLog
    <3> QED
      BY <2>1, <2>2, <3>3, <3>4, <3>5, Zenon
  <2>3. CASE log[x].owed = 0 /\ broken' = broken \cup {x} /\ log' = log
    <3>1. x \in X
      BY <1>3, <1>4, <2>3
    <3>2. log' = [log EXCEPT ![x] = log[x]]
      BY <2>3 DEF LogOK, LogTypes
    <3>3. broken' \subseteq X
      BY <2>1, <2>3, <3>1
    <3> QED
      BY <1>1, <3>1, <3>2, <3>3, Zenon
  <2> QED
    BY <2>2, <2>3 DEF Write
<1>7. Follows(r, <<>>, s) /\ Len(s) \in Nat /\ Len(s) >= 1 /\ Prefix(<<>>, Head(steps[x]).op)
  BY <1>1, <1>2, Prefixes, StepsLeft, Zenon
<1>8. steps'[x] = r /\ log'[x] = l
  BY <1>1, <1>2, <1>6 DEF LogOK, LogTypes
<1>9. FlushOK(x, X)'
  <2>1. u - 1 \in 1 .. Len(r) /\ FlushTo(r, u - 1)
    BY <1>3, <1>4, <1>7, FlushLeft
  <2>2. /\ (u - 1) - 1 = u - 2 /\ (u - 1) - 1 <= log[x].text
        /\ log[x].text + 1 - (u - 1) = log[x].text - ((u - 1) - 1)
    <3>1. log[x].text \in Nat /\ u \in Nat /\ u >= 2 /\ u - 1 <= log[x].text
      <4>1. log[x].text \in Nat
        BY <1>1 DEF Logs
      <4> QED
        BY <1>3, <1>4, <1>7, <4>1
    <3> QED
      BY <3>1
  <2>3. Flushes(x, u - 1, X)'
    BY <1>1, <1>4, <1>5, <1>6, <1>8, <2>1, <2>2, Zenon DEF Flushes
  <2> QED
    BY <1>8, <2>1, <2>3, ZenonT(30) DEF FlushOK
<1>10. FirstOK(x)'
  BY <1>1, <1>2, <1>8, FirstLeft DEF FirstOK
<1>11. LogOK(m, X, A)' /\ Keeps(x, m)
  BY <1>1, <1>2, <1>4, <1>6, <1>7, <1>9, <1>10, OneWriter, MovesOn, Zenon
<1> QED
  BY <1>2, <1>3, <1>4, <1>5, <1>7, <1>11

\* The flush ends.
LEMMA UnlockInv ==
    ASSUME NEW m \in LogThreads, NEW X, NEW A, LogOK(m, X, A), Quiet(m, A),
           NEW x \in LogThreads, Unlock(x)
    PROVE  LogOK(m, X, A)' /\ Keeps(x, m)
<1>1. /\ steps[x] # <<>> /\ Head(steps[x]).op = "unlock"
      /\ steps' = [steps EXCEPT ![x] = <<>> \o Tail(steps[x])]
      /\ UNCHANGED <<stream, file, broken>>
      /\ log[x] \in Logs /\ (log[x].out = NoFile => log[x] = NoLog)
  BY DEF Unlock, Doing, LogIdle, Continue, LogOK, LogTypes
<1>2. PICK s, r : s \in Seq(StepRecs) /\ s = steps[x] /\ r = <<>> \o Tail(s)
  BY Zenon DEF LogOK, LogTypes
<1>3. PICK u \in 1 .. Len(s) : Flushes(x, u, X) /\ u = 1
  BY <1>1, <1>2, Flushing1
<1>4. FlushTo(s, u) /\ writeLock = {x} /\ (x \notin X => log[x].owed = 0)
  BY <1>2, <1>3 DEF Flushes
<1>5. PICK l : l = [out |-> log[x].out, text |-> 0, blocked |-> log[x].blocked, owed |-> log[x].owed]
  BY Zenon
<1>6. [log[x] EXCEPT !.text = 0] = l
  BY <1>1, <1>5 DEF Logs
<1>7. log' = [log EXCEPT ![x] = l]
  BY <1>6, Zenon DEF Unlock
<1>8. /\ l \in Logs /\ l.out = log[x].out /\ (l.out = NoFile => l = NoLog)
      /\ l.text = 0 /\ l.owed = log[x].owed
  BY <1>1, <1>5 DEF Logs, NoLog
<1>9. Follows(r, <<>>, s) /\ Len(s) \in Nat /\ Len(s) >= 1 /\ Prefix(<<>>, Head(steps[x]).op)
  BY <1>1, <1>2, Prefixes, StepsLeft, Zenon
<1>10. steps'[x] = r /\ log'[x] = l
  BY <1>1, <1>2, <1>7 DEF LogOK, LogTypes
<1>11. FlushOK(x, X)'
  <2>1. NoFlush(r)
    BY <1>3, <1>4, <1>9, FlushLeft
  <2> QED
    BY <1>4, <1>8, <1>10, <2>1, Zenon DEF FlushOK, Rests
<1>12. FirstOK(x)'
  BY <1>1, <1>2, <1>8, <1>10, FirstLeft DEF FirstOK
<1>13. broken' \subseteq X
  BY <1>1 DEF LogOK
<1> QED
  BY <1>1, <1>2, <1>4, <1>7, <1>8, <1>9, <1>11, <1>12, <1>13, OneWriter, MovesOn, Zenon

\* What a step that only the main thread does relies on.
LEMMA MainAlone ==
    ASSUME NEW m \in LogThreads, NEW X, NEW A, LogOK(m, X, A), Quiet(m, A),
           NEW x \in LogThreads, steps[x] # <<>>, Head(steps[x]).op \in MainOps
    PROVE  x = m /\ \A y \in LogThreads \ (A \cup {m}) : log[y] = NoLog
<1>1. PICK s \in Seq(StepRecs) : s = steps[x]
  BY DEF LogOK, LogTypes
<1>2. 1 \in 1 .. Len(s) /\ Head(s) = s[1]
  BY <1>1
<1>3. x = m
  BY <1>1, <1>2 DEF LogOK, ThreadOK
<1> QED
  BY <1>3 DEF Quiet

\* The main thread, with its first step done.
LEMMA MainSecond ==
    ASSUME NEW s \in Seq(StepRecs), s # <<>>, NEW r, r = <<>> \o Tail(s)
    PROVE  /\ r \in Seq(StepRecs) /\ Len(s) \in Nat /\ Len(s) >= 1 /\ Len(r) = Len(s) - 1
           /\ \A i \in 1 .. Len(r) : r[i] = s[i + 1] /\ i + 1 \in 1 .. Len(s)
           /\ Head(s) = s[1]
<1>1. Len(s) \in Nat /\ Len(s) >= 1 /\ Tail(s) \in Seq(StepRecs) /\ Len(Tail(s)) = Len(s) - 1
      /\ \A i \in 1 .. Len(s) - 1 : Tail(s)[i] = s[i + 1]
  OBVIOUS
<1>2. PICK v \in Seq(StepRecs) : v = Tail(s)
  BY <1>1, Zenon
<1>3. r = v
  BY <1>2
<1> QED
  BY <1>1, <1>2, <1>3

\* setOutput() sets the output.
LEMMA SetStreamInv ==
    ASSUME NEW m \in LogThreads, NEW X, NEW A, LogOK(m, X, A), Quiet(m, A),
           NEW x \in LogThreads, SetStream(x)
    PROVE  LogOK(m, X, A)' /\ Keeps(x, m)
<1>1. /\ steps[x] # <<>> /\ Head(steps[x]).op = "stream" /\ stream' = Head(steps[x]).arg
      /\ steps' = [steps EXCEPT ![x] = <<>> \o Tail(steps[x])]
      /\ UNCHANGED <<file, log, broken, writeLock, last>>
      /\ log[x] \in Logs /\ (log[x].out = NoFile => log[x] = NoLog)
  BY DEF SetStream, Doing, LogIdle, Continue, Argument, LogOK, LogTypes, history
<1>2. x = m
  BY <1>1, MainAlone DEF MainOps
<1>3. PICK s, r : s \in Seq(StepRecs) /\ s = steps[x] /\ r = <<>> \o Tail(s)
  BY Zenon DEF LogOK, LogTypes
<1>4. /\ Len(s) \in Nat /\ Len(s) >= 1 /\ Head(s) = s[1]
      /\ r \in Seq(StepRecs) /\ Len(r) = Len(s) - 1
      /\ \A i \in 1 .. Len(r) : r[i] = s[i + 1] /\ i + 1 \in 1 .. Len(s)
  BY <1>1, <1>3, MainSecond
<1>5. /\ steps' = [steps EXCEPT ![x] = r] /\ steps'[x] = r
      /\ log' = [log EXCEPT ![x] = log[x]] /\ log'[x] = log[x]
  BY <1>1, <1>3 DEF LogOK, LogTypes
<1>6. Order(r) /\ Follows(r, <<>>, s)
  BY <1>1, <1>3, Prefixes, StepsLeft, Zenon
<1>7. FlushOK(x, X)'
  <2>1. Rests(x, X)
    BY <1>1, Resting
  <2>2. NoFlush(r)
    BY <1>3, <1>4, <2>1 DEF Rests, NoFlush
  <2> QED
    BY <1>5, <2>1, <2>2, Zenon DEF FlushOK, Rests
<1>8. FirstOK(x)'
  BY <1>1, <1>3, <1>5, FirstLeft DEF FirstOK
<1>9. ThreadOK(x, m, X, A)'
  <2>1. x \notin A => log[x].out # Dangling
    BY DEF LogOK, ThreadOK
  <2> QED
    BY <1>2, <1>5, <1>6, <1>7, <1>8, <2>1, Zenon DEF ThreadOK
<1>10. MainOK(m)
  BY DEF LogOK
<1>11. 1 \in 1 .. Len(s) /\ s[1] \in StepRecs /\ s[1].op = "stream" /\ stream' = s[1].arg
  BY <1>1, <1>3, <1>4
<1>12. stream' \in Files \cup {Console}
  <2>1. s[1].arg # NoFile
    BY <1>2, <1>3, <1>10, <1>11 DEF MainOK, ArgsOK
  <2> QED
    BY <1>11, <2>1 DEF StepRecs
<1>13. StreamOK(m)'
  BY <1>12, LogAssumption DEF StreamOK, Console, Dangling
<1>14. ArgsOK(m)'
  BY <1>2, <1>3, <1>4, <1>5, <1>10 DEF MainOK, ArgsOK
<1>15. FileOK(m)'
  <2>1. ASSUME NEW i \in 1 .. Len(r), r[i].op = "file", r[i].arg # NoFile
        PROVE  /\ r[i].arg # file
               /\ \A j \in 1 .. Len(r) : r[j].op = "stream" => r[j].arg = r[i].arg /\ j < i
               /\ stream' = r[i].arg
    <3>1. r[i] = s[i + 1] /\ i + 1 \in 1 .. Len(s)
      BY <1>4
    <3>2. /\ s[i + 1].arg # file
          /\ \A j \in 1 .. Len(s) : s[j].op = "stream" => s[j].arg = s[i + 1].arg /\ j < i + 1
      BY <1>2, <1>3, <1>10, <2>1, <3>1, Zenon DEF MainOK, FileOK
    <3>3. ASSUME NEW j \in 1 .. Len(r), r[j].op = "stream" PROVE r[j].arg = r[i].arg /\ j < i
      <4>1. r[j] = s[j + 1] /\ j + 1 \in 1 .. Len(s)
        BY <1>4
      <4>2. s[j + 1].arg = s[i + 1].arg /\ j + 1 < i + 1
        BY <3>2, <3>3, <4>1, Zenon
      <4> QED
        BY <3>1, <4>1, <4>2
    <3> QED
      BY <1>11, <3>1, <3>2, <3>3
  <2>2. file' = file /\ steps'[m] = r
    BY <1>1, <1>2, <1>5
  <2> QED
    BY <2>1, <2>2, Zenon DEF FileOK
<1>16. MainOK(m)'
  BY <1>13, <1>14, <1>15 DEF MainOK
<1>17. broken' \subseteq X /\ file' \in Files \cup {NoFile} /\ stream' \in Files \cup {Console, Dangling}
  BY <1>1, <1>12 DEF LogOK, LogTypes
<1>18. /\ x = m /\ r \in Seq(StepRecs) /\ log[x] \in Logs /\ (log[x].out = NoFile => log[x] = NoLog)
       /\ steps' = [steps EXCEPT ![x] = r] /\ log' = [log EXCEPT ![x] = log[x]]
       /\ \A y \in LogThreads \ {x} : writeLock = {y} => writeLock' = writeLock /\ last' = last
  BY <1>1, <1>2, <1>4, <1>5, Zenon
<1>19. Keeps(x, m)
  <2>1. Redirecting(m)
    BY <1>1, <1>2, <1>3, <1>4 DEF Redirecting, MainOps
  <2> QED
    BY <1>5, <2>1 DEF Keeps, LogOK, LogTypes
<1>20. LogOK(m, X, A)'
  BY <1>9, <1>16, <1>17, <1>18, OneMoves, Zenon
<1> QED
  BY <1>19, <1>20

\* setOutput() and reset() delete the old file.
LEMMA SetFileInv ==
    ASSUME NEW m \in LogThreads, NEW X, NEW A, LogOK(m, X, A), Quiet(m, A),
           NEW x \in LogThreads, SetFile(x)
    PROVE  LogOK(m, X, A)' /\ Keeps(x, m)
<1>1. /\ steps[x] # <<>> /\ Head(steps[x]).op = "file" /\ file' = Head(steps[x]).arg
      /\ steps' = [steps EXCEPT ![x] = <<>> \o Tail(steps[x])]
      /\ stream' = IF stream = file THEN Dangling ELSE stream
      /\ UNCHANGED <<broken, writeLock, last>>
  BY DEF SetFile, Doing, LogIdle, Continue, Argument, history
<1>2. x = m /\ \A y \in LogThreads \ (A \cup {m}) : log[y] = NoLog
  BY <1>1, MainAlone DEF MainOps
<1>3. PICK s, r : s \in Seq(StepRecs) /\ s = steps[x] /\ r = <<>> \o Tail(s)
  BY Zenon DEF LogOK, LogTypes
<1>4. /\ Len(s) \in Nat /\ Len(s) >= 1 /\ Head(s) = s[1]
      /\ r \in Seq(StepRecs) /\ Len(r) = Len(s) - 1
      /\ \A i \in 1 .. Len(r) : r[i] = s[i + 1] /\ i + 1 \in 1 .. Len(s)
      /\ 2 \in 1 .. Len(s) => r # <<>> /\ Head(r) = s[2]
  <2>1. s # <<>>
    BY <1>1, <1>3
  <2>2. /\ Len(s) \in Nat /\ Len(s) >= 1 /\ Head(s) = s[1]
        /\ r \in Seq(StepRecs) /\ Len(r) = Len(s) - 1
        /\ \A i \in 1 .. Len(r) : r[i] = s[i + 1] /\ i + 1 \in 1 .. Len(s)
    BY <1>3, <2>1, MainSecond
  <2>3. 2 \in 1 .. Len(s) => r # <<>> /\ Head(r) = s[2]
    BY <2>2
  <2> QED
    BY <2>2, <2>3, Zenon
<1>5. /\ steps'[x] = r /\ steps' \in [LogThreads -> Seq(StepRecs)]
      /\ \A y \in LogThreads : y # x => steps'[y] = steps[y]
  BY <1>1, <1>3, <1>4 DEF LogOK, LogTypes
<1>6. ASSUME NEW y \in LogThreads
      PROVE  /\ log[y] \in Logs /\ log'[y] \in Logs
             /\ log'[y].text = log[y].text /\ log'[y].blocked = log[y].blocked /\ log'[y].owed = log[y].owed
             /\ log[y] = NoLog => log'[y] = NoLog
             /\ log'[y].out = NoFile => log'[y] = NoLog
  <2>1. log[y] \in Logs /\ (log[y].out = NoFile => log[y] = NoLog)
    BY DEF LogOK, LogTypes
  <2>2. log'[y] = IF file # NoFile /\ log[y].out = file THEN [log[y] EXCEPT !.out = Dangling] ELSE log[y]
    BY LogAssumption, SMTT(30) DEF SetFile
  <2>3. CASE file # NoFile /\ log[y].out = file
    <3>1. log'[y] = [out |-> Dangling, text |-> log[y].text, blocked |-> log[y].blocked, owed |-> log[y].owed]
      BY <2>1, <2>2, <2>3 DEF Logs
    <3>2. log[y] # NoLog
      BY <2>3 DEF NoLog
    <3> QED
      BY <2>1, <3>1, <3>2, LogAssumption DEF Logs, Dangling, NoFile
  <2>4. CASE ~(file # NoFile /\ log[y].out = file)
    BY <2>1, <2>2, <2>4
  <2> QED
    BY <2>3, <2>4
<1>7. MainOK(m) /\ s[1] \in StepRecs /\ s[1].op = "file" /\ file' = s[1].arg /\ 1 \in 1 .. Len(s)
  BY <1>1, <1>3, <1>4 DEF LogOK
<1>8. LogTypes'
  <2>1. log' \in [LogThreads -> Logs]
    BY <1>6, LogAssumption DEF SetFile
  <2>2. file' \in Files \cup {NoFile}
    BY <1>2, <1>3, <1>7 DEF StepRecs, MainOK, ArgsOK
  <2>3. stream' \in Files \cup {Console, Dangling}
    BY <1>1 DEF LogOK, LogTypes
  <2> QED
    BY <1>5, <1>6, <2>1, <2>2, <2>3 DEF LogTypes
<1>9. ASSUME NEW y \in LogThreads, y # x PROVE ThreadOK(y, m, X, A)'
  <2>1. ThreadOK(y, m, X, A)
    BY SMTT(30) DEF LogOK
  <2>2. Order(steps[y])' /\ FirstOK(y)' /\ FlushOK(y, X)'
    BY <1>1, <1>5, <1>6, <1>9, <2>1, ThreadStays DEF ThreadOK
  <2>3. y \notin A => log'[y].out # Dangling
    BY <1>2, <1>6, <1>9 DEF NoLog, NoFile, Dangling
  <2> QED
    BY <1>5, <1>9, <2>1, <2>2, <2>3, Zenon DEF ThreadOK
<1>10. ThreadOK(x, m, X, A)'
  <2>1. Rests(x, X) /\ Order(r) /\ FirstOK(x)
    BY <1>1, <1>3, Resting, Prefixes, StepsLeft, Zenon DEF LogOK, ThreadOK
  <2>2. NoFlush(r)
    BY <1>3, <1>4, <2>1, SMTT(30) DEF Rests, NoFlush
  <2>3. FlushOK(x, X)'
    BY <1>5, <1>6, <2>1, <2>2, Zenon DEF FlushOK, Rests
  <2>4. FirstOK(x)'
    BY <1>1, <1>3, <1>5, FirstLeft DEF FirstOK
  <2>5. log'[x].out # Dangling
    BY <1>1, <1>6, <2>1 DEF FirstOK, Doing, LogIdle, NoLog, NoFile, Dangling
  <2> QED
    BY <1>2, <1>5, <2>1, <2>3, <2>4, <2>5, Zenon DEF ThreadOK
<1>11. \A i \in 1 .. Len(r) : r[i].op # "file"
  <2>1. ASSUME NEW i \in 1 .. Len(r), r[i].op = "file" PROVE FALSE
    <3>1. \A j, k \in 1 .. Len(s) : s[j].op = "file" /\ s[k].op = "file" => j = k
      <4>1. Order(s)
        BY <1>3, Zenon DEF LogOK, ThreadOK
      <4> QED
        BY <4>1, Zenon DEF Order
    <3>2. i + 1 \in 1 .. Len(s) /\ s[i + 1].op = "file"
      BY <1>4, <2>1
    <3>3. i + 1 = 1
      BY <1>7, <3>1, <3>2, Zenon
    <3> QED
      BY <3>3
  <2> QED
    BY <2>1
<1>12. FileOK(m)'
  BY <1>2, <1>5, <1>11, ZenonT(30) DEF FileOK
<1>13. ArgsOK(m)'
  BY <1>2, <1>3, <1>4, <1>5, <1>7 DEF MainOK, ArgsOK
<1>14. StreamOK(m)'
  <2>1. stream # Dangling
    BY <1>1, <1>2, <1>7 DEF MainOK, StreamOK, With
  <2>2. CASE s[1].arg = NoFile
    <3>1. 1 < Len(s) /\ s[1 + 1] = With("stream", Console)
      BY <1>3, <1>7, <2>2, Zenon DEF LogOK, ThreadOK, Order
    <3>2. 2 \in 1 .. Len(s) /\ s[2] = With("stream", Console)
      BY <1>4, <3>1
    <3> QED
      BY <1>2, <1>4, <1>5, <3>2 DEF StreamOK
  <2>3. CASE s[1].arg # NoFile
    <3>1. /\ s[1].arg # file
          /\ \A j \in 1 .. Len(s) : s[j].op = "stream" => j < 1
          /\ stream = s[1].arg \/ \E j \in 1 .. Len(s) : s[j].op = "stream"
      BY <1>2, <1>3, <1>7, <2>3, Zenon DEF MainOK, FileOK
    <3>2. \A j \in 1 .. Len(s) : ~(j < 1)
      BY <1>4
    <3>3. stream # file
      BY <3>1, <3>2
    <3> QED
      BY <1>1, <2>1, <3>3 DEF StreamOK
  <2> QED
    BY <2>2, <2>3
<1>15. MainOK(m)'
  BY <1>12, <1>13, <1>14 DEF MainOK
<1>16. broken' \subseteq X
  BY <1>1 DEF LogOK
<1>17. Keeps(x, m)
  <2>1. Redirecting(m)
    BY <1>1, <1>2, <1>3, <1>4 DEF Redirecting, MainOps
  <2> QED
    BY <1>5, <1>6, <2>1 DEF Keeps
<1>18. LogOK(m, X, A)'
  BY <1>8, <1>9, <1>10, <1>15, <1>16, ZenonT(30) DEF LogOK
<1> QED
  BY <1>17, <1>18

\* Every step of a thread in a call of the log.
LEMMA LogStepInv ==
    ASSUME NEW m \in LogThreads, NEW X, NEW A, LogOK(m, X, A), Quiet(m, A),
           NEW x \in LogThreads, LogStep(x)
    PROVE  LogOK(m, X, A)' /\ Keeps(x, m)
<1>1. CASE Sync(x)
  <2>1. log[x].blocked = 0 \/ log[x].blocked > 0
    BY <1>1 DEF Sync
  <2> QED
    BY <1>1, <2>1, SyncBlockedInv, SyncFlushInv
<1> QED
  BY <1>1, InstanceInv, WriteInv, UnlockInv, ExitLogInv, DeleteInv, SetStreamInv, SetFileInv, CountInv, ZenonT(30)
     DEF LogStep

-------------------------------------------------------------------------------
\* What the steps of the main thread do with streams and files.
MainCall(r) ==
    \A i \in 1 .. Len(r) :
        /\ r[i].op = "stream" => r[i].arg # NoFile
        /\ r[i].op = "file" => r[i].arg # Console
        /\ r[i].op = "file" /\ r[i].arg # NoFile =>
              /\ r[i].arg # file
              /\ \A j \in 1 .. Len(r) : r[j].op = "stream" => r[j].arg = r[i].arg /\ j < i
              /\ \E j \in 1 .. Len(r) : r[j].op = "stream"

\* A thread begins a call, or none does, while more threads may have ended.
LEMMA CallInv ==
    ASSUME NEW m \in LogThreads, NEW X, NEW A, NEW Y, NEW B, LogOK(m, X, A), X \subseteq Y, A \subseteq B,
           NEW x \in LogThreads, NEW r, steps' = [steps EXCEPT ![x] = r],
           r = steps[x] \/ (steps[x] = <<>> /\ Fresh(r)),
           r = steps[x] \/ (IF x = m THEN MainCall(r) ELSE \A i \in 1 .. Len(r) : r[i].op \notin MainOps),
           UNCHANGED <<stream, file, log, broken, last, writeLock>>
    PROVE  LogOK(m, Y, B)'
<1>1. broken' \subseteq Y
  BY DEF LogOK
<1>2. r \in Seq(StepRecs) /\ steps'[x] = r /\ LogTypes'
  BY SMTT(30) DEF LogOK, LogTypes, Fresh
<1>3. ASSUME NEW y \in LogThreads, steps'[y] = steps[y]
      PROVE  Order(steps[y])' /\ FirstOK(y)' /\ FlushOK(y, X)'
  <2>1. log[y] \in Logs /\ ThreadOK(y, m, X, A)
    BY DEF LogOK, LogTypes
  <2> QED
    BY <1>3, <2>1, ThreadStays DEF ThreadOK
<1>4. ASSUME steps[x] = <<>>, Fresh(r)
      PROVE  Order(steps[x])' /\ FirstOK(x)' /\ FlushOK(x, X)'
  <2>1. Rests(x, X)
    <3>1. FlushOK(x, X) /\ Len(steps[x]) = 0
      BY <1>4, SMTT(30) DEF LogOK, ThreadOK
    <3> QED
      BY <3>1 DEF FlushOK
  <2>2. FlushOK(x, X)'
    BY <1>2, <1>4, <2>1 DEF FlushOK, Rests, Fresh
  <2>3. r # <<>> => Head(r) = r[1] /\ 1 \in 1 .. Len(r)
    BY <1>2
  <2>4. FirstOK(x)'
    BY <1>2, <1>4, <2>3, SMTT(30) DEF FirstOK, Doing, LogIdle, Fresh
  <2> QED
    BY <1>2, <1>4, <2>2, <2>4 DEF Fresh
<1>5. ASSUME NEW y \in LogThreads PROVE ThreadOK(y, m, Y, B)'
  <2>1. Order(steps[y])' /\ FirstOK(y)' /\ FlushOK(y, X)'
    <3>1. CASE y = x
      BY <1>2, <1>3, <1>4, <3>1
    <3>2. CASE y # x
      BY <1>3, <3>2, SMTT(30) DEF LogOK, LogTypes
    <3> QED
      BY <3>1, <3>2
  <2>2. FlushOK(y, Y)'
    <3>1. Rests(y, X)' => Rests(y, Y)'
      BY DEF Rests
    <3>2. \A u : Flushes(y, u, X)' => Flushes(y, u, Y)'
      BY SMTT(30) DEF Flushes
    <3> QED
      BY <2>1, <3>1, <3>2 DEF FlushOK
  <2>3. ThreadOK(y, m, X, A) /\ log' = log
    BY SMTT(30) DEF LogOK
  <2>4. y # m => \A i \in 1 .. Len(steps'[y]) : steps'[y][i].op \notin MainOps
    <3>1. y # x => steps'[y] = steps[y]
      BY DEF LogOK, LogTypes
    <3> QED
      BY <1>2, <2>3, <3>1 DEF ThreadOK
  <2> QED
    BY <2>1, <2>2, <2>3, <2>4, SMTT(30) DEF ThreadOK
<1>6. MainOK(m)'
  <2>1. CASE steps'[m] = steps[m]
    BY <2>1, MainStays DEF LogOK
  <2>2. CASE x = m /\ steps[x] = <<>> /\ MainCall(r)
    <3>1. stream # Dangling
      BY <2>2 DEF LogOK, MainOK, StreamOK
    <3>2. StreamOK(m)'
      BY <3>1 DEF StreamOK
    <3>3. steps'[m] = r /\ file' = file
      BY <1>2, <2>2, SMTT(30)
    <3>4. FileOK(m)' /\ ArgsOK(m)'
      BY <2>2, <3>3, SMTT(30) DEF FileOK, ArgsOK, MainCall
    <3> QED
      BY <3>2, <3>4, SMTT(30) DEF MainOK
  <2> QED
    BY <1>2, <2>1, <2>2, SMTT(30) DEF LogOK, LogTypes
<1> QED
  BY <1>1, <1>2, <1>5, <1>6 DEF LogOK

\* Nobody does anything.
LEMMA LogStays ==
    ASSUME NEW m \in LogThreads, NEW X, NEW A, LogOK(m, X, A),
           UNCHANGED <<stream, file, log, broken, last, writeLock, steps>>
    PROVE  LogOK(m, X, A)'
<1>1. PICK r : r = steps[m]
  BY Zenon
<1>2. steps' = [steps EXCEPT ![m] = r]
  BY <1>1 DEF LogOK, LogTypes
<1> QED
  BY <1>1, <1>2, CallInv, Zenon

\* os << disableFlush, os << enableFlush
LEMMA BlockedInv ==
    ASSUME NEW m \in LogThreads, NEW X, NEW A, LogOK(m, X, A),
           NEW x \in LogThreads, x # m, NEW b \in {0, 1}, SetBlocked(x, b)
    PROVE  LogOK(m, X, A)' /\ steps' = steps /\ \A y \in LogThreads : y # x => log'[y] = log[y]
<1>1. /\ steps[x] = <<>> /\ log[x] # NoLog /\ log[x] \in Logs /\ log[x].out # NoFile
      /\ UNCHANGED <<stream, file, broken, last, writeLock, steps>>
  BY DEF SetBlocked, LogIdle, IsNull, Get, LogOK, LogTypes, history
<1>2. PICK l : l = [out |-> log[x].out, text |-> log[x].text, blocked |-> b, owed |-> log[x].owed]
  BY Zenon
<1>3. [log[x] EXCEPT !.blocked = b] = l
  BY <1>1, <1>2 DEF Logs
<1>4. log' = [log EXCEPT ![x] = l]
  BY <1>3, Zenon DEF SetBlocked
<1>5. l \in Logs /\ l.out = log[x].out /\ l.out # NoFile /\ l.text = log[x].text /\ l.owed = log[x].owed
  BY <1>1, <1>2 DEF Logs
<1>6. /\ steps'[x] = <<>> /\ log'[x] = l /\ steps' = [steps EXCEPT ![x] = <<>>]
      /\ \A y \in LogThreads : y # x => log'[y] = log[y]
  BY <1>1, <1>4 DEF LogOK, LogTypes
<1>7. ThreadOK(x, m, X, A)
  BY DEF LogOK
<1>8. ThreadOK(x, m, X, A)'
  <2>1. Rests(x, X)
    <3>1. FlushOK(x, X) /\ Len(steps[x]) = 0
      BY <1>1, <1>7 DEF ThreadOK
    <3> QED
      BY <3>1, SMTT(30) DEF FlushOK
  <2>2. FlushOK(x, X)'
    BY <1>1, <1>5, <1>6, <2>1, ZenonT(30) DEF FlushOK, Rests
  <2>3. FirstOK(x)' /\ Order(steps[x])'
    BY <1>1, <1>6, <1>7 DEF FirstOK, ThreadOK
  <2> QED
    BY <1>1, <1>5, <1>6, <1>7, <2>2, <2>3, Zenon DEF ThreadOK
<1>9. /\ stream' \in Files \cup {Console, Dangling} /\ file' \in Files \cup {NoFile}
      /\ broken' \subseteq X /\ <<>> \in Seq(StepRecs)
  BY <1>1 DEF LogOK, LogTypes
<1>10. LogOK(m, X, A)'
  BY <1>1, <1>4, <1>5, <1>6, <1>8, <1>9, OneMoves, Zenon
<1> QED
  BY <1>1, <1>6, <1>10

\* A thread ends in the middle of a call.
LEMMA EndsInv ==
    ASSUME NEW m \in LogThreads, NEW X, NEW A, LogOK(m, X, A),
           NEW x \in LogThreads, x # m, x \in X, x \in A,
           steps' = [steps EXCEPT ![x] = <<>>], writeLock' = writeLock \ {x},
           UNCHANGED <<stream, file, log, broken, last>>
    PROVE  LogOK(m, X, A)'
<1>1. /\ steps'[x] = <<>> /\ steps'[m] = steps[m]
      /\ \A y \in LogThreads : y # x => steps'[y] = steps[y]
  BY DEF LogOK, LogTypes
<1>2. LogTypes' /\ broken' \subseteq X
  BY DEF LogOK, LogTypes
<1>3. ASSUME NEW y \in LogThreads, y # x PROVE ThreadOK(y, m, X, A)'
  <2>1. log[y] \in Logs /\ ThreadOK(y, m, X, A) /\ (writeLock = {y} => writeLock' = writeLock)
    BY <1>3 DEF LogOK, LogTypes
  <2>2. Order(steps[y])' /\ FirstOK(y)' /\ FlushOK(y, X)'
    BY <1>1, <1>3, <2>1, ThreadStays DEF ThreadOK
  <2> QED
    BY <1>1, <1>3, <2>1, <2>2 DEF ThreadOK
<1>4. ThreadOK(x, m, X, A)'
  <2>1. Len(<<>>) = 0
    OBVIOUS
  <2>2. Order(steps[x])' /\ FirstOK(x)' /\ NoFlush(steps'[x])
    BY <1>1, <2>1 DEF Order, FirstOK, NoFlush
  <2>3. FlushOK(x, X)'
    BY <2>2 DEF FlushOK, Rests
  <2> QED
    BY <1>1, <2>1, <2>2, <2>3 DEF ThreadOK
<1>5. MainOK(m)'
  BY <1>1, MainStays DEF LogOK
<1> QED
  BY <1>2, <1>3, <1>4, <1>5 DEF LogOK

LEMMA LogInitInv == ASSUME NEW m \in LogThreads, NEW X, NEW A, LogInit PROVE LogOK(m, X, A)
<1>1. /\ log = [x \in LogThreads |-> NoLog] /\ steps = [x \in LogThreads |-> <<>>]
      /\ stream = Console /\ file = NoFile /\ broken = {}
  BY DEF LogInit
<1>2. NoLog \in Logs /\ NoLog.out = NoFile /\ NoLog.text = NoLog.owed /\ Len(<<>>) = 0
  BY DEF NoLog, Logs
<1>3. LogTypes
  BY <1>1, <1>2 DEF LogTypes
<1>4. ASSUME NEW x \in LogThreads PROVE ThreadOK(x, m, X, A)
  <2>1. log[x] = NoLog /\ steps[x] = <<>>
    BY <1>1
  <2>2. Order(steps[x]) /\ FirstOK(x)
    BY <1>2, <2>1 DEF Order, FirstOK
  <2>3. FlushOK(x, X)
    BY <1>2, <2>1 DEF FlushOK, Rests, NoFlush
  <2> QED
    BY <1>2, <2>1, <2>2, <2>3 DEF ThreadOK, NoFile, Dangling
<1>5. MainOK(m)
  <2>1. steps[m] = <<>>
    BY <1>1
  <2> QED
    BY <1>1, <1>2, <2>1 DEF MainOK, FileOK, ArgsOK, StreamOK, Console, Dangling
<1> QED
  BY <1>1, <1>3, <1>4, <1>5 DEF LogOK

\* The steps of setOutput( file ), which may be followed by those of init().
LEMMA RedirectSteps ==
    ASSUME NEW f \in Files, f # file, NEW r \in Seq(StepRecs), Len(r) \in {5, 6},
           r[1] = Do("line"), r[2] = Do("sync"), r[3] = With("stream", f),
           r[4] = Do("exit"), r[5] = With("file", f), Len(r) = 6 => r[6] = Do("count")
    PROVE  Fresh(r) /\ MainCall(r)
<1>1. f # NoFile /\ f # Console
  BY LogAssumption
<1>2. /\ r[1].op = "line" /\ r[2].op = "sync" /\ r[3].op = "stream" /\ r[3].arg = f
      /\ r[4].op = "exit" /\ r[5].op = "file" /\ r[5].arg = f
      /\ Len(r) = 6 => r[6].op = "count"
  BY DEF Do, With
<1>3. \A i \in 1 .. Len(r) : /\ r[i].op \notin {"delete", "write", "unlock"}
                             /\ (r[i].op = "file" => i = 5) /\ (r[i].op = "stream" => i = 3)
  BY <1>2
<1>4. Fresh(r)
  BY <1>1, <1>2, <1>3 DEF Fresh, Order, NoFlush
<1>5. MainCall(r)
  BY <1>1, <1>2, <1>3 DEF MainCall
<1> QED
  BY <1>4, <1>5

\* setOutput( file ), alone and in init()
LEMMA RedirectCalls ==
    ASSUME NEW f \in Files, f # file
    PROVE  /\ Fresh(Redirect(f)) /\ MainCall(Redirect(f))
           /\ Fresh(Redirect(f) \o <<Do("count")>>) /\ MainCall(Redirect(f) \o <<Do("count")>>)
<1>1. PICK p, q, z : p = Line /\ q = <<With("stream", f), Do("exit"), With("file", f)>> /\ z = <<Do("count")>>
  BY Zenon
<1>2. p \in Seq(StepRecs) /\ q \in Seq(StepRecs) /\ z \in Seq(StepRecs)
  BY <1>1 DEF Line, Do, With, StepRecs, Ops
<1>3. /\ Len(p) = 2 /\ p[1] = Do("line") /\ p[2] = Do("sync")
      /\ Len(q) = 3 /\ q[1] = With("stream", f) /\ q[2] = Do("exit") /\ q[3] = With("file", f)
      /\ Len(z) = 1 /\ z[1] = Do("count")
  BY <1>1 DEF Line
<1>4. PICK r : r = p \o q
  BY Zenon
<1>5. /\ r \in Seq(StepRecs) /\ Len(r) = 5
      /\ r[1] = Do("line") /\ r[2] = Do("sync") /\ r[3] = With("stream", f)
      /\ r[4] = Do("exit") /\ r[5] = With("file", f)
  <2>1. /\ r \in Seq(StepRecs) /\ Len(r) = Len(p) + Len(q)
        /\ \A i \in 1 .. Len(p) : r[i] = p[i]
        /\ \A i \in Len(p) + 1 .. Len(p) + Len(q) : r[i] = q[i - Len(p)]
    BY <1>2, <1>3, <1>4, Joined, Zenon
  <2>2. Len(p) = 2 /\ Len(q) = 3
    BY <1>2, <1>3, <1>4
  <2>3. Len(r) = 5 /\ (\A i \in 1 .. 2 : r[i] = p[i]) /\ (\A i \in 3 .. 5 : r[i] = q[i - 2])
    BY <2>1, <2>2
  <2>4. 3 - 2 = 1 /\ 4 - 2 = 2 /\ 5 - 2 = 3
    OBVIOUS
  <2>5. r[1] = p[1] /\ r[2] = p[2] /\ r[3] = q[3 - 2] /\ r[4] = q[4 - 2] /\ r[5] = q[5 - 2]
    BY <2>3
  <2> QED
    BY <1>2, <1>3, <1>4, <2>1, <2>3, <2>4, <2>5
<1>6. Redirect(f) = r
  BY <1>1, <1>4, Zenon DEF Redirect
<1>7. PICK v : v = r \o z
  BY Zenon
<1>8. /\ v \in Seq(StepRecs) /\ Len(v) = 6
      /\ \A i \in 1 .. 5 : v[i] = r[i]
      /\ v[6] = Do("count")
  <2>1. /\ v \in Seq(StepRecs) /\ Len(v) = Len(r) + Len(z)
        /\ \A i \in 1 .. Len(r) : v[i] = r[i]
        /\ \A i \in Len(r) + 1 .. Len(r) + Len(z) : v[i] = z[i - Len(r)]
    BY <1>2, <1>3, <1>5, <1>7, Joined, Zenon
  <2>2. Len(r) = 5 /\ Len(z) = 1
    BY <1>2, <1>3, <1>5, <1>7
  <2>3. Len(v) = 6 /\ (\A i \in 1 .. 5 : v[i] = r[i]) /\ (\A i \in 6 .. 6 : v[i] = z[i - 5])
    BY <2>1, <2>2
  <2>4. 6 - 5 = 1
    OBVIOUS
  <2>5. v[1] = r[1] /\ v[2] = r[2] /\ v[3] = r[3] /\ v[4] = r[4] /\ v[5] = r[5] /\ v[6] = z[6 - 5]
    BY <2>3
  <2> QED
    BY <1>2, <1>3, <1>5, <1>7, <2>1, <2>3, <2>4, <2>5, SMTT(30)
<1>9. Fresh(r) /\ MainCall(r)
  BY <1>5, RedirectSteps
<1>10. Fresh(v) /\ MainCall(v)
  <2>1. v[1] = r[1] /\ v[2] = r[2] /\ v[3] = r[3] /\ v[4] = r[4] /\ v[5] = r[5]
    BY <1>8
  <2> QED
    BY <1>5, <1>8, <2>1, RedirectSteps
<1> QED
  BY <1>1, <1>6, <1>7, <1>9, <1>10, Zenon

\* setOutput() without a file, reset(), and init()
LEMMA OtherCalls ==
    /\ MainCall(<<With("stream", Console), Do("exit")>>)
    /\ MainCall(Reset)
    /\ MainCall(<<Do("count")>>)
    /\ Fresh(Reset \o Line \o <<Do("mismatch")>>) /\ MainCall(Reset \o Line \o <<Do("mismatch")>>)
<1>1. MainCall(<<With("stream", Console), Do("exit")>>)
  BY DEF MainCall, With, Do, Console, NoFile
<1>2. MainCall(Reset)
  BY DEF MainCall, Reset, With, Do, Console, NoFile
<1>3. MainCall(<<Do("count")>>)
  BY DEF MainCall, Do
<1>4. PICK p, q, z : p = Reset /\ q = Line /\ z = <<Do("mismatch")>>
  BY Zenon
<1>5. p \in Seq(StepRecs) /\ q \in Seq(StepRecs) /\ z \in Seq(StepRecs)
  BY <1>4 DEF Reset, Line, Do, With, StepRecs, Ops
<1>6. /\ Len(p) = 3 /\ p[1] = Do("exit") /\ p[2] = With("file", NoFile) /\ p[3] = With("stream", Console)
      /\ Len(q) = 2 /\ q[1] = Do("line") /\ q[2] = Do("sync")
      /\ Len(z) = 1 /\ z[1] = Do("mismatch")
  BY <1>4 DEF Reset, Line
<1>7. PICK r : r = p \o q
  BY Zenon
<1>8. /\ r \in Seq(StepRecs) /\ Len(r) = 5
      /\ r[1] = Do("exit") /\ r[2] = With("file", NoFile) /\ r[3] = With("stream", Console)
      /\ r[4] = Do("line") /\ r[5] = Do("sync")
  <2>1. /\ r \in Seq(StepRecs) /\ Len(r) = Len(p) + Len(q)
        /\ \A i \in 1 .. Len(p) : r[i] = p[i]
        /\ \A i \in Len(p) + 1 .. Len(p) + Len(q) : r[i] = q[i - Len(p)]
    BY <1>5, <1>6, <1>7, Joined, Zenon
  <2>2. Len(p) = 3 /\ Len(q) = 2
    BY <1>5, <1>6, <1>7
  <2>3. Len(r) = 5 /\ (\A i \in 1 .. 3 : r[i] = p[i]) /\ (\A i \in 4 .. 5 : r[i] = q[i - 3])
    BY <2>1, <2>2
  <2>4. 4 - 3 = 1 /\ 5 - 3 = 2
    OBVIOUS
  <2>5. r[1] = p[1] /\ r[2] = p[2] /\ r[3] = p[3] /\ r[4] = q[4 - 3] /\ r[5] = q[5 - 3]
    BY <2>3
  <2> QED
    BY <1>5, <1>6, <1>7, <2>1, <2>3, <2>4, <2>5
<1>9. PICK v : v = r \o z
  BY Zenon
<1>10. /\ v \in Seq(StepRecs) /\ Len(v) = 6
       /\ \A i \in 1 .. 5 : v[i] = r[i]
       /\ v[6] = Do("mismatch")
  <2>1. /\ v \in Seq(StepRecs) /\ Len(v) = Len(r) + Len(z)
        /\ \A i \in 1 .. Len(r) : v[i] = r[i]
        /\ \A i \in Len(r) + 1 .. Len(r) + Len(z) : v[i] = z[i - Len(r)]
    BY <1>5, <1>6, <1>8, <1>9, Joined, Zenon
  <2>2. Len(r) = 5 /\ Len(z) = 1
    BY <1>5, <1>6, <1>8, <1>9
  <2>3. Len(v) = 6 /\ (\A i \in 1 .. 5 : v[i] = r[i]) /\ (\A i \in 6 .. 6 : v[i] = z[i - 5])
    BY <2>1, <2>2
  <2>4. 6 - 5 = 1
    OBVIOUS
  <2>5. v[1] = r[1] /\ v[2] = r[2] /\ v[3] = r[3] /\ v[4] = r[4] /\ v[5] = r[5] /\ v[6] = z[6 - 5]
    BY <2>3
  <2> QED
    BY <1>5, <1>6, <1>8, <1>9, <2>1, <2>3, <2>4, <2>5, SMTT(30)
<1>11. /\ v[1] = Do("exit") /\ v[2] = With("file", NoFile) /\ v[3] = With("stream", Console)
       /\ v[4] = Do("line") /\ v[5] = Do("sync")
  BY <1>8, <1>10
<1>12. /\ v[1].op = "exit" /\ v[2].op = "file" /\ v[2].arg = NoFile
       /\ v[3].op = "stream" /\ v[3].arg = Console
       /\ v[4].op = "line" /\ v[5].op = "sync" /\ v[6].op = "mismatch"
  BY <1>10, <1>11 DEF Do, With
<1>13. \A i \in 1 .. Len(v) : /\ v[i].op \notin {"delete", "write", "unlock"}
                              /\ (v[i].op = "file" => i = 2) /\ (v[i].op = "stream" => i = 3)
  BY <1>10, <1>12, SMTT(30)
<1>14. Fresh(v)
  BY <1>10, <1>11, <1>12, <1>13 DEF Fresh, Order, NoFlush
<1>15. MainCall(v)
  BY <1>12, <1>13 DEF MainCall, Console, NoFile
<1> QED
  BY <1>1, <1>2, <1>3, <1>4, <1>7, <1>9, <1>14, <1>15, Zenon
===============================================================================
