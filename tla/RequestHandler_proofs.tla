------------------------- MODULE RequestHandler_proofs ------------------------
(***************************************************************************)
(* Proofs about RequestHandler for any sets of requests and Records and    *)
(* any number of identifiers: no Record is shared or lost, every answer is *)
(* that of the request it is given for, and the handler implements the     *)
(* abstract promises.                                                      *)
(***************************************************************************)
EXTENDS RequestHandler, TLAPS

Unresolved(k) == state[k] = "UNRESOLVED"

\* The map of identifiers and the unresolved futures are the inverse of each
\* other, through the data of the Records.
FuturesRegistered ==
    /\ \A k \in Requests : Unresolved(k) =>
        requests[id[k]] # None /\ data[requests[id[k]]] = k
    /\ \A i \in IDs : requests[i] # None =>
        LET k == data[requests[i]] IN k \in Requests /\ Unresolved(k) /\ id[k] = i

\* The server only looks up, and only serves, what it was told of.  What it has
\* not looked up yet it will not mistake for a later user of the identifier.
HistoryOK ==
    /\ served \subseteq found /\ found \subseteq told
    /\ \A k \in told : state[k] # "unmade"
    /\ \A k \in told \ found : ~Unresolved(k) => requests[id[k]] = None

\* A Record is locked until it has been served, and again when it is free.
LocksOK ==
    /\ \A n \in DOMAIN freeRecords : locked[freeRecords[n]]
    /\ \A k \in Requests : Unresolved(k) =>
        /\ ~locked[requests[id[k]]] => k \in served
        /\ k \in served => result[requests[id[k]]] = k

\* The waiting thread has the Record of an unresolved request; it sets the lock
\* of the Record after the request has been served.
WaiterOK ==
    LET k == waiter.k
        r == waiter.r
    IN  \/ waiter = Idle
        \/ /\ waiter.pc \in {"find", "lock", "copy", "unregister"}
           /\ k \in Requests /\ state[k] # "unmade"
           /\ waiter.pc = "find" => Unresolved(k) \/ requests[id[k]] = None
           /\ waiter.pc # "find" => Unresolved(k) /\ r = requests[id[k]]
           /\ waiter.pc \in {"copy", "unregister"} => k \in served /\ locked[r]
           /\ waiter.pc = "unregister" => value[k] = k

\* The Record the server writes to is that of the request it has looked up,
\* which nobody can unregister any more.
ServerOK ==
    LET k == server.k
        r == server.r
    IN  \/ server = Idle
        \/ /\ server.pc \in {"write", "unlock"}
           /\ k \in found \ served
           /\ Unresolved(k) /\ r = requests[id[k]] /\ locked[r]
           /\ server.pc = "unlock" => result[r] = k

\* RecordsAccounted with the elements of the free list spelt out.
Accounted ==
    /\ TypeOK
    /\ \A i, j \in IDs : requests[i] # None /\ requests[i] = requests[j] => i = j
    /\ \A i \in IDs, n \in DOMAIN freeRecords : requests[i] # freeRecords[n]
    /\ \A m, n \in DOMAIN freeRecords : freeRecords[m] = freeRecords[n] => m = n
    /\ \A r \in Records : r \in allocated <=>
        (\E n \in DOMAIN freeRecords : freeRecords[n] = r) \/ (\E i \in IDs : requests[i] = r)

\* The inductive invariant.
IInv ==
    /\ Accounted
    /\ FuturesRegistered
    /\ HistoryOK
    /\ LocksOK
    /\ WaiterOK
    /\ ServerOK
    /\ ResultOfServed

-------------------------------------------------------------------------------
\* The two ways to write RecordsAccounted.
LEMMA AccountedIff == Accounted <=> RecordsAccounted
<1>1. ASSUME TypeOK
      PROVE  /\ \A n \in DOMAIN freeRecords : freeRecords[n] \in Records
             /\ allocated \subseteq Records
             /\ \A i \in IDs : requests[i] \in Records \cup {None}
             /\ None \notin Records
  BY <1>1, NoneAssumption DEF TypeOK
<1> QED
  BY <1>1 DEF Accounted, RecordsAccounted, Range, IsInjective

\* The free list without its front, element by element.
LEMMA TailElements ==
    ASSUME freeRecords \in Seq(Records), freeRecords # <<>>
    PROVE  LET rest == Tail(freeRecords)
           IN  /\ Len(freeRecords) \in Nat \ {0} /\ DOMAIN freeRecords = 1 .. Len(freeRecords)
               /\ Head(freeRecords) = freeRecords[1]
               /\ rest \in Seq(Records) /\ DOMAIN rest = 1 .. Len(freeRecords) - 1
               /\ \A m \in DOMAIN rest : rest[m] = freeRecords[m + 1] /\ m + 1 \in DOMAIN freeRecords
  OBVIOUS

\* Identifiers stay in their range when they wrap around.
LEMMA NextIDType == TypeOK => NextID \in IDs /\ NextID \in Nat
  BY MaxUint32Assumption DEF TypeOK, NextID, IDs

\* A thread that is somewhere in a call is not idle.
LEMMA NotIdle == waiter.pc # "idle" => waiter # Idle
  BY DEF Idle

\* The same for the server.
LEMMA ServerNotIdle == server.pc # "idle" => server # Idle
  BY DEF Idle

\* The Record of an unresolved request is one.
LEMMA RecordOf ==
    ASSUME IInv, NEW k \in Requests, Unresolved(k)
    PROVE  requests[id[k]] \in Records /\ id[k] \in IDs
  BY DEF IInv, Accounted, TypeOK, FuturesRegistered

\* Distinct unresolved requests have distinct identifiers and distinct Records.
LEMMA OwnRecords ==
    ASSUME IInv, NEW k \in Requests, Unresolved(k)
    PROVE  \A h \in Requests : Unresolved(h) /\ h # k =>
               /\ id[h] # id[k] /\ id[h] \in IDs
               /\ requests[id[h]] # requests[id[k]] /\ requests[id[h]] \in Records
  BY RecordOf DEF IInv, FuturesRegistered

-------------------------------------------------------------------------------
\* A part of the invariant holds as long as nothing it speaks of changes.
LEMMA Frames ==
    /\ Accounted /\ TypeOK' /\ UNCHANGED <<requests, freeRecords, allocated>> => Accounted'
    /\ FuturesRegistered /\ UNCHANGED <<requests, data, id, state>> => FuturesRegistered'
    /\ HistoryOK /\ UNCHANGED <<requests, id, state, told, found, served>> => HistoryOK'
    /\ LocksOK /\ UNCHANGED <<requests, freeRecords, locked, result, id, state, served>> => LocksOK'
    /\ WaiterOK /\ UNCHANGED <<waiter, requests, locked, id, state, value, served>> => WaiterOK'
    /\ ServerOK /\ UNCHANGED <<server, requests, locked, result, id, state, found, served>> => ServerOK'
    /\ ResultOfServed /\ UNCHANGED <<state, value, served>> => ResultOfServed'
<1>1. Accounted /\ TypeOK' /\ UNCHANGED <<requests, freeRecords, allocated>> => Accounted'
  BY DEF Accounted
<1>2. FuturesRegistered /\ UNCHANGED <<requests, data, id, state>> => FuturesRegistered'
  BY DEF FuturesRegistered, Unresolved
<1>3. HistoryOK /\ UNCHANGED <<requests, id, state, told, found, served>> => HistoryOK'
  BY DEF HistoryOK, Unresolved
<1>4. LocksOK /\ UNCHANGED <<requests, freeRecords, locked, result, id, state, served>> => LocksOK'
  BY DEF LocksOK, Unresolved
<1>5. WaiterOK /\ UNCHANGED <<waiter, requests, locked, id, state, value, served>> => WaiterOK'
  BY DEF WaiterOK, Unresolved
<1>6. ServerOK /\ UNCHANGED <<server, requests, locked, result, id, state, found, served>> => ServerOK'
  BY DEF ServerOK, Unresolved
<1>7. ResultOfServed /\ UNCHANGED <<state, value, served>> => ResultOfServed'
  BY DEF ResultOfServed
<1> QED
  BY <1>1, <1>2, <1>3, <1>4, <1>5, <1>6, <1>7

\* Nothing is registered, no lock is set, and nobody is in a call.
LEMMA InitIInv == Init => IInv
<1> SUFFICES ASSUME Init PROVE IInv
  OBVIOUS
<1>1. 0 \in IDs
  BY MaxUint32Assumption DEF IDs
<1>2. TypeOK
  BY <1>1 DEF Init, TypeOK, Threadlike, Idle
<1>3. Accounted
  BY <1>2, NoneAssumption DEF Init, Accounted
<1> QED
  BY <1>3 DEF Init, IInv, FuturesRegistered, HistoryOK, LocksOK, WaiterOK, ServerOK,
              ResultOfServed, Unresolved

\* A new Record, or the first free one, gets the next identifier.
LEMMA RegisterIInv ==
    ASSUME IInv, FreshID, NEW k \in Requests, NEW r \in Records, Register(k, r)
    PROVE  IInv'
<1> DEFINE n == NextID
<1>2. /\ requests' = [requests EXCEPT ![n] = r]
      /\ data' = [data EXCEPT ![r] = k]
      /\ id' = [id EXCEPT ![k] = n]
      /\ state' = [state EXCEPT ![k] = "UNRESOLVED"]
      /\ requestID' = n
      /\ waiter = Idle /\ state[k] = "unmade"
      /\ UNCHANGED <<result, value, timedOut, waiter, told, found, server, served>>
  BY DEF Register, serving
<1> /\ Accounted /\ TypeOK /\ FuturesRegistered /\ HistoryOK /\ LocksOK
    /\ WaiterOK /\ ServerOK /\ ResultOfServed
  BY DEF IInv, Accounted
<1>1. n \in IDs /\ n \in Nat
  BY NextIDType
<1>3. \A i \in IDs : requests[i] # r
  BY TailElements DEF Register, Accounted, TypeOK
<1>4. requests[n] = None /\ \A h \in told \ found : id[h] # n
  BY DEF FreshID
<1>5. TypeOK'
  <2>1. freeRecords' \in Seq(Records) /\ allocated' \in SUBSET Records
    BY TailElements, Zenon DEF Register, TypeOK
  <2>2. locked' \in [Records -> BOOLEAN]
    BY Zenon DEF Register, TypeOK
  <2> QED
    BY <1>1, <1>2, <2>1, <2>2, Zenon DEF TypeOK
<1>6. Accounted'
  <2>1. CASE freeRecords = <<>>
    <3>1. freeRecords' = <<>> /\ allocated' = allocated \cup {r} /\ r \notin allocated
      BY <2>1 DEF Register
    <3>2. \A x \in Records : (\E i \in IDs : requests'[i] = x) <=>
                             x = r \/ \E i \in IDs : requests[i] = x
      BY <1>1, <1>2, <1>4, NoneAssumption DEF TypeOK
    <3>3. \A i, j \in IDs : requests'[i] # None /\ requests'[i] = requests'[j] => i = j
      BY <1>1, <1>2, <1>3 DEF TypeOK, Accounted
    <3> QED
      BY <1>5, <2>1, <3>1, <3>2, <3>3 DEF Accounted
  <2>2. CASE freeRecords # <<>>
    <3>1. /\ freeRecords' = Tail(freeRecords) /\ allocated' = allocated /\ r = freeRecords[1]
          /\ DOMAIN freeRecords' = 1 .. Len(freeRecords) - 1
          /\ DOMAIN freeRecords = 1 .. Len(freeRecords)
          /\ Len(freeRecords) \in Nat \ {0}
          /\ \A m \in DOMAIN freeRecords' : freeRecords'[m] = freeRecords[m + 1]
      BY <2>2, TailElements, Zenon DEF Register, TypeOK
    <3>2. \A m \in DOMAIN freeRecords' : m + 1 \in DOMAIN freeRecords /\ freeRecords'[m] # r
      BY <3>1 DEF Accounted
    <3>3. \A x \in Records : (\E m \in DOMAIN freeRecords' : freeRecords'[m] = x) <=>
                             x # r /\ \E m \in DOMAIN freeRecords : freeRecords[m] = x
      <4>1. ASSUME NEW x \in Records, x # r, NEW m \in DOMAIN freeRecords, freeRecords[m] = x
            PROVE  \E l \in DOMAIN freeRecords' : freeRecords'[l] = x
        <5>1. m - 1 \in DOMAIN freeRecords'
          BY <3>1, <4>1
        <5> QED
          BY <3>1, <4>1, <5>1
      <4> QED
        BY <3>1, <3>2, <4>1
    <3>4. \A x \in Records : (\E i \in IDs : requests'[i] = x) <=>
                             x = r \/ \E i \in IDs : requests[i] = x
      BY <1>1, <1>2, <1>4, NoneAssumption DEF TypeOK
    <3>5. \A i, j \in IDs : requests'[i] # None /\ requests'[i] = requests'[j] => i = j
      BY <1>1, <1>2, <1>3 DEF TypeOK, Accounted
    <3>6. \A i \in IDs, m \in DOMAIN freeRecords' : requests'[i] # freeRecords'[m]
      BY <1>1, <1>2, <3>1, <3>2 DEF TypeOK, Accounted
    <3>7. \A l, m \in DOMAIN freeRecords' : freeRecords'[l] = freeRecords'[m] => l = m
      BY <3>1, <3>2 DEF Accounted
    <3>8. r \in allocated
      BY <2>2, <3>1 DEF Accounted
    <3> QED
      BY <1>5, <3>1, <3>3, <3>4, <3>5, <3>6, <3>7, <3>8 DEF Accounted
  <2> QED
    BY <2>1, <2>2
<1>7. \A h \in Requests : h # k => (Unresolved(h)' <=> Unresolved(h)) /\ id'[h] = id[h]
  BY <1>2 DEF Unresolved, TypeOK
<1>8. Unresolved(k)' /\ id'[k] = n /\ requests'[n] = r /\ data'[r] = k /\ r # None
  BY <1>1, <1>2, NoneAssumption DEF Unresolved, TypeOK
<1>9. \A h \in Requests : h # k /\ Unresolved(h) =>
          id[h] # n /\ requests'[id[h]] = requests[id[h]] /\ requests[id[h]] # r
  BY <1>2, <1>3, <1>4 DEF FuturesRegistered, TypeOK
<1>10. FuturesRegistered'
  BY <1>1, <1>2, <1>3, <1>7, <1>8, <1>9 DEF FuturesRegistered, TypeOK, Unresolved
<1>11. HistoryOK'
  <2>1. k \notin told
    BY <1>2 DEF HistoryOK
  <2>2. \A h \in told : h # k /\ state'[h] = state[h] /\ id'[h] = id[h]
    BY <1>2, <2>1 DEF TypeOK
  <2>3. \A h \in told \ found : requests'[id[h]] = requests[id[h]]
    BY <1>2, <1>4 DEF TypeOK
  <2> QED
    BY <1>2, <2>2, <2>3 DEF HistoryOK, Unresolved
<1>12. LocksOK'
  <2>1. locked'[r] /\ \A x \in Records : x # r => locked'[x] = locked[x]
    BY TailElements DEF Register, LocksOK, TypeOK
  <2>2. \A m \in DOMAIN freeRecords' : locked'[freeRecords'[m]]
    <3>1. CASE freeRecords = <<>>
      BY <3>1 DEF Register
    <3>2. CASE freeRecords # <<>>
      BY <3>2, TailElements DEF Register, LocksOK, TypeOK
    <3> QED
      BY <3>1, <3>2
  <2>3. k \notin served
    BY <1>2 DEF HistoryOK
  <2> QED
    BY <1>2, <1>7, <1>8, <1>9, <2>1, <2>2, <2>3, RecordOf DEF LocksOK
<1>13. WaiterOK'
  BY <1>2 DEF WaiterOK
<1>14. ServerOK'
  <2>1. CASE server = Idle
    BY <1>2, <2>1 DEF ServerOK
  <2>2. CASE server # Idle
    <3>1. server.k \in Requests /\ server.k # k /\ server.r # r /\ server.r \in Records
      BY <1>2, <1>9, <2>2 DEF ServerOK, HistoryOK, TypeOK, FuturesRegistered, Unresolved
    <3>2. locked'[server.r] = locked[server.r]
      BY <3>1 DEF Register, TypeOK
    <3> QED
      BY <1>2, <1>7, <1>9, <2>2, <3>1, <3>2 DEF ServerOK
  <2> QED
    BY <2>1, <2>2
<1>15. ResultOfServed'
  BY <1>2 DEF ResultOfServed, TypeOK
<1> QED
  BY <1>6, <1>10, <1>11, <1>12, <1>13, <1>14, <1>15 DEF IInv

\* A request is announced, and a wait begins.
LEMMA TellIInv ==
    ASSUME IInv, NEW k \in Requests, Tell(k)
    PROVE  IInv'
<1>1. /\ told' = told \cup {k} /\ Unresolved(k)
      /\ UNCHANGED <<requestID, requests, freeRecords, allocated, locked, result, data, id, state,
                     value, timedOut, waiter, found, server, served>>
  BY DEF Tell, handler, records, futures, Unresolved
<1> /\ Accounted /\ TypeOK /\ FuturesRegistered /\ HistoryOK /\ LocksOK
    /\ WaiterOK /\ ServerOK /\ ResultOfServed
  BY DEF IInv, Accounted
<1>2. TypeOK'
  BY <1>1 DEF TypeOK
<1>3. HistoryOK'
  BY <1>1 DEF HistoryOK, Unresolved
<1> QED
  BY <1>1, <1>2, <1>3, Frames DEF IInv

\* A wait finds its Record, or gives up; nothing but the waiter changes.
LEMMA WaitIInv ==
    ASSUME IInv,
           \/ \E k \in Requests, timed \in BOOLEAN : CallWait(k, timed)
           \/ WaitFind \/ WaitTimeout
    PROVE  IInv'
<1>1. UNCHANGED <<requestID, requests, freeRecords, allocated, locked, result, data, id, state,
                  value, told, found, server, served>>
  BY DEF CallWait, WaitFind, WaitTimeout, WaitFalse, handler, records, futures, serving
<1> /\ Accounted /\ TypeOK /\ FuturesRegistered /\ HistoryOK /\ LocksOK
    /\ WaiterOK /\ ServerOK /\ ResultOfServed
  BY DEF IInv, Accounted
<1>2. waiter' \in Threadlike /\ timedOut' \in SUBSET Requests /\ WaiterOK'
  <2>1. ASSUME NEW k \in Requests, NEW timed \in BOOLEAN, CallWait(k, timed)
        PROVE  waiter' \in Threadlike /\ timedOut' \in SUBSET Requests /\ WaiterOK'
    <3>1. waiter' \in Threadlike /\ timedOut' = timedOut
      BY <2>1 DEF CallWait, Threadlike, futures
    <3>2. waiter'.pc = "find" /\ waiter'.k = k
      BY <2>1 DEF CallWait
    <3> QED
      BY <1>1, <2>1, <3>1, <3>2 DEF CallWait, WaiterOK, Unresolved, TypeOK
  <2>2. CASE WaitFalse /\ waiter # Idle
    BY <2>2 DEF WaitFalse, WaiterOK, TypeOK, Threadlike, Idle
  <2>3. CASE WaitFind /\ ~WaitFalse
    <3>1. waiter.pc = "find" /\ waiter # Idle
      BY <2>3, NotIdle DEF WaitFind
    <3> DEFINE k == waiter.k
               r == requests[id[k]]
    <3>2. waiter' = [pc |-> "lock", k |-> k, r |-> r, timed |-> waiter.timed]
          /\ timedOut' = timedOut /\ r # None
      BY <2>3 DEF WaitFind, futures
    <3>3. k \in Requests /\ Unresolved(k) /\ state[k] # "unmade"
      BY <3>1, <3>2 DEF WaiterOK
    <3>4. waiter' \in Threadlike
      BY <3>2, <3>3 DEF TypeOK, Threadlike
    <3>5. waiter'.pc = "lock" /\ waiter'.k = k /\ waiter'.r = r
      BY <3>2
    <3> QED
      BY <1>1, <3>2, <3>3, <3>4, <3>5 DEF WaiterOK, Unresolved, TypeOK
  <2> QED
    BY <2>1, <2>2, <2>3, NotIdle DEF WaitFind, WaitTimeout
<1>3. TypeOK'
  BY <1>1, <1>2 DEF TypeOK
<1> QED
  BY <1>1, <1>2, <1>3, Frames DEF IInv

\* The wait ends when the Record is unlocked, which means that the request of
\* the waiter has been served; the result copied is that of this request.
LEMMA WaitLockIInv ==
    ASSUME IInv, WaitLock
    PROVE  IInv'
<1> DEFINE k == waiter.k
           r == waiter.r
<1>1. /\ locked' = [locked EXCEPT ![r] = TRUE] /\ ~locked[r]
      /\ waiter' = [pc |-> "copy", k |-> k, r |-> r, timed |-> waiter.timed]
      /\ waiter.pc = "lock" /\ waiter # Idle
      /\ UNCHANGED <<requestID, requests, freeRecords, allocated, result, data, id, state,
                     value, timedOut, told, found, server, served>>
  BY NotIdle DEF WaitLock, handler, futures, serving
<1> /\ Accounted /\ TypeOK /\ FuturesRegistered /\ HistoryOK /\ LocksOK
    /\ WaiterOK /\ ServerOK /\ ResultOfServed
  BY DEF IInv, Accounted
<1>2. k \in Requests /\ Unresolved(k) /\ r = requests[id[k]] /\ r \in Records /\ state[k] # "unmade"
  BY <1>1, RecordOf DEF WaiterOK, Unresolved
<1>3. k \in served
  BY <1>1, <1>2 DEF LocksOK
<1>4. \A x \in Records : locked[x] => locked'[x]
  BY <1>1 DEF TypeOK
<1>5. locked'[r]
  BY <1>1, <1>2 DEF TypeOK
<1>6. TypeOK'
  <2>1. waiter' \in Threadlike
    BY <1>1 DEF TypeOK, Threadlike
  <2> QED
    BY <1>1, <2>1, Zenon DEF TypeOK
<1>7. WaiterOK'
  <2>1. waiter'.pc = "copy" /\ waiter'.k = k /\ waiter'.r = r
    BY <1>1
  <2> QED
    BY <1>1, <1>2, <1>3, <1>5, <2>1 DEF WaiterOK, Unresolved
<1>8. LocksOK'
  BY <1>1, <1>2, <1>4, RecordOf DEF LocksOK, Unresolved, TypeOK
<1>9. ServerOK'
  BY <1>1, <1>4, RecordOf DEF ServerOK, Unresolved, HistoryOK, TypeOK
<1> QED
  BY <1>1, <1>6, <1>7, <1>8, <1>9, Frames DEF IInv

\* The result copied is that of the request of the waiter.
LEMMA WaitCopyIInv ==
    ASSUME IInv, WaitCopy
    PROVE  IInv'
<1> DEFINE k == waiter.k
           r == waiter.r
<1>1. /\ value' = [value EXCEPT ![k] = result[r]]
      /\ waiter' = [pc |-> "unregister", k |-> k, r |-> r, timed |-> waiter.timed]
      /\ waiter.pc = "copy" /\ waiter # Idle
      /\ UNCHANGED <<requestID, requests, freeRecords, allocated, locked, result, data, id, state,
                     timedOut, told, found, server, served>>
  BY NotIdle DEF WaitCopy, handler, records, serving
<1> /\ Accounted /\ TypeOK /\ FuturesRegistered /\ HistoryOK /\ LocksOK
    /\ WaiterOK /\ ServerOK /\ ResultOfServed
  BY DEF IInv, Accounted
<1>2. /\ k \in Requests /\ Unresolved(k) /\ r = requests[id[k]] /\ r \in Records
      /\ state[k] # "unmade" /\ k \in served /\ locked[r]
  BY <1>1, RecordOf DEF WaiterOK, Unresolved
<1>3. result[r] = k
  BY <1>2 DEF LocksOK
<1>4. TypeOK'
  <2>1. waiter' \in Threadlike
    BY <1>1 DEF TypeOK, Threadlike
  <2> QED
    BY <1>1, <1>2, <1>3, <2>1 DEF TypeOK
<1>5. WaiterOK'
  <2>1. waiter'.pc = "unregister" /\ waiter'.k = k /\ waiter'.r = r
    BY <1>1
  <2> QED
    BY <1>1, <1>2, <1>3, <2>1 DEF WaiterOK, Unresolved, TypeOK
<1>6. ResultOfServed'
  BY <1>1, <1>2 DEF ResultOfServed, Unresolved, TypeOK
<1> QED
  BY <1>1, <1>4, <1>5, <1>6, Frames DEF IInv

\* What is unregistered leaves the map for the front of the free list, and its
\* Record is locked then.
LEMMA EraseIInv ==
    ASSUME IInv, NEW k \in Requests, Unresolved(k), Erase(id[k]),
           locked[requests[id[k]]],
           server = Idle \/ server.k # k,
           NEW s \in {"DONE", "UNREGISTERED"},
           state' = [state EXCEPT ![k] = s],
           UNCHANGED <<locked, result, data, id, value, timedOut, told, found, server, served>>,
           waiter' = Idle
    PROVE  Accounted' /\ FuturesRegistered' /\ HistoryOK' /\ LocksOK' /\ ServerOK'
<1> /\ Accounted /\ TypeOK /\ FuturesRegistered /\ HistoryOK /\ LocksOK
    /\ WaiterOK /\ ServerOK /\ ResultOfServed
  BY DEF IInv, Accounted
<1> DEFINE i == id[k]
           r == requests[i]
<1>1. i \in IDs /\ r \in Records /\ r # None /\ data[r] = k
  BY RecordOf, NoneAssumption DEF FuturesRegistered
<1>2. /\ freeRecords' = <<r>> \o freeRecords
      /\ requests' = [requests EXCEPT ![i] = None]
      /\ requestID' = requestID /\ allocated' = allocated
  BY <1>1 DEF Erase
<1>3. /\ freeRecords' \in Seq(Records)
      /\ DOMAIN freeRecords' = 1 .. Len(freeRecords) + 1
      /\ DOMAIN freeRecords = 1 .. Len(freeRecords) /\ Len(freeRecords) \in Nat
      /\ freeRecords'[1] = r
      /\ \A n \in DOMAIN freeRecords' : n # 1 =>
            n - 1 \in DOMAIN freeRecords /\ freeRecords'[n] = freeRecords[n - 1]
      /\ \A n \in DOMAIN freeRecords :
            n + 1 \in DOMAIN freeRecords' /\ freeRecords'[n + 1] = freeRecords[n]
  BY <1>1, <1>2 DEF TypeOK
<1>4. TypeOK'
  BY <1>2, <1>3 DEF TypeOK, Threadlike, Idle
<1>5. requests'[i] = None /\ \A j \in IDs : j # i => requests'[j] = requests[j] /\ requests[j] # r
  BY <1>1, <1>2 DEF TypeOK, Accounted
<1>6. Accounted'
  <2>1. \A j, l \in IDs : requests'[j] # None /\ requests'[j] = requests'[l] => j = l
    BY <1>5 DEF Accounted
  <2>2. \A j \in IDs, n \in DOMAIN freeRecords' : requests'[j] # freeRecords'[n]
    <3>1. \A n \in DOMAIN freeRecords : freeRecords[n] # None
      BY NoneAssumption DEF TypeOK
    <3>2. \A n \in DOMAIN freeRecords' :
              freeRecords'[n] = r \/ \E m \in DOMAIN freeRecords : freeRecords'[n] = freeRecords[m]
      BY <1>3
    <3> QED
      BY <1>1, <1>5, <3>1, <3>2 DEF Accounted
  <2>3. \A m, n \in DOMAIN freeRecords' : freeRecords'[m] = freeRecords'[n] => m = n
    BY <1>1, <1>3, SMTT(30) DEF Accounted
  <2>4. \A x \in Records : (\E n \in DOMAIN freeRecords' : freeRecords'[n] = x) <=>
                            x = r \/ \E n \in DOMAIN freeRecords : freeRecords[n] = x
    <3> SUFFICES ASSUME NEW x \in Records
                 PROVE  (\E n \in DOMAIN freeRecords' : freeRecords'[n] = x) <=>
                            x = r \/ \E n \in DOMAIN freeRecords : freeRecords[n] = x
      OBVIOUS
    <3>1. 1 \in DOMAIN freeRecords'
      BY <1>3
    <3>2. ASSUME NEW n \in DOMAIN freeRecords', freeRecords'[n] = x, x # r
          PROVE  \E m \in DOMAIN freeRecords : freeRecords[m] = x
      BY <1>3, <3>2, Zenon
    <3>3. ASSUME NEW n \in DOMAIN freeRecords, freeRecords[n] = x
          PROVE  \E m \in DOMAIN freeRecords' : freeRecords'[m] = x
      BY <1>3, <3>3
    <3> QED
      BY <1>3, <3>1, <3>2, <3>3
  <2>5. \A x \in Records : x # r =>
            ((\E j \in IDs : requests'[j] = x) <=> (\E j \in IDs : requests[j] = x))
    BY <1>1, <1>5, NoneAssumption
  <2>6. r \in allocated
    BY <1>1 DEF Accounted
  <2> QED
    BY <1>2, <1>4, <2>1, <2>2, <2>3, <2>4, <2>5, <2>6 DEF Accounted
<1>7. /\ ~Unresolved(k)'
      /\ \A h \in Requests : h # k => state'[h] = state[h]
  BY DEF Unresolved, TypeOK
<1>8. \A h \in Requests : h # k /\ Unresolved(h) =>
          id[h] # i /\ id[h] \in IDs /\ requests'[id[h]] = requests[id[h]] /\ requests[id[h]] # r
  BY <1>5, OwnRecords
<1>9. FuturesRegistered'
  BY <1>1, <1>5, <1>7, <1>8 DEF FuturesRegistered, Unresolved
<1>10. HistoryOK'
  <2>1. \A h \in told : state'[h] # "unmade"
    BY <1>7 DEF HistoryOK, TypeOK
  <2>2. \A h \in told \ found : ~Unresolved(h)' => requests'[id[h]] = None
    BY <1>5, <1>7 DEF HistoryOK, Unresolved, TypeOK
  <2> QED
    BY <2>1, <2>2 DEF HistoryOK, Unresolved
<1>11. LocksOK'
  <2>1. \A n \in DOMAIN freeRecords' : locked'[freeRecords'[n]]
    BY <1>3, Zenon DEF LocksOK
  <2> QED
    BY <1>7, <1>8, <2>1 DEF LocksOK, Unresolved
<1>12. ServerOK'
  BY <1>7, <1>8 DEF ServerOK, Unresolved, HistoryOK, TypeOK
<1> QED
  BY <1>6, <1>9, <1>10, <1>11, <1>12

\* The end of a successful wait.
LEMMA WaitUnregisterIInv ==
    ASSUME IInv, WaitUnregister
    PROVE  IInv'
<1> DEFINE k == waiter.k
<1>1. /\ state' = [state EXCEPT ![k] = "DONE"] /\ Erase(id[k]) /\ waiter' = Idle
      /\ waiter.pc = "unregister" /\ waiter # Idle
      /\ UNCHANGED <<locked, result, data, id, value, timedOut, told, found, server, served>>
  BY NotIdle DEF WaitUnregister, records, serving
<1>2. /\ k \in Requests /\ Unresolved(k) /\ k \in served /\ locked[requests[id[k]]] /\ value[k] = k
  BY <1>1 DEF IInv, WaiterOK
<1>3. server = Idle \/ server.k # k
  BY <1>2 DEF IInv, ServerOK
<1>4. Accounted' /\ FuturesRegistered' /\ HistoryOK' /\ LocksOK' /\ ServerOK'
  BY <1>1, <1>2, <1>3, EraseIInv, Zenon
<1>5. ResultOfServed'
  BY <1>1, <1>2 DEF IInv, Accounted, ResultOfServed, TypeOK
<1>6. WaiterOK'
  BY <1>1 DEF WaiterOK
<1> QED
  BY <1>4, <1>5, <1>6, SMTT(30) DEF IInv

\* A request that has timed out is given up before the server looks it up.
LEMMA UnregisterIInv ==
    ASSUME IInv, NEW k \in Requests \ found, Unregister(k)
    PROVE  IInv'
<1>1. /\ state' = [state EXCEPT ![k] = "UNREGISTERED"] /\ Erase(id[k]) /\ waiter' = Idle
      /\ Unresolved(k)
      /\ UNCHANGED <<locked, result, data, id, value, timedOut, told, found, server, served>>
  BY DEF Unregister, records, serving, Unresolved
<1>2. k \notin served /\ locked[requests[id[k]]]
  BY <1>1, RecordOf DEF IInv, Accounted, HistoryOK, LocksOK, TypeOK
<1>3. server = Idle \/ server.k # k
  BY DEF IInv, ServerOK
<1>4. Accounted' /\ FuturesRegistered' /\ HistoryOK' /\ LocksOK' /\ ServerOK'
  BY <1>1, <1>2, <1>3, EraseIInv, Zenon
<1>5. ResultOfServed'
  BY <1>1 DEF IInv, Accounted, ResultOfServed, TypeOK
<1>6. WaiterOK'
  BY <1>1 DEF WaiterOK
<1> QED
  BY <1>4, <1>5, <1>6 DEF IInv

\* The Record the server finds is that of the request it was told of.
LEMMA ServeFindIInv ==
    ASSUME IInv, NEW k \in Requests, ServeFind(k)
    PROVE  IInv'
<1> DEFINE r == requests[id[k]]
<1>1. /\ found' = found \cup {k} /\ k \in told \ found
      /\ UNCHANGED <<requestID, requests, freeRecords, allocated, locked, result, data, id, state,
                     value, timedOut, waiter, told, served>>
  BY DEF ServeFind, handler, records, futures
<1> /\ Accounted /\ TypeOK /\ FuturesRegistered /\ HistoryOK /\ LocksOK
    /\ WaiterOK /\ ServerOK /\ ResultOfServed
  BY DEF IInv, Accounted
<1>2. HistoryOK'
  BY <1>1 DEF HistoryOK, Unresolved
<1>3. server' \in Threadlike /\ ServerOK'
  <2>1. CASE r = None
    BY <2>1 DEF ServeFind, ServerOK, Threadlike, Idle
  <2>2. CASE r # None
    <3>1. server' = [pc |-> "write", k |-> k, r |-> r, timed |-> FALSE]
      BY <2>2 DEF ServeFind
    <3>2. Unresolved(k) /\ k \notin served
      BY <1>1, <2>2 DEF HistoryOK
    <3>3. r \in Records /\ locked[r]
      BY <3>2, RecordOf DEF LocksOK
    <3>4. server' \in Threadlike
      BY <3>1, <3>3 DEF Threadlike
    <3>5. server'.pc = "write" /\ server'.k = k /\ server'.r = r
      BY <3>1
    <3> QED
      BY <1>1, <3>2, <3>3, <3>4, <3>5 DEF ServerOK, Unresolved
  <2> QED
    BY <2>1, <2>2
<1>4. TypeOK'
  BY <1>1, <1>3 DEF TypeOK
<1> QED
  BY <1>1, <1>2, <1>3, <1>4, Frames DEF IInv

\* The result is written to the Record while it is locked.
LEMMA ServeWriteIInv ==
    ASSUME IInv, ServeWrite
    PROVE  IInv'
<1> DEFINE k == server.k
           r == server.r
<1>1. /\ result' = [result EXCEPT ![r] = k]
      /\ server' = [pc |-> "unlock", k |-> k, r |-> r, timed |-> FALSE]
      /\ server.pc = "write" /\ server # Idle
      /\ UNCHANGED <<requestID, requests, freeRecords, allocated, locked, data, id, state,
                     value, timedOut, waiter, told, found, served>>
  BY ServerNotIdle DEF ServeWrite, handler, futures
<1> /\ Accounted /\ TypeOK /\ FuturesRegistered /\ HistoryOK /\ LocksOK
    /\ WaiterOK /\ ServerOK /\ ResultOfServed
  BY DEF IInv, Accounted
<1>2. /\ k \in Requests /\ k \in found \ served /\ Unresolved(k)
      /\ r = requests[id[k]] /\ r \in Records /\ locked[r]
  BY <1>1, RecordOf DEF ServerOK, HistoryOK, TypeOK
<1>3. result'[r] = k /\ \A x \in Records : x # r => result'[x] = result[x]
  BY <1>1, <1>2 DEF TypeOK
<1>4. TypeOK'
  <2>1. server' \in Threadlike
    BY <1>1, <1>2 DEF TypeOK, Threadlike
  <2> QED
    BY <1>1, <1>2, <2>1 DEF TypeOK
<1>5. LocksOK'
  <2>1. \A h \in Requests : Unresolved(h) /\ h # k => requests[id[h]] # r /\ requests[id[h]] \in Records
    BY <1>2, OwnRecords, SMTT(30)
  <2> QED
    BY <1>1, <1>2, <1>3, <2>1 DEF LocksOK, Unresolved
<1>6. ServerOK'
  <2>1. server'.pc = "unlock" /\ server'.k = k /\ server'.r = r
    BY <1>1
  <2> QED
    BY <1>1, <1>2, <1>3, <2>1 DEF ServerOK, Unresolved
<1> QED
  BY <1>1, <1>4, <1>5, <1>6, Frames DEF IInv

\* Unlocking the Record tells the waiter that the result is there.
LEMMA ServeUnlockIInv ==
    ASSUME IInv, ServeUnlock
    PROVE  IInv'
<1> DEFINE k == server.k
           r == server.r
<1>1. /\ locked' = [locked EXCEPT ![r] = FALSE]
      /\ served' = served \cup {k}
      /\ server' = Idle
      /\ server.pc = "unlock" /\ server # Idle
      /\ UNCHANGED <<requestID, requests, freeRecords, allocated, result, data, id, state,
                     value, timedOut, waiter, told, found>>
  BY ServerNotIdle DEF ServeUnlock, handler, futures
<1> /\ Accounted /\ TypeOK /\ FuturesRegistered /\ HistoryOK /\ LocksOK
    /\ WaiterOK /\ ServerOK /\ ResultOfServed
  BY DEF IInv, Accounted
<1>2. /\ k \in Requests /\ k \in found \ served /\ Unresolved(k)
      /\ r = requests[id[k]] /\ r \in Records /\ result[r] = k
  BY <1>1, RecordOf DEF ServerOK, HistoryOK, TypeOK
<1>3. \A x \in Records : x # r => locked'[x] = locked[x]
  BY <1>1 DEF TypeOK
<1>4. TypeOK'
  BY <1>1, <1>2 DEF TypeOK, Threadlike, Idle
<1>5. \A h \in Requests : Unresolved(h) /\ h # k => requests[id[h]] # r /\ requests[id[h]] \in Records
  BY <1>2, OwnRecords, SMTT(30)
<1>6. LocksOK'
  <2>1. \A n \in DOMAIN freeRecords : freeRecords[n] # r /\ freeRecords[n] \in Records
    BY <1>2 DEF TypeOK, Accounted
  <2>2. \A n \in DOMAIN freeRecords' : locked'[freeRecords'[n]]
    BY <1>1, <1>3, <2>1, SMTT(30) DEF LocksOK
  <2>3. \A h \in Requests : Unresolved(h)' =>
            /\ ~locked'[requests'[id'[h]]] => h \in served'
            /\ h \in served' => result'[requests'[id'[h]]] = h
    BY <1>1, <1>2, <1>3, <1>5 DEF LocksOK, Unresolved
  <2> QED
    BY <2>2, <2>3, SMTT(30) DEF LocksOK
<1>7. WaiterOK'
  BY <1>1, <1>2, <1>3, <1>5, SMTT(30) DEF WaiterOK, Unresolved
<1>8. HistoryOK'
  BY <1>1, <1>2 DEF HistoryOK, Unresolved
<1>9. ServerOK'
  BY <1>1 DEF ServerOK
<1>10. ResultOfServed'
  BY <1>1 DEF ResultOfServed
<1> QED
  BY <1>1, <1>4, <1>6, <1>7, <1>8, <1>9, <1>10, Frames DEF IInv

\* Every step of the two threads keeps the inductive invariant.
LEMMA NextIInv == IInv /\ [Next]_vars => IInv'
<1> SUFFICES ASSUME IInv, [Next]_vars PROVE IInv'
  OBVIOUS
<1>1. CASE UNCHANGED vars
  <2>1. UNCHANGED <<requestID, requests, freeRecords, allocated, locked, result, data, id, state,
                    value, timedOut, waiter, told, found, server, served>>
    BY <1>1 DEF vars, handler, records, futures, serving
  <2>2. TypeOK'
    BY <2>1 DEF IInv, Accounted, TypeOK
  <2> QED
    BY <2>1, <2>2, Frames DEF IInv
<1>2. CASE Next
  BY <1>2, RegisterIInv, TellIInv, WaitIInv, WaitLockIInv, WaitCopyIInv, WaitUnregisterIInv,
     UnregisterIInv, ServeFindIInv, ServeWriteIInv, ServeUnlockIInv
     DEF Next, Common, WaitStep, ServeStep
<1> QED
  BY <1>1, <1>2

\* The inductive invariant holds in every state of the handler.
THEOREM Invariance == Spec => []IInv
  BY InitIInv, NextIInv, PTL DEF Spec

\* requestHandler.cpp: whatever is registered, served and unregistered in which
\* order, no Record has two users and none is lost.
THEOREM RecordsAreAccounted == Spec => []RecordsAccounted
<1>1. IInv => RecordsAccounted
  BY AccountedIff DEF IInv
<1> QED
  BY <1>1, Invariance, PTL

\* waitRequest(), isRequestReady() and getRequestData() always speak of the
\* request they are asked about, although identifiers and Records are reused.
THEOREM ReadsAreCurrent == Spec => []ReadsCurrent
<1>1. IInv => ReadsCurrent
  BY DEF IInv, FuturesRegistered, LocksOK, Unresolved, ReadsCurrent, isRequestReady, getRequestData
<1> QED
  BY <1>1, Invariance, PTL

-------------------------------------------------------------------------------
\* The promises do not change with the rest of the handler.
LEMMA SamePromises ==
    ASSUME state' = state, served' = served,
           \A k \in Requests : state[k] = "DONE" => value'[k] = value[k]
    PROVE  UNCHANGED <<Phase, Answer>>
  BY DEF Phase, PhaseOf, Answer

\* Only the request whose state changes, or that is served, has a new phase.
LEMMA OnePromise ==
    ASSUME TypeOK, TypeOK', NEW k \in Requests,
           \A h \in Requests : h # k =>
               state'[h] = state[h] /\ (h \in served' <=> h \in served) /\ value'[h] = value[h]
    PROVE  /\ Phase' = [Phase EXCEPT ![k] = Phase'[k]]
           /\ Answer' = [Answer EXCEPT ![k] = Answer'[k]]
<1>1. ASSUME NEW h \in Requests, h # k PROVE Phase'[h] = Phase[h] /\ Answer'[h] = Answer[h]
  <2>1. state'[h] = state[h] /\ (h \in served' <=> h \in served) /\ value'[h] = value[h]
    BY <1>1
  <2>2. Answer'[h] = Answer[h]
    BY <2>1 DEF Answer
  <2>3. Phase'[h] = Phase[h]
    BY <2>1 DEF Phase, PhaseOf, TypeOK
  <2> QED
    BY <2>2, <2>3
<1>2. Phase' = [h \in Requests |-> Phase'[h]]
  BY Zenon DEF Phase
<1>3. Answer' = [h \in Requests |-> Answer'[h]]
  BY Zenon DEF Answer
<1>4. Phase = [h \in Requests |-> Phase[h]]
  BY Zenon DEF Phase
<1>5. Answer = [h \in Requests |-> Answer[h]]
  BY Zenon DEF Answer
<1>6. Phase' = [Phase EXCEPT ![k] = Phase'[k]]
  BY <1>1, <1>2, <1>4
<1>7. Answer' = [Answer EXCEPT ![k] = Answer'[k]]
  BY <1>1, <1>3, <1>5
<1> QED
  BY <1>6, <1>7

\* Every step of the handler is a step of the promises or leaves them alone.
LEMMA StepRefines == IInv /\ IInv' /\ [Next]_vars => [Abstract!Next]_<<Phase, Answer>>
<1> SUFFICES ASSUME IInv, IInv', [Next]_vars PROVE [Abstract!Next]_<<Phase, Answer>>
  OBVIOUS
<1> USE DEF Abstract!Next
<1>0. TypeOK /\ TypeOK'
  BY DEF IInv, Accounted
<1>1. ASSUME NEW k \in Requests, NEW r \in Records, Register(k, r)
      PROVE  Abstract!Make(k)
  <2>1. /\ state[k] = "unmade" /\ state' = [state EXCEPT ![k] = "UNRESOLVED"]
        /\ value' = value /\ served' = served /\ Unresolved(k)'
    BY <1>0, <1>1 DEF Register, serving, TypeOK, Unresolved
  <2>2. k \notin served
    BY <2>1 DEF IInv, HistoryOK
  <2>3. Phase[k] = "unmade" /\ Phase'[k] = "pending"
    BY <1>0, <2>1, <2>2 DEF Phase, PhaseOf, Unresolved
  <2>4. Answer'[k] = Answer[k]
    BY <1>0, <2>1 DEF Answer, TypeOK
  <2>5. /\ Phase' = [Phase EXCEPT ![k] = Phase'[k]]
        /\ Answer' = [Answer EXCEPT ![k] = Answer'[k]]
    BY <1>0, <2>1, OnePromise DEF TypeOK
  <2> QED
    BY <2>3, <2>4, <2>5, Zenon DEF Abstract!Make, Answer
<1>2. ASSUME ServeUnlock
      PROVE  server.k \in Requests /\ Abstract!Fulfil(server.k)
  <2> DEFINE k == server.k
  <2>1. k \in Requests /\ Unresolved(k) /\ k \notin served
    BY <1>0, <1>2, ServerNotIdle DEF IInv, ServerOK, ServeUnlock, TypeOK
  <2>2. state' = state /\ value' = value /\ served' = served \cup {k}
    BY <1>2 DEF ServeUnlock, futures
  <2>3. Phase[k] = "pending" /\ Phase'[k] = "fulfilled"
    BY <1>0, <2>1, <2>2 DEF Phase, PhaseOf, Unresolved
  <2>4. Answer' = Answer
    BY <2>2 DEF Answer
  <2>5. Phase' = [Phase EXCEPT ![k] = Phase'[k]]
    BY <1>0, <2>1, <2>2, OnePromise
  <2> QED
    BY <2>1, <2>3, <2>4, <2>5, SMTT(30) DEF Abstract!Fulfil
<1>3. ASSUME WaitUnregister
      PROVE  waiter.k \in Requests /\ Abstract!Get(waiter.k)
  <2> DEFINE k == waiter.k
  <2>1. k \in Requests /\ Unresolved(k) /\ k \in served /\ value[k] = k
    BY <1>3, NotIdle DEF IInv, WaiterOK, WaitUnregister
  <2>2. state' = [state EXCEPT ![k] = "DONE"] /\ value' = value /\ served' = served
    BY <1>3 DEF WaitUnregister, serving
  <2>3. Phase[k] = "fulfilled" /\ Phase'[k] = "done" /\ Answer'[k] = k
    BY <1>0, <2>1, <2>2 DEF Phase, PhaseOf, Answer, Unresolved, TypeOK
  <2>4. /\ Phase' = [Phase EXCEPT ![k] = Phase'[k]]
        /\ Answer' = [Answer EXCEPT ![k] = Answer'[k]]
    BY <1>0, <2>1, <2>2, OnePromise DEF TypeOK
  <2> QED
    BY <2>1, <2>3, <2>4 DEF Abstract!Get
<1>4. ASSUME NEW k \in Requests \ found, Unregister(k)
      PROVE  Abstract!Drop(k)
  <2>1. /\ Unresolved(k) /\ state' = [state EXCEPT ![k] = "UNREGISTERED"]
        /\ value' = value /\ served' = served
    BY <1>4 DEF Unregister, serving, Unresolved
  <2>2. Phase[k] \in {"pending", "fulfilled"} /\ Phase'[k] = "dropped" /\ Answer'[k] = Answer[k]
    BY <1>0, <2>1 DEF Phase, PhaseOf, Answer, Unresolved, TypeOK
  <2>3. /\ Phase' = [Phase EXCEPT ![k] = Phase'[k]]
        /\ Answer' = [Answer EXCEPT ![k] = Answer'[k]]
    BY <1>0, <2>1, OnePromise DEF TypeOK
  <2> QED
    BY <2>2, <2>3, Zenon DEF Abstract!Drop, Answer
<1>5. ASSUME WaitCopy
      PROVE  UNCHANGED <<Phase, Answer>>
  <2>1. /\ state' = state /\ served' = served
        /\ value' = [value EXCEPT ![waiter.k] = result[waiter.r]]
    BY <1>5 DEF WaitCopy, serving
  <2>2. Unresolved(waiter.k)
    BY <1>5, NotIdle, SMTT(30) DEF WaitCopy, IInv, WaiterOK
  <2> QED
    BY <1>0, <2>1, <2>2, SamePromises DEF Unresolved, TypeOK
<1>6. ASSUME \/ \E k \in Requests : Tell(k) \/ ServeFind(k) \/ \E timed \in BOOLEAN : CallWait(k, timed)
             \/ WaitFind \/ WaitTimeout \/ WaitLock \/ ServeWrite
             \/ UNCHANGED vars
      PROVE  UNCHANGED <<Phase, Answer>>
  BY <1>6, SamePromises DEF Tell, ServeFind, CallWait, WaitFind, WaitTimeout, WaitFalse, WaitLock,
     ServeWrite, vars, futures, serving
<1> QED
  BY <1>1, <1>2, <1>3, <1>4, <1>5, <1>6 DEF Next, Common, WaitStep, ServeStep

\* The handler, with its reused Records and identifiers and its two threads,
\* implements the abstract promises.
THEOREM Refinement == Spec => ImplementsPromises
<1>1. Init => Abstract!Init
  BY DEF Init, Abstract!Init, Phase, PhaseOf, Answer
<1> QED
  BY <1>1, StepRefines, Invariance, PTL DEF Spec, ImplementsPromises, Abstract!Spec
===============================================================================
