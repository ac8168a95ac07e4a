----------------------------- MODULE RequestHandler ---------------------------
(***************************************************************************)
(* lunchbox::RequestHandler (requestHandler.h, requestHandler.cpp) and the *)
(* futures over it, lunchbox::Request (request.h).                         *)
(*                                                                         *)
(* As documented, one thread registers, waits and unregisters, another one *)
(* serves.  A request is announced to the server by the application (for   *)
(* instance through an MTQueue), and is served at most once.  A critical   *)
(* section of the spin lock is one step; what the code does with a Record  *)
(* after leaving it is a step of its own.                                  *)
(*                                                                         *)
(* The result and the user data of request k are k itself.                 *)
(***************************************************************************)
EXTENDS Integers, Sequences, Functions

CONSTANTS
    Requests,       \* the requests the application makes
    Records,        \* the Record objects "new" can return
    MaxUint32,      \* LB_MAX_UINT32, the number of request identifiers
    None

ASSUME NoneAssumption == None \notin Requests \cup Records
ASSUME MaxUint32Assumption == MaxUint32 \in Nat \ {0}

IDs == 0 .. MaxUint32 - 1

VARIABLES
    requestID,      \* the last identifier
    requests,       \* requests[i]: the Record of identifier i, or None
    freeRecords,    \* the list of unused Records
    allocated,      \* the Records made so far
    locked,         \* locked[r]: r->lock is locked
    result,         \* result[r]: r->result
    data,           \* data[r]: r->data
    id,             \* id[k]: the identifier of request k
    state,          \* state[k]: state_ of the future of k, or unmade
    value,          \* value[k]: result of the future of k
    timedOut,       \* the requests on which a wait has timed out
    waiter,         \* the waiting thread: pc, request, Record, timed or not
    told,           \* the requests the server has heard of
    found,          \* the requests the server has looked up
    server,         \* the serving thread: pc, request, Record
    served          \* the requests that have been served

handler == <<requestID, requests, freeRecords, allocated>>
records == <<locked, result, data>>
futures == <<id, state, value, timedOut>>
serving == <<told, found, server, served>>
vars == <<handler, records, futures, waiter, serving>>

Idle == [pc |-> "idle", k |-> None, r |-> None, timed |-> FALSE]

Init ==
    /\ requestID = 1
    /\ requests = [i \in IDs |-> None]
    /\ freeRecords = <<>>
    /\ allocated = {}
    /\ locked = [r \in Records |-> FALSE]
    /\ result = [r \in Records |-> None]
    /\ data = [r \in Records |-> None]
    /\ id = [k \in Requests |-> 0]
    /\ state = [k \in Requests |-> "unmade"]
    /\ value = [k \in Requests |-> None]
    /\ timedOut = {}
    /\ waiter = Idle
    /\ told = {}
    /\ found = {}
    /\ server = Idle
    /\ served = {}

-------------------------------------------------------------------------------
\* The waiting thread.

NextID == (requestID + 1) % MaxUint32

\* registerRequest() that leaves the Record it reuses in the free list.
MutantRegister(k, r) ==
    /\ waiter = Idle
    /\ state[k] = "unmade"
    /\ \/ /\ freeRecords = <<>>
          /\ r \in Records \ allocated
          /\ allocated' = allocated \cup {r}
          /\ locked' = [locked EXCEPT ![r] = TRUE]
          /\ UNCHANGED freeRecords
       \/ /\ freeRecords # <<>>
          /\ r = Head(freeRecords)
          /\ UNCHANGED <<freeRecords, allocated, locked>>
    /\ data' = [data EXCEPT ![r] = k]
    /\ requestID' = NextID
    /\ requests' = [requests EXCEPT ![NextID] = r]
    /\ id' = [id EXCEPT ![k] = NextID]
    /\ state' = [state EXCEPT ![k] = "UNRESOLVED"]
    /\ UNCHANGED <<result, value, timedOut, waiter, serving>>

\* registerRequest(), and the construction of the Request around it: reuses
\* the front free Record or makes a new one, which is locked.
Register(k, r) ==
    /\ waiter = Idle
    /\ state[k] = "unmade"
    /\ \/ /\ freeRecords = <<>>
          /\ r \in Records \ allocated
          /\ allocated' = allocated \cup {r}
          /\ locked' = [locked EXCEPT ![r] = TRUE]
          /\ UNCHANGED freeRecords
       \/ /\ freeRecords # <<>>
          /\ r = Head(freeRecords)
          /\ freeRecords' = Tail(freeRecords)
          /\ UNCHANGED <<allocated, locked>>
    /\ data' = [data EXCEPT ![r] = k]
    /\ requestID' = NextID
    /\ requests' = [requests EXCEPT ![NextID] = r]
    /\ id' = [id EXCEPT ![k] = NextID]
    /\ state' = [state EXCEPT ![k] = "UNRESOLVED"]
    /\ UNCHANGED <<result, value, timedOut, waiter, serving>>

\* The application sends the identifier to the serving thread.
Tell(k) ==
    /\ waiter = Idle
    /\ state[k] = "UNRESOLVED"
    /\ k \notin told
    /\ told' = told \cup {k}
    /\ UNCHANGED <<handler, records, futures, waiter, found, server, served>>

\* wait() of an unresolved future, with a timeout or without; ~Request() of an
\* unresolved future waits without.  waitRequest() can also be called with an
\* identifier that is not registered any more.
CallWait(k, timed) ==
    /\ waiter = Idle
    /\ \/ state[k] = "UNRESOLVED"
       \/ state[k] # "unmade" /\ requests[id[k]] = None
    /\ waiter' = [pc |-> "find", k |-> k, r |-> None, timed |-> timed]
    /\ UNCHANGED <<handler, records, futures, serving>>

\* waitRequest() returned false: FutureTimeout.
WaitFalse ==
    /\ waiter' = Idle
    /\ timedOut' = timedOut \cup {waiter.k}
    /\ UNCHANGED <<id, state, value>>

WaitFind ==
    /\ waiter.pc = "find"
    /\ LET r == requests[id[waiter.k]]
       IN  IF r = None THEN WaitFalse
           ELSE /\ waiter' = [pc |-> "lock", k |-> waiter.k, r |-> r,
                              timed |-> waiter.timed]
                /\ UNCHANGED futures
    /\ UNCHANGED <<handler, records, serving>>

WaitTimeout ==
    /\ waiter.pc = "lock"
    /\ waiter.timed
    /\ locked[waiter.r]
    /\ WaitFalse
    /\ UNCHANGED <<handler, records, serving>>

\* Copying the result without waiting for the lock.
MutantWaitLock ==
    /\ waiter.pc = "lock"
    /\ waiter' = [pc |-> "copy", k |-> waiter.k, r |-> waiter.r, timed |-> waiter.timed]
    /\ UNCHANGED <<handler, records, futures, serving>>

WaitLock ==
    /\ waiter.pc = "lock"
    /\ ~locked[waiter.r]
    /\ locked' = [locked EXCEPT ![waiter.r] = TRUE]
    /\ waiter' = [pc |-> "copy", k |-> waiter.k, r |-> waiter.r, timed |-> waiter.timed]
    /\ UNCHANGED <<handler, result, data, futures, serving>>

WaitCopy ==
    /\ waiter.pc = "copy"
    /\ value' = [value EXCEPT ![waiter.k] = result[waiter.r]]
    /\ waiter' = [pc |-> "unregister", k |-> waiter.k, r |-> waiter.r,
                  timed |-> waiter.timed]
    /\ UNCHANGED <<handler, records, id, state, timedOut, serving>>

\* detail::RequestHandler::unregisterRequest()
Erase(i) ==
    /\ freeRecords' = IF requests[i] = None THEN freeRecords
                      ELSE <<requests[i]>> \o freeRecords
    /\ requests' = [requests EXCEPT ![i] = None]
    /\ UNCHANGED <<requestID, allocated>>

\* The tail of a successful waitRequest(), and of wait().
WaitUnregister ==
    /\ waiter.pc = "unregister"
    /\ Erase(id[waiter.k])
    /\ state' = [state EXCEPT ![waiter.k] = "DONE"]
    /\ waiter' = Idle
    /\ UNCHANGED <<records, id, value, timedOut, serving>>

\* Request::unregister(), "only used when a waitRequest has timed out".
Unregister(k) ==
    /\ waiter = Idle
    /\ state[k] = "UNRESOLVED"
    /\ k \in timedOut
    /\ state' = [state EXCEPT ![k] = "UNREGISTERED"]
    /\ Erase(id[k])
    /\ UNCHANGED <<records, id, value, timedOut, waiter, serving>>

-------------------------------------------------------------------------------
\* The serving thread.

\* serveRequest(): looks the Record up under the spin lock ...
ServeFind(k) ==
    /\ server = Idle
    /\ k \in told \ found
    /\ found' = found \cup {k}
    /\ server' = IF requests[id[k]] = None THEN Idle
                 ELSE [pc |-> "write", k |-> k, r |-> requests[id[k]], timed |-> FALSE]
    /\ UNCHANGED <<handler, records, futures, waiter, told, served>>

\* Unlocking the Record without having written its result.
MutantServeWrite ==
    /\ server.pc = "write"
    /\ locked' = [locked EXCEPT ![server.r] = FALSE]
    /\ server' = [pc |-> "unlock", k |-> server.k, r |-> server.r, timed |-> FALSE]
    /\ UNCHANGED <<handler, result, data, futures, waiter, told, found, served>>

\* ... writes the result ...
ServeWrite ==
    /\ server.pc = "write"
    /\ result' = [result EXCEPT ![server.r] = server.k]
    /\ server' = [pc |-> "unlock", k |-> server.k, r |-> server.r, timed |-> FALSE]
    /\ UNCHANGED <<handler, locked, data, futures, waiter, told, found, served>>

\* Writing the result and forgetting to unlock the Record.
MutantServeUnlock ==
    /\ server.pc = "unlock"
    /\ served' = served \cup {server.k}
    /\ server' = Idle
    /\ UNCHANGED <<handler, records, futures, waiter, told, found>>

\* ... and unlocks the Record.
ServeUnlock ==
    /\ server.pc = "unlock"
    /\ locked' = [locked EXCEPT ![server.r] = FALSE]
    /\ served' = served \cup {server.k}
    /\ server' = Idle
    /\ UNCHANGED <<handler, result, data, futures, waiter, told, found>>

-------------------------------------------------------------------------------
WaitStep == WaitFind \/ WaitTimeout \/ WaitLock \/ WaitCopy \/ WaitUnregister

ServeStep == ServeWrite \/ ServeUnlock \/ \E k \in Requests : ServeFind(k)

\* An identifier is only used again when nobody refers to its earlier request
\* any more: no request stays in use while LB_MAX_UINT32 others are registered.
FreshID == requests[NextID] = None /\ \A k \in told \ found : id[k] # NextID

Common ==
    \/ \E k \in Requests :
        \/ FreshID /\ \E r \in Records : Register(k, r)
        \/ Tell(k)
        \/ \E timed \in BOOLEAN : CallWait(k, timed)
    \/ WaitStep
    \/ ServeStep

\* A request that times out is unregistered if "the request will no longer be
\* used": the server has not looked it up yet.
Next == Common \/ \E k \in Requests \ found : Unregister(k)

Spec == Init /\ [][Next]_vars

\* A thread inside of a call goes on, and the server serves what it is told.
FairSpec == Spec /\ WF_vars(WaitStep) /\ WF_vars(ServeStep)

\* A request is unregistered after a timeout whatever the server is doing.
LateNext == Common \/ \E k \in Requests : Unregister(k)

LateSpec == Init /\ [][LateNext]_vars

-------------------------------------------------------------------------------
\* The read-only operations.

getRequestData(i) == IF requests[i] = None THEN None ELSE data[requests[i]]

isRequestReady(i) == requests[i] # None /\ ~locked[requests[i]]

-------------------------------------------------------------------------------
\* Type invariant.
Threadlike == [pc : {"idle", "find", "lock", "copy", "unregister", "write", "unlock"},
               k : Requests \cup {None}, r : Records \cup {None}, timed : BOOLEAN]

TypeOK ==
    /\ requestID \in Nat
    /\ requests \in [IDs -> Records \cup {None}]
    /\ freeRecords \in Seq(Records)
    /\ allocated \in SUBSET Records
    /\ locked \in [Records -> BOOLEAN]
    /\ result \in [Records -> Requests \cup {None}]
    /\ data \in [Records -> Requests \cup {None}]
    /\ id \in [Requests -> IDs]
    /\ state \in [Requests -> {"unmade", "UNRESOLVED", "DONE", "UNREGISTERED"}]
    /\ value \in [Requests -> Requests \cup {None}]
    /\ waiter \in Threadlike
    /\ server \in Threadlike
    /\ timedOut \in SUBSET Requests
    /\ told \in SUBSET Requests
    /\ found \in SUBSET Requests
    /\ served \in SUBSET Requests

\* A Record is never shared: it is in the free list once, or belongs to one
\* identifier, and no Record is lost.
RecordsAccounted ==
    /\ TypeOK
    /\ \A i, j \in IDs : requests[i] # None /\ requests[i] = requests[j] => i = j
    /\ \A i \in IDs : requests[i] \notin Range(freeRecords)
    /\ IsInjective(freeRecords)
    /\ allocated = Range(freeRecords) \cup ({requests[i] : i \in IDs} \ {None})

\* waitRequest() returns true, with the result of that very request, only if
\* "the request was served" (requestHandler.h:98).
ResultOfServed == \A k \in Requests : state[k] = "DONE" => k \in served /\ value[k] = k

\* waitRequest(), isRequestReady() and getRequestData() speak of the request they
\* are asked about, not of an earlier user of the Record.
ReadsCurrent ==
    /\ ResultOfServed
    /\ \A k \in Requests : state[k] = "UNRESOLVED" =>
        /\ isRequestReady(id[k]) => k \in served
        /\ getRequestData(id[k]) = k

\* A wait without timeout for a request the server knows of returns.
WaitReturns ==
    \A k \in Requests :
        (waiter.k = k /\ ~waiter.timed /\ state[k] = "UNRESOLVED" /\ k \in told)
            ~> state[k] = "DONE"

\* A request as the abstract specification sees it.
PhaseOf(k) ==
    CASE state[k] = "unmade" -> "unmade"
      [] state[k] = "UNRESOLVED" /\ k \notin served -> "pending"
      [] state[k] = "UNRESOLVED" /\ k \in served -> "fulfilled"
      [] state[k] = "DONE" -> "done"
      [] state[k] = "UNREGISTERED" -> "dropped"
Phase == [k \in Requests |-> PhaseOf(k)]
Answer == [k \in Requests |-> IF state[k] = "DONE" THEN value[k] ELSE None]

Abstract == INSTANCE Promises WITH phase <- Phase, answer <- Answer

\* The handler implements the abstract promises: a request is answered once, with
\* its own result, and only after it was served (requestHandler.h:98).
ImplementsPromises == Abstract!Spec
===============================================================================
