-------------------------------- MODULE Monitor -------------------------------
(***************************************************************************)
(* lunchbox::Monitor (monitor.h): a value on which threads wait until it   *)
(* meets a condition, guarded by one mutex and one condition variable.     *)
(*                                                                         *)
(* A critical section of the mutex is one step.  A wait whose predicate is *)
(* false sleeps on the condition until a notify_all, a timeout or a        *)
(* spurious wakeup, and tests its predicate again.  Values are unsigned    *)
(* integers of MonitorWidth[m] bits, as in Monitoru; the monitors of one bit are  *)
(* the specialisation Monitor<bool>.                                       *)
(***************************************************************************)
EXTENDS Integers, FiniteSets, FiniteSetsExt

CONSTANTS
    MonitorThreads,
    Monitors,
    MonitorWidth,   \* MonitorWidth[m]: the number of bits of the value of m
    Calls           \* the calls the threads make

Waits == {"EQ", "NE", "NE2", "GE", "LE", "GT", "LT"}
Changes == {"inc", "dec", "set", "or", "and"}
Tests == {"==", "!=", "<", ">", "<=", ">=", "bool"}
Reads == {"get", "+", "|", "&"}

\* A call of op on monitor m with the arguments v and w; from is the right-hand
\* side of an assignment, and of a comparison with another monitor; timed calls
\* have a timeout.
CallRecords == [op : Waits \cup Changes \cup Tests \cup Reads \cup {"none", "assign"},
                m : Monitors, from : Monitors, v : Nat, w : Nat, timed : BOOLEAN]

ASSUME WidthAssumption == MonitorWidth \in [Monitors -> Nat \ {0}]
ASSUME MonitorsAssumption == Monitors # {}
ASSUME CallsAssumption ==
    /\ Calls \subseteq CallRecords
    /\ \A c \in Calls :
        /\ c.v < 2 ^ MonitorWidth[c.m] /\ c.w < 2 ^ MonitorWidth[c.m]
        /\ MonitorWidth[c.from] = MonitorWidth[c.m]
        /\ c.op # "none"
        /\ c.timed => c.op \in Waits

VARIABLES
    _value,     \* _value[m]: m._value
    status,     \* status[t]: idle, awake, sleeping, expired (timed out)
    call,       \* call[t]: the call t is in
    ret         \* ret[t]: what its last call returned: success, and the value

monitorVars == <<_value, status, call, ret>>

Values(m) == 0 .. 2 ^ MonitorWidth[m] - 1
Bool(m) == MonitorWidth[m] = 1

AnyMonitor == CHOOSE m \in Monitors : TRUE
NoMonitorCall == [op |-> "none", m |-> AnyMonitor, from |-> AnyMonitor, v |-> 0, w |-> 0,
           timed |-> FALSE]
NoRet == [ok |-> TRUE, value |-> 0]

MonitorInit ==
    /\ _value \in [Monitors -> UNION {Values(m) : m \in Monitors}]
    /\ \A m \in Monitors : _value[m] \in Values(m)
    /\ status = [t \in MonitorThreads |-> "idle"]
    /\ call = [t \in MonitorThreads |-> NoMonitorCall]
    /\ ret = [t \in MonitorThreads |-> NoRet]

-------------------------------------------------------------------------------
\* The predicate of call c on value x.
Meets(c, x) ==
    CASE c.op = "EQ"  -> x = c.v
      [] c.op = "NE"  -> x # c.v
      [] c.op = "NE2" -> x # c.v /\ x # c.w
      [] c.op = "GE"  -> x >= c.v
      [] c.op = "LE"  -> x <= c.v
      [] c.op = "GT"  -> x > c.v
      [] c.op = "LT"  -> x < c.v
      [] OTHER        -> TRUE

Ready(t) == Meets(call[t], _value[call[t].m])

\* The bits that are set in x, and the integer with these bits.
Bits(m, x) == {i \in 0 .. MonitorWidth[m] - 1 : (x \div 2 ^ i) % 2 = 1}
FromBits(bits) == MapThenSumSet(LAMBDA i : 2 ^ i, bits)

\* What c makes of the value of its monitor.  ++ and -- of Monitor<bool> both
\* invert the value; they assert that it was false.
NewValue(c) ==
    LET x == _value[c.m]
        n == 2 ^ MonitorWidth[c.m]
    IN  CASE c.op = "inc" -> IF Bool(c.m) THEN 1 - x ELSE (x + 1) % n
          [] c.op = "dec" -> IF Bool(c.m) THEN 1 - x ELSE (x - 1) % n
          [] c.op = "set" -> c.v
          [] c.op = "or"  -> FromBits(Bits(c.m, x) \cup Bits(c.m, c.v))
          [] c.op = "and" -> FromBits(Bits(c.m, x) \cap Bits(c.m, c.v))

\* t leaves its call and returns ok and x.
Return(t, ok, x) ==
    /\ status' = [status EXCEPT ![t] = "idle"]
    /\ call' = [call EXCEPT ![t] = NoMonitorCall]
    /\ ret' = [ret EXCEPT ![t] = [ok |-> ok, value |-> x]]

\* The same, after _condition.notify_all().
ReturnNotify(t, ok, x) ==
    /\ status' = [u \in MonitorThreads |->
                    IF u = t THEN "idle"
                    ELSE IF status[u] = "sleeping" /\ call[u].m = call[t].m
                         THEN "awake" ELSE status[u]]
    /\ call' = [call EXCEPT ![t] = NoMonitorCall]
    /\ ret' = [ret EXCEPT ![t] = [ok |-> ok, value |-> x]]

-------------------------------------------------------------------------------
MonitorCall(t, c) ==
    /\ status[t] = "idle"
    /\ call' = [call EXCEPT ![t] = c]
    /\ status' = [status EXCEPT ![t] = "awake"]
    /\ ret' = [ret EXCEPT ![t] = NoRet]
    /\ UNCHANGED _value

\* A change that wakes nobody if it does not raise the value.
MutantChange(t) ==
    /\ status[t] = "awake"
    /\ call[t].op \in Changes
    /\ _value' = [_value EXCEPT ![call[t].m] = NewValue(call[t])]
    /\ IF NewValue(call[t]) > _value[call[t].m]
       THEN ReturnNotify(t, TRUE, _value[call[t].m])
       ELSE Return(t, TRUE, _value[call[t].m])

\* ++, --, set(), |= and &=.  set() returns the old value.
Change(t) ==
    /\ status[t] = "awake"
    /\ call[t].op \in Changes
    /\ ~(Bool(call[t].m) /\ call[t].op = "or" /\ call[t].v = 0)
    /\ _value' = [_value EXCEPT ![call[t].m] = NewValue(call[t])]
    /\ ReturnNotify(t, TRUE, _value[call[t].m])

\* |= of Monitor<bool> with false does nothing.
OrFalse(t) ==
    /\ status[t] = "awake"
    /\ Bool(call[t].m) /\ call[t].op = "or" /\ call[t].v = 0
    /\ Return(t, TRUE, _value[call[t].m])
    /\ UNCHANGED _value

\* Assignment of a monitor: reads its value without its mutex, then set().
AssignRead(t) ==
    /\ status[t] = "awake"
    /\ call[t].op = "assign"
    /\ call' = [call EXCEPT ![t] =
                  [op |-> "set", m |-> call[t].m, from |-> call[t].from,
                   v |-> _value[call[t].from], w |-> 0, timed |-> FALSE]]
    /\ UNCHANGED <<_value, status, ret>>

\* The comparison operators take the mutex of the left monitor only, and the
\* conversion to bool tests for a value other than 0.
Compare(t) ==
    LET c == call[t]
        x == _value[c.m]
        y == IF c.from = c.m THEN c.v ELSE _value[c.from]
    IN  /\ status[t] = "awake"
        /\ c.op \in Tests
        /\ Return(t, CASE c.op = "==" -> x = y [] c.op = "!=" -> x # y
                       [] c.op = "<"  -> x < y [] c.op = ">"  -> x > y
                       [] c.op = "<=" -> x <= y [] c.op = ">=" -> x >= y
                       [] c.op = "bool" -> x # 0, x)
        /\ UNCHANGED _value

\* get() and the operators that compute with the value and leave it alone.
Read(t) ==
    LET c == call[t]
        x == _value[c.m]
    IN  /\ status[t] = "awake"
        /\ c.op \in Reads
        /\ Return(t, TRUE, CASE c.op = "get" -> x
                             [] c.op = "+" -> (x + c.v) % 2 ^ MonitorWidth[c.m]
                             [] c.op = "|" -> FromBits(Bits(c.m, x) \cup Bits(c.m, c.v))
                             [] c.op = "&" -> FromBits(Bits(c.m, x) \cap Bits(c.m, c.v)))
        /\ UNCHANGED _value

-------------------------------------------------------------------------------
\* _wait() and _timedWait().

Sleep(t) ==
    /\ status[t] = "awake"
    /\ ~Ready(t)
    /\ status' = [status EXCEPT ![t] = "sleeping"]
    /\ UNCHANGED <<_value, call, ret>>

SpuriousWakeup(t) ==
    /\ status[t] = "sleeping"
    /\ status' = [status EXCEPT ![t] = "awake"]
    /\ UNCHANGED <<_value, call, ret>>

Expire(t) ==
    /\ status[t] = "sleeping"
    /\ call[t].timed
    /\ status' = [status EXCEPT ![t] = "expired"]
    /\ UNCHANGED <<_value, call, ret>>

\* A wait that takes every wakeup for success.
MutantWaitReturn(t) ==
    /\ status[t] \in {"awake", "expired"}
    /\ call[t].op \in Waits
    /\ Return(t, TRUE, _value[call[t].m])
    /\ UNCHANGED _value

WaitReturn(t) ==
    /\ status[t] \in {"awake", "expired"}
    /\ call[t].op \in Waits
    /\ Ready(t)
    /\ Return(t, TRUE, _value[call[t].m])
    /\ UNCHANGED _value

\* wait_for() tests the predicate once more after the timeout.
TimedOut(t) ==
    /\ status[t] = "expired"
    /\ ~Ready(t)
    /\ Return(t, FALSE, _value[call[t].m])
    /\ UNCHANGED _value

-------------------------------------------------------------------------------
\* What t does inside of a call.
MonitorStep(t) ==
    \/ Change(t) \/ OrFalse(t) \/ AssignRead(t) \/ Compare(t) \/ Read(t)
    \/ Sleep(t) \/ WaitReturn(t) \/ TimedOut(t)

MonitorNext ==
    \E t \in MonitorThreads :
        \/ \E c \in Calls : MonitorCall(t, c)
        \/ MonitorStep(t)
        \/ SpuriousWakeup(t)
        \/ Expire(t)

MonitorSpec == MonitorInit /\ [][MonitorNext]_monitorVars

\* A thread that is not blocked is scheduled.
MonitorFairSpec == MonitorSpec /\ \A t \in MonitorThreads : WF_monitorVars(MonitorStep(t))

-------------------------------------------------------------------------------
\* Type invariant: the arithmetic and bitwise operators stay in the range of
\* the value.
MonitorTypeOK ==
    /\ _value \in [Monitors -> Nat]
    /\ \A m \in Monitors : _value[m] \in Values(m)
    /\ status \in [MonitorThreads -> {"idle", "awake", "sleeping", "expired"}]
    /\ call \in [MonitorThreads -> CallRecords]
    /\ ret \in [MonitorThreads -> [ok : BOOLEAN, value : Nat]]

\* No lost wakeup: the predicate of a sleeping thread is false.
NoLostWakeup == \A t \in MonitorThreads : status[t] = "sleeping" => ~Ready(t)

\* What a wait that ends in this step returns agrees with its predicate.
WaitOutcome ==
    \A t \in MonitorThreads :
        /\ call[t].op \in Waits
        /\ status[t] # "idle" /\ status'[t] = "idle"
        => (ret'[t].ok <=> Meets(call[t], ret'[t].value))

\* A wait returns "the value when reaching the condition" (monitor.h:138), and
\* a timed one "true on success, false on timeout" (monitor.h:214): neither
\* spurious wakeups nor a change that races with the timeout are mistaken, and
\* the values stay in their range.
WaitTellsTruth == [][MonitorTypeOK' /\ WaitOutcome]_monitorVars

\* "The caller is blocked until the condition is fulfilled" (monitor.h:39-40),
\* not longer: nobody waits for ever on a condition that stays fulfilled.
WaitersReturn == \A t \in MonitorThreads : []<>(status[t] = "idle" \/ ~Ready(t))
===============================================================================
