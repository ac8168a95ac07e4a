-------------------------------- MODULE Clock --------------------------------
(***************************************************************************)
(* lunchbox::Clock (clock.cpp) on Linux: the time since a start, which is  *)
(* kept as a timespec of seconds and nanoseconds.  The arithmetic is that  *)
(* of the code, with its truncating conversions to integers, in scaled     *)
(* units: a second has Millis milliseconds of Nanos nanoseconds (the       *)
(* code's 1000 and 1000000), and an int goes up to IntMax (2^31 - 1).      *)
(*                                                                         *)
(* set() computes in int: a conversion of a larger number is modulo 2^32,  *)
(* and a sum or product that does not fit is undefined.  The rest has 64   *)
(* bits, enough for 292 years of nanoseconds.  The rounding of float is    *)
(* left out.                                                               *)
(***************************************************************************)
EXTENDS Integers

CONSTANTS
    Millis,   \* milliseconds in a second
    Nanos,    \* nanoseconds in a millisecond
    IntMax,   \* the largest int, at least two seconds of nanoseconds
    Times,    \* the times the clock is set to, in milliseconds
    MaxTime   \* bound: the last instant, in nanoseconds

ASSUME UnitsAssumption ==
    /\ Millis \in Nat \ {0} /\ Nanos \in Nat \ {0}
    /\ IntMax \in Nat /\ 2 * (Millis * Nanos) <= IntMax
ASSUME TimesAssumption == Times \subseteq Int

VARIABLES
    now,      \* the instant, in nanoseconds
    start,    \* _impl->start
    elapsed,  \* history: the time since the last reset() or set(), in nanoseconds
    laps,     \* history: the sum of what resetTimef() has returned since then
    setTo     \* history: the time of that set(), 0 for a reset()

clockVars == <<now, start, elapsed, laps, setTo>>

Second == Millis * Nanos

\* clock_gettime( CLOCK_REALTIME )
Timespec(t) == [sec |-> t \div Second, nsec |-> t % Second]

ClockInit ==
    /\ now \in 0..Second
    /\ start = Timespec(now)
    /\ elapsed = 0 /\ laps = 0 /\ setTo = 0

\* Division and conversion of a quotient to an integer round towards zero.
Quotient(a, b) == IF a >= 0 THEN a \div b ELSE -((-a) \div b)

Ints == -IntMax - 1 .. IntMax

\* static_cast< int >
AsInt(x) ==
    IF x \in Ints THEN x ELSE ((x + IntMax + 1) % (2 * (IntMax + 1))) - (IntMax + 1)

\* The sum or product x of two int: the build has it in 32 bits, or in a wider register.
IntResults(x) == {x, AsInt(x)}
-----------------------------------------------------------------------------
\* reset()
ResetClock ==
    /\ start' = Timespec(now)
    /\ elapsed' = 0 /\ laps' = 0 /\ setTo' = 0
    /\ UNCHANGED now

\* set(): one second more than needed is subtracted, and given back in nanoseconds.
SetClock(time) ==
    /\ \E sec \in IntResults(AsInt(Quotient(time, Millis)) + 1) :
       \E millis \in IntResults(sec * Millis) :
           LET at == Timespec(now)
               nsec == at.nsec - AsInt((time - millis) * Nanos)
           IN  start' = IF nsec > Second THEN [sec |-> at.sec - sec + 1, nsec |-> nsec - Second]
                                         ELSE [sec |-> at.sec - sec, nsec |-> nsec]
    /\ elapsed' = time * Nanos /\ laps' = 0 /\ setTo' = time
    /\ UNCHANGED now

\* getTimef(): milliseconds and fractions, here in nanoseconds.
GetTimef ==
    Second * (Timespec(now).sec - start.sec) + (Timespec(now).nsec - start.nsec)

\* getTimed(): the same as a double.
GetTimed == GetTimef

\* resetTimef(): one reading of the time ends this lap and starts the next.
ResetTimef ==
    /\ laps' = laps + GetTimef
    /\ start' = Timespec(now)
    /\ UNCHANGED <<now, elapsed, setTo>>

MutantGetTime64 ==
    Millis * (Timespec(now).sec - start.sec) + Quotient(Timespec(now).nsec - start.nsec, Nanos)

\* getTime64(): half a millisecond is added, to round to the nearest.
GetTime64 ==
    Millis * (Timespec(now).sec - start.sec)
        + Quotient(Timespec(now).nsec - start.nsec + Nanos \div 2, Nanos)

Pass ==
    /\ now < MaxTime
    /\ now' = now + 1
    /\ elapsed' = elapsed + 1
    /\ UNCHANGED <<start, laps, setTo>>

ClockNext == ResetClock \/ ResetTimef \/ (\E time \in Times : SetClock(time)) \/ Pass

ClockSpec == ClockInit /\ [][ClockNext]_clockVars
-----------------------------------------------------------------------------
\* The ints that set() computes for a time: with 2^31 - 1 these are the times of
\* less than 2147483000 milliseconds, and more than -2147485000.
Fits(time) ==
    LET sec == Quotient(time, Millis)
    IN  {sec, sec + 1, (sec + 1) * Millis} \subseteq Ints

(* The clock tells the time: whenever it was reset, or set to a time that  *)
(* fits (up to 24.8 days, in the past or in the future), and across the    *)
(* change of the second, the laps of resetTimef() and what the             *)
(* floating-point getters return add up to the elapsed time, and           *)
(* getTime64() is at most half a millisecond behind the lap and less than  *)
(* one and a half ahead: when the difference of the nanoseconds is         *)
(* negative, the conversion to an integer rounds up a second time.  What   *)
(* set() does with other times (clock.cpp:98, 100) lasts until the next    *)
(* reset() or set() and no longer.                                         *)
ClockTellsTime ==
    Fits(setTo) =>
        /\ laps + GetTimed = elapsed
        /\ 2 * GetTime64 * Nanos - 2 * (elapsed - laps) \in -Nanos .. 3 * Nanos - 1
=============================================================================
