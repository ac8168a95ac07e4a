------------------------------- MODULE MCMonitor ------------------------------
(***************************************************************************)
(* Three threads, a monitor of two bits and a bool monitor.                *)
(***************************************************************************)
EXTENDS Monitor

CONSTANTS num, flag

MCMonitors == {num, flag}
MCWidth == [m \in MCMonitors |-> IF m = num THEN 2 ELSE 1]

MCCall(op, m, v, w, timed) ==
    [op |-> op, m |-> m, from |-> m, v |-> v, w |-> w, timed |-> timed]

MCCalls ==
    { MCCall("inc", num, 0, 0, FALSE), MCCall("dec", num, 0, 0, FALSE),
      MCCall("or", num, 1, 0, FALSE), MCCall("and", num, 2, 0, FALSE),
      MCCall("assign", num, 0, 0, FALSE),
      MCCall("or", flag, 0, 0, FALSE), MCCall("inc", flag, 0, 0, FALSE),
      MCCall("dec", flag, 0, 0, FALSE), MCCall("set", flag, 0, 0, FALSE),
      MCCall("EQ", num, 2, 0, FALSE), MCCall("NE2", num, 0, 1, FALSE),
      MCCall("GE", num, 2, 0, TRUE), MCCall("LT", num, 1, 0, TRUE),
      MCCall("LE", num, 1, 0, FALSE), MCCall("GT", num, 2, 0, FALSE),
      MCCall("NE", flag, 0, 0, FALSE),
      MCCall("<=", num, 1, 0, FALSE), MCCall("+", num, 3, 0, FALSE) }
===============================================================================
