------------------------------ MODULE MCLFVector ------------------------------
(***************************************************************************)
(* A vector of three slots, for 7 elements, that two threads change, one   *)
(* that is assigned to it, and one of one slot, a copy of the second.     *)
(***************************************************************************)
EXTENDS LFVector, TLC

CONSTANTS a, b, c, x, y, t1, t2

MCThreads == {t1, t2}
MCVectors == {a, b, c}
MCNSlots == [v \in MCVectors |-> IF v = c THEN 1 ELSE 3]

MCCall(op, v, from, item, n) == [op |-> op, v |-> v, from |-> from, item |-> item, n |-> n]

MCCalls ==
    ( t1 :> { MCCall("push", a, a, x, 0), MCCall("batch", a, a, x, 2),
              MCCall("expand", a, a, x, 4), MCCall("erasePos", a, a, Default, 1),
              MCCall("assign", a, b, Default, 0), MCCall("assign", a, a, Default, 0) } @@
      t2 :> { MCCall("push", a, a, x, 0), MCCall("pop", a, a, Default, 0),
              MCCall("erasePos", a, a, Default, 1), MCCall("eraseItem", a, a, x, 0),
              MCCall("resize", a, a, x, 1), MCCall("clear", a, a, Default, 0),
              MCCall("copy", c, b, Default, 0) } )

MCConstructs == {<<a, 0, x>>, <<b, 4, y>>}
MCWrites == {<<a, 0, x>>}
===============================================================================
