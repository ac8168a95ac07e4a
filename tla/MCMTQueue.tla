------------------------------- MODULE MCMTQueue ------------------------------
(***************************************************************************)
(* Two queues on which three threads make any calls in any order.          *)
(***************************************************************************)
EXTENDS MTQueue, TLC

CONSTANTS q1, q2, t1, t2, t3, a

MCThreads == {t1, t2, t3}
MCQueues == {q1, q2}
MCSizeMod == 8

MCCall(op, q, n, m, v) ==
    [op |-> op, q |-> q, from |-> q, n |-> n, m |-> m, v |-> v]

MCCalls ==
    { MCCall(op, q1, 0, 0, <<a>>) : op \in {"push", "pushFront"} }
    \cup { MCCall(op, q1, 0, 0, <<a, a>>) : op \in {"pushVector", "pushFrontVector"} }
    \cup { MCCall(op, q1, 0, 0, <<>>) :
               op \in {"pop", "timedPop", "tryPop", "getFront", "getBack", "clear", "at",
                      "popBarrier"} }
    \cup { MCCall("setMaxSize", q1, n, 0, <<>>) : n \in {1, 2} }
    \cup { MCCall("timedPopRange", q1, 2, 2, <<>>), MCCall("tryPopRange", q1, 2, 0, <<>>),
           MCCall("waitSize", q1, 2, 0, <<>>), MCCall("push", q2, 0, 0, <<a>>) }
    \cup { [op |-> "assign", q |-> q1, from |-> q, n |-> 0, m |-> 0, v |-> <<>>] :
               q \in MCQueues }

MCSymmetry == Permutations(MCThreads)
===============================================================================
