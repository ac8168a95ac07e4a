------------------------------ MODULE MCThreadPool ----------------------------
(***************************************************************************)
(* Three workers, two clients; the first task posts two more.              *)
(***************************************************************************)
EXTENDS ThreadPool

CONSTANTS c1, c2, k1, k2, k3, k4, k5

MCClients == {c1, c2}
MCTasks == {k1, k2, k3, k4, k5}
MCProgram == [c \in MCClients |-> IF c = c1 THEN {k1} ELSE {k2, k3}]
MCSpawn == [k \in MCTasks |-> IF k = k1 THEN {k4, k5} ELSE {}]
===============================================================================
