------------------------------ MODULE MCSharing -------------------------------
(***************************************************************************)
(* The spin lock with three threads that call all of its operations,       *)
(* atomic variables with two threads, and a Thread object with its owner   *)
(* and up to three children.  They do not call each other, so the initial  *)
(* state picks the one that moves (focus), as in MCComponents.             *)
(***************************************************************************)
EXTENDS SpinLock, AtomicLoops, Thread

VARIABLE focus

MCSwaps == {<<0, 1>>}

MCInit == focus \in {"lock", "atomic", "thread"} /\ Init /\ LoopsInit /\ ThreadInit

MCNext ==
    /\ UNCHANGED focus
    /\ \/ focus = "lock" /\ Next /\ UNCHANGED <<loopVars, threadVars>>
       \/ focus = "atomic" /\ LoopsNext /\ UNCHANGED <<vars, threadVars>>
       \/ focus = "thread" /\ ThreadNext /\ UNCHANGED <<vars, loopVars>>

MCSpec ==
    /\ MCInit /\ [][MCNext]_<<focus, vars, loopVars, threadVars>>
    /\ Fairness /\ ThreadFairness
===============================================================================
