-------------------------------- MODULE RWLock --------------------------------
(***************************************************************************)
(* What lunchbox::SpinLock promises to its callers: an exclusive lock for  *)
(* one writer or a shared lock for any number of readers.  Every grant and *)
(* every release is one atomic step; nothing is said about who is served   *)
(* first, because the class documents that readers or writers may starve.  *)
(***************************************************************************)
CONSTANT Threads

VARIABLES writers,      \* the threads that hold the lock exclusively
          readers       \* the threads that hold the lock shared

lockVars == <<writers, readers>>

Init ==
    /\ writers = {}
    /\ readers = {}

AcquireWrite(t) ==
    /\ writers = {}
    /\ readers = {}
    /\ writers' = {t}
    /\ UNCHANGED readers

ReleaseWrite(t) ==
    /\ t \in writers
    /\ writers' = writers \ {t}
    /\ UNCHANGED readers

AcquireRead(t) ==
    /\ writers = {}
    /\ t \notin readers
    /\ readers' = readers \cup {t}
    /\ UNCHANGED writers

ReleaseRead(t) ==
    /\ t \in readers
    /\ readers' = readers \ {t}
    /\ UNCHANGED writers

Next ==
    \E t \in Threads :
        \/ AcquireWrite(t)
        \/ ReleaseWrite(t)
        \/ AcquireRead(t)
        \/ ReleaseRead(t)

Spec == Init /\ [][Next]_lockVars
===============================================================================
