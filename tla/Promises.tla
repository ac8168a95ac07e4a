-------------------------------- MODULE Promises ------------------------------
(***************************************************************************)
(* What the request handler promises to its two threads: a request that    *)
(* is made can be fulfilled once, its maker gets the result of exactly     *)
(* that request, and only after it has been fulfilled; a request can be    *)
(* given up instead.                                                       *)
(***************************************************************************)
CONSTANTS Requests, None

VARIABLES
    phase,      \* phase[k]: unmade, pending, fulfilled, done, dropped
    answer      \* answer[k]: whose result the maker of k got, or None

Init ==
    /\ phase = [k \in Requests |-> "unmade"]
    /\ answer = [k \in Requests |-> None]

Make(k) ==
    /\ phase[k] = "unmade"
    /\ phase' = [phase EXCEPT ![k] = "pending"]
    /\ UNCHANGED answer

Fulfil(k) ==
    /\ phase[k] = "pending"
    /\ phase' = [phase EXCEPT ![k] = "fulfilled"]
    /\ UNCHANGED answer

Get(k) ==
    /\ phase[k] = "fulfilled"
    /\ phase' = [phase EXCEPT ![k] = "done"]
    /\ answer' = [answer EXCEPT ![k] = k]

Drop(k) ==
    /\ phase[k] \in {"pending", "fulfilled"}
    /\ phase' = [phase EXCEPT ![k] = "dropped"]
    /\ UNCHANGED answer

Next == \E k \in Requests : Make(k) \/ Fulfil(k) \/ Get(k) \/ Drop(k)

Spec == Init /\ [][Next]_<<phase, answer>>
===============================================================================
