---------------------------- MODULE Thread_proofs -----------------------------
(***************************************************************************)
(* Proofs about the Thread object and the log of its threads.              *)
(*                                                                         *)
(* Thread, for any number of starts, tries and cancels: what start() and   *)
(* join() return is true of the child.                                     *)
(*                                                                         *)
(* ThreadLog, for any number of starts and log files: lines are not mixed, *)
(* no text is lost, and nobody holds on to a stream that was deleted.      *)
(***************************************************************************)
EXTENDS ThreadLog, Log_proofs, TLAPS

(***************************************************************************)
(* Thread.  Identifiers are given out in order, so id is the last child,   *)
(* and it is the only one that may still be active.  What the owner may    *)
(* conclude from the state at each point of start() and join() is the rest *)
(* of the invariant; a canceled child is exempted from it, since cancel()  *)
(* announces STATE_STOPPING before the child has ended.                    *)
(***************************************************************************)
\* The child is between run() and the end of exit().
Running(c) == child[c] \in {"run", "exit"}

\* id is the last child that pthread_create() has made, and all others ended.
LastChild ==
    /\ \A c \in Children : child[c] = "none" <=> c > id
    /\ \A c \in Children : c # id => child[c] \in {"none", "gone"}

\* Until init() has returned the owner waits in start(); from then on the state
\* tells that the child runs, except while it is being canceled.
StateOfChild ==
    \A c \in Children :
        /\ child[c] \in {"created", "init"} =>
              threadState = "STARTING" /\ owner = "wait" /\ c \notin canceled
        /\ Running(c) => c \in ready
        /\ Running(c) /\ c \notin canceled =>
              /\ threadState = "RUNNING" \/ owner = "cancel"
              /\ owner \notin {"starting", "create", "joinSet"}

\* What the owner knows inside of start().
StartOK ==
    /\ owner \in {"starting", "create", "wait", "detach"} =>
          \A c \in canceled : child[c] = "gone"
    /\ owner = "starting" => threadState = "STOPPED"
    /\ owner = "create" => threadState = "STARTING"
    /\ owner = "detach" => threadState # "STARTING"
    /\ owner \in {"wait", "detach"} /\ threadState \in {"RUNNING", "STOPPING"} => id \in ready

\* The last call of the owner was a successful start() or join().
HasStarted == ret = <<"start", TRUE>>
HasJoined == ret = <<"join", TRUE>>

\* What the owner knows when join() has seen that the state is not RUNNING.
JoinOK ==
    owner = "joinSet" \/ (owner = "idle" /\ HasJoined) =>
        \A c \in Children \ canceled : child[c] \in {"none", "gone"}

\* The inductive invariant.
ThreadInv ==
    /\ ThreadTypeOK
    /\ LastChild
    /\ StateOfChild
    /\ StartOK
    /\ JoinOK
    /\ StartTellsOutcome

-------------------------------------------------------------------------------
\* A part of the invariant is kept when the variables in it are.
LEMMA ThreadFrames ==
    /\ LastChild /\ UNCHANGED <<id, child>> => LastChild'
    /\ StateOfChild /\ UNCHANGED <<child, threadState, owner, canceled, ready>> => StateOfChild'
    /\ StartOK /\ UNCHANGED <<owner, canceled, child, threadState, id, ready>> => StartOK'
    /\ JoinOK /\ UNCHANGED <<owner, ret, canceled, child>> => JoinOK'
    /\ StartTellsOutcome /\ UNCHANGED <<owner, ret, id, ready>> => StartTellsOutcome'
<1>1. LastChild /\ UNCHANGED <<id, child>> => LastChild'
  BY DEF LastChild
<1>2. StateOfChild /\ UNCHANGED <<child, threadState, owner, canceled, ready>> => StateOfChild'
  BY DEF StateOfChild, Running
<1>3. StartOK /\ UNCHANGED <<owner, canceled, child, threadState, id, ready>> => StartOK'
  BY DEF StartOK
<1>4. JoinOK /\ UNCHANGED <<owner, ret, canceled, child>> => JoinOK'
  BY Zenon DEF JoinOK, HasJoined
<1>5. StartTellsOutcome /\ UNCHANGED <<owner, ret, id, ready>> => StartTellsOutcome'
  BY DEF StartTellsOutcome
<1> QED
  BY <1>1, <1>2, <1>3, <1>4, <1>5

\* The outcomes of the calls have their type.
LEMMA OutcomeType ==
    \A op \in {"none", "start", "join", "cancel"}, r \in BOOLEAN :
        <<op, r>> \in {"none", "start", "join", "cancel"} \X BOOLEAN
OBVIOUS

\* Different outcomes are told apart.
LEMMA Outcomes ==
    /\ \A r : <<"start", r>> # <<"join", TRUE>>
    /\ \A r : <<"join", r>> # <<"start", TRUE>>
    /\ <<"start", FALSE>> # <<"start", TRUE>>
    /\ <<"join", FALSE>> # <<"join", TRUE>>
OBVIOUS

\* pthread_create() makes the child after the last one.
LEMMA NextChild ==
    ASSUME ThreadInv, NEW c \in Children, Create(c)
    PROVE  c = id + 1
<1>1. id \in 0 .. MaxStarts /\ c \in 1 .. MaxStarts
  BY BoundsAssumption DEF ThreadInv, ThreadTypeOK, Children, None
<1>2. c > id
  BY DEF ThreadInv, LastChild, Create
<1>3. ASSUME id + 1 < c
      PROVE  FALSE
  <2>1. id + 1 \in Children
    BY <1>1, <1>3, BoundsAssumption DEF Children
  <2> QED
    BY <1>1, <1>3, <2>1 DEF ThreadInv, LastChild, Create
<1> QED
  BY <1>1, <1>2, <1>3

\* The invariant holds before the first start().
LEMMA ThreadInitInv == ThreadInit => ThreadInv
<1> SUFFICES ASSUME ThreadInit PROVE ThreadInv
  OBVIOUS
<1>1. ThreadTypeOK
  <2>1. ret \in {"none", "start", "join", "cancel"} \X BOOLEAN
    BY OutcomeType, Zenon DEF ThreadInit
  <2> QED
    BY <2>1, BoundsAssumption DEF ThreadInit, ThreadTypeOK, States
<1>2. LastChild /\ StateOfChild /\ StartOK
  BY DEF ThreadInit, LastChild, StateOfChild, Running, StartOK, Children, None
<1>3. JoinOK /\ StartTellsOutcome
  BY DEF ThreadInit, JoinOK, HasJoined, StartTellsOutcome
<1> QED
  BY <1>1, <1>2, <1>3 DEF ThreadInv

-------------------------------------------------------------------------------
\* The owner calls start(), join() or cancel().
LEMMA OwnerCallInv ==
    ASSUME ThreadInv, OwnerCall
    PROVE  ThreadInv'
<1>1. ASSUME \A c \in canceled : child[c] = "gone", StartCheck
      PROVE  ThreadInv'
  <2>1. ret' \in {"none", "start", "join", "cancel"} \X BOOLEAN
    BY <1>1, OutcomeType, Zenon DEF StartCheck, Return, ThreadInv, ThreadTypeOK
  <2>2. /\ owner = "idle"
        /\ \/ threadState # "STOPPED" /\ owner' = "idle" /\ ~HasStarted' /\ ~HasJoined'
           \/ threadState = "STOPPED" /\ owner' = "starting"
        /\ UNCHANGED <<threadState, id, threads, tries, child, ready, canceled>>
    BY <1>1, Outcomes, Zenon DEF StartCheck, Return, HasStarted, HasJoined
  <2>3. ThreadTypeOK'
    BY <2>1, <2>2, BoundsAssumption DEF ThreadInv, ThreadTypeOK, States
  <2>4. LastChild'
    BY <2>2, ThreadFrames DEF ThreadInv
  <2>5. StateOfChild'
    BY <2>2, <1>1 DEF ThreadInv, ThreadTypeOK, LastChild, StateOfChild, Running, StartOK, JoinOK
  <2>6. StartOK'
    BY <2>2, <1>1 DEF ThreadInv, ThreadTypeOK, LastChild, StateOfChild, Running, StartOK
  <2>7. JoinOK'
    BY <2>2, <1>1 DEF ThreadInv, ThreadTypeOK, LastChild, StateOfChild, Running, StartOK, JoinOK
  <2>8. StartTellsOutcome'
    BY <2>2, <1>1 DEF HasStarted, ThreadInv, ThreadTypeOK, StateOfChild, StartOK, StartTellsOutcome
  <2> QED
    BY <2>3, <2>4, <2>5, <2>6, <2>7, <2>8 DEF ThreadInv
<1>2. ASSUME JoinCheck
      PROVE  ThreadInv'
  <2>1. ret' \in {"none", "start", "join", "cancel"} \X BOOLEAN
    BY <1>2, OutcomeType, Zenon DEF JoinCheck, Return, ThreadInv, ThreadTypeOK
  <2>2. /\ owner = "idle"
        /\ \/ owner' = "idle" /\ ~HasStarted' /\ ~HasJoined'
           \/ owner' = "joinWait"
        /\ UNCHANGED <<threadState, id, threads, tries, child, ready, canceled>>
    BY <1>2, Outcomes, Zenon DEF JoinCheck, Return, HasStarted, HasJoined
  <2>3. ThreadTypeOK'
    BY <2>1, <2>2, BoundsAssumption DEF ThreadInv, ThreadTypeOK, States
  <2>4. LastChild'
    BY <2>2, ThreadFrames DEF ThreadInv
  <2>5. StateOfChild'
    BY <2>2 DEF ThreadInv, ThreadTypeOK, LastChild, StateOfChild, Running, StartOK, JoinOK
  <2>6. StartOK'
    BY <2>2 DEF ThreadInv, ThreadTypeOK, LastChild, StateOfChild, Running, StartOK
  <2>7. JoinOK'
    BY <2>2 DEF ThreadInv, ThreadTypeOK, LastChild, StateOfChild, Running, StartOK, JoinOK
  <2>8. StartTellsOutcome'
    BY <2>2 DEF HasStarted, ThreadInv, ThreadTypeOK, StateOfChild, StartOK, StartTellsOutcome
  <2> QED
    BY <2>3, <2>4, <2>5, <2>6, <2>7, <2>8 DEF ThreadInv
<1>3. ASSUME CancelSet
      PROVE  ThreadInv'
  <2>1. ThreadTypeOK'
    BY <1>3, BoundsAssumption DEF CancelSet, ThreadInv, ThreadTypeOK, States, Children
  <2>2. LastChild'
    BY <1>3, ThreadFrames DEF CancelSet, ThreadInv
  <2>3. StateOfChild'
    BY <1>3 DEF CancelSet, ThreadInv, ThreadTypeOK, LastChild, StateOfChild, Running, StartOK, JoinOK
  <2>4. StartOK'
    BY <1>3 DEF CancelSet, ThreadInv, ThreadTypeOK, LastChild, StateOfChild, Running, StartOK
  <2>5. JoinOK'
    BY <1>3 DEF CancelSet, ThreadInv, ThreadTypeOK, LastChild, StateOfChild, Running, StartOK, JoinOK
  <2>6. StartTellsOutcome'
    BY <1>3 DEF CancelSet, ThreadInv, ThreadTypeOK, StateOfChild, StartOK, StartTellsOutcome
  <2> QED
    BY <2>1, <2>2, <2>3, <2>4, <2>5, <2>6 DEF ThreadInv
<1> QED
  BY <1>1, <1>2, <1>3 DEF OwnerCall

\* The owner goes on in start(), join() or cancel().
LEMMA OwnerStepInv ==
    ASSUME ThreadInv, OwnerStep
    PROVE  ThreadInv'
<1>1. ASSUME StartSet
      PROVE  ThreadInv'
  <2>1. ThreadTypeOK'
    BY <1>1, BoundsAssumption DEF StartSet, ThreadInv, ThreadTypeOK, States, Children
  <2>2. LastChild'
    BY <1>1, ThreadFrames DEF StartSet, ThreadInv
  <2>3. StateOfChild'
    BY <1>1 DEF StartSet, ThreadInv, ThreadTypeOK, LastChild, StateOfChild, Running, StartOK, JoinOK
  <2>4. StartOK'
    BY <1>1 DEF StartSet, ThreadInv, ThreadTypeOK, LastChild, StateOfChild, Running, StartOK
  <2>5. JoinOK'
    BY <1>1 DEF StartSet, ThreadInv, ThreadTypeOK, LastChild, StateOfChild, Running, StartOK, JoinOK
  <2>6. StartTellsOutcome'
    BY <1>1 DEF StartSet, ThreadInv, ThreadTypeOK, StateOfChild, StartOK, StartTellsOutcome
  <2> QED
    BY <2>1, <2>2, <2>3, <2>4, <2>5, <2>6 DEF ThreadInv
<1>2. ASSUME NEW c \in Children, Create(c)
      PROVE  ThreadInv'
  <2>1. ThreadTypeOK'
    BY <1>2, BoundsAssumption DEF Create, ThreadInv, ThreadTypeOK, States, Children
  <2>2. LastChild'
    <3>1. id \in Nat /\ child \in [Children -> {"none", "created", "init", "run", "exit", "gone"}]
      BY BoundsAssumption DEF ThreadInv, ThreadTypeOK, Children, None
    <3> QED
      BY <1>2, <3>1, NextChild DEF Create, ThreadInv, LastChild, StateOfChild, Running, StartOK, Children
  <2>3. StateOfChild'
    BY <1>2 DEF Create, ThreadInv, ThreadTypeOK, LastChild, StateOfChild, Running, StartOK, JoinOK
  <2>4. StartOK'
    BY <1>2 DEF Create, ThreadInv, ThreadTypeOK, LastChild, StateOfChild, Running, StartOK
  <2>5. JoinOK'
    BY <1>2 DEF Create, ThreadInv, ThreadTypeOK, LastChild, StateOfChild, Running, StartOK, JoinOK
  <2>6. StartTellsOutcome'
    BY <1>2 DEF Create, ThreadInv, ThreadTypeOK, StateOfChild, StartOK, StartTellsOutcome
  <2> QED
    BY <2>1, <2>2, <2>3, <2>4, <2>5, <2>6 DEF ThreadInv
<1>3. ASSUME CreateAgain
      PROVE  ThreadInv'
  <2>1. ThreadTypeOK'
    BY <1>3, BoundsAssumption DEF CreateAgain, ThreadInv, ThreadTypeOK, States, Children
  <2>2. LastChild' /\ StateOfChild' /\ StartOK' /\ JoinOK' /\ StartTellsOutcome'
    BY <1>3, ThreadFrames DEF CreateAgain, ThreadInv
  <2> QED
    BY <2>1, <2>2 DEF ThreadInv
<1>4. ASSUME CreateError
      PROVE  ThreadInv'
  <2>1. ret' \in {"none", "start", "join", "cancel"} \X BOOLEAN
    BY <1>4, OutcomeType, Zenon DEF CreateError, Return, ThreadInv, ThreadTypeOK
  <2>2. /\ owner = "create" /\ tries' = 0
        /\ owner' = "idle" /\ ~HasStarted' /\ ~HasJoined'
        /\ UNCHANGED <<threadState, id, threads, child, ready, canceled>>
    BY <1>4, Zenon DEF CreateError, Return, HasStarted, HasJoined
  <2>3. ThreadTypeOK'
    BY <2>1, <2>2, BoundsAssumption DEF ThreadInv, ThreadTypeOK, States
  <2>4. LastChild'
    BY <2>2, ThreadFrames DEF ThreadInv
  <2>5. StateOfChild'
    BY <2>2 DEF ThreadInv, ThreadTypeOK, LastChild, StateOfChild, Running, StartOK, JoinOK
  <2>6. StartOK'
    BY <2>2 DEF ThreadInv, ThreadTypeOK, LastChild, StateOfChild, Running, StartOK
  <2>7. JoinOK'
    BY <2>2 DEF ThreadInv, ThreadTypeOK, LastChild, StateOfChild, Running, StartOK, JoinOK
  <2>8. StartTellsOutcome'
    BY <2>2 DEF HasStarted, ThreadInv, ThreadTypeOK, StateOfChild, StartOK, StartTellsOutcome
  <2> QED
    BY <2>3, <2>4, <2>5, <2>6, <2>7, <2>8 DEF ThreadInv
<1>5. ASSUME StartWait
      PROVE  ThreadInv'
  <2>1. ThreadTypeOK'
    BY <1>5, BoundsAssumption DEF StartWait, ThreadInv, ThreadTypeOK, States, Children
  <2>2. LastChild'
    BY <1>5, ThreadFrames DEF StartWait, ThreadInv
  <2>3. StateOfChild'
    BY <1>5 DEF StartWait, ThreadInv, ThreadTypeOK, LastChild, StateOfChild, Running, StartOK, JoinOK
  <2>4. StartOK'
    BY <1>5 DEF StartWait, ThreadInv, ThreadTypeOK, LastChild, StateOfChild, Running, StartOK
  <2>5. JoinOK'
    BY <1>5 DEF StartWait, ThreadInv, ThreadTypeOK, LastChild, StateOfChild, Running, StartOK, JoinOK
  <2>6. StartTellsOutcome'
    BY <1>5 DEF StartWait, ThreadInv, ThreadTypeOK, StateOfChild, StartOK, StartTellsOutcome
  <2> QED
    BY <2>1, <2>2, <2>3, <2>4, <2>5, <2>6 DEF ThreadInv
<1>6. ASSUME StartReturn
      PROVE  ThreadInv'
  <2>1. ret' \in {"none", "start", "join", "cancel"} \X BOOLEAN
    BY <1>6, OutcomeType, Zenon DEF StartReturn, Return, ThreadInv, ThreadTypeOK
  <2>2. /\ owner = "detach"
        /\ owner' = "idle" /\ (HasStarted' => threadState # "STOPPED") /\ ~HasJoined'
        /\ UNCHANGED <<threadState, id, threads, tries, child, ready, canceled>>
    BY <1>6, Zenon DEF StartReturn, Return, HasStarted, HasJoined
  <2>3. ThreadTypeOK'
    BY <2>1, <2>2, BoundsAssumption DEF ThreadInv, ThreadTypeOK, States
  <2>4. LastChild'
    BY <2>2, ThreadFrames DEF ThreadInv
  <2>5. StateOfChild'
    BY <2>2 DEF ThreadInv, ThreadTypeOK, LastChild, StateOfChild, Running, StartOK, JoinOK
  <2>6. StartOK'
    BY <2>2 DEF ThreadInv, ThreadTypeOK, LastChild, StateOfChild, Running, StartOK
  <2>7. JoinOK'
    BY <2>2 DEF ThreadInv, ThreadTypeOK, LastChild, StateOfChild, Running, StartOK, JoinOK
  <2>8. StartTellsOutcome'
    BY <2>2 DEF HasStarted, ThreadInv, ThreadTypeOK, States, StartOK, StartTellsOutcome
  <2> QED
    BY <2>3, <2>4, <2>5, <2>6, <2>7, <2>8 DEF ThreadInv
<1>7. ASSUME JoinWait
      PROVE  ThreadInv'
  <2>1. ThreadTypeOK'
    BY <1>7, BoundsAssumption DEF JoinWait, ThreadInv, ThreadTypeOK, States, Children
  <2>2. LastChild'
    BY <1>7, ThreadFrames DEF JoinWait, ThreadInv
  <2>3. StateOfChild'
    BY <1>7 DEF JoinWait, ThreadInv, ThreadTypeOK, LastChild, StateOfChild, Running, StartOK, JoinOK
  <2>4. StartOK'
    BY <1>7 DEF JoinWait, ThreadInv, ThreadTypeOK, LastChild, StateOfChild, Running, StartOK
  <2>5. JoinOK'
    BY <1>7 DEF JoinWait, ThreadInv, ThreadTypeOK, LastChild, StateOfChild, Running, StartOK, JoinOK
  <2>6. StartTellsOutcome'
    BY <1>7 DEF JoinWait, ThreadInv, ThreadTypeOK, StateOfChild, StartOK, StartTellsOutcome
  <2> QED
    BY <2>1, <2>2, <2>3, <2>4, <2>5, <2>6 DEF ThreadInv
<1>8. ASSUME JoinSet
      PROVE  ThreadInv'
  <2>1. ret' \in {"none", "start", "join", "cancel"} \X BOOLEAN
    BY <1>8, OutcomeType, Zenon DEF JoinSet, Return, ThreadInv, ThreadTypeOK
  <2>2. /\ owner = "joinSet" /\ threadState' = "STOPPED"
        /\ owner' = "idle" /\ ~HasStarted'
        /\ UNCHANGED <<id, threads, tries, child, ready, canceled>>
    BY <1>8, Zenon DEF JoinSet, Return, HasStarted, HasJoined
  <2>3. ThreadTypeOK'
    BY <2>1, <2>2, BoundsAssumption DEF ThreadInv, ThreadTypeOK, States
  <2>4. LastChild'
    BY <2>2, ThreadFrames DEF ThreadInv
  <2>5. StateOfChild'
    BY <2>2 DEF ThreadInv, ThreadTypeOK, LastChild, StateOfChild, Running, StartOK, JoinOK
  <2>6. StartOK'
    BY <2>2 DEF ThreadInv, ThreadTypeOK, LastChild, StateOfChild, Running, StartOK
  <2>7. JoinOK'
    BY <2>2 DEF ThreadInv, ThreadTypeOK, LastChild, StateOfChild, Running, StartOK, JoinOK
  <2>8. StartTellsOutcome'
    BY <2>2 DEF HasStarted, ThreadInv, ThreadTypeOK, StateOfChild, StartOK, StartTellsOutcome
  <2> QED
    BY <2>3, <2>4, <2>5, <2>6, <2>7, <2>8 DEF ThreadInv
<1>9. ASSUME CancelSignal
      PROVE  ThreadInv'
  <2>1. ret' \in {"none", "start", "join", "cancel"} \X BOOLEAN
    BY <1>9, OutcomeType, Zenon DEF CancelSignal, Return, ThreadInv, ThreadTypeOK
  <2>2. /\ owner = "cancel" /\ canceled' = canceled \cup {id}
        /\ owner' = "idle" /\ ~HasStarted' /\ ~HasJoined'
        /\ UNCHANGED <<threadState, id, threads, tries, child, ready>>
    BY <1>9, Zenon DEF CancelSignal, Return, HasStarted, HasJoined
  <2>3. ThreadTypeOK'
    BY <2>1, <2>2, BoundsAssumption DEF ThreadInv, ThreadTypeOK, States
  <2>4. LastChild'
    BY <2>2, ThreadFrames DEF ThreadInv
  <2>5. StateOfChild'
    BY <2>2 DEF ThreadInv, ThreadTypeOK, LastChild, StateOfChild, Running, StartOK, JoinOK
  <2>6. StartOK'
    BY <2>2 DEF ThreadInv, ThreadTypeOK, LastChild, StateOfChild, Running, StartOK
  <2>7. JoinOK'
    BY <2>2 DEF ThreadInv, ThreadTypeOK, LastChild, StateOfChild, Running, StartOK, JoinOK
  <2>8. StartTellsOutcome'
    BY <2>2 DEF HasStarted, ThreadInv, ThreadTypeOK, StateOfChild, StartOK, StartTellsOutcome
  <2> QED
    BY <2>3, <2>4, <2>5, <2>6, <2>7, <2>8 DEF ThreadInv
<1> QED
  BY <1>1, <1>2, <1>3, <1>4, <1>5, <1>6, <1>7, <1>8, <1>9, SMTT(30) DEF OwnerStep

\* A child goes on in _runChild() or exit(), or is canceled.
LEMMA ChildStepInv ==
    ASSUME ThreadInv, NEW d \in Children, ChildStep(d) \/ Canceled(d)
    PROVE  ThreadInv'
<1> child \in [Children -> {"none", "created", "init", "run", "exit", "gone"}]
  BY DEF ThreadInv, ThreadTypeOK
<1>1. ASSUME NEW c \in Children, ChildRegister(c)
      PROVE  ThreadInv'
  <2>1. ThreadTypeOK'
    BY <1>1, BoundsAssumption DEF ChildRegister, ThreadInv, ThreadTypeOK, States, Children
  <2>2. LastChild'
    BY <1>1 DEF ChildRegister, ThreadInv, LastChild, StateOfChild, Children, None
  <2>3. StateOfChild'
    BY <1>1 DEF ChildRegister, ThreadInv, LastChild, StateOfChild, Running, StartOK, JoinOK
  <2>4. StartOK'
    BY <1>1 DEF ChildRegister, ThreadInv, LastChild, StateOfChild, Running, StartOK
  <2>5. JoinOK'
    BY <1>1 DEF ChildRegister, ThreadInv, LastChild, StateOfChild, Running, StartOK, JoinOK
  <2>6. StartTellsOutcome'
    BY <1>1 DEF ChildRegister, ThreadInv, ThreadTypeOK, StateOfChild, StartOK, StartTellsOutcome
  <2> QED
    BY <2>1, <2>2, <2>3, <2>4, <2>5, <2>6 DEF ThreadInv
<1>2. ASSUME NEW c \in Children, InitFails(c)
      PROVE  ThreadInv'
  <2>1. ThreadTypeOK'
    BY <1>2, BoundsAssumption DEF InitFails, ThreadInv, ThreadTypeOK, States, Children
  <2>2. StartTellsOutcome'
    BY <1>2, ThreadFrames DEF InitFails, ThreadInv
  <2>3. LastChild'
    BY <1>2 DEF InitFails, ThreadInv, LastChild, StateOfChild, Children, None
  <2>4. StateOfChild'
    BY <1>2 DEF InitFails, ThreadInv, LastChild, StateOfChild, Running, StartOK, JoinOK
  <2>5. StartOK'
    BY <1>2 DEF InitFails, ThreadInv, LastChild, StateOfChild, Running, StartOK
  <2>6. JoinOK'
    BY <1>2 DEF InitFails, ThreadInv, LastChild, StateOfChild, Running, StartOK, JoinOK
  <2> QED
    BY <2>1, <2>2, <2>3, <2>4, <2>5, <2>6 DEF ThreadInv
<1>3. ASSUME NEW c \in Children, InitSucceeds(c)
      PROVE  ThreadInv'
  <2>1. ThreadTypeOK'
    BY <1>3, BoundsAssumption DEF InitSucceeds, ThreadInv, ThreadTypeOK, States, Children
  <2>2. LastChild'
    BY <1>3 DEF InitSucceeds, ThreadInv, LastChild, StateOfChild, Children, None
  <2>3. StateOfChild'
    BY <1>3 DEF InitSucceeds, ThreadInv, LastChild, StateOfChild, Running, StartOK, JoinOK
  <2>4. StartOK'
    BY <1>3 DEF InitSucceeds, ThreadInv, LastChild, StateOfChild, Running, StartOK
  <2>5. JoinOK'
    BY <1>3 DEF InitSucceeds, ThreadInv, LastChild, StateOfChild, Running, StartOK, JoinOK
  <2>6. StartTellsOutcome'
    BY <1>3 DEF InitSucceeds, ThreadInv, ThreadTypeOK, StateOfChild, StartOK, StartTellsOutcome
  <2> QED
    BY <2>1, <2>2, <2>3, <2>4, <2>5, <2>6 DEF ThreadInv
<1>4. ASSUME NEW c \in Children, RunReturns(c)
      PROVE  ThreadInv'
  <2>1. ThreadTypeOK'
    BY <1>4, BoundsAssumption DEF RunReturns, ThreadInv, ThreadTypeOK, States, Children
  <2>2. StartTellsOutcome'
    BY <1>4, ThreadFrames DEF RunReturns, ThreadInv
  <2>3. LastChild'
    BY <1>4 DEF RunReturns, ThreadInv, LastChild, StateOfChild, Children, None
  <2>4. StateOfChild'
    BY <1>4 DEF RunReturns, ThreadInv, LastChild, StateOfChild, Running, StartOK, JoinOK
  <2>5. StartOK'
    BY <1>4 DEF RunReturns, ThreadInv, LastChild, StateOfChild, Running, StartOK
  <2>6. JoinOK'
    BY <1>4, Zenon DEF RunReturns, ThreadInv, LastChild, StateOfChild, Running, StartOK, JoinOK, HasJoined
  <2> QED
    BY <2>1, <2>2, <2>3, <2>4, <2>5, <2>6 DEF ThreadInv
<1>5. ASSUME NEW c \in Children, RunExits(c)
      PROVE  ThreadInv'
  <2>1. ThreadTypeOK'
    BY <1>5, BoundsAssumption DEF RunExits, ThreadInv, ThreadTypeOK, States, Children
  <2>2. StartTellsOutcome'
    BY <1>5, ThreadFrames DEF RunExits, ThreadInv
  <2>3. LastChild'
    BY <1>5 DEF RunExits, ThreadInv, LastChild, StateOfChild, Children, None
  <2>4. StateOfChild'
    BY <1>5 DEF RunExits, ThreadInv, LastChild, StateOfChild, Running, StartOK, JoinOK
  <2>5. StartOK'
    BY <1>5 DEF RunExits, ThreadInv, LastChild, StateOfChild, Running, StartOK
  <2>6. JoinOK'
    BY <1>5, Zenon DEF RunExits, ThreadInv, LastChild, StateOfChild, Running, StartOK, JoinOK, HasJoined
  <2> QED
    BY <2>1, <2>2, <2>3, <2>4, <2>5, <2>6 DEF ThreadInv
<1>6. ASSUME NEW c \in Children, Exit(c)
      PROVE  ThreadInv'
  <2>1. ThreadTypeOK'
    BY <1>6, BoundsAssumption DEF Exit, ThreadInv, ThreadTypeOK, States, Children
  <2>2. StartTellsOutcome'
    BY <1>6, ThreadFrames DEF Exit, ThreadInv
  <2>3. LastChild'
    BY <1>6 DEF Exit, ThreadInv, LastChild, StateOfChild, Children, None
  <2>4. StateOfChild'
    BY <1>6 DEF Exit, ThreadInv, LastChild, StateOfChild, Running, StartOK, JoinOK
  <2>5. StartOK'
    BY <1>6 DEF Exit, ThreadInv, LastChild, StateOfChild, Running, StartOK
  <2>6. JoinOK'
    BY <1>6 DEF Exit, ThreadInv, LastChild, StateOfChild, Running, StartOK, JoinOK
  <2> QED
    BY <2>1, <2>2, <2>3, <2>4, <2>5, <2>6 DEF ThreadInv
<1>7. ASSUME NEW c \in Children, Canceled(c)
      PROVE  ThreadInv'
  <2>1. ThreadTypeOK'
    BY <1>7, BoundsAssumption DEF Canceled, ThreadInv, ThreadTypeOK, States, Children
  <2>2. StartTellsOutcome'
    BY <1>7, ThreadFrames DEF Canceled, ThreadInv
  <2>3. LastChild'
    BY <1>7 DEF Canceled, ThreadInv, LastChild, StateOfChild, Children, None
  <2>4. StateOfChild'
    BY <1>7 DEF Canceled, ThreadInv, LastChild, StateOfChild, Running, StartOK, JoinOK
  <2>5. StartOK'
    BY <1>7 DEF Canceled, ThreadInv, LastChild, StateOfChild, Running, StartOK
  <2>6. JoinOK'
    BY <1>7 DEF Canceled, ThreadInv, LastChild, StateOfChild, Running, StartOK, JoinOK
  <2> QED
    BY <2>1, <2>2, <2>3, <2>4, <2>5, <2>6 DEF ThreadInv
<1> QED
  BY <1>1, <1>2, <1>3, <1>4, <1>5, <1>6, <1>7 DEF ChildStep

\* Every step of the owner and of a child keeps the invariant.
LEMMA ThreadStep == ThreadInv /\ [ThreadNext]_threadVars => ThreadInv'
<1>1. ThreadInv /\ UNCHANGED threadVars => ThreadInv'
  <2>1. ThreadTypeOK /\ UNCHANGED threadVars => ThreadTypeOK'
    BY DEF ThreadTypeOK, threadVars
  <2> QED
    BY <2>1, ThreadFrames DEF ThreadInv, threadVars
<1> QED
  BY <1>1, OwnerCallInv, OwnerStepInv, ChildStepInv DEF ThreadNext

-------------------------------------------------------------------------------
\* Every reachable state satisfies the inductive invariant.
THEOREM ThreadInvariance == ThreadSpec => []ThreadInv
  BY ThreadInitInv, ThreadStep, PTL DEF ThreadSpec

(* thread.cpp, start(): however the two threads interleave, and whatever   *)
(* pthread_create() and init() return, start() returns true only when      *)
(* init() did.                                                             *)
THEOREM StartTellsOutcomeHolds == ThreadSpec => []StartTellsOutcome
<1>1. ThreadInv => StartTellsOutcome
  BY DEF ThreadInv
<1> QED
  BY <1>1, ThreadInvariance, PTL

(* thread.cpp, join(): the children do not overlap, and join() returns     *)
(* true after the end of every child that was not canceled.                *)
THEOREM JoinWaitsForExitHolds == ThreadSpec => []JoinWaitsForExit
<1>1. ASSUME ThreadInv PROVE OneChild
  BY <1>1 DEF ThreadInv, LastChild, OneChild, Active
<1>2. ThreadInv => JoinWaitsForExit
  BY <1>1, Zenon DEF ThreadInv, JoinOK, HasJoined, JoinWaitsForExit
<1> QED
  BY <1>2, ThreadInvariance, PTL

-------------------------------------------------------------------------------
(***************************************************************************)
(* The log and the threads.  The invariant of the log (module Log_proofs)  *)
(* holds for the main thread, the threads that have been canceled, and the *)
(* children that have left their Log behind.  It rests on two facts about  *)
(* the threads: a child that has ended with exit() has no Log any more,    *)
(* and the main thread redirects the log when there is no child.           *)
(***************************************************************************)

\* A child has no Log before it starts, nor after exit().
ChildOK(c) ==
    child[c] = "none" \/ (child[c] = "gone" /\ c \notin Abandoned) =>
        log[c] = NoLog /\ steps[c] = <<>>

\* While the log is redirected there is no child that uses it.
Alone == Redirecting(Main) => owner = "idle" /\ \A c \in Children : child[c] \in {"none", "gone"}

\* The inductive invariant.
LogInv ==
    /\ ThreadInv
    /\ \E X \in {canceled}, A \in {Abandoned} : LogOK(Main, X, A)
    /\ \A c \in Children : ChildOK(c)
    /\ Alone

\* The main thread is none of the children.
LEMMA MainIsNoChild ==
    /\ Main \in AllThreads /\ Main \notin Children /\ LogThreads = AllThreads
    /\ \A c \in Children : c \in AllThreads /\ c # Main
BY ThreadLogAssumption, BoundsAssumption DEF Main, Children, AllThreads

\* The parts of the invariant.
LEMMA LogParts ==
    ASSUME LogInv
    PROVE  /\ steps \in [AllThreads -> Seq(StepRecs)] /\ log \in [AllThreads -> Logs]
           /\ ThreadInv /\ Alone /\ \A c \in Children : ChildOK(c)
<1>1. PICK X, A : LogOK(Main, X, A)
  BY Zenon DEF LogInv
<1>2. LogTypes
  BY <1>1 DEF LogOK
<1> QED
  BY <1>2, MainIsNoChild DEF LogInv, LogTypes

\* Nobody else uses the log while the main thread redirects it.
LEMMA IsQuiet ==
    ASSUME LogInv, NEW A, A = Abandoned
    PROVE  Quiet(Main, A)
<1> SUFFICES ASSUME steps[Main] # <<>>, Head(steps[Main]).op \in MainOps,
                    NEW y \in LogThreads, y \notin A, y # Main
             PROVE  log[y] = NoLog /\ steps[y] = <<>>
  BY DEF Quiet
<1>1. PICK s \in Seq(StepRecs) : s = steps[Main]
  BY LogParts, MainIsNoChild
<1>2. 1 \in 1 .. Len(s) /\ Head(s) = s[1]
  BY <1>1
<1>3. Redirecting(Main)
  BY <1>1, <1>2 DEF Redirecting
<1>4. y \in Children
  BY MainIsNoChild DEF AllThreads
<1>5. child[y] \in {"none", "gone"} /\ ChildOK(y)
  BY <1>3, <1>4, LogParts DEF Alone
<1> QED
  BY <1>5 DEF ChildOK

\* A child keeps what it has when the owner and the others move.
LEMMA ChildStays ==
    ASSUME NEW c \in Children, ChildOK(c), steps'[c] = steps[c], log[c] = NoLog => log'[c] = NoLog,
           child'[c] = child[c], Abandoned \subseteq Abandoned'
    PROVE  ChildOK(c)'
BY DEF ChildOK

\* A step of a thread in a call of the log.
LEMMA LogMovesInv ==
    ASSUME LogInv, NEW x \in AllThreads, LogMoves(x)
    PROVE  LogInv'
<1>1. PICK X, A : X = canceled /\ A = Abandoned /\ LogOK(Main, X, A)
  BY Zenon DEF LogInv
<1>2. LogOK(Main, X, A)' /\ Keeps(x, Main)
  BY <1>1, IsQuiet, LogStepInv, MainIsNoChild, Zenon DEF LogMoves
<1>3. /\ UNCHANGED <<threadVars, warned>> /\ child' = child /\ owner' = owner
      /\ X = canceled' /\ A = Abandoned' /\ Abandoned' = Abandoned
  BY <1>1 DEF LogMoves, threadVars, Abandoned
<1>4. ThreadInv'
  BY <1>3, ThreadStep, LogParts
<1>5. Alone'
  BY <1>2, <1>3, LogParts, Zenon DEF Alone, Keeps
<1>6. steps[x] # <<>>
  BY DEF LogMoves, LogStep, Instance, Put, Sync, Write, Unlock, ExitLog, Delete, SetStream, SetFile,
         CountInit, Mismatch, Doing, LogIdle
<1>7. ASSUME NEW c \in Children PROVE ChildOK(c)'
  <2>1. CASE c = x
    BY <1>3, <1>6, <2>1, LogParts DEF ChildOK
  <2>2. CASE c # x
    <3>1. steps'[c] = steps[c] /\ (log[c] = NoLog => log'[c] = NoLog)
      BY <1>2, <2>2, MainIsNoChild DEF Keeps
    <3> QED
      BY <1>3, <3>1, ChildStays, LogParts
  <2> QED
    BY <2>1, <2>2
<1> QED
  BY <1>2, <1>3, <1>4, <1>5, <1>7, Zenon DEF LogInv

\* A thread begins a call, or none does, while the Thread object may move on.
LEMMA ThreadCalls ==
    ASSUME LogInv, [ThreadNext]_threadVars, NEW x \in AllThreads, NEW r,
           steps' = [steps EXCEPT ![x] = r], steps[x] = <<>>, Fresh(r),
           IF x = Main THEN MainCall(r) ELSE \A i \in 1 .. Len(r) : r[i].op \notin MainOps,
           UNCHANGED <<stream, file, log, broken, last, writeLock>>,
           canceled \subseteq canceled', warned \subseteq warned',
           \A c \in Children : ChildOK(c)', Alone'
    PROVE  LogInv'
<1>1. PICK X, A : X = canceled /\ A = Abandoned /\ LogOK(Main, X, A)
  BY Zenon DEF LogInv
<1>2. PICK Y, B : Y = canceled' /\ B = Abandoned'
  BY Zenon
<1>3. X \subseteq Y /\ A \subseteq B
  BY <1>1, <1>2 DEF Abandoned
<1>4. LogOK(Main, Y, B)'
  BY <1>1, <1>3, CallInv, MainIsNoChild, Zenon
<1>5. ThreadInv'
  BY ThreadStep, LogParts
<1> QED
  BY <1>2, <1>4, <1>5, Zenon DEF LogInv

\* There is no redirection while a child lives.
LEMMA NotRedirecting ==
    ASSUME LogInv, NEW c \in Children, child[c] \notin {"none", "gone"}
    PROVE  ~Redirecting(Main)
BY DEF LogInv, Alone

\* A child begins a call.
LEMMA ChildCall ==
    ASSUME LogInv, NEW c \in Children, NEW r, LogCall(c, r), UNCHANGED threadVars, warned \subseteq warned',
           Fresh(r), \A i \in 1 .. Len(r) : r[i].op \notin MainOps,
           child[c] # "none", child[c] = "gone" => c \in Abandoned
    PROVE  LogInv'
<1>1. /\ steps[c] = <<>> /\ steps' = [steps EXCEPT ![c] = r]
      /\ UNCHANGED <<stream, file, log, broken, last, writeLock>>
  BY DEF LogCall, LogBegin, LogIdle, history
<1>2. owner' = owner /\ child' = child /\ canceled' = canceled /\ Abandoned \subseteq Abandoned'
  BY DEF threadVars, Abandoned
<1>3. /\ c \in AllThreads /\ c # Main /\ steps'[c] = r /\ steps'[Main] = steps[Main]
      /\ \A y \in AllThreads : y # c => steps'[y] = steps[y]
  BY <1>1, MainIsNoChild, LogParts
<1>4. ASSUME NEW d \in Children PROVE ChildOK(d)'
  <2>1. CASE d = c
    BY <1>2, <1>3, <2>1 DEF ChildOK
  <2>2. CASE d # c
    <3>1. ChildOK(d) /\ steps'[d] = steps[d]
      BY <1>3, <2>2, MainIsNoChild, LogParts
    <3> QED
      BY <1>1, <1>2, <3>1, ChildStays
  <2> QED
    BY <2>1, <2>2
<1>5. Alone'
  BY <1>2, <1>3, LogParts, Zenon DEF Alone, Redirecting
<1>6. canceled \subseteq canceled' /\ [ThreadNext]_threadVars
  BY <1>2
<1> QED
  BY <1>1, <1>3, <1>4, <1>5, <1>6, ThreadCalls, Zenon

\* The child moves on in _runChild() or exit(), and may begin a call.
LEMMA ChildPasses ==
    ASSUME LogInv, NEW c \in Children, NEW r, NEW p, [ThreadNext]_threadVars,
           child[c] \notin {"none", "gone"}, child' = [child EXCEPT ![c] = p],
           steps[c] = <<>>, Fresh(r), Common(r),
           steps' = [steps EXCEPT ![c] = r], UNCHANGED <<stream, file, log, broken, last, writeLock>>,
           UNCHANGED <<canceled, warned>>, p # "none",
           p = "gone" => r = <<>> /\ (c \in Abandoned \/ log[c] = NoLog)
    PROVE  LogInv'
<1>1. /\ c \in AllThreads /\ c # Main /\ steps'[c] = r /\ steps'[Main] = steps[Main]
      /\ \A y \in AllThreads : y # c => steps'[y] = steps[y]
  BY MainIsNoChild, LogParts
<1>2. Abandoned' = Abandoned /\ child'[c] = p /\ \A d \in Children : d # c => child'[d] = child[d]
  BY DEF Abandoned, LogInv, ThreadInv, ThreadTypeOK
<1>3. ASSUME NEW d \in Children PROVE ChildOK(d)'
  <2>1. CASE d = c
    BY <1>1, <1>2, <2>1 DEF ChildOK, Common
  <2>2. CASE d # c
    <3>1. ChildOK(d) /\ steps'[d] = steps[d]
      BY <1>1, <2>2, MainIsNoChild, LogParts
    <3> QED
      BY <1>2, <2>2, <3>1, ChildStays
  <2> QED
    BY <2>1, <2>2
<1>4. Alone'
  BY <1>1, NotRedirecting, Zenon DEF Alone, Redirecting
<1>5. canceled \subseteq canceled' /\ warned \subseteq warned' /\ \A i \in 1 .. Len(r) : r[i].op \notin MainOps
  BY DEF Common
<1> QED
  BY <1>1, <1>3, <1>4, <1>5, ThreadCalls, Zenon

\* _runChild() and exit()
LEMMA ChildMovesInv ==
    ASSUME LogInv, NEW c \in Children, ChildMoves(c) PROVE LogInv'
<1>1. CASE ChildSetName(c)
  BY <1>1, CommonCalls, ChildCall DEF ChildSetName, Common
<1>2. CASE ChildWarns(c)
  BY <1>2, CommonCalls, ChildCall DEF ChildWarns, Common
<1>3. CASE ChildFlushes(c)
  <2>1. PICK r : r = <<Do("sync"), Do("exit")>>
    BY Zenon
  <2>2. Len(r) = 2
    BY <2>1
  <2>3. Fresh(r) /\ \A i \in 1 .. Len(r) : r[i].op \notin MainOps
    BY <2>1, <2>2, FlushCall, Zenon
  <2>4. /\ LogCall(c, r) /\ UNCHANGED threadVars /\ warned \subseteq warned'
        /\ child[c] # "none" /\ child[c] # "gone"
    BY <1>3, <2>1, SMTT(30) DEF ChildFlushes
  <2> QED
    BY <2>3, <2>4, ChildCall
<1>4. CASE ChildDeletesLog(c)
  <2>1. c \in Abandoned
    BY <1>4, LogParts DEF ChildOK, ChildDeletesLog
  <2> QED
    BY <1>4, <2>1, CommonCalls, ChildCall DEF ChildDeletesLog, Common
<1>5. CASE ChildRegisters(c) \/ ChildFails(c) \/ ChildRuns(c) \/ ChildExits(c)
  <2>1. ThreadNext
    BY <1>5 DEF ChildRegisters, ChildFails, ChildRuns, ChildExits, ThreadNext, ChildStep
  <2>2. /\ child[c] \notin {"none", "gone"}
        /\ steps[c] = <<>> /\ UNCHANGED logVars
        /\ UNCHANGED <<canceled, warned>>
        /\ \E p \in {"init", "exit", "gone"} :
               /\ child' = [child EXCEPT ![c] = p]
               /\ p = "gone" => c \in Abandoned \/ log[c] = NoLog
    BY <1>5 DEF ChildRegisters, ChildFails, ChildRuns, ChildExits, ChildRegister, InitFails, RunReturns,
                RunExits, Exit, LogIdle, Abandoned
  <2>3. steps' = [steps EXCEPT ![c] = <<>>] /\ UNCHANGED <<stream, file, log, broken, last, writeLock>>
    BY <2>2, MainIsNoChild, LogParts DEF logVars, history
  <2> QED
    BY <2>1, <2>2, <2>3, CommonCalls, ChildPasses, Zenon
<1>6. CASE ChildSucceeds(c)
  <2>1. ThreadNext
    BY <1>6 DEF ChildSucceeds, ThreadNext, ChildStep
  <2>2. /\ child[c] \notin {"none", "gone"}
        /\ steps[c] = <<>> /\ steps' = [steps EXCEPT ![c] = Line]
        /\ UNCHANGED <<stream, file, log, broken, last, writeLock>>
        /\ UNCHANGED <<canceled, warned>>
        /\ child' = [child EXCEPT ![c] = "run"]
    BY <1>6 DEF ChildSucceeds, InitSucceeds, LogCall, LogBegin, LogIdle, history
  <2> QED
    BY <2>1, <2>2, CommonCalls, ChildPasses, Zenon
<1> QED
  BY <1>1, <1>2, <1>3, <1>4, <1>5, <1>6, SMTT(30) DEF ChildMoves

\* What run() does with the log
LEMMA ChildLogsInv ==
    ASSUME LogInv, NEW c \in Children, ChildLogs(c) PROVE LogInv'
<1>1. CASE Message(c)
  BY <1>1, CommonCalls, ChildCall DEF ChildLogs, Message, Common
<1>2. ASSUME NEW b \in {0, 1}, SetBlocked(c, b) PROVE LogInv'
  <2>1. PICK X, A : X = canceled /\ A = Abandoned /\ LogOK(Main, X, A)
    BY Zenon DEF LogInv
  <2>2. LogOK(Main, X, A)' /\ steps' = steps /\ \A y \in LogThreads : y # c => log'[y] = log[y]
    <3>1. Main \in LogThreads /\ c \in LogThreads /\ c # Main
      BY MainIsNoChild
    <3> QED
      BY <1>2, <2>1, <3>1, BlockedInv
  <2>3. /\ UNCHANGED threadVars /\ X = canceled' /\ A = Abandoned' /\ Abandoned' = Abandoned
        /\ child' = child /\ owner' = owner /\ child[c] = "run"
    BY <2>1 DEF ChildLogs, threadVars, Abandoned
  <2>4. ThreadInv'
    BY <2>3, ThreadStep, LogParts
  <2>5. Alone'
    BY <2>2, <2>3, LogParts, Zenon DEF Alone, Redirecting
  <2>6. ASSUME NEW d \in Children PROVE ChildOK(d)'
    <3>1. CASE d = c
      BY <2>3, <3>1 DEF ChildOK
    <3>2. CASE d # c
      <4>1. log'[d] = log[d] /\ ChildOK(d)
        BY <2>2, <3>2, MainIsNoChild, LogParts
      <4> QED
        BY <2>2, <2>3, <4>1, ChildStays
    <3> QED
      BY <3>1, <3>2
  <2> QED
    BY <2>2, <2>3, <2>4, <2>5, <2>6, Zenon DEF LogInv
<1> QED
  BY <1>1, <1>2 DEF ChildLogs

\* The child ends at a cancellation point.
LEMMA ChildCanceledInv ==
    ASSUME LogInv, NEW c \in Children, ChildCanceled(c) PROVE LogInv'
<1>1. /\ c \in AllThreads /\ c # Main /\ c \in canceled /\ child[c] \notin {"none", "gone"}
      /\ steps' = [steps EXCEPT ![c] = <<>>] /\ writeLock' = writeLock \ {c}
      /\ UNCHANGED <<stream, file, log, broken, last, canceled, warned>>
      /\ child' = [child EXCEPT ![c] = "gone"]
  BY MainIsNoChild DEF ChildCanceled, Canceled, history
<1>2. /\ steps'[Main] = steps[Main] /\ child'[c] = "gone"
      /\ \A y \in AllThreads : y # c => steps'[y] = steps[y]
      /\ \A d \in Children : d # c => child'[d] = child[d]
      /\ Abandoned' = Abandoned /\ c \in Abandoned
  BY <1>1, MainIsNoChild, LogParts DEF ThreadInv, ThreadTypeOK, Abandoned
<1>3. ThreadInv'
  <2>1. ThreadNext
    BY DEF ChildCanceled, ThreadNext
  <2> QED
    BY <2>1, ThreadStep, LogParts
<1>4. PICK X, A : X = canceled /\ A = Abandoned /\ LogOK(Main, X, A)
  BY Zenon DEF LogInv
<1>5. LogOK(Main, X, A)' /\ X = canceled' /\ A = Abandoned'
  BY <1>1, <1>2, <1>4, EndsInv, MainIsNoChild, Zenon
<1>6. ASSUME NEW d \in Children PROVE ChildOK(d)'
  <2>1. CASE d = c
    BY <1>2, <2>1 DEF ChildOK
  <2>2. CASE d # c
    <3>1. steps'[d] = steps[d] /\ log' = log /\ ChildOK(d)
      BY <1>1, <1>2, <2>2, MainIsNoChild, LogParts
    <3> QED
      BY <1>2, <2>2, <3>1, ChildStays
  <2> QED
    BY <2>1, <2>2
<1>7. Alone'
  BY <1>1, <1>2, NotRedirecting, Zenon DEF Alone, Redirecting
<1> QED
  BY <1>3, <1>5, <1>6, <1>7, Zenon DEF LogInv

\* The main thread begins a call of the log.
LEMMA MainBeginsInv ==
    ASSUME LogInv, NEW r, Fresh(r), steps[Main] = <<>>, steps' = [steps EXCEPT ![Main] = r],
           UNCHANGED <<stream, file, log, broken, last, writeLock, threadVars, warned>>,
           Common(r) \/ (MainCall(r) /\ owner = "idle" /\ \A c \in Children : child[c] \in {"none", "gone"})
    PROVE  LogInv'
<1>1. /\ steps'[Main] = r /\ \A c \in Children : steps'[c] = steps[c]
      /\ owner' = owner /\ child' = child /\ canceled' = canceled /\ Abandoned' = Abandoned
  BY MainIsNoChild, LogParts DEF threadVars, Abandoned
<1>2. ASSUME NEW c \in Children PROVE ChildOK(c)'
  <2>1. ChildOK(c)
    BY LogParts
  <2> QED
    BY <1>1, <2>1, ChildStays
<1>3. Alone'
  <2>1. CASE Common(r)
    BY <1>1, <2>1, Zenon DEF Common, Alone, Redirecting
  <2>2. CASE ~Common(r)
    BY <1>1, <2>2, Zenon DEF Alone
  <2> QED
    BY <2>1, <2>2
<1>4. MainCall(r)
  BY DEF Common, MainCall, MainOps
<1>5. canceled \subseteq canceled' /\ warned \subseteq warned' /\ [ThreadNext]_threadVars
  BY <1>1
<1> QED
  BY <1>2, <1>3, <1>4, <1>5, MainIsNoChild, ThreadCalls, Zenon

\* There is no child when the state says so and the canceled ones have ended.
LEMMA NoChild ==
    ASSUME ThreadInv, owner = "idle", threadState = "STOPPED", \A c \in canceled : child[c] = "gone"
    PROVE  \A c \in Children : child[c] \in {"none", "gone"}
BY DEF ThreadInv, ThreadTypeOK, StateOfChild, Running

\* The application uses and redirects the log.
LEMMA MainLogsInv ==
    ASSUME LogInv, initialized \in Int, MainLogs PROVE LogInv'
<1>1. CASE Message(Main)
  BY <1>1, CommonCalls, MainBeginsInv, Zenon DEF MainLogs, Message, LogCall, LogBegin, LogIdle, history
<1>2. ASSUME ~Message(Main) PROVE LogInv'
  <2>1. owner = "idle" /\ \A c \in Children : child[c] \in {"none", "gone"}
    BY <1>2, NoChild, Zenon DEF MainLogs, LogInv
  <2>2. UNCHANGED <<threadVars, warned>>
    BY DEF MainLogs
  <2>3. ASSUME NEW r, Fresh(r), MainCall(r), LogCall(Main, r) PROVE LogInv'
    BY <2>1, <2>2, <2>3, MainBeginsInv, Zenon DEF LogCall, LogBegin, LogIdle, history
  <2>4. CASE setOutput(Main) \/ init(Main)
    BY <2>3, <2>4, ResetCalls, OtherCalls, Zenon DEF setOutput, init
  <2>5. CASE \E f \in Files : setOutputFile(Main, f) \/ initLogfile(Main, f)
    BY <2>3, <2>5, RedirectCalls, Zenon DEF setOutputFile, initLogfile
  <2>6. CASE exit(Main)
    <3>1. PICK r : /\ steps' = [steps EXCEPT ![Main] = r]
                   /\ Fresh(r) /\ MainCall(r)
      <4>1. MainCall(<<>>)
        BY DEF MainCall
      <4>2. CASE initialized' > 0
        <5>1. steps' = [steps EXCEPT ![Main] = <<>>]
          <6>1. ~(initialized' = 0) /\ ~(initialized' < 0)
            BY <2>6, <4>2 DEF exit
          <6> QED
            BY <2>6, <4>2, <6>1, Zenon DEF exit, LogBegin
        <5> QED
          BY <4>1, <5>1, CommonCalls, Zenon
      <4>3. CASE initialized' = 0
        <5>1. steps' = [steps EXCEPT ![Main] = Reset]
          <6>1. ~(initialized' > 0) /\ ~(initialized' < 0)
            BY <2>6, <4>3 DEF exit
          <6> QED
            BY <2>6, <4>3, <6>1, Zenon DEF exit, LogBegin
        <5> QED
          BY <5>1, ResetCalls, OtherCalls, Zenon
      <4>4. CASE initialized' < 0
        <5>1. steps' = [steps EXCEPT ![Main] = Reset \o Line \o <<Do("mismatch")>>]
          <6>1. ~(initialized' > 0) /\ ~(initialized' = 0)
            BY <2>6, <4>4 DEF exit
          <6> QED
            BY <2>6, <4>4, <6>1, Zenon DEF exit, LogBegin
        <5> QED
          BY <5>1, OtherCalls, Zenon
      <4> QED
        BY <2>6, <4>2, <4>3, <4>4 DEF exit
    <3>2. steps[Main] = <<>> /\ UNCHANGED <<stream, file, log, broken, last, writeLock>>
      BY <2>6 DEF exit, LogBegin, LogIdle, history
    <3> QED
      BY <2>1, <2>2, <3>1, <3>2, MainBeginsInv, Zenon
  <2> QED
    BY <1>2, <2>4, <2>5, <2>6 DEF MainLogs
<1> QED
  BY <1>1, <1>2

\* The owner in start(), join() and cancel().
LEMMA OwnerInv == ASSUME LogInv, OwnerMoves \/ OwnerCalls PROVE LogInv'
<1>1. ThreadNext /\ steps[Main] = <<>> /\ UNCHANGED warned
  BY DEF OwnerMoves, OwnerCalls, ThreadNext, LogIdle
<1>2. PICK r \in {<<>>, Line} : /\ steps' = [steps EXCEPT ![Main] = r]
                                /\ UNCHANGED <<stream, file, log, broken, last, writeLock>>
  <2>1. CASE UNCHANGED logVars
    <3>1. steps' = [steps EXCEPT ![Main] = <<>>]
      BY <1>1, <2>1, MainIsNoChild, LogParts DEF logVars
    <3> QED
      BY <2>1, <3>1, Zenon DEF logVars, history
  <2>2. CASE LogCall(Main, Line)
    BY <2>2 DEF LogCall, LogBegin, history
  <2> QED
    BY <2>1, <2>2 DEF OwnerMoves, OwnerCalls
<1>3. Fresh(r) /\ Common(r)
  BY <1>2, CommonCalls, Zenon
<1>4. canceled \subseteq canceled'
  BY Zenon DEF OwnerMoves, OwnerCalls, OwnerStep, OwnerCall, StartSet, Create, CreateAgain, CreateError, StartWait,
         StartReturn, JoinWait, JoinSet, CancelSignal, StartCheck, JoinCheck, CancelSet
<1>5. \/ child' = child
      \/ \E c \in Children : child[c] = "none" /\ child' = [child EXCEPT ![c] = "created"]
  BY Zenon DEF OwnerMoves, OwnerCalls, OwnerStep, OwnerCall, StartSet, Create, CreateAgain, CreateError, StartWait,
         StartReturn, JoinWait, JoinSet, CancelSignal, StartCheck, JoinCheck, CancelSet
<1>6. steps'[Main] = r /\ \A c \in Children : steps'[c] = steps[c]
  BY <1>2, MainIsNoChild, LogParts, SMTT(30)
<1>7. ASSUME NEW c \in Children PROVE ChildOK(c)'
  <2>1. ChildOK(c) /\ Abandoned \subseteq Abandoned' /\ steps'[c] = steps[c] /\ log' = log
    BY <1>1, <1>2, <1>4, <1>6, MainIsNoChild, LogParts, SMTT(30) DEF Abandoned
  <2>2. child'[c] = child[c] \/ (child[c] = "none" /\ child'[c] = "created")
    BY <1>5 DEF LogInv, ThreadInv, ThreadTypeOK
  <2>3. CASE child'[c] = child[c]
    BY <2>1, <2>3, ChildStays
  <2>4. CASE child'[c] = "created"
    BY <2>1, <2>4 DEF ChildOK
  <2> QED
    BY <2>2, <2>3, <2>4
<1>8. Alone' /\ MainCall(r)
  BY <1>3, <1>6, Zenon DEF Alone, Redirecting, Common, MainCall, MainOps
<1>9. Main \in AllThreads /\ warned \subseteq warned' /\ [ThreadNext]_threadVars
  BY <1>1, MainIsNoChild
<1> QED
  BY <1>1, <1>2, <1>3, <1>4, <1>7, <1>8, <1>9, ThreadCalls, Zenon

LEMMA TLInitInv == TLInit => LogInv /\ initialized \in Int
<1> SUFFICES ASSUME TLInit PROVE LogInv /\ initialized \in Int
  OBVIOUS
<1>1. ThreadInv
  BY ThreadInitInv DEF TLInit
<1>2. \A y \in AllThreads : log[y] = NoLog /\ steps[y] = <<>>
  BY ThreadLogAssumption DEF TLInit, LogInit
<1>3. PICK X, A : X = canceled /\ A = Abandoned
  BY Zenon
<1>4. LogOK(Main, X, A)
  BY LogInitInv, MainIsNoChild, Zenon DEF TLInit
<1>5. \A c \in Children : ChildOK(c)
  BY <1>2, MainIsNoChild DEF ChildOK
<1>6. Alone
  <2>1. Len(<<>>) = 0
    OBVIOUS
  <2>2. ~Redirecting(Main)
    BY <1>2, <2>1, MainIsNoChild DEF Redirecting
  <2> QED
    BY <2>2 DEF Alone
<1>7. LogInv
  BY <1>1, <1>3, <1>4, <1>5, <1>6, Zenon DEF LogInv
<1> QED
  BY <1>7 DEF TLInit, LogInit

\* Every step keeps the invariant.
LEMMA LogNext ==
    LogInv /\ initialized \in Int /\ [TLNext]_allVars => (LogInv /\ initialized \in Int)'
<1> SUFFICES ASSUME LogInv, initialized \in Int, [TLNext]_allVars PROVE LogInv' /\ initialized' \in Int
  OBVIOUS
<1>1. CASE UNCHANGED allVars
  <2>1. UNCHANGED <<threadVars, logVars, warned>>
    BY <1>1 DEF allVars
  <2>2. /\ UNCHANGED <<stream, file, log, broken, last, writeLock, steps, initialized>>
        /\ UNCHANGED <<owner, child, canceled>>
    BY <2>1 DEF logVars, history, threadVars
  <2>3. ThreadInv'
    BY <2>1, ThreadStep, LogParts
  <2>4. PICK X, A : X = canceled /\ A = Abandoned /\ LogOK(Main, X, A)
    BY Zenon DEF LogInv
  <2>5. LogOK(Main, X, A)'
    BY <2>2, <2>4, LogStays, MainIsNoChild, Zenon
  <2>6. Abandoned' = Abandoned /\ X = canceled' /\ A = Abandoned'
    BY <2>1, <2>2, <2>4 DEF Abandoned
  <2>7. (\A c \in Children : ChildOK(c)') /\ Alone'
    BY <2>2, <2>6, LogParts DEF ChildOK, Alone, Redirecting
  <2> QED
    BY <2>2, <2>3, <2>5, <2>6, <2>7, Zenon DEF LogInv
<1>2. CASE TLNext
  <2>1. LogInv'
    BY <1>2, ChildMovesInv, ChildLogsInv, ChildCanceledInv, OwnerInv, MainLogsInv, LogMovesInv, Zenon DEF TLNext
  <2>2. initialized' = initialized \/ initialized' = initialized + 1 \/ initialized' = initialized - 1 \/ initialized' = 0
    <3>1. ASSUME NEW c \in Children, ChildMoves(c) PROVE initialized' = initialized
      BY <3>1 DEF ChildMoves, ChildSetName, ChildRegisters, ChildWarns, ChildFails, ChildSucceeds, ChildRuns,
                  ChildFlushes, ChildExits, ChildDeletesLog, LogCall, logVars
    <3>2. ASSUME NEW c \in Children, ChildLogs(c) \/ ChildCanceled(c) PROVE initialized' = initialized
      BY <3>2 DEF ChildLogs, ChildCanceled, Message, SetBlocked, LogCall
    <3>3. ASSUME OwnerMoves \/ OwnerCalls PROVE initialized' = initialized
      BY <3>3 DEF OwnerMoves, OwnerCalls, LogCall, logVars
    <3>4. ASSUME MainLogs PROVE initialized' = initialized \/ initialized' = initialized - 1
      BY <3>4 DEF MainLogs, Message, setOutput, setOutputFile, init, initLogfile, exit, LogCall
    <3>5. ASSUME NEW x \in AllThreads, LogMoves(x)
          PROVE  initialized' = initialized \/ initialized' = initialized + 1 \/ initialized' = 0
      BY <3>5 DEF LogMoves, LogStep, Instance, Put, Sync, Write, Unlock, ExitLog, Delete, SetStream, SetFile,
                  CountInit, Mismatch
    <3> QED
      BY <1>2, <3>1, <3>2, <3>3, <3>4, <3>5, ZenonT(30) DEF TLNext
  <2> QED
    BY <2>1, <2>2
<1> QED
  BY <1>1, <1>2

(* The log and the threads (log.cpp, thread.cpp): the inductive invariant. *)
THEOREM LogInvariance == TLSpec => [](LogInv /\ initialized \in Int)
  BY TLInitInv, LogNext, PTL DEF TLSpec

(* log.cpp, setOutput() and reset(), with thread.cpp, exit(): however many *)
(* files the main thread redirects the log to between two children, no     *)
(* thread that ended with exit() refers to a file that has been deleted.   *)
THEOREM StreamsAreOpenHolds == TLSpec => []StreamsAreOpen
<1>1. LogInv => StreamsAreOpen
  BY MainIsNoChild DEF LogInv, LogOK, ThreadOK, StreamsAreOpen
<1> QED
  BY <1>1, LogInvariance, PTL

(* log.cpp, sync() and ~Log(): no piece of the text of a thread is lost or *)
(* written twice, and join() returns after the child's text is written.    *)
THEOREM LogIsCompleteHolds == TLSpec => []LogIsComplete
<1>1. ASSUME LogInv PROVE LogIsComplete
  <2>1. ASSUME NEW x \in AllThreads, x \notin canceled PROVE Complete(x)
    <3>1. PICK X, A : X = canceled /\ LogOK(Main, X, A)
      BY <1>1, ZenonT(30) DEF LogInv
    <3>2. x \notin broken /\ FlushOK(x, X) /\ x \notin X /\ steps[x] \in Seq(StepRecs)
      BY <2>1, <3>1, MainIsNoChild DEF LogOK, ThreadOK, LogTypes
    <3>3. ASSUME NEW u \in 1 .. Len(steps[x]), Flushes(x, u, X) PROVE Flushing(x)
      <4>1. u \in DOMAIN steps[x] /\ steps[x][u].op = "unlock"
        BY <3>2, <3>3 DEF Flushes, FlushTo
      <4> QED
        BY <4>1 DEF Flushing
    <3> QED
      BY <2>1, <3>1, <3>2, <3>3 DEF Complete, FlushOK, Rests
  <2>2. ASSUME owner = "idle", ret = <<"join", TRUE>>, NEW c \in Children, c \notin Abandoned
        PROVE  log[c].text = 0
    <3>1. child[c] \in {"none", "gone"}
      BY <1>1, <2>2, LogParts, Zenon DEF ThreadInv, JoinOK, HasJoined, Abandoned
    <3>2. log[c] = NoLog
      BY <1>1, <2>2, <3>1, LogParts DEF ChildOK
    <3> QED
      BY <3>2 DEF NoLog
  <2> QED
    BY <2>1, <2>2, Zenon DEF LogIsComplete
<1> QED
  BY <1>1, LogInvariance, PTL

(* log.cpp, sync(): the write lock keeps the lines of the threads apart.   *)
THEOREM WholeLinesHolds == TLSpec => WholeLines
<1>1. ASSUME LogInv, [TLNext]_allVars, NEW x \in LogThreads, NEW i \in 1 .. MaxText + 2,
             last' = <<x, i>>, last # last', i % 2 = 0
      PROVE  last = <<x, i - 1>>
  <2>1. last' # <<>>
    BY <1>1
  <2>2. PICK y \in AllThreads : Write(y) /\ UNCHANGED <<threadVars, warned>>
    <3>1. ASSUME NEW c \in Children, ChildMoves(c) PROVE last' = last
      BY <3>1 DEF ChildMoves, ChildSetName, ChildRegisters, ChildWarns, ChildFails, ChildSucceeds, ChildRuns,
                  ChildFlushes, ChildExits, ChildDeletesLog, LogCall, logVars, history
    <3>2. ASSUME NEW c \in Children, ChildLogs(c) \/ ChildCanceled(c) PROVE last' = last
      BY <3>2 DEF ChildLogs, ChildCanceled, Message, SetBlocked, LogCall, history
    <3>3. ASSUME OwnerMoves \/ OwnerCalls PROVE last' = last
      BY <3>3 DEF OwnerMoves, OwnerCalls, LogCall, logVars, history
    <3>4. ASSUME MainLogs PROVE last' = last
      BY <3>4 DEF MainLogs, Message, setOutput, setOutputFile, init, initLogfile, exit, LogCall, history
    <3>5. ASSUME NEW y \in AllThreads, LogMoves(y) PROVE last' = last \/ last' = <<>> \/ Write(y)
      BY <3>5 DEF LogMoves, LogStep, Instance, Put, Sync, Unlock, ExitLog, Delete, SetStream, SetFile,
                  CountInit, Mismatch, history
    <3>6. UNCHANGED allVars => last' = last
      BY DEF allVars, logVars, history
    <3> QED
      BY <1>1, <2>1, <3>1, <3>2, <3>3, <3>4, <3>5, <3>6, ZenonT(30) DEF TLNext, LogMoves
  <2>3. PICK u \in 2 .. Len(steps[y]) :
           /\ last' = <<y, log[y].text + 1 - (u - 1)>>
           /\ u - 1 <= log[y].text
           /\ u - 1 < log[y].text => last = <<y, log[y].text - (u - 1)>>
    <3>1. PICK X, A : A = Abandoned /\ LogOK(Main, X, A)
      BY <1>1, Zenon DEF LogInv
    <3>2. Quiet(Main, A)
      BY <1>1, <3>1, IsQuiet
    <3> QED
      BY <2>2, <3>1, <3>2, WriteInv, MainIsNoChild, Zenon
  <2>4. x = y /\ i = log[y].text + 1 - (u - 1)
    BY <1>1, <2>3
  <2>5. log[y].text \in Nat /\ steps[y] \in Seq(StepRecs)
    BY <1>1, LogParts DEF Logs
  <2>6. i # 1
    BY <1>1
  <2> QED
    BY <2>3, <2>4, <2>5, <2>6
<1>2. LogInv /\ [TLNext]_allVars =>
        [\A x \in LogThreads, i \in 1 .. MaxText + 2 :
            last' = <<x, i>> /\ last # last' /\ i % 2 = 0 => last = <<x, i - 1>>]_logVars
  BY <1>1, Zenon
<1> QED
  BY <1>2, LogInvariance, PTL DEF TLSpec, WholeLines
===============================================================================
