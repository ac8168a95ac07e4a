---------------------------- MODULE MCComponents -----------------------------
(***************************************************************************)
(* The parts of Lunchbox that do not call each other, in one run.  They    *)
(* share no state, so a behaviour of the library is a shuffle of theirs,   *)
(* and a property of one part holds in all of them when it holds in those  *)
(* where the other parts stand still.  The initial state picks the part    *)
(* that moves (focus), and all of them are picked.                         *)
(***************************************************************************)
EXTENDS LFQueue, Pool, Buffer, Clock, SavedFiles, MemoryMap

CONSTANTS s1, s2, l1, l2, app

VARIABLES
    focus,
    ptr, count, life, func, runs, lock, todo, throws, terminated,            \* RefCount
    intervals, setSize, members, spoilt,                                     \* IntervalSet
    kind, open, plugins, libraries, removed, strayed,                        \* PluginFactory
    words, command, parent, process, argv, nTries                            \* CommandLine

pointerVars == <<ptr, count, life, func, runs, lock, todo, throws, terminated>>
setVars == <<intervals, setSize, members, spoilt>>
pluginVars == <<kind, open, plugins, libraries, removed, strayed>>
commandVars == <<words, command, parent, process, argv, nTries>>

RC == INSTANCE RefCount WITH
    Threads <- {1, 2}, PerThread <- <<2, 1>>, MaxObjects <- 2, MaxThrows <- 1
IS == INSTANCE IntervalSet WITH
    Sets <- {s1, s2}, Width <- 3, size <- setSize, content <- members,
    Elements <- [s \in {s1, s2} |-> IF s = s1 THEN {0, 1, 2, 3, 6, 7} ELSE {0, 1}]
PF == INSTANCE PluginFactory WITH
    Libraries <- {l1, l2}, AppPlugins <- {app}, MaxPlugins <- 3,
    Directory <- [path \in {"plugins", "more"} |-> IF path = "plugins" THEN {l1, l2} ELSE {l2}]
CL == INSTANCE CommandLine WITH
    MaxWords <- 2, MaxLength <- 2, child <- process, tries <- nTries

\* The times the clock is set to: into the past, the future and across seconds.
MCTimes == {-9, -4, -1, 0, 1, 3, 4, 7, 9} \cup {-72, -71, 59, 60, 255, 256}

\* The data of the objects that are saved.
MCPayloads == [1..1 -> {"x", "A"}] \union {<<"y", "x">>}

mcVars == <<vars, focus, pointerVars, setVars, poolVars, bufferVars, mapVars,
            pluginVars, fileVars, commandVars, clockVars>>
-----------------------------------------------------------------------------
\* The part in focus starts in any of its initial states, every other part in
\* one of them.
MCFocus == {"queue", "pointers", "intervals", "pool", "buffer", "maps", "plugins",
            "files", "command", "clock"}

MCInit ==
    /\ focus \in MCFocus
    /\ Init /\ (focus # "queue" => slots = 1)
    /\ RC!RefInit /\ IS!Init /\ PoolInit /\ BufferInit /\ MapInit
    /\ IF focus = "plugins" THEN PF!PluginInit
       ELSE /\ kind = [l \in {l1, l2} |-> [static |-> FALSE, does |-> "not open"]]
            /\ open = [l \in {l1, l2} |-> 0]
            /\ plugins = <<>> /\ libraries = <<>> /\ removed = {} /\ strayed = {}
    /\ FileInit
    /\ IF focus = "command" THEN CL!CommandInit
       ELSE /\ words = <<<<"letter">>>> /\ command = <<"letter">> /\ parent = "calling"
            /\ process = "none" /\ argv = <<>> /\ nTries = CL!MaxTries
    /\ IF focus = "clock" THEN ClockInit
       ELSE now = 0 /\ start = [sec |-> 0, nsec |-> 0] /\ elapsed = 0 /\ laps = 0 /\ setTo = 0

MCNext ==
    /\ UNCHANGED focus
    /\ IF focus = "queue" THEN Next ELSE UNCHANGED vars
    /\ IF focus = "pointers" THEN RC!RefNext ELSE UNCHANGED pointerVars
    /\ IF focus = "intervals" THEN IS!Next ELSE UNCHANGED setVars
    /\ IF focus = "pool" THEN PoolNext ELSE UNCHANGED poolVars
    /\ IF focus = "buffer" THEN BufferNext ELSE UNCHANGED bufferVars
    /\ IF focus = "maps" THEN MapNext ELSE UNCHANGED mapVars
    /\ IF focus = "plugins" THEN PF!PluginNext ELSE UNCHANGED pluginVars
    /\ IF focus = "files" THEN FileNext ELSE UNCHANGED fileVars
    /\ IF focus = "command" THEN CL!CommandNext ELSE UNCHANGED commandVars
    /\ IF focus = "clock" THEN ClockNext ELSE UNCHANGED clockVars

MCSpec == MCInit /\ [][MCNext]_mcVars
-----------------------------------------------------------------------------
\* referenced.h, refPtr.h: an object lives as long as it is held.
LivesWhileHeld == focus = "pointers" => RC!LivesWhileHeld

\* futureFunction.h: the function is called once.
FunctionRunsOnce == focus = "pointers" => RC!FunctionRunsOnce

\* intervalSet.ipp: edges, size(), exists() and iteration agree with the content.
SetIsExact == focus = "intervals" => IS!SetIsExact

\* pluginFactory.ipp: the libraries of registered plugins are loaded.
PluginsAreLoaded == focus = "plugins" => PF!PluginsAreLoaded

\* fork.cpp: the child runs the words of the command.
CommandIsExecuted == focus = "command" => CL!CommandIsExecuted
=============================================================================
