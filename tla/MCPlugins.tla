------------------------------- MODULE MCPlugins ------------------------------
(***************************************************************************)
(* A plugin factory that loads two libraries from a directory, one of them *)
(* again from a second one, and an application with a plugin of its own.   *)
(***************************************************************************)
EXTENDS PluginFactory

CONSTANTS l1, l2

MCDirectory == [path \in {"plugins", "more"} |-> IF path = "plugins" THEN {l1, l2} ELSE {l2}]
===============================================================================
