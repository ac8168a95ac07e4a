---------------------------- MODULE PluginFactory ----------------------------
(***************************************************************************)
(* lunchbox::PluginFactory, Plugin, PluginRegisterer and DSO: plugins are  *)
(* registered by the application or by shared libraries, which load()      *)
(* opens, asks for their version and either keeps open or closes again.    *)
(* The functions of a plugin are code of the library it came from.         *)
(*                                                                         *)
(* What a library does is its kind, and the kinds are all tried: it may    *)
(* not open, miss an entry point, have another version, refuse to          *)
(* register, or register a plugin.  With a static PluginRegisterer in the  *)
(* library (static) the plugin is registered while the library is opened,  *)
(* and its LunchboxPluginRegister() has nothing left to do.                *)
(***************************************************************************)
EXTENDS Naturals, Sequences, FiniteSets, SequencesExt

CONSTANTS
    Libraries,    \* the shared libraries
    Directory,    \* Directory[path]: the libraries found there
    AppPlugins,   \* the plugins of the application itself
    MaxPlugins    \* bound: the number of registered plugins, and of libraries kept

Kinds == [static : BOOLEAN,
          does : {"not open", "no symbol", "other version", "refuse", "register"}]

VARIABLES
    kind,       \* kind[l]: what library l does when it is loaded
    open,       \* open[l]: how many handles keep l in the process
    plugins,    \* _plugins: where each plugin's functions are, in order
    libraries,  \* _libraries: the library of each DSO that is kept
    removed,    \* history: the plugins passed to deregister() and not registered since
    strayed     \* history: the libraries that were called after they were unloaded

pluginVars == <<kind, open, plugins, libraries, removed, strayed>>

PluginInit ==
    /\ kind \in [Libraries -> Kinds]
    /\ open = [l \in Libraries |-> 0]
    /\ plugins = <<>>
    /\ libraries = <<>>
    /\ removed = {} /\ strayed = {}
-----------------------------------------------------------------------------
\* The state that load() works on, and DSO::open(), close(): dlopen() counts.
\* Opening a library that is not in the process runs its static initialisers.
Loader == [open |-> open, plugins |-> plugins, libraries |-> libraries]

DsoOpen(s, l) ==
    [s EXCEPT !.open[l] = @ + 1,
              !.plugins = IF s.open[l] = 0 /\ kind[l].static THEN Append(@, l) ELSE @]
DsoClose(s, l) == [s EXCEPT !.open[l] = @ - 1]

\* LunchboxPluginRegister() of a library that registers.
RegisterFunc(s, l) == IF kind[l].static THEN s ELSE [s EXCEPT !.plugins = Append(@, l)]

MutantLoadLibrary(s, l) ==
    IF kind[l].does = "not open" THEN s
    ELSE IF kind[l].does # "register" THEN DsoClose(DsoOpen(s, l), l)
    ELSE DsoClose(RegisterFunc(DsoOpen(s, l), l), l)

\* One round of the loop of load(): the DSO stays open when it has the entry
\* points, the version, and registered its plugin.
LoadLibrary(s, l) ==
    IF kind[l].does = "not open" THEN s
    ELSE IF kind[l].does # "register" THEN DsoClose(DsoOpen(s, l), l)
    ELSE [RegisterFunc(DsoOpen(s, l), l) EXCEPT !.libraries = Append(@, l)]

\* load( paths ): the paths sorted and without duplicates, in each of them the
\* libraries in the order the directory lists them.
Orders(path) == {o \in [1..Cardinality(Directory[path]) -> Directory[path]] :
                    \A l \in Directory[path] : \E i \in DOMAIN o : o[i] = l}

Load(path) ==
    \E order \in Orders(path) :
        LET s == FoldLeft(LoadLibrary, Loader, order)
        IN  /\ Len(s.plugins) <= MaxPlugins /\ Len(s.libraries) <= MaxPlugins
            /\ open' = s.open /\ plugins' = s.plugins /\ libraries' = s.libraries
            /\ UNCHANGED <<kind, removed, strayed>>

\* register_(), and a PluginRegisterer of the application.
Register(p) ==
    /\ Len(plugins) < MaxPlugins
    /\ plugins' = Append(plugins, p)
    /\ removed' = removed \ {p}
    /\ UNCHANGED <<kind, open, libraries, strayed>>

\* Plugin::operator==: the functions are compared by the address of the members
\* that hold them, so only an object is equal to itself.  The element i of
\* _plugins is a copy, never the object the caller has.
EqualPlugin(p, q) == p.at = q.at /\ p.description = q.description
Element(i) == [at |-> <<"_plugins", i>>, description |-> plugins[i]]
Argument(p) == [at |-> <<"caller", 1>>, description |-> p]

\* deregister( plugin ): the first equal element is erased.
Deregister(p) ==
    LET found == {i \in DOMAIN plugins : EqualPlugin(Element(i), Argument(p))}
    IN  /\ plugins' = IF found = {} THEN plugins
                      ELSE RemoveAt(plugins, CHOOSE i \in found : \A j \in found : i <= j)
        /\ removed' = removed \union {p}
        /\ UNCHANGED <<kind, open, libraries, strayed>>

\* deregisterAll(): all plugins, and then the libraries.
DeregisterAll ==
    /\ plugins' = <<>>
    /\ open' = FoldLeft(DsoClose, Loader, libraries).open
    /\ libraries' = <<>>
    /\ UNCHANGED <<kind, removed, strayed>>

\* handles( initData ), where i is the first plugin that handles it, or one past
\* the last: the functions of all plugins up to it are called.
Handles(i) ==
    /\ strayed' = strayed \cup {plugins[j] : j \in
                     {k \in DOMAIN plugins : k <= i /\ plugins[k] \in Libraries /\ open[plugins[k]] = 0}}
    /\ UNCHANGED <<kind, open, plugins, libraries, removed>>

\* create( initData ) then constructs with the same plugin, or throws.
Create(i) == Handles(i)

PluginNext ==
    \/ \E path \in DOMAIN Directory : Load(path)
    \/ \E p \in AppPlugins : Register(p) \/ Deregister(p)
    \/ DeregisterAll
    \/ \E i \in 1 .. Len(plugins) + 1 : Handles(i) \/ Create(i)

PluginSpec == PluginInit /\ [][PluginNext]_pluginVars
-----------------------------------------------------------------------------
(* create() and handles() never call into a library that was unloaded: the *)
(* library of every registered plugin is held open, by as many handles as  *)
(* load() kept.  The exception is a library that registers itself while it *)
(* is opened and is then refused: load() closes it and leaves its plugin   *)
(* in the list.                                                            *)
PluginsAreLoaded ==
    /\ \A i \in DOMAIN plugins : plugins[i] \in Libraries =>
          LET l == plugins[i]
          IN  open[l] > 0 \/ (kind[l].static /\ kind[l].does # "register")
    /\ \A l \in Libraries : open[l] = Len(SelectSeq(libraries, LAMBDA k : k = l))
    /\ \A l \in strayed : kind[l].static /\ kind[l].does # "register"

(* "Deregister a plugin type" (pluginFactory.h): a plugin that was passed  *)
(* to deregister() and not registered again is not in the list any more.   *)
DeregisteredIsGone == \A i \in DOMAIN plugins : plugins[i] \notin removed
=============================================================================
