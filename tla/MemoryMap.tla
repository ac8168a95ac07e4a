------------------------------ MODULE MemoryMap ------------------------------
(***************************************************************************)
(* lunchbox::MemoryMap (memoryMap.cpp), the random number generator        *)
(* (rng.cpp) and daemonize() (daemon.h), the users of file descriptors, in *)
(* one process: open() hands out the lowest free descriptor and mmap() any *)
(* free address, so what one of them forgets, or gives back twice, is      *)
(* another one's.  A descriptor or an address is a number, a mapping one   *)
(* whole region; of the standard streams there is the one the Log uses.    *)
(***************************************************************************)
EXTENDS Naturals, FiniteSets, Functions

CONSTANTS
    Maps,         \* the MemoryMap objects
    MapFiles,     \* the files
    MaxFileSize,  \* bound: the largest size a file is given
    MaxFds,       \* the number of descriptors of the process
    MaxFaults     \* bound: how often ftruncate() or mmap() fails for a reason
                  \* no caller can know (a full disk, no memory)

NoFd == 0
Fds == 1..MaxFds
NullPtr == 0
Addresses == 1..Cardinality(Maps)
Random == "/dev/urandom"
Console == "console"
Stderr == 1

ASSUME MapAssumption == IsFiniteSet(Maps) /\ MaxFds \in Nat \ {0}

VARIABLES
    os,      \* the system: table (the file and mode of each open descriptor),
             \* region (who mapped how much at an address), length (the size of
             \* each file there is) and how many calls failed
    map,     \* the members ptr, size and _map (fd) of each object
    rng,     \* the generator: _fd, the copy of it in _get(), whether _exit()
             \* ran, and whether a number was read from another file (history)
    daemon,  \* whether daemonize() succeeded, and the files that log output
             \* was written to since (history)
    leaked,  \* history: the descriptors that no object will close
    stale,   \* history: the objects whose address is not mapped any more
    torn     \* history: the objects whose mapping another object removed

mapVars == <<os, map, rng, daemon, leaked, stale, torn>>
-----------------------------------------------------------------------------
Unmapped == [ptr |-> NullPtr, size |-> 0, fd |-> NoFd]

MapInit ==
    /\ os = [table |-> [fd \in {Stderr} |-> [file |-> Console, writable |-> TRUE]],
             region |-> <<>>, length |-> <<>>, faults |-> 0]
    /\ daemon = [is |-> FALSE, wrote |-> {}]
    /\ map = [m \in Maps |-> Unmapped]
    /\ rng = [fd |-> NoFd, copy |-> NoFd, asked |-> FALSE, exited |-> FALSE, misread |-> FALSE]
    /\ leaked = {} /\ stale = {} /\ torn = {}

Without(f, x) == Restrict(f, DOMAIN f \ {x})
Extended(f, x, y) == [z \in DOMAIN f \union {x} |-> IF z = x THEN y ELSE f[z]]

\* open(): the lowest descriptor that is free.
CanOpen == DOMAIN os.table # Fds
FreeFd ==
    CHOOSE fd \in Fds \ DOMAIN os.table : \A other \in Fds \ DOMAIN os.table : fd <= other

Opened(file, writable) ==
    [os EXCEPT !.table = Extended(@, FreeFd, [file |-> file, writable |-> writable])]
Closed(s, fd) == [s EXCEPT !.table = Without(@, fd)]

\* munmap() removes whatever is mapped at the address.
Munmapped(s, address) == [s EXCEPT !.region = Without(@, address)]
TornBy(m) ==
    {o \in Maps \ {m} : map[m].ptr \in DOMAIN os.region /\ os.region[map[m].ptr].by = o}

\* A call that may fail for no reason the program can know: s, or s after the fault.
Faulty(s) == IF s.faults < MaxFaults THEN {[s EXCEPT !.faults = @ + 1]} ELSE {}
-----------------------------------------------------------------------------
\* _mapFile() of object m, with the members r, in the system s: every outcome,
\* as the step that ended it, the members and the system it leaves.
Truncated(s, file, size) == IF size > 0 THEN [s EXCEPT !.length = Extended(@, file, size)] ELSE s

TruncateFails(r, s, size) ==
    IF size = 0 THEN {}
    ELSE {[end |-> "truncate", members |-> r, os |-> f] :
              f \in IF s.table[r.fd].writable THEN Faulty(s) ELSE {s}}

\* mmap() of an empty file is an error as well.
MmapFails(r, s, size) ==
    LET t == Truncated(s, s.table[r.fd].file, size)
    IN  IF size > 0 /\ ~s.table[r.fd].writable THEN {}
        ELSE {[end |-> "mmap", members |-> Unmapped, os |-> Closed(f, r.fd)] :
                  f \in IF t.length[s.table[r.fd].file] = 0 THEN {t} ELSE Faulty(t)}

Mmaps(m, r, s, size) ==
    LET t == Truncated(s, s.table[r.fd].file, size)
        actual == t.length[s.table[r.fd].file]
    IN  IF (size > 0 /\ ~s.table[r.fd].writable) \/ actual = 0 THEN {}
        ELSE {[end |-> "mapped",
               members |-> [ptr |-> a, size |-> actual, fd |-> r.fd],
               os |-> [t EXCEPT !.region = Extended(@, a, [by |-> m, size |-> actual])]] :
                  a \in Addresses \ DOMAIN t.region}

MapFile(m, r, s, size) ==
    TruncateFails(r, s, size) \union MmapFails(r, s, size) \union Mmaps(m, r, s, size)
-----------------------------------------------------------------------------
\* init(): refused while mapped; a file that is not there is not opened for
\* reading.  The descriptor of a failed ftruncate() stays open, and the next
\* init() overwrites it.
InitMap(m, file, size) ==
    /\ map[m].ptr = NullPtr
    /\ CanOpen
    /\ size > 0 \/ file \in DOMAIN os.length
    /\ LET created == IF file \in DOMAIN os.length
                      THEN Opened(file, size > 0)
                      ELSE [Opened(file, TRUE) EXCEPT !.length = Extended(@, file, 0)]
       IN  \E outcome \in MapFile(m, [map[m] EXCEPT !.fd = FreeFd], created, size) :
              /\ map' = [map EXCEPT ![m] = outcome.members]
              /\ os' = outcome.os
              /\ leaked' = IF outcome.end = "truncate" THEN leaked \union {FreeFd} ELSE leaked
    /\ UNCHANGED <<rng, daemon, stale, torn>>

\* map() and create(); remap() and recreate() are unmap() followed by these.
Map(m, file) == InitMap(m, file, 0)
Create(m, file, size) == size > 0 /\ InitMap(m, file, size)

\* unmap(), and the destructor.
Unmap(m) ==
    /\ map[m].ptr # NullPtr
    /\ map' = [map EXCEPT ![m] = Unmapped]
    /\ os' = Closed(Munmapped(os, map[m].ptr), map[m].fd)
    /\ stale' = stale \ {m}
    /\ torn' = (torn \ {m}) \union TornBy(m)
    /\ UNCHANGED <<rng, daemon, leaked>>

\* resize(): the region is unmapped before the file is mapped again.
Remapped(m, before, size) ==
    /\ map[m].ptr # NullPtr
    /\ size # map[m].size
    /\ \E outcome \in MapFile(m, map[m], before, size) :
          /\ map' = [map EXCEPT ![m] = outcome.members]
          /\ os' = outcome.os
          /\ stale' = IF outcome.end = "truncate" THEN stale \union {m} ELSE stale \ {m}
          /\ torn' = (IF outcome.end = "truncate" THEN torn ELSE torn \ {m}) \union TornBy(m)
    /\ UNCHANGED <<rng, daemon, leaked>>

MutantResizeMap(m, size) == Remapped(m, os, size)

ResizeMap(m, size) == Remapped(m, Munmapped(os, map[m].ptr), size)
-----------------------------------------------------------------------------
\* RNG::_get(): the first call opens the device, and keeps the descriptor in a
\* static variable of its own, which _exit() does not reset.
ReadsFile(s, fd) == fd \in DOMAIN s.table /\ s.table[fd].file # Random

GetRandom ==
    LET first == ~rng.asked
        fd == IF first THEN (IF CanOpen THEN FreeFd ELSE NoFd) ELSE rng.copy
        system == IF first /\ CanOpen THEN Opened(Random, FALSE) ELSE os
    IN  /\ os' = system
        /\ rng' = [rng EXCEPT !.copy = fd, !.fd = IF first THEN fd ELSE @,
                              !.asked = TRUE, !.misread = @ \/ ReadsFile(system, fd)]
        /\ UNCHANGED <<map, daemon, leaked, stale, torn>>

\* The exit handler: registered by the call that opened the device.
ExitRandom ==
    /\ rng.fd # NoFd
    /\ os' = Closed(os, rng.fd)
    /\ rng' = [rng EXCEPT !.fd = NoFd, !.exited = TRUE]
    /\ UNCHANGED <<map, daemon, leaked, stale, torn>>

\* daemonize(), in the child: the standard streams are closed.
Daemonize ==
    /\ ~daemon.is
    /\ daemon' = [daemon EXCEPT !.is = TRUE]
    /\ os' = Closed(os, Stderr)
    /\ UNCHANGED <<map, rng, leaked, stale, torn>>

\* A line of the Log goes to the descriptor of the standard stream.
LogLine ==
    /\ Stderr \in DOMAIN os.table /\ os.table[Stderr].writable
    /\ daemon' = [daemon EXCEPT !.wrote = @ \union ({os.table[Stderr].file} \ {Console})]
    /\ UNCHANGED <<os, map, rng, leaked, stale, torn>>

MapNext ==
    \/ \E m \in Maps :
          \/ \E file \in MapFiles : Map(m, file) \/ \E size \in 1..MaxFileSize : Create(m, file, size)
          \/ \E size \in 0..MaxFileSize : ResizeMap(m, size)
          \/ Unmap(m)
    \/ GetRandom
    \/ ExitRandom
    \/ Daemonize
    \/ LogLine

MapSpec == MapInit /\ [][MapNext]_mapVars
-----------------------------------------------------------------------------
(* What an object believes to own it owns, and nothing else is left behind *)
(* in the process: the address of a mapped object is mapped by that object *)
(* and with that size, its descriptor is open on a file, every mapping and *)
(* every descriptor is some object's, and random numbers come from the     *)
(* device.  What the error paths of the code really leave is excepted, and *)
(* nothing more: _mapFile() returns after a failed ftruncate() without     *)
(* closing the descriptor (leaked) or, from resize(), with an address that *)
(* is not mapped any more (stale), through which a later unmap() removes   *)
(* the mapping another object made there (torn); and after _exit() the     *)
(* generator reads whatever has its descriptor's number.  Likewise the Log *)
(* writes into a mapped file only when daemonize() gave its descriptor     *)
(* away.                                                                   *)
MapsOwnWhatTheyUse ==
    /\ \A m \in Maps : map[m].ptr # NullPtr =>
          /\ map[m].fd \in DOMAIN os.table /\ os.table[map[m].fd].file \in MapFiles
          /\ m \notin stale \union torn =>
                /\ map[m].ptr \in DOMAIN os.region
                /\ os.region[map[m].ptr] = [by |-> m, size |-> map[m].size]
    /\ \A a \in DOMAIN os.region : map[os.region[a].by].ptr = a
    /\ DOMAIN os.table \subseteq
          {map[m].fd : m \in {o \in Maps : map[o].ptr # NullPtr}} \union {rng.fd, Stderr} \union leaked
    /\ rng.misread => rng.exited
    /\ daemon.wrote # {} => daemon.is
=============================================================================
