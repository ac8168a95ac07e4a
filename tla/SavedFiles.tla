----------------------------- MODULE SavedFiles -----------------------------
(***************************************************************************)
(* saveBinary() and loadBinary() (file.cpp): an object is written into a   *)
(* memory map of its file, one unit for the type identifier and then its   *)
(* data, and read back through a read-only map.  Threads do this at the    *)
(* same time and nothing is locked: a save sizes the file, writes the      *)
(* identifier, then the data; a load maps the file, tests the identifier,  *)
(* then reads the data.  saveAscii() and loadAscii() do it without the     *)
(* identifier; an object saved as text has the type Ascii.                 *)
(***************************************************************************)
EXTENDS Naturals, Sequences

CONSTANTS
    FileThreads,  \* the threads
    Types,        \* the type identifiers
    Ascii,        \* the mark of text, which is no identifier
    Units,        \* what the data of an object is made of
    Payloads,     \* the data of the objects
    Blank,        \* the zero that a file is enlarged with
    MaxSaves      \* bound: the number of saves

ASSUME FileAssumption == Ascii \notin Types /\ Payloads \subseteq Seq(Units)

VARIABLES
    content,  \* the units of the file
    call,     \* call[t]: the function t is in, its object, the size of its map
    answer,   \* answer[t]: what the last call of t returned, none during a call
    alone,    \* history: the threads whose call no other one disturbed so far
    saved,    \* history: the object of the last save, if it was undisturbed
    saves     \* history: the number of saves

fileVars == <<content, call, answer, alone, saved, saves>>

Idle == [op |-> "idle", type |-> Blank, data |-> <<>>, size |-> 0]
Object(type, data) == [type |-> type, data |-> data]

\* The result of a call, the object it is about, and the one it has to load, if any.
Answer(result, object, of) == [result |-> result, object |-> object, of |-> of]
NoObject(result) == Answer(result, Object(Blank, <<>>), {})

FileInit ==
    /\ content = <<>>
    /\ call = [t \in FileThreads |-> Idle]
    /\ answer = [t \in FileThreads |-> NoObject("none")]
    /\ alone = {}
    /\ saved = {}
    /\ saves = 0
-----------------------------------------------------------------------------
\* ftruncate()
Sized(units, n) == [i \in 1..n |-> IF i <= Len(units) THEN units[i] ELSE Blank]

\* memcpy() into the map: what is behind the end of the file is lost.
Stored(at, units) ==
    [i \in DOMAIN content |-> IF i > at /\ i <= at + Len(units) THEN units[i - at] ELSE content[i]]

Saving == \E t \in FileThreads : call[t].op \in {"identifier", "data"}
Busy(t) == \E u \in FileThreads \ {t} : call[u].op # "idle"

Return(t, value) ==
    /\ call' = [call EXCEPT ![t] = Idle]
    /\ answer' = [answer EXCEPT ![t] = value]

\* The units before the data.
HeaderSize(type) == IF type = Ascii THEN 0 ELSE 1

\* saveBinary() and saveAscii(): the constructor of MemoryMap opens and sizes the
\* file and maps it, and throws when one of these fails.  Once the file is sized,
\* every other call that is under way is disturbed.
SaveMaps(t, type, data) ==
    /\ call[t].op = "idle" /\ saves < MaxSaves
    /\ saves' = saves + 1
    /\ \/ Return(t, NoObject("throws")) /\ UNCHANGED <<content, alone, saved>>
       \/ /\ content' = Sized(content, HeaderSize(type) + Len(data))
          /\ saved' = {}
          /\ \/ Return(t, NoObject("throws")) /\ alone' = {}
             \/ /\ call' = [call EXCEPT ![t] =
                               [op |-> IF type = Ascii THEN "data" ELSE "identifier",
                                type |-> type, data |-> data,
                                size |-> HeaderSize(type) + Len(data)]]
                /\ alone' = IF Busy(t) THEN {} ELSE {t}
                /\ answer' = [answer EXCEPT ![t] = NoObject("none")]

SaveIdentifier(t) ==
    /\ call[t].op = "identifier"
    /\ content' = Stored(0, <<call[t].type>>)
    /\ call' = [call EXCEPT ![t] = [@ EXCEPT !.op = "data"]]
    /\ UNCHANGED <<answer, alone, saved, saves>>

SaveData(t) ==
    /\ call[t].op = "data"
    /\ content' = Stored(HeaderSize(call[t].type), call[t].data)
    /\ saved' = IF t \in alone THEN {Object(call[t].type, call[t].data)} ELSE {}
    /\ Return(t, NoObject("true"))
    /\ UNCHANGED <<alone, saves>>

\* loadBinary() and loadAscii(): mapping a file that is not there or is empty throws.
LoadMaps(t, type) ==
    /\ call[t].op = "idle"
    /\ \/ content = <<>> /\ Return(t, NoObject("throws")) /\ UNCHANGED alone
       \/ /\ content # <<>>
          /\ call' = [call EXCEPT ![t] = [op |-> IF type = Ascii THEN "read" ELSE "test",
                                          type |-> type, data |-> <<>>, size |-> Len(content)]]
          /\ answer' = [answer EXCEPT ![t] = NoObject("none")]
          /\ alone' = IF Saving THEN alone \ {t} ELSE alone \union {t}
    /\ UNCHANGED <<content, saved, saves>>

\* The pages of a map show what is in the file now.
Mapped(t, from) == SubSeq(Sized(content, call[t].size), from, call[t].size)

\* What a load of t has to return: nothing is promised to one that was disturbed.
Promised(t) == IF t \in alone THEN saved ELSE {}

MutantLoadTests(t) ==
    /\ call[t].op = "test"
    /\ call' = [call EXCEPT ![t] = [@ EXCEPT !.op = "read"]]
    /\ UNCHANGED <<content, answer, alone, saved, saves>>

\* The identifier is a unit of the file.  In a file too short for one that unit
\* is no type, and the test of the size, which also returns false, is this one.
LoadTests(t) ==
    /\ call[t].op = "test"
    /\ IF Mapped(t, 1)[1] # call[t].type
       THEN Return(t, Answer("false", Object(call[t].type, <<>>), Promised(t)))
       ELSE call' = [call EXCEPT ![t] = [@ EXCEPT !.op = "read"]] /\ UNCHANGED answer
    /\ UNCHANGED <<content, alone, saved, saves>>

LoadReads(t) ==
    /\ call[t].op = "read"
    /\ Return(t, Answer("true", Object(call[t].type, Mapped(t, HeaderSize(call[t].type) + 1)),
                        Promised(t)))
    /\ UNCHANGED <<content, alone, saved, saves>>

FileNext ==
    \E t \in FileThreads :
        \/ \E type \in Types \cup {Ascii}, data \in Payloads : SaveMaps(t, type, data)
        \/ \E type \in Types \cup {Ascii} : LoadMaps(t, type)
        \/ SaveIdentifier(t) \/ SaveData(t) \/ LoadTests(t) \/ LoadReads(t)

FileSpec == FileInit /\ [][FileNext]_fileVars
-----------------------------------------------------------------------------
(* What was saved is what is loaded: a load that no save disturbed, after  *)
(* a save that returned true and was undisturbed, with no failed save      *)
(* since, returns that object, or false when the object has another type.  *)
(* Both conditions are needed: a save that fails has already cut or        *)
(* enlarged the file (file.cpp:255), and a save writes the identifier      *)
(* before the data (file.cpp:259), so a load in between accepts the file.  *)
(* loadAscii() has nothing to test and takes a binary file for text, and   *)
(* loadBinary() takes a text for its object that begins with the type.     *)
LoadedIsSaved ==
    \A t \in FileThreads : \A o \in answer[t].of :
        LET type == answer[t].object.type
        IN  IF answer[t].result = "false" THEN type # o.type
            ELSE \/ answer[t].object = o
                 \/ type = Ascii /\ o.type # Ascii
                 \/ type # Ascii /\ o.type = Ascii /\ o.data[1] = type
=============================================================================
