---------------------------- MODULE Services_proofs ----------------------------
(***************************************************************************)
(* Proofs about components on top of a service of the operating system:    *)
(* for any number of threads what was saved in a file is what is loaded    *)
(* (file.cpp), for any objects, files, sizes and number of descriptors the *)
(* users of descriptors and mappings (memoryMap.cpp, rng.cpp, daemon.h)    *)
(* own what they use, and for any units and any times that fit an int the  *)
(* Clock (clock.cpp) tells the time.                                       *)
(***************************************************************************)
EXTENDS SavedFiles, MemoryMap, Clock, TLAPS

(***************************************************************************)
(* SavedFiles.  As long as a call is alone, the file is what that call has *)
(* made of it or found in it: no other save is under way.                  *)
(***************************************************************************)
AllTypes == Types \union {Ascii}
FileUnits == Units \union Types \union {Blank}

\* The file is the image of object o.
Holds(o) ==
    /\ Len(content) = HeaderSize(o.type) + Len(o.data)
    /\ o.type # Ascii => content[1] = o.type
    /\ \A i \in 1 .. Len(o.data) : content[HeaderSize(o.type) + i] = o.data[i]

CallOK(c) ==
    /\ c \in [op : {"idle", "identifier", "data", "test", "read"},
              type : AllTypes \union {Blank}, data : Seq(Units), size : Nat]
    /\ c.op # "idle" => c.type \in AllTypes
    /\ c.op \in {"identifier", "test"} => c.type # Ascii

Saves(t) == call[t].op \in {"identifier", "data"}
Loads(t) == call[t].op \in {"test", "read"}

\* Where the call of t has written or read the file, the file still is as it left it.
SaverOK(t) ==
    /\ \A u \in FileThreads \ {t} : ~Saves(u)
    /\ Len(content) = HeaderSize(call[t].type) + Len(call[t].data)
    /\ call[t].op = "data" /\ call[t].type # Ascii => content[1] = call[t].type

LoaderOK(t) ==
    /\ \A u \in FileThreads : ~Saves(u)
    /\ call[t].size = Len(content) /\ Len(content) >= 1
    /\ call[t].op = "read" /\ call[t].type # Ascii => content[1] = call[t].type

SavedOK(o) ==
    /\ o \in [type : AllTypes, data : Seq(Units)] /\ Holds(o)
    /\ \A u \in FileThreads : ~Saves(u)

AnswerOK(t) ==
    \A o \in answer[t].of :
        LET type == answer[t].object.type
        IN  IF answer[t].result = "false" THEN type # o.type
            ELSE \/ answer[t].object = o
                 \/ type = Ascii /\ o.type # Ascii
                 \/ type # Ascii /\ o.type = Ascii /\ o.data[1] = type

FileTypeOK ==
    /\ content \in Seq(FileUnits)
    /\ call = [t \in FileThreads |-> call[t]]
    /\ answer = [t \in FileThreads |-> answer[t]]
    /\ \A t \in FileThreads : CallOK(call[t])

FileInv ==
    /\ FileTypeOK
    /\ \A t \in FileThreads : Saves(t) /\ t \in alone => SaverOK(t)
    /\ \A t \in FileThreads : Loads(t) /\ t \in alone => LoaderOK(t)
    /\ \A o \in saved : SavedOK(o)
    /\ \A t \in FileThreads : AnswerOK(t)

\* The header is one unit or none.
LEMMA HeaderUnits ==
    ASSUME NEW type
    PROVE  HeaderSize(type) \in Nat /\ HeaderSize(type) = (IF type = Ascii THEN 0 ELSE 1)
  BY DEF HeaderSize

\* ftruncate() leaves the size asked for, and what was there up to it.
LEMMA SizedFile ==
    ASSUME content \in Seq(FileUnits), NEW n \in Nat
    PROVE  /\ Sized(content, n) \in Seq(FileUnits) /\ Len(Sized(content, n)) = n
           /\ n = Len(content) => Sized(content, n) = content
<1>1. Sized(content, n) \in [1 .. n -> FileUnits]
  BY DEF Sized, FileUnits
<1>2. Sized(content, n) \in Seq(FileUnits) /\ Len(Sized(content, n)) = n
  BY <1>1
<1>3. ASSUME n = Len(content) PROVE Sized(content, n) = content
  BY <1>3 DEF Sized
<1> QED
  BY <1>2, <1>3

\* memcpy() changes the units it is given and leaves the size.
LEMMA StoredFile ==
    ASSUME content \in Seq(FileUnits), NEW at \in Nat, NEW units \in Seq(FileUnits),
           NEW new, new = Stored(at, units)
    PROVE  /\ new \in Seq(FileUnits) /\ Len(new) = Len(content)
           /\ \A i \in 1 .. Len(content) :
                 new[i] = IF i > at /\ i <= at + Len(units) THEN units[i - at] ELSE content[i]
<1>1. new = [i \in 1 .. Len(content) |->
                IF i > at /\ i <= at + Len(units) THEN units[i - at] ELSE content[i]]
  BY DEF Stored
<1>2. new \in [1 .. Len(content) -> FileUnits]
  BY <1>1
<1>3. new \in Seq(FileUnits) /\ Len(new) = Len(content)
  BY <1>2
<1> QED
  BY <1>1, <1>3

\* A map that is as long as the file shows the file.
LEMMA MappedFile ==
    ASSUME content \in Seq(FileUnits), NEW t \in FileThreads, call[t].size = Len(content)
    PROVE  /\ Len(content) >= 1 => Mapped(t, 1)[1] = content[1]
           /\ \A o \in [type : AllTypes, data : Seq(Units)] :
                 Holds(o) => Mapped(t, HeaderSize(o.type) + 1) = o.data
<1>1. \A f : Mapped(t, f) = SubSeq(content, f, Len(content))
  <2>1. Sized(content, Len(content)) = content
    BY SizedFile
  <2> QED
    BY <2>1, Zenon DEF Mapped
<1>2. Len(content) >= 1 => Mapped(t, 1)[1] = content[1]
  BY <1>1
<1>3. ASSUME NEW o \in [type : AllTypes, data : Seq(Units)], Holds(o)
      PROVE  Mapped(t, HeaderSize(o.type) + 1) = o.data
  <2>1. PICK h \in Nat : h = HeaderSize(o.type)
    BY HeaderUnits
  <2>2. PICK d \in Seq(Units) : d = o.data
    OBVIOUS
  <2>3. Len(content) = h + Len(d) /\ \A i \in 1 .. Len(d) : content[h + i] = d[i]
    BY <1>3, <2>1, <2>2 DEF Holds
  <2>4. SubSeq(content, h + 1, Len(content)) = d
    <3>1. PICK s : s = SubSeq(content, h + 1, Len(content))
      BY Zenon
    <3>2. s \in Seq(FileUnits) /\ Len(s) = Len(d)
      BY <2>3, <3>1
    <3>3. \A i \in 1 .. Len(d) : s[i] = d[i]
      BY <2>3, <3>1
    <3> QED
      BY <3>1, <3>2, <3>3
  <2> QED
    BY <1>1, <2>1, <2>2, <2>4, Zenon
<1> QED
  BY <1>2, <1>3

\* A call returns and changes nothing else.
LEMMA ReturnKeeps ==
    ASSUME FileInv, NEW t \in FileThreads, NEW v, Return(t, v), AnswerOK(t)',
           UNCHANGED <<content, alone, saved>>
    PROVE  FileInv'
<1>1. /\ call' = [call EXCEPT ![t] = Idle] /\ answer' = [answer EXCEPT ![t] = v]
      /\ content' = content /\ alone' = alone /\ saved' = saved
  BY DEF Return
<1>2. CallOK(Idle) /\ Idle.op = "idle"
  BY DEF CallOK, Idle, AllTypes
<1>3. /\ \A u \in FileThreads \ {t} : call'[u] = call[u] /\ answer'[u] = answer[u]
      /\ call'[t] = Idle
  BY <1>1 DEF FileInv, FileTypeOK
<1>4. /\ ~Saves(t)' /\ ~Loads(t)'
      /\ \A u \in FileThreads \ {t} : (Saves(u)' <=> Saves(u)) /\ (Loads(u)' <=> Loads(u))
  BY <1>2, <1>3 DEF Saves, Loads
<1>5. FileTypeOK'
  BY <1>1, <1>2, <1>3, Zenon DEF FileInv, FileTypeOK
<1>6. \A u \in FileThreads : Saves(u)' /\ u \in alone' => SaverOK(u)'
  BY <1>1, <1>3, <1>4 DEF FileInv, SaverOK
<1>7. \A u \in FileThreads : Loads(u)' /\ u \in alone' => LoaderOK(u)'
  BY <1>1, <1>3, <1>4 DEF FileInv, LoaderOK
<1>8. \A o \in saved' : SavedOK(o)'
  BY <1>1, <1>4 DEF FileInv, SavedOK, Holds
<1>9. \A u \in FileThreads : AnswerOK(u)'
  BY <1>3 DEF FileInv, AnswerOK
<1> QED
  BY <1>5, <1>6, <1>7, <1>8, <1>9 DEF FileInv

\* A call without a promised object may return anything.
LEMMA NoPromise ==
    ASSUME NEW t \in FileThreads, NEW result, answer = [u \in FileThreads |-> answer[u]],
           answer' = [answer EXCEPT ![t] = NoObject(result)]
    PROVE  AnswerOK(t)'
<1>1. answer'[t] = NoObject(result)
  OBVIOUS
<1>2. answer'[t].of = {}
  BY <1>1 DEF NoObject, Answer
<1> QED
  BY <1>2 DEF AnswerOK

\* A save begins: every other call is disturbed.
LEMMA SaveMapsKeeps ==
    ASSUME FileInv, NEW t \in FileThreads, NEW type \in AllTypes, NEW data \in Payloads,
           SaveMaps(t, type, data)
    PROVE  FileInv'
<1>1. /\ FileTypeOK /\ answer = [u \in FileThreads |-> answer[u]]
      /\ content \in Seq(FileUnits) /\ data \in Seq(Units)
  BY FileAssumption DEF FileInv, FileTypeOK
<1>2. CASE Return(t, NoObject("throws")) /\ UNCHANGED <<content, alone, saved>>
  BY <1>1, <1>2, NoPromise, ReturnKeeps, Zenon DEF Return
<1>3. ASSUME content' = Sized(content, HeaderSize(type) + Len(data)), saved' = {}
      PROVE  content' \in Seq(FileUnits) /\ Len(content') = HeaderSize(type) + Len(data)
  <2>1. HeaderSize(type) + Len(data) \in Nat
    BY <1>1, HeaderUnits
  <2> QED
    BY <1>1, <1>3, <2>1, SizedFile
<1>4. CASE /\ content' = Sized(content, HeaderSize(type) + Len(data)) /\ saved' = {}
           /\ Return(t, NoObject("throws")) /\ alone' = {}
  <2>1. AnswerOK(t)'
    BY <1>1, <1>4, NoPromise DEF Return
  <2>2. CallOK(Idle)
    BY DEF CallOK, Idle, AllTypes
  <2>3. FileTypeOK'
    BY <1>3, <1>4, <2>2, Zenon DEF FileInv, FileTypeOK, Return
  <2>4. \A u \in FileThreads : AnswerOK(u)'
    BY <1>1, <1>4, <2>1 DEF FileInv, AnswerOK, Return
  <2> QED
    BY <1>4, <2>3, <2>4 DEF FileInv
<1>5. ASSUME NEW new,
             new = [op |-> IF type = Ascii THEN "data" ELSE "identifier",
                    type |-> type, data |-> data, size |-> HeaderSize(type) + Len(data)],
             content' = Sized(content, HeaderSize(type) + Len(data)), saved' = {},
             call' = [call EXCEPT ![t] = new], alone' = IF Busy(t) THEN {} ELSE {t},
             answer' = [answer EXCEPT ![t] = NoObject("none")]
      PROVE  FileInv'
  <2>1. CallOK(new)
    BY <1>1, <1>5, HeaderUnits DEF CallOK, AllTypes
  <2>2. FileTypeOK'
    BY <1>1, <1>3, <1>5, <2>1, Zenon DEF FileTypeOK
  <2>3. AnswerOK(t)'
    BY <1>1, <1>5, NoPromise
  <2>4. \A u \in FileThreads : AnswerOK(u)'
    BY <1>1, <1>5, <2>3 DEF FileInv, AnswerOK
  <2>5. call'[t] = new /\ \A u \in FileThreads \ {t} : call'[u] = call[u]
    BY <1>1, <1>5 DEF FileTypeOK
  <2>6. ASSUME t \in alone' PROVE SaverOK(t)' /\ ~Loads(t)'
    <3>1. ~Busy(t)
      BY <1>5, <2>6, Zenon
    <3>2. \A u \in FileThreads \ {t} : ~Saves(u)'
      BY <2>5, <3>1 DEF Busy, Saves
    <3>3. /\ new.type = type /\ new.data = data
          /\ ~(new.op = "data" /\ new.type # Ascii) /\ new.op \notin {"test", "read"}
      BY <1>5
    <3> QED
      BY <1>3, <1>5, <2>5, <3>2, <3>3 DEF SaverOK, Loads
  <2>7. alone' \subseteq {t}
    BY <1>5, Zenon
  <2> QED
    BY <1>5, <2>2, <2>4, <2>6, <2>7 DEF FileInv
<1>6. \/ Return(t, NoObject("throws")) /\ UNCHANGED <<content, alone, saved>>
      \/ /\ content' = Sized(content, HeaderSize(type) + Len(data)) /\ saved' = {}
         /\ Return(t, NoObject("throws")) /\ alone' = {}
      \/ /\ content' = Sized(content, HeaderSize(type) + Len(data)) /\ saved' = {}
         /\ call' = [call EXCEPT ![t] =
                        [op |-> IF type = Ascii THEN "data" ELSE "identifier",
                         type |-> type, data |-> data,
                         size |-> HeaderSize(type) + Len(data)]]
         /\ alone' = IF Busy(t) THEN {} ELSE {t}
         /\ answer' = [answer EXCEPT ![t] = NoObject("none")]
  BY Zenon DEF SaveMaps
<1> QED
  BY <1>2, <1>4, <1>5, <1>6, Zenon

\* The identifier is written.
LEMMA SaveIdentifierKeeps ==
    ASSUME FileInv, NEW t \in FileThreads, SaveIdentifier(t)
    PROVE  FileInv'
<1>1. /\ FileTypeOK /\ CallOK(call[t]) /\ content \in Seq(FileUnits)
      /\ call[t].op = "identifier" /\ Saves(t)
      /\ call[t].type \in Types /\ call[t].type # Ascii
  BY DEF FileInv, FileTypeOK, SaveIdentifier, CallOK, Saves, AllTypes
<1>2. PICK new : new = [call[t] EXCEPT !.op = "data"]
  BY Zenon
<1>3. /\ new = [op |-> "data", type |-> call[t].type, data |-> call[t].data,
                size |-> call[t].size]
      /\ CallOK(new)
  BY <1>1, <1>2 DEF CallOK
<1>4. /\ call' = [call EXCEPT ![t] = new] /\ content' = Stored(0, <<call[t].type>>)
      /\ answer' = answer /\ alone' = alone /\ saved' = saved
  BY <1>2 DEF SaveIdentifier
<1>5. call'[t] = new /\ \A u \in FileThreads \ {t} : call'[u] = call[u]
  BY <1>1, <1>4 DEF FileTypeOK
<1>6. /\ <<call[t].type>> \in Seq(FileUnits) /\ Len(<<call[t].type>>) = 1
      /\ <<call[t].type>>[1] = call[t].type
  BY <1>1 DEF FileUnits
<1>7. /\ content' \in Seq(FileUnits) /\ Len(content') = Len(content)
      /\ \A i \in 1 .. Len(content) :
            content'[i] = IF i > 0 /\ i <= 0 + Len(<<call[t].type>>)
                          THEN <<call[t].type>>[i - 0] ELSE content[i]
  BY <1>1, <1>4, <1>6, StoredFile, Zenon
<1>8. Len(content) >= 1 => content'[1] = call[t].type
  BY <1>6, <1>7
<1>9. saved = {} /\ \A u \in FileThreads : ~(Loads(u) /\ u \in alone)
  BY <1>1 DEF FileInv, SavedOK, LoaderOK
<1>10. FileTypeOK'
  BY <1>1, <1>3, <1>4, <1>5, <1>7 DEF FileTypeOK
<1>11. /\ Saves(t)' /\ ~Loads(t)'
       /\ \A u \in FileThreads \ {t} : (Saves(u)' <=> Saves(u)) /\ (Loads(u)' <=> Loads(u))
  BY <1>3, <1>5 DEF Saves, Loads
<1>12. ASSUME NEW u \in FileThreads, Saves(u)', u \in alone' PROVE SaverOK(u)'
  <2>1. SaverOK(u) /\ u = t
    BY <1>1, <1>4, <1>11, <1>12, Zenon DEF FileInv, SaverOK
  <2>2. Len(content) >= 1
    BY <1>1, <2>1, HeaderUnits DEF SaverOK, CallOK
  <2> QED
    BY <1>3, <1>5, <1>7, <1>8, <1>11, <2>1, <2>2 DEF SaverOK
<1> QED
  BY <1>4, <1>9, <1>10, <1>11, <1>12 DEF FileInv, AnswerOK

\* The data is written.
LEMMA SaveDataKeeps ==
    ASSUME FileInv, NEW t \in FileThreads, SaveData(t)
    PROVE  FileInv'
<1> DEFINE d == call[t].data
           h == HeaderSize(call[t].type)
<1>1. /\ FileTypeOK /\ CallOK(call[t]) /\ content \in Seq(FileUnits)
      /\ call[t].op = "data" /\ Saves(t) /\ call[t].type \in AllTypes /\ d \in Seq(Units)
  BY DEF FileInv, FileTypeOK, SaveData, CallOK, Saves
<1>2. /\ call' = [call EXCEPT ![t] = Idle] /\ content' = Stored(h, d)
      /\ answer' = [answer EXCEPT ![t] = NoObject("true")] /\ alone' = alone
      /\ saved' = IF t \in alone THEN {Object(call[t].type, d)} ELSE {}
  BY DEF SaveData, Return
<1>3. d \in Seq(FileUnits) /\ h \in Nat /\ h = IF call[t].type = Ascii THEN 0 ELSE 1
  BY <1>1, HeaderUnits DEF FileUnits
<1> HIDE DEF d, h
<1>4. /\ content' \in Seq(FileUnits) /\ Len(content') = Len(content)
      /\ \A i \in 1 .. Len(content) :
            content'[i] = IF i > h /\ i <= h + Len(d) THEN d[i - h] ELSE content[i]
  BY <1>1, <1>2, <1>3, StoredFile, ZenonT(30)
<1>5. CallOK(Idle) /\ Idle.op = "idle"
  BY DEF CallOK, Idle, AllTypes
<1>6. call'[t] = Idle /\ \A u \in FileThreads \ {t} : call'[u] = call[u]
  BY <1>1, <1>2 DEF FileTypeOK
<1>7. /\ ~Saves(t)' /\ ~Loads(t)'
      /\ \A u \in FileThreads \ {t} : (Saves(u)' <=> Saves(u)) /\ (Loads(u)' <=> Loads(u))
  BY <1>5, <1>6 DEF Saves, Loads
<1>8. FileTypeOK'
  BY <1>1, <1>2, <1>4, <1>5, <1>6, Zenon DEF FileTypeOK
<1>9. \A u \in FileThreads : AnswerOK(u)'
  <2>1. AnswerOK(t)'
    BY <1>1, <1>2, NoPromise DEF FileTypeOK
  <2> QED
    BY <1>1, <1>2, <2>1 DEF FileInv, FileTypeOK, AnswerOK
<1>10. \A u \in FileThreads : ~(Loads(u)' /\ u \in alone')
  BY <1>1, <1>2, <1>7, ZenonT(30) DEF FileInv, LoaderOK
<1>11. ASSUME NEW u \in FileThreads, Saves(u)', u \in alone' PROVE SaverOK(u)'
  BY <1>1, <1>2, <1>7, <1>11, Zenon DEF FileInv, SaverOK
<1>12. ASSUME t \in alone, NEW o, o = Object(call[t].type, d) PROVE SavedOK(o)'
  <2>1. SaverOK(t)
    BY <1>1, <1>12 DEF FileInv
  <2>2. \A u \in FileThreads : ~Saves(u)'
    BY <1>7, <2>1 DEF SaverOK
  <2>3. o \in [type : AllTypes, data : Seq(Units)] /\ o.type = call[t].type /\ o.data = d
    BY <1>1, <1>12 DEF Object, d
  <2>4. /\ Len(content) = h + Len(d)
        /\ call[t].type # Ascii => content[1] = call[t].type
    BY <1>1, <2>1 DEF SaverOK, h, d
  <2>5. \A i \in 1 .. Len(d) : content'[h + i] = d[i]
    BY <1>1, <1>3, <1>4, <2>4
  <2>6. call[t].type # Ascii => content'[1] = call[t].type
    BY <1>1, <1>3, <1>4, <2>4
  <2>7. Holds(o)'
    BY <1>4, <2>3, <2>4, <2>5, <2>6 DEF Holds, h
  <2> QED
    BY <2>2, <2>3, <2>7, Zenon DEF SavedOK
<1>13. \A o \in saved' : SavedOK(o)'
  <2>1. CASE t \in alone
    BY <1>2, <1>12, <2>1
  <2>2. CASE t \notin alone
    BY <1>2, <2>2
  <2> QED
    BY <2>1, <2>2
<1> QED
  BY <1>8, <1>9, <1>10, <1>11, <1>13 DEF FileInv

\* A step of a load that does not return.
LEMMA LoadGoesOn ==
    ASSUME FileInv, NEW t \in FileThreads, ~Saves(t), NEW new, CallOK(new),
           new.op \in {"test", "read"},
           call' = [call EXCEPT ![t] = new], content' = content, saved' = saved,
           \A u \in FileThreads \ {t} : u \in alone' => u \in alone,
           t \in alone' => LoaderOK(t)',
           \/ answer' = answer
           \/ answer' = [answer EXCEPT ![t] = NoObject("none")]
    PROVE  FileInv'
<1>1. call'[t] = new /\ \A u \in FileThreads \ {t} : call'[u] = call[u]
  BY DEF FileInv, FileTypeOK
<1>2. /\ ~Saves(t)'
      /\ \A u \in FileThreads : Saves(u)' <=> Saves(u)
      /\ \A u \in FileThreads \ {t} : Loads(u)' <=> Loads(u)
  BY <1>1 DEF Saves, Loads
<1>3. FileTypeOK'
  BY <1>1 DEF FileInv, FileTypeOK
<1>4. ASSUME NEW u \in FileThreads, Saves(u)', u \in alone' PROVE SaverOK(u)'
  BY <1>1, <1>2, <1>4, Zenon DEF FileInv, SaverOK
<1>5. ASSUME NEW u \in FileThreads, Loads(u)', u \in alone' PROVE LoaderOK(u)'
  BY <1>1, <1>2, <1>5, Zenon DEF FileInv, LoaderOK
<1>6. \A o \in saved' : SavedOK(o)'
  BY <1>2 DEF FileInv, SavedOK, Holds
<1>7. \A u \in FileThreads : AnswerOK(u)'
  <2>1. CASE answer' = answer
    BY <2>1 DEF FileInv, AnswerOK
  <2>2. CASE answer' = [answer EXCEPT ![t] = NoObject("none")]
    <3>1. AnswerOK(t)'
      BY <2>2, NoPromise DEF FileInv, FileTypeOK
    <3> QED
      BY <2>2, <3>1 DEF FileInv, FileTypeOK, AnswerOK
  <2> QED
    BY <2>1, <2>2
<1> QED
  BY <1>3, <1>4, <1>5, <1>6, <1>7 DEF FileInv

\* A load begins, undisturbed when nobody saves.
LEMMA LoadMapsKeeps ==
    ASSUME FileInv, NEW t \in FileThreads, NEW type \in AllTypes, LoadMaps(t, type)
    PROVE  FileInv'
<1>1. /\ FileTypeOK /\ answer = [u \in FileThreads |-> answer[u]]
      /\ content \in Seq(FileUnits) /\ Len(content) \in Nat
      /\ content' = content /\ saved' = saved /\ ~Saves(t) /\ ~Loads(t)
  BY DEF FileInv, FileTypeOK, LoadMaps, Saves, Loads
<1>2. CASE Return(t, NoObject("throws")) /\ UNCHANGED alone
  BY <1>1, <1>2, NoPromise, ReturnKeeps, Zenon DEF Return
<1>3. ASSUME NEW new, content # <<>>,
             new = [op |-> IF type = Ascii THEN "read" ELSE "test",
                    type |-> type, data |-> <<>>, size |-> Len(content)],
             call' = [call EXCEPT ![t] = new],
             answer' = [answer EXCEPT ![t] = NoObject("none")],
             alone' = IF Saving THEN alone \ {t} ELSE alone \union {t}
      PROVE  FileInv'
  <2>1. CallOK(new) /\ new.op \in {"test", "read"}
    BY <1>1, <1>3 DEF CallOK, AllTypes
  <2>2. call'[t] = new /\ \A u \in FileThreads \ {t} : call'[u] = call[u]
    BY <1>1, <1>3 DEF FileTypeOK
  <2>3. ASSUME t \in alone' PROVE LoaderOK(t)'
    <3>1. ~Saving
      BY <1>3, <2>3, Zenon
    <3>2. \A u \in FileThreads : ~Saves(u)'
      BY <2>1, <2>2, <3>1 DEF Saving, Saves
    <3>3. new.size = Len(content) /\ ~(new.op = "read" /\ new.type # Ascii)
      BY <1>3
    <3>4. Len(content) >= 1
      BY <1>1, <1>3
    <3> QED
      BY <1>1, <2>2, <3>2, <3>3, <3>4 DEF LoaderOK
  <2>4. \A u \in FileThreads \ {t} : u \in alone' => u \in alone
    BY <1>3, Zenon
  <2> QED
    BY <1>1, <1>3, <2>1, <2>3, <2>4, LoadGoesOn, Zenon
<1> QED
  BY <1>2, <1>3, Zenon DEF LoadMaps

\* The identifier is tested.
LEMMA LoadTestsKeeps ==
    ASSUME FileInv, NEW t \in FileThreads, LoadTests(t)
    PROVE  FileInv'
<1>1. /\ FileTypeOK /\ answer = [u \in FileThreads |-> answer[u]]
      /\ content \in Seq(FileUnits) /\ CallOK(call[t])
      /\ call[t].op = "test" /\ call[t].type # Ascii /\ ~Saves(t) /\ Loads(t)
      /\ content' = content /\ alone' = alone /\ saved' = saved
  BY DEF FileInv, FileTypeOK, LoadTests, CallOK, Saves, Loads
<1>2. t \in alone => LoaderOK(t) /\ Mapped(t, 1)[1] = content[1]
  BY <1>1, MappedFile DEF FileInv, LoaderOK
<1>3. ASSUME Mapped(t, 1)[1] # call[t].type,
             NEW v, v = Answer("false", Object(call[t].type, <<>>), Promised(t)), Return(t, v)
      PROVE  FileInv'
  <2>1. /\ v.result = "false" /\ v.object.type = call[t].type /\ v.of = Promised(t)
    BY <1>3 DEF Answer, Object
  <2>2. ASSUME NEW o \in Promised(t) PROVE call[t].type # o.type
    <3>1. t \in alone /\ o \in saved
      BY <2>2 DEF Promised
    <3>2. o.type # Ascii => content[1] = o.type
      BY <3>1 DEF FileInv, SavedOK, Holds
    <3> QED
      BY <1>1, <1>2, <1>3, <3>1, <3>2
  <2>3. answer'[t] = v
    BY <1>1, <1>3 DEF Return
  <2>4. AnswerOK(t)'
    BY <2>1, <2>2, <2>3 DEF AnswerOK
  <2> QED
    BY <1>1, <1>3, <2>4, ReturnKeeps
<1>4. ASSUME Mapped(t, 1)[1] = call[t].type, NEW new, new = [call[t] EXCEPT !.op = "read"],
             call' = [call EXCEPT ![t] = new], answer' = answer
      PROVE  FileInv'
  <2>1. /\ new = [op |-> "read", type |-> call[t].type, data |-> call[t].data,
                  size |-> call[t].size]
        /\ CallOK(new)
    BY <1>1, <1>4 DEF CallOK
  <2>2. call'[t] = new /\ \A u \in FileThreads \ {t} : call'[u] = call[u]
    BY <1>1, <1>4 DEF FileTypeOK
  <2>3. \A u \in FileThreads : Saves(u)' <=> Saves(u)
    BY <1>1, <2>1, <2>2 DEF Saves
  <2>4. t \in alone' => LoaderOK(t)'
    BY <1>1, <1>2, <1>4, <2>1, <2>2, <2>3 DEF LoaderOK
  <2>5. new.op \in {"test", "read"}
    BY <2>1
  <2> QED
    BY <1>1, <1>4, <2>1, <2>4, <2>5, LoadGoesOn, Zenon
<1> QED
  BY <1>3, <1>4, Zenon DEF LoadTests

\* The data is read.
LEMMA LoadReadsKeeps ==
    ASSUME FileInv, NEW t \in FileThreads, LoadReads(t)
    PROVE  FileInv'
<1> DEFINE type == call[t].type
           m == Mapped(t, HeaderSize(type) + 1)
           v == Answer("true", Object(type, m), Promised(t))
<1>1. /\ FileTypeOK /\ answer = [u \in FileThreads |-> answer[u]]
      /\ content \in Seq(FileUnits) /\ call[t].op = "read" /\ Loads(t)
      /\ Return(t, v) /\ content' = content /\ alone' = alone /\ saved' = saved
  BY DEF FileInv, FileTypeOK, LoadReads, Loads
<1>2. /\ v.result = "true" /\ v.object = Object(type, m)
      /\ v.object.type = type /\ v.of = Promised(t)
  BY DEF Answer, Object
<1>3. answer'[t] = v
  BY <1>1 DEF Return
<1> HIDE DEF v
<1>4. ASSUME NEW o \in Promised(t)
      PROVE  \/ v.object = o
             \/ type = Ascii /\ o.type # Ascii
             \/ type # Ascii /\ o.type = Ascii /\ o.data[1] = type
  <2>1. t \in alone /\ o \in saved
    BY <1>4 DEF Promised
  <2>2. o \in [type : AllTypes, data : Seq(Units)] /\ Holds(o) /\ LoaderOK(t)
    BY <1>1, <2>1 DEF FileInv, SavedOK
  <2>3. Mapped(t, HeaderSize(o.type) + 1) = o.data
    BY <1>1, <2>2, MappedFile DEF LoaderOK
  <2>4. CASE type = o.type
    <3>1. m = o.data
      BY <2>3, <2>4
    <3> HIDE DEF m, type
    <3> QED
      BY <1>2, <2>2, <2>4, <3>1 DEF Object
  <2>5. CASE type # o.type /\ type # Ascii
    <3>1. content[1] = type /\ Len(content) >= 1
      BY <1>1, <2>2, <2>5 DEF LoaderOK
    <3>2. o.type = Ascii
      BY <2>2, <2>5, <3>1 DEF Holds
    <3>3. Len(content) = Len(o.data) /\ content[1] = o.data[1]
      BY <2>2, <3>1, <3>2 DEF Holds, HeaderSize
    <3> QED
      BY <2>5, <3>1, <3>2, <3>3
  <2> QED
    BY <2>4, <2>5
<1>5. AnswerOK(t)'
  BY <1>2, <1>3, <1>4 DEF AnswerOK
<1> QED
  BY <1>1, <1>5, ReturnKeeps

\* Every step keeps the invariant.
LEMMA FileStep == FileInv /\ [FileNext]_fileVars => FileInv'
<1> SUFFICES ASSUME FileInv, [FileNext]_fileVars
             PROVE  FileInv'
  OBVIOUS
<1>1. CASE UNCHANGED fileVars
  BY <1>1 DEF fileVars, FileInv, FileTypeOK, Saves, Loads, SaverOK, LoaderOK, SavedOK, Holds,
              AnswerOK
<1> QED
  BY <1>1, SaveMapsKeeps, LoadMapsKeeps, SaveIdentifierKeeps, SaveDataKeeps, LoadTestsKeeps,
     LoadReadsKeeps, Zenon DEF FileNext, AllTypes

\* file.cpp: what saveBinary() or saveAscii() wrote undisturbed is what an
\* undisturbed load returns, whatever number of threads save and load.
THEOREM LoadedIsSavedHolds == FileSpec => []LoadedIsSaved
<1>1. FileInit => FileInv
  <2> SUFFICES ASSUME FileInit PROVE FileInv
    OBVIOUS
  <2>1. /\ content \in Seq(FileUnits) /\ saved = {} /\ alone = {}
        /\ call = [t \in FileThreads |-> Idle]
        /\ answer = [t \in FileThreads |-> NoObject("none")]
    BY DEF FileInit
  <2>2. CallOK(Idle)
    BY DEF CallOK, Idle, AllTypes
  <2>3. NoObject("none").of = {}
    BY DEF NoObject, Answer
  <2> QED
    BY <2>1, <2>2, <2>3, Zenon DEF FileInv, FileTypeOK, AnswerOK
<1>2. FileInv => LoadedIsSaved
  BY DEF FileInv, LoadedIsSaved, AnswerOK
<1> QED
  BY <1>1, <1>2, FileStep, PTL DEF FileSpec

-------------------------------------------------------------------------------
(* MemoryMap.  What is closed or unmapped is known by its number alone, so *)
(* the property is inductive only with who else has that number: no two    *)
(* users have the same descriptor, and that of the standard stream is      *)
(* nobody's before daemonize() closes it.                                  *)

System(s) == s = [table |-> s.table, region |-> s.region, length |-> s.length, faults |-> s.faults]
Members(r) == r = [ptr |-> r.ptr, size |-> r.size, fd |-> r.fd]
Records ==
    /\ System(os)
    /\ map = [m \in Maps |-> map[m]] /\ \A m \in Maps : Members(map[m])
    /\ rng = [fd |-> rng.fd, copy |-> rng.copy, asked |-> rng.asked,
              exited |-> rng.exited, misread |-> rng.misread]
    /\ daemon = [is |-> daemon.is, wrote |-> daemon.wrote]

InUse == {m \in Maps : map[m].ptr # NullPtr}

\* The descriptor of a mapped object is open on a file, and no other's.
FdsOK ==
    /\ DOMAIN os.table \subseteq Fds
    /\ \A m \in InUse : map[m].fd \in DOMAIN os.table /\ os.table[map[m].fd].file \in MapFiles
    /\ \A m, o \in InUse : m # o => map[m].fd # map[o].fd
    /\ \A m \in InUse : map[m].fd # rng.fd

\* Every open descriptor has a user.
UsersOK == \A fd \in DOMAIN os.table :
    (\E m \in InUse : map[m].fd = fd) \/ fd \in {rng.fd, Stderr} \/ fd \in leaked

\* The generator has the device, and the copy of its descriptor until _exit().
RngOK ==
    /\ rng.fd # NoFd => rng.fd \in DOMAIN os.table /\ os.table[rng.fd].file = Random
    /\ ~rng.exited => rng.copy = rng.fd /\ ~rng.misread
    /\ ~rng.asked => rng.fd = NoFd

\* Before daemonize() the standard stream has its descriptor.
StreamsOK == ~daemon.is =>
    /\ Stderr \in DOMAIN os.table /\ os.table[Stderr].file = Console
    /\ \A m \in InUse : map[m].fd # Stderr
    /\ rng.fd # Stderr
    /\ daemon.wrote = {}

\* The mappings are those of the objects.
RegionsOK ==
    /\ \A m \in InUse : m \notin stale \union torn =>
          /\ map[m].ptr \in DOMAIN os.region
          /\ os.region[map[m].ptr] = [by |-> m, size |-> map[m].size]
    /\ \A a \in DOMAIN os.region : os.region[a].by \in Maps /\ map[os.region[a].by].ptr = a
    /\ NullPtr \notin DOMAIN os.region

MapInv == Records /\ FdsOK /\ UsersOK /\ RngOK /\ StreamsOK /\ RegionsOK

\* The invariant implies the property.
LEMMA MapInvImplies == MapInv => MapsOwnWhatTheyUse
<1> SUFFICES ASSUME MapInv PROVE MapsOwnWhatTheyUse
  OBVIOUS
<1>1. \A m \in Maps : map[m].ptr # NullPtr =>
          /\ map[m].fd \in DOMAIN os.table /\ os.table[map[m].fd].file \in MapFiles
          /\ m \notin stale \union torn =>
                /\ map[m].ptr \in DOMAIN os.region
                /\ os.region[map[m].ptr] = [by |-> m, size |-> map[m].size]
  BY Zenon DEF MapInv, FdsOK, RegionsOK, InUse
<1>2. \A a \in DOMAIN os.region : map[os.region[a].by].ptr = a
  BY Zenon DEF MapInv, RegionsOK
<1>3. DOMAIN os.table \subseteq
          {map[m].fd : m \in {o \in Maps : map[o].ptr # NullPtr}} \union {rng.fd, Stderr} \union leaked
  BY Zenon DEF MapInv, UsersOK, InUse
<1>4. rng.misread => rng.exited
  BY Zenon DEF MapInv, RngOK
<1>5. daemon.wrote # {} => daemon.is
  BY Zenon DEF MapInv, StreamsOK
<1> QED
  BY <1>1, <1>2, <1>3, <1>4, <1>5, Zenon DEF MapsOwnWhatTheyUse

\* Before the first call.
LEMMA MapInitInv == MapInit => MapInv
<1> SUFFICES ASSUME MapInit PROVE MapInv
  OBVIOUS
<1>1. InUse = {}
  BY DEF MapInit, InUse, Unmapped
<1>2. Records
  <2>1. System(os)
    BY DEF MapInit, System
  <2>2. map = [m \in Maps |-> map[m]] /\ \A m \in Maps : Members(map[m])
    BY DEF MapInit, Members, Unmapped
  <2>3. rng = [fd |-> rng.fd, copy |-> rng.copy, asked |-> rng.asked,
              exited |-> rng.exited, misread |-> rng.misread]
    BY DEF MapInit
  <2>4. daemon = [is |-> daemon.is, wrote |-> daemon.wrote]
    BY DEF MapInit
  <2> QED
    BY <2>1, <2>2, <2>3, <2>4, Zenon DEF Records
<1>3. DOMAIN os.table = {Stderr} /\ os.table[Stderr].file = Console /\ DOMAIN os.region = {}
  BY DEF MapInit
<1>4. /\ rng.fd = NoFd /\ rng.copy = NoFd /\ rng.misread = FALSE
      /\ daemon.wrote = {} /\ Stderr # NoFd /\ Stderr \in Fds
  BY MapAssumption DEF MapInit, Stderr, NoFd, Fds
<1> QED
  BY <1>1, <1>2, <1>3, <1>4 DEF MapInv, FdsOK, UsersOK, RngOK, StreamsOK, RegionsOK

\* open() finds a descriptor that is free; the proof is at the end.
OpenFinds ==
    CanOpen /\ DOMAIN os.table \subseteq Fds =>
        FreeFd \in Fds /\ FreeFd \notin DOMAIN os.table /\ FreeFd # NoFd

\* What open() and close() do to the system.
LEMMA CloseParts ==
    ASSUME NEW s, System(s), NEW fd
    PROVE  /\ System(Closed(s, fd))
           /\ Closed(s, fd).table = Without(s.table, fd)
           /\ Closed(s, fd).region = s.region
BY DEF System, Closed

LEMMA MunmapParts ==
    ASSUME NEW s, System(s), NEW a
    PROVE  /\ System(Munmapped(s, a))
           /\ Munmapped(s, a).table = s.table
           /\ Munmapped(s, a).region = Without(s.region, a)
BY DEF System, Munmapped

LEMMA OpenParts ==
    ASSUME System(os), NEW f, NEW w
    PROVE  /\ System(Opened(f, w))
           /\ Opened(f, w).table = Extended(os.table, FreeFd, [file |-> f, writable |-> w])
           /\ Opened(f, w).region = os.region
BY DEF System, Opened

LEMMA TruncateParts ==
    ASSUME NEW s, System(s), NEW f, NEW n
    PROVE  /\ System(Truncated(s, f, n))
           /\ Truncated(s, f, n).table = s.table
           /\ Truncated(s, f, n).region = s.region
BY DEF System, Truncated

LEMMA FaultParts ==
    ASSUME NEW s, System(s), NEW f \in Faulty(s) \union {s}
    PROVE  System(f) /\ f.table = s.table /\ f.region = s.region
BY DEF System, Faulty

\* The ways _mapFile() ends.
Ends(m, r, s, e) ==
    \/ e.end = "truncate" /\ e.members = r /\ e.os.table = s.table /\ e.os.region = s.region
    \/ /\ e.end = "mmap" /\ e.members = Unmapped
       /\ e.os.table = Without(s.table, r.fd) /\ e.os.region = s.region
    \/ \E a \in Addresses \ DOMAIN s.region : \E n :
          /\ e.end = "mapped" /\ e.members = [ptr |-> a, size |-> n, fd |-> r.fd]
          /\ e.os.table = s.table
          /\ e.os.region = Extended(s.region, a, [by |-> m, size |-> n])

LEMMA MapFileEnds ==
    ASSUME NEW m, NEW r, NEW s, NEW size, System(s), NEW e \in MapFile(m, r, s, size)
    PROVE  System(e.os) /\ Ends(m, r, s, e)
<1>1. CASE e \in TruncateFails(r, s, size)
  <2>1. PICK f \in Faulty(s) \union {s} : e = [end |-> "truncate", members |-> r, os |-> f]
    BY <1>1 DEF TruncateFails
  <2>2. System(f) /\ f.table = s.table /\ f.region = s.region
    BY FaultParts, Zenon
  <2>3. e.end = "truncate" /\ e.members = r /\ e.os = f
    BY <2>1
  <2> QED
    BY <2>2, <2>3, Zenon DEF Ends
<1>2. PICK t : t = Truncated(s, s.table[r.fd].file, size)
  BY Zenon
<1>3. System(t) /\ t.table = s.table /\ t.region = s.region
  BY <1>2, TruncateParts, ZenonT(30)
<1>4. CASE e \in MmapFails(r, s, size)
  <2>1. PICK f \in Faulty(t) \union {t} :
            e = [end |-> "mmap", members |-> Unmapped, os |-> Closed(f, r.fd)]
    BY <1>2, <1>4 DEF MmapFails
  <2>2. System(f) /\ f.table = t.table /\ f.region = t.region
    BY <1>3, FaultParts, Zenon
  <2>3. e.end = "mmap" /\ e.members = Unmapped /\ e.os = Closed(f, r.fd)
    BY <2>1
  <2>4. System(e.os) /\ e.os.table = Without(s.table, r.fd) /\ e.os.region = s.region
    <3>1. /\ System(Closed(f, r.fd))
          /\ Closed(f, r.fd).table = Without(f.table, r.fd)
          /\ Closed(f, r.fd).region = f.region
      BY <2>2, CloseParts, Zenon
    <3> QED
      BY <1>3, <2>2, <2>3, <3>1
  <2> QED
    BY <2>3, <2>4, Zenon DEF Ends
<1>5. CASE e \in Mmaps(m, r, s, size)
  <2>1. PICK n : n = t.length[s.table[r.fd].file]
    BY Zenon
  <2>2. PICK a \in Addresses \ DOMAIN t.region :
            e = [end |-> "mapped", members |-> [ptr |-> a, size |-> n, fd |-> r.fd],
                 os |-> [t EXCEPT !.region = Extended(@, a, [by |-> m, size |-> n])]]
    BY <1>2, <1>5, <2>1, Zenon DEF Mmaps
  <2>3. e.end = "mapped" /\ e.members = [ptr |-> a, size |-> n, fd |-> r.fd]
    BY <2>2
  <2>4. e.os = [t EXCEPT !.region = Extended(@, a, [by |-> m, size |-> n])]
    BY <2>2
  <2>5. System(e.os) /\ e.os.table = t.table
        /\ e.os.region = Extended(t.region, a, [by |-> m, size |-> n])
    BY <1>3, <2>4 DEF System
  <2> QED
    <3>1. e.members.ptr = a /\ e.members.size = n /\ e.members.fd = r.fd
      BY <2>3
    <3> QED
      BY <1>3, <2>3, <2>5, <3>1, ZenonT(30) DEF Ends
<1> QED
  BY <1>1, <1>4, <1>5, Zenon DEF MapFile

\* What the other objects have stays when m maps, unmaps or resizes: m may
\* have a new descriptor, opened or already its own, and a new mapping, or
\* none, or an address without a mapping.
LEMMA OneMapMoves ==
    ASSUME MapInv, NEW m \in Maps, NEW r, Members(r), NEW fd,
           map' = [map EXCEPT ![m] = r], System(os'), UNCHANGED <<rng, daemon>>,
           \* the descriptor: m's own, or a new one
           \/ m \in InUse /\ fd = map[m].fd
           \/ m \notin InUse /\ fd \in Fds \ DOMAIN os.table,
           r.ptr # NullPtr => r.fd = fd,
           DOMAIN os'.table \subseteq DOMAIN os.table \union {fd},
           DOMAIN os.table \subseteq DOMAIN os'.table \union {fd},
           \A x \in DOMAIN os.table \ {fd} : os'.table[x] = os.table[x],
           r.ptr # NullPtr => fd \in DOMAIN os'.table /\ os'.table[fd].file \in MapFiles,
           fd \in DOMAIN os'.table => r.ptr # NullPtr \/ fd \in leaked',
           leaked \subseteq leaked'
    PROVE  FdsOK' /\ UsersOK' /\ RngOK' /\ StreamsOK'
<1>1. /\ map'[m] = r /\ \A o \in Maps \ {m} : map'[o] = map[o]
      /\ rng' = rng /\ daemon' = daemon
  BY DEF MapInv, Records
<1>2. /\ \A o \in Maps \ {m} : o \in InUse' <=> o \in InUse
      /\ InUse \subseteq Maps /\ InUse' \subseteq Maps
      /\ m \in InUse' <=> r.ptr # NullPtr
  BY <1>1 DEF InUse
<1>3. /\ \A o \in InUse \ {m} : map[o].fd # fd
      /\ rng.fd # NoFd => rng.fd # fd
      /\ ~daemon.is => Stderr # fd
      /\ fd \in Fds
  BY ZenonT(30) DEF MapInv, FdsOK, RngOK, StreamsOK
<1>4. FdsOK'
  <2>1. DOMAIN os'.table \subseteq Fds
    BY <1>3 DEF MapInv, FdsOK
  <2>2. ASSUME NEW o \in InUse', o # m
        PROVE  /\ o \in InUse /\ map'[o].fd = map[o].fd /\ map[o].fd # fd /\ map[o].fd # rng.fd
               /\ map[o].fd \in DOMAIN os'.table /\ os'.table[map[o].fd].file \in MapFiles
    BY <1>1, <1>2, <1>3, <2>2, Zenon DEF MapInv, FdsOK
  <2>3. m \in InUse' => /\ map'[m].fd = fd /\ fd \in DOMAIN os'.table
                        /\ os'.table[fd].file \in MapFiles
    BY <1>1, <1>2, Zenon
  <2>4. fd # rng.fd
    BY <1>3 DEF Fds, NoFd
  <2>5. \A o \in InUse' : map'[o].fd \in DOMAIN os'.table /\ os'.table[map'[o].fd].file \in MapFiles
    BY <2>2, <2>3, Zenon
  <2>6. \A o, n \in InUse' : o # n => map'[o].fd # map'[n].fd
    <3> SUFFICES ASSUME NEW o \in InUse', NEW n \in InUse', o # n PROVE map'[o].fd # map'[n].fd
      OBVIOUS
    <3>1. CASE o = m
      BY <2>2, <2>3, <3>1, Zenon
    <3>2. CASE n = m
      BY <2>2, <2>3, <3>2, Zenon
    <3>3. CASE o # m /\ n # m
      BY <2>2, <3>3, ZenonT(30) DEF MapInv, FdsOK
    <3> QED
      BY <3>1, <3>2, <3>3
  <2>7. \A o \in InUse' : map'[o].fd # rng'.fd
    <3> TAKE o \in InUse'
    <3>1. CASE o = m
      BY <1>1, <2>3, <2>4, <3>1, Zenon
    <3>2. CASE o # m
      BY <1>1, <2>2, <3>2, Zenon
    <3> QED
      BY <3>1, <3>2, Zenon
  <2> QED
    BY <2>1, <2>5, <2>6, <2>7, Zenon DEF FdsOK
<1>5. UsersOK'
  <2> SUFFICES ASSUME NEW x \in DOMAIN os'.table
               PROVE  (\E o \in InUse' : map'[o].fd = x) \/ x \in {rng.fd, Stderr} \/ x \in leaked'
    BY <1>1 DEF UsersOK
  <2>1. CASE x = fd
    BY <1>1, <1>2, <2>1
  <2>2. CASE x # fd
    <3>1. (\E o \in InUse : map[o].fd = x) \/ x \in {rng.fd, Stderr} \/ x \in leaked
      BY <2>2 DEF MapInv, UsersOK
    <3>2. ASSUME NEW o \in InUse, map[o].fd = x PROVE o \in InUse' /\ map'[o].fd = x
      BY <1>1, <1>2, <2>2, <3>2
    <3> QED
      BY <3>1, <3>2
  <2> QED
    BY <2>1, <2>2
<1>6. RngOK'
  BY <1>1, <1>3, ZenonT(30) DEF MapInv, RngOK
<1>7. StreamsOK'
  <2>1. ASSUME NEW o \in InUse', ~daemon.is PROVE map'[o].fd # Stderr
    <3>1. CASE o = m
      BY <1>1, <1>2, <1>3, <2>1, <3>1, Zenon
    <3>2. CASE o # m
      BY <1>1, <1>2, <2>1, <3>2, Zenon DEF MapInv, StreamsOK
    <3> QED
      BY <3>1, <3>2, Zenon
  <2> QED
    BY <1>1, <1>3, <2>1, Zenon DEF MapInv, StreamsOK
<1> QED
  BY <1>4, <1>5, <1>6, <1>7

\* The mapping of m, if any, is removed, and m may map another region; base is
\* what is mapped in between.
LEMMA OneRegionMoves ==
    ASSUME MapInv, NEW m \in Maps, NEW r, map' = [map EXCEPT ![m] = r], NEW base,
           DOMAIN base = DOMAIN os.region \ {map[m].ptr},
           \A a \in DOMAIN base : base[a] = os.region[a],
           \/ os'.region = base /\ (r.ptr = NullPtr \/ m \in stale')
           \/ /\ r.ptr \in Addresses \ DOMAIN base
              /\ os'.region = Extended(base, r.ptr, [by |-> m, size |-> r.size]),
           stale \ {m} \subseteq stale', (torn \ {m}) \union TornBy(m) \subseteq torn'
    PROVE  RegionsOK'
<1>1. map'[m] = r /\ \A o \in Maps \ {m} : map'[o] = map[o]
  BY DEF MapInv, Records
<1>2. /\ \A o \in Maps \ {m} : o \in InUse' <=> o \in InUse
      /\ InUse \subseteq Maps /\ InUse' \subseteq Maps
      /\ m \in InUse' <=> r.ptr # NullPtr
  BY <1>1 DEF InUse
<1>3. ASSUME NEW a \in DOMAIN base
      PROVE  base[a].by \in Maps \ {m} /\ map'[base[a].by].ptr = a
  <2>1. base[a].by \in Maps /\ map[base[a].by].ptr = a /\ a # map[m].ptr
    BY DEF MapInv, RegionsOK
  <2> QED
    BY <1>1, <2>1
<1>4. ASSUME NEW o \in InUse', o # m, o \notin stale' \union torn'
      PROVE  /\ map'[o] = map[o]
             /\ map[o].ptr \in DOMAIN base
             /\ base[map[o].ptr] = [by |-> o, size |-> map[o].size]
  <2>1. o \in InUse /\ o \notin stale \union torn /\ o \notin TornBy(m) /\ map'[o] = map[o]
    BY <1>1, <1>2, <1>4
  <2>2. /\ map[o].ptr \in DOMAIN os.region
        /\ os.region[map[o].ptr] = [by |-> o, size |-> map[o].size]
    BY <2>1, Zenon DEF MapInv, RegionsOK
  <2>3. os.region[map[o].ptr].by = o
    BY <2>2
  <2>4. map[o].ptr # map[m].ptr
    <3> SUFFICES ASSUME map[o].ptr = map[m].ptr PROVE FALSE
      BY Zenon
    <3>1. map[m].ptr \in DOMAIN os.region /\ os.region[map[m].ptr].by = o
      BY <2>2, <2>3, Zenon
    <3> QED
      BY <1>2, <1>4, <2>1, <3>1, Zenon DEF TornBy
  <2> QED
    BY <2>1, <2>2, <2>4
<1>5. NullPtr \notin DOMAIN base /\ NullPtr \notin Addresses
  <2>1. NullPtr \notin DOMAIN base
    BY Zenon DEF MapInv, RegionsOK
  <2>2. NullPtr \notin Addresses
    BY DEF NullPtr, Addresses
  <2> QED
    BY <2>1, <2>2, Zenon
<1>6. CASE os'.region = base /\ (r.ptr = NullPtr \/ m \in stale')
  BY <1>1, <1>2, <1>3, <1>4, <1>5, <1>6, ZenonT(30) DEF RegionsOK
<1>7. CASE /\ r.ptr \in Addresses \ DOMAIN base
           /\ os'.region = Extended(base, r.ptr, [by |-> m, size |-> r.size])
  <2>1. /\ DOMAIN os'.region = DOMAIN base \union {r.ptr}
        /\ os'.region[r.ptr] = [by |-> m, size |-> r.size]
        /\ \A a \in DOMAIN base : os'.region[a] = base[a]
    BY <1>7, Zenon DEF Extended
  <2>2. os'.region[r.ptr].by = m
    BY <2>1
  <2>3. \A a \in DOMAIN os'.region : os'.region[a].by \in Maps /\ map'[os'.region[a].by].ptr = a
    BY <1>1, <1>3, <2>1, <2>2
  <2>4. \A o \in InUse' : o \notin stale' \union torn' =>
            /\ map'[o].ptr \in DOMAIN os'.region
            /\ os'.region[map'[o].ptr] = [by |-> o, size |-> map'[o].size]
    BY <1>1, <1>4, <2>1
  <2>5. NullPtr \notin DOMAIN os'.region
    BY <1>5, <1>7, <2>1
  <2> QED
    BY <2>3, <2>4, <2>5, Zenon DEF RegionsOK
<1> QED
  BY <1>6, <1>7

\* The records stay records.
LEMMA RecordsStay ==
    ASSUME MapInv, NEW m \in Maps, NEW r, Members(r), map' = [map EXCEPT ![m] = r],
           System(os'), UNCHANGED <<rng, daemon>>
    PROVE  Records'
<1>1. map'[m] = r /\ \A o \in Maps \ {m} : map'[o] = map[o]
  BY DEF MapInv, Records
<1>2. map' = [o \in Maps |-> map'[o]]
  BY DEF MapInv, Records
<1>3. \A o \in Maps : Members(map'[o])
  BY <1>1 DEF MapInv, Records
<1> QED
  BY <1>2, <1>3, Zenon DEF MapInv, Records

\* init()
LEMMA InitMapInv ==
    ASSUME OpenFinds, MapInv, NEW m \in Maps, NEW f \in MapFiles, NEW size,
           InitMap(m, f, size)
    PROVE  MapInv'
<1>1. m \notin InUse /\ map[m].ptr = NullPtr /\ UNCHANGED <<rng, daemon>>
  BY DEF InitMap, InUse
<1>2. /\ FreeFd \in Fds \ DOMAIN os.table /\ System(os) /\ Members(map[m])
      /\ NullPtr \notin DOMAIN os.region
  BY DEF OpenFinds, InitMap, MapInv, FdsOK, Records, RegionsOK
<1>3. PICK r0 : r0 = [map[m] EXCEPT !.fd = FreeFd]
  BY Zenon
<1>4. r0.ptr = NullPtr /\ r0.fd = FreeFd /\ Members(r0)
  BY <1>1, <1>2, <1>3 DEF Members
<1>5. PICK s, w :
         /\ \/ s = Opened(f, w)
            \/ s = [Opened(f, w) EXCEPT !.length = Extended(@, f, 0)]
         /\ \E e \in MapFile(m, r0, s, size) :
              /\ map' = [map EXCEPT ![m] = e.members]
              /\ os' = e.os
              /\ leaked' = IF e.end = "truncate" THEN leaked \union {FreeFd} ELSE leaked
  BY <1>3, Zenon DEF InitMap
<1>6. /\ System(s) /\ s.region = os.region
      /\ s.table = Extended(os.table, FreeFd, [file |-> f, writable |-> w])
  <2>1. /\ System(Opened(f, w)) /\ Opened(f, w).region = os.region
        /\ Opened(f, w).table = Extended(os.table, FreeFd, [file |-> f, writable |-> w])
    BY <1>2, OpenParts, Zenon
  <2>2. PICK o : o = Opened(f, w)
    BY Zenon
  <2>3. System(o) /\ (s = o \/ s = [o EXCEPT !.length = Extended(@, f, 0)])
    BY <1>5, <2>1, <2>2
  <2>4. System(s) /\ s.table = o.table /\ s.region = o.region
    BY <2>3 DEF System
  <2> QED
    BY <2>1, <2>2, <2>4
<1>7. PICK e \in MapFile(m, r0, s, size) :
         /\ map' = [map EXCEPT ![m] = e.members]
         /\ os' = e.os
         /\ leaked' = IF e.end = "truncate" THEN leaked \union {FreeFd} ELSE leaked
  BY <1>5, Zenon
<1>8. System(os') /\ Ends(m, r0, s, e)
  BY <1>6, <1>7, MapFileEnds, Zenon
<1>9. /\ DOMAIN s.table = DOMAIN os.table \union {FreeFd}
      /\ s.table[FreeFd].file = f
      /\ \A x \in DOMAIN os.table \ {FreeFd} : s.table[x] = os.table[x]
  BY <1>6 DEF Extended
<1>10. /\ DOMAIN Without(s.table, FreeFd) = DOMAIN os.table
       /\ \A x \in DOMAIN os.table : Without(s.table, FreeFd)[x] = os.table[x]
  BY <1>2, <1>9 DEF Without, Restrict
<1>11. PICK r : r = e.members
  BY Zenon
<1> DEFINE Outcome ==
       /\ Members(r) /\ (r.ptr # NullPtr => r.fd = FreeFd)
       /\ leaked \subseteq leaked'
       /\ \/ os'.table = s.table /\ (r.ptr # NullPtr \/ FreeFd \in leaked')
          \/ os'.table = Without(s.table, FreeFd) /\ r.ptr = NullPtr
       /\ \/ os'.region = os.region /\ r.ptr = NullPtr
          \/ /\ r.ptr \in Addresses \ DOMAIN os.region
             /\ os'.region = Extended(os.region, r.ptr, [by |-> m, size |-> r.size])
<1>12. Outcome
  <2>1. NullPtr \notin Addresses
    BY DEF NullPtr, Addresses
  <2>2. CASE e.end = "truncate" /\ r = r0 /\ os'.table = s.table /\ os'.region = s.region
    BY <1>4, <1>6, <1>7, <2>2, Zenon
  <2>3. CASE /\ e.end = "mmap" /\ r = Unmapped
             /\ os'.table = Without(s.table, FreeFd) /\ os'.region = s.region
    BY <1>6, <1>7, <2>3, Zenon DEF Unmapped, Members
  <2>4. ASSUME NEW a \in Addresses \ DOMAIN s.region, NEW n,
               e.end = "mapped", r = [ptr |-> a, size |-> n, fd |-> FreeFd],
               os'.table = s.table, os'.region = Extended(s.region, a, [by |-> m, size |-> n])
        PROVE  Outcome
    <3>1. Members(r) /\ r.ptr = a /\ r.size = n /\ r.fd = FreeFd
      BY <2>4, Zenon DEF Members
    <3> QED
      BY <1>6, <1>7, <2>1, <2>4, <3>1, ZenonT(30)
  <2> QED
    BY <1>4, <1>7, <1>8, <1>11, <2>2, <2>3, <2>4, Zenon DEF Ends
<1>13. FdsOK' /\ UsersOK' /\ RngOK' /\ StreamsOK'
  <2>1. /\ DOMAIN os'.table \subseteq DOMAIN os.table \union {FreeFd}
        /\ DOMAIN os.table \subseteq DOMAIN os'.table \union {FreeFd}
        /\ \A x \in DOMAIN os.table \ {FreeFd} : os'.table[x] = os.table[x]
        /\ r.ptr # NullPtr => FreeFd \in DOMAIN os'.table /\ os'.table[FreeFd].file \in MapFiles
        /\ FreeFd \in DOMAIN os'.table => r.ptr # NullPtr \/ FreeFd \in leaked'
    BY <1>2, <1>9, <1>10, <1>12, Zenon
  <2> QED
    BY <1>1, <1>2, <1>7, <1>8, <1>11, <1>12, <2>1, OneMapMoves, ZenonT(30)
<1>14. RegionsOK'
  <2>1. DOMAIN os.region = DOMAIN os.region \ {map[m].ptr} /\ TornBy(m) = {}
    BY <1>1, <1>2, Zenon DEF TornBy
  <2>2. stale' = stale /\ torn' = torn
    BY DEF InitMap
  <2>3. (torn \ {m}) \union TornBy(m) \subseteq torn' /\ stale \ {m} \subseteq stale'
    BY <2>1, <2>2
  <2> QED
    BY <1>7, <1>11, <1>12, <2>1, <2>3, OneRegionMoves, ZenonT(30)
<1>15. Records'
  BY <1>1, <1>7, <1>8, <1>11, <1>12, RecordsStay, Zenon
<1> QED
  BY <1>13, <1>14, <1>15 DEF MapInv

\* unmap()
LEMMA UnmapInv ==
    ASSUME MapInv, NEW m \in Maps, Unmap(m)
    PROVE  MapInv'
<1>1. m \in InUse /\ UNCHANGED <<rng, daemon, leaked>> /\ map' = [map EXCEPT ![m] = Unmapped]
  BY DEF Unmap, InUse
<1>2. Members(Unmapped) /\ Unmapped.ptr = NullPtr
  BY DEF Members, Unmapped
<1>3. System(os') /\ os'.table = Without(os.table, map[m].fd) /\ os'.region = Without(os.region, map[m].ptr)
  <2>1. PICK s : s = Munmapped(os, map[m].ptr)
    BY Zenon
  <2>2. System(s) /\ s.table = os.table /\ s.region = Without(os.region, map[m].ptr)
    BY <2>1, MunmapParts, Zenon DEF MapInv, Records
  <2>3. os' = Closed(s, map[m].fd)
    BY <2>1, Zenon DEF Unmap
  <2>4. /\ System(Closed(s, map[m].fd))
        /\ Closed(s, map[m].fd).table = Without(s.table, map[m].fd)
        /\ Closed(s, map[m].fd).region = s.region
    BY <2>2, CloseParts, Zenon
  <2> QED
    BY <2>2, <2>3, <2>4
<1>4. /\ DOMAIN os'.table = DOMAIN os.table \ {map[m].fd}
      /\ \A x \in DOMAIN os.table \ {map[m].fd} : os'.table[x] = os.table[x]
  BY <1>3 DEF Without, Restrict
<1>5. /\ DOMAIN os'.region = DOMAIN os.region \ {map[m].ptr}
      /\ \A a \in DOMAIN os'.region : os'.region[a] = os.region[a]
  BY <1>3 DEF Without, Restrict
<1>6. FdsOK' /\ UsersOK' /\ RngOK' /\ StreamsOK'
  BY <1>1, <1>2, <1>3, <1>4, OneMapMoves, Zenon
<1>7. stale \ {m} \subseteq stale' /\ (torn \ {m}) \union TornBy(m) \subseteq torn'
  BY DEF Unmap
<1>8. RegionsOK'
  BY <1>1, <1>2, <1>5, <1>7, OneRegionMoves, Zenon
<1>9. Records'
  BY <1>1, <1>2, <1>3, RecordsStay, Zenon
<1> QED
  BY <1>6, <1>8, <1>9 DEF MapInv

\* resize()
LEMMA ResizeMapInv ==
    ASSUME MapInv, NEW m \in Maps, NEW size, ResizeMap(m, size)
    PROVE  MapInv'
<1>1. m \in InUse /\ UNCHANGED <<rng, daemon, leaked>>
  BY DEF ResizeMap, Remapped, InUse
<1>2. /\ System(os) /\ Members(map[m]) /\ map[m].ptr # NullPtr
      /\ map[m].fd \in DOMAIN os.table /\ os.table[map[m].fd].file \in MapFiles
  BY <1>1 DEF MapInv, FdsOK, Records, InUse
<1>3. PICK s : s = Munmapped(os, map[m].ptr)
  BY Zenon
<1>4. System(s) /\ s.table = os.table /\ s.region = Without(os.region, map[m].ptr)
  BY <1>2, <1>3, MunmapParts, Zenon
<1>5. PICK e \in MapFile(m, map[m], s, size) :
         /\ map' = [map EXCEPT ![m] = e.members]
         /\ os' = e.os
         /\ stale' = IF e.end = "truncate" THEN stale \union {m} ELSE stale \ {m}
         /\ torn' = (IF e.end = "truncate" THEN torn ELSE torn \ {m}) \union TornBy(m)
  BY <1>3, ZenonT(30) DEF ResizeMap, Remapped
<1>6. System(os') /\ Ends(m, map[m], s, e)
  <2>1. System(e.os) /\ Ends(m, map[m], s, e)
    BY <1>4, MapFileEnds, Zenon
  <2> QED
    BY <1>5, <2>1
<1>7. /\ DOMAIN Without(s.table, map[m].fd) = DOMAIN os.table \ {map[m].fd}
      /\ \A x \in DOMAIN os.table \ {map[m].fd} : Without(s.table, map[m].fd)[x] = os.table[x]
  BY <1>4 DEF Without, Restrict
<1>8. /\ DOMAIN s.region = DOMAIN os.region \ {map[m].ptr}
      /\ \A a \in DOMAIN s.region : s.region[a] = os.region[a]
  BY <1>4 DEF Without, Restrict
<1>9. PICK r : r = e.members
  BY Zenon
<1> DEFINE Outcome ==
       /\ Members(r) /\ (r.ptr # NullPtr => r.fd = map[m].fd)
       /\ \/ os'.table = os.table /\ r.ptr # NullPtr
          \/ os'.table = Without(s.table, map[m].fd) /\ r.ptr = NullPtr
       /\ \/ os'.region = s.region /\ (r.ptr = NullPtr \/ m \in stale')
          \/ /\ r.ptr \in Addresses \ DOMAIN s.region
             /\ os'.region = Extended(s.region, r.ptr, [by |-> m, size |-> r.size])
<1>10. Outcome
  <2>1. NullPtr \notin Addresses
    BY DEF NullPtr, Addresses
  <2>2. CASE e.end = "truncate" /\ r = map[m] /\ os'.table = s.table /\ os'.region = s.region
    BY <1>2, <1>4, <1>5, <2>2, ZenonT(30)
  <2>3. CASE /\ e.end = "mmap" /\ r = Unmapped
             /\ os'.table = Without(s.table, map[m].fd) /\ os'.region = s.region
    BY <2>3, Zenon DEF Unmapped, Members
  <2>4. ASSUME NEW a \in Addresses \ DOMAIN s.region, NEW n,
               e.end = "mapped", r = [ptr |-> a, size |-> n, fd |-> map[m].fd],
               os'.table = s.table, os'.region = Extended(s.region, a, [by |-> m, size |-> n])
        PROVE  Outcome
    <3>1. Members(r) /\ r.ptr = a /\ r.size = n /\ r.fd = map[m].fd
      BY <2>4, Zenon DEF Members
    <3> QED
      BY <1>4, <2>1, <2>4, <3>1, ZenonT(30)
  <2> QED
    BY <1>5, <1>6, <1>9, <2>2, <2>3, <2>4, Zenon DEF Ends
<1>11. FdsOK' /\ UsersOK' /\ RngOK' /\ StreamsOK'
  <2>1. /\ DOMAIN os'.table \subseteq DOMAIN os.table \union {map[m].fd}
        /\ DOMAIN os.table \subseteq DOMAIN os'.table \union {map[m].fd}
        /\ \A x \in DOMAIN os.table \ {map[m].fd} : os'.table[x] = os.table[x]
        /\ r.ptr # NullPtr => /\ map[m].fd \in DOMAIN os'.table
                              /\ os'.table[map[m].fd].file \in MapFiles
        /\ map[m].fd \in DOMAIN os'.table => r.ptr # NullPtr \/ map[m].fd \in leaked'
    BY <1>2, <1>7, <1>10, Zenon
  <2>2. leaked \subseteq leaked'
    BY <1>1
  <2> QED
    BY <1>1, <1>2, <1>5, <1>6, <1>9, <1>10, <2>1, <2>2, OneMapMoves, ZenonT(30)
<1>12. RegionsOK'
  <2>1. stale \ {m} \subseteq stale' /\ (torn \ {m}) \union TornBy(m) \subseteq torn'
    BY <1>5
  <2> QED
    BY <1>5, <1>8, <1>9, <1>10, <2>1, OneRegionMoves, ZenonT(30)
<1>13. Records'
  BY <1>1, <1>5, <1>6, <1>9, <1>10, RecordsStay, Zenon
<1> QED
  BY <1>11, <1>12, <1>13 DEF MapInv

\* What the steps of the others leave alone.
LEMMA MapsStay ==
    ASSUME MapInv, UNCHANGED <<map, leaked, stale, torn>>, System(os'), os'.region = os.region,
           rng' = [fd |-> rng'.fd, copy |-> rng'.copy, asked |-> rng'.asked,
                   exited |-> rng'.exited, misread |-> rng'.misread],
           daemon' = [is |-> daemon'.is, wrote |-> daemon'.wrote]
    PROVE  Records' /\ RegionsOK' /\ InUse' = InUse
<1>1. map' = map /\ stale' = stale /\ torn' = torn /\ leaked' = leaked
  OBVIOUS
<1>2. InUse' = InUse
  BY <1>1 DEF InUse
<1>3. RegionsOK'
  BY <1>1, <1>2 DEF MapInv, RegionsOK
<1>4. Records'
  BY <1>1, Zenon DEF MapInv, Records
<1> QED
  BY <1>2, <1>3, <1>4

\* RNG::_get()
LEMMA GetRandomInv ==
    ASSUME OpenFinds, MapInv, GetRandom
    PROVE  MapInv'
<1>1. PICK fd, s :
         /\ fd = IF ~rng.asked THEN (IF CanOpen THEN FreeFd ELSE NoFd) ELSE rng.copy
         /\ s = IF ~rng.asked /\ CanOpen THEN Opened(Random, FALSE) ELSE os
         /\ os' = s
         /\ rng' = [rng EXCEPT !.copy = fd, !.fd = IF ~rng.asked THEN fd ELSE @,
                               !.asked = TRUE, !.misread = @ \/ ReadsFile(s, fd)]
  BY Zenon DEF GetRandom
<1>2. UNCHANGED <<map, daemon, leaked, stale, torn>>
  BY DEF GetRandom
<1>3. rng = [fd |-> rng.fd, copy |-> rng.copy, asked |-> rng.asked,
             exited |-> rng.exited, misread |-> rng.misread]
  BY DEF MapInv, Records
<1>4. /\ rng'.copy = fd /\ rng'.fd = (IF ~rng.asked THEN fd ELSE rng.fd)
      /\ rng'.asked = TRUE /\ rng'.exited = rng.exited
  BY <1>1, <1>3
<1>5. rng'.misread = (rng.misread \/ ReadsFile(s, fd))
  BY <1>1, <1>3
<1>6. rng' = [fd |-> rng'.fd, copy |-> rng'.copy, asked |-> rng'.asked,
              exited |-> rng'.exited, misread |-> rng'.misread]
  BY <1>1, <1>3, Zenon
<1>7. os' = s
  BY <1>1, Zenon
<1>8. CASE ~rng.asked /\ CanOpen
  <2>1. fd = FreeFd /\ s = Opened(Random, FALSE)
    BY <1>1, <1>8
  <2>2. FreeFd \in Fds /\ FreeFd \notin DOMAIN os.table /\ FreeFd # NoFd
    BY <1>8, Zenon DEF OpenFinds, MapInv, FdsOK
  <2>3. /\ System(s) /\ s.region = os.region
        /\ s.table = Extended(os.table, fd, [file |-> Random, writable |-> FALSE])
    BY <2>1, OpenParts, Zenon DEF MapInv, Records
  <2>4. PICK entry : entry.file = Random /\ s.table = Extended(os.table, fd, entry)
    <3>1. PICK entry : entry = [file |-> Random, writable |-> FALSE]
      BY Zenon
    <3>2. s.table = Extended(os.table, fd, entry)
      BY <2>3, <3>1, Zenon
    <3>3. entry.file = Random
      BY <3>1
    <3> QED
      BY <3>2, <3>3, Zenon
  <2>5. /\ DOMAIN s.table = DOMAIN os.table \union {fd}
        /\ s.table[fd].file = Random
        /\ \A x \in DOMAIN os.table : s.table[x] = os.table[x]
    BY <2>1, <2>2, <2>4, Zenon DEF Extended
  <2>6. ~ReadsFile(s, fd)
    BY <2>5 DEF ReadsFile
  <2>7. Records' /\ RegionsOK' /\ InUse' = InUse
    BY <1>2, <1>6, <1>7, <2>3, MapsStay, Zenon DEF MapInv, Records
  <2>8. rng.fd = NoFd /\ rng'.fd = fd
    BY <1>4, <1>8 DEF MapInv, RngOK
  <2>9. FdsOK'
    BY <1>2, <1>7, <2>1, <2>2, <2>5, <2>7, <2>8, ZenonT(30) DEF MapInv, FdsOK
  <2>10. UsersOK'
    <3>1. NoFd \notin DOMAIN os.table
      BY DEF MapInv, FdsOK, NoFd, Fds
    <3> QED
      BY <1>2, <1>7, <2>5, <2>7, <2>8, <3>1 DEF MapInv, UsersOK
  <2>11. RngOK'
    <3>1. ~rng.misread => ~rng'.misread
      BY <1>5, <2>6, Zenon DEF MapInv, RngOK
    <3> QED
      BY <1>4, <1>7, <2>5, <2>8, <3>1, Zenon DEF MapInv, RngOK
  <2>12. StreamsOK'
    BY <1>2, <1>7, <2>1, <2>2, <2>5, <2>7, <2>8, Zenon DEF MapInv, StreamsOK
  <2> QED
    BY <2>7, <2>9, <2>10, <2>11, <2>12 DEF MapInv
<1>9. CASE rng.asked \/ ~CanOpen
  <2>1. os' = os /\ rng'.fd = rng.fd
    BY <1>1, <1>4, <1>9, Zenon DEF MapInv, RngOK
  <2>2. Records' /\ RegionsOK' /\ InUse' = InUse
    BY <1>2, <1>6, <2>1, MapsStay, ZenonT(30) DEF MapInv, Records
  <2>3. FdsOK' /\ UsersOK'
    BY <1>2, <2>1, <2>2 DEF MapInv, FdsOK, UsersOK
  <2>4. StreamsOK'
    BY <1>2, <2>1, <2>2, Zenon DEF MapInv, StreamsOK
  <2>5. ~rng.exited => fd = rng.fd /\ ~ReadsFile(s, fd)
    <3>1. NoFd \notin DOMAIN os.table
      BY DEF MapInv, FdsOK, NoFd, Fds
    <3>2. ~rng.exited => fd = rng.fd
      BY <1>1, <1>9 DEF MapInv, RngOK
    <3>3. s = os
      BY <1>7, <2>1
    <3> QED
      BY <3>1, <3>2, <3>3 DEF MapInv, RngOK, ReadsFile
  <2>6. RngOK'
    BY <1>4, <1>5, <2>1, <2>5, Zenon DEF MapInv, RngOK
  <2> QED
    BY <2>2, <2>3, <2>4, <2>6 DEF MapInv
<1> QED
  BY <1>8, <1>9

\* RNG::_exit()
LEMMA ExitRandomInv ==
    ASSUME MapInv, ExitRandom
    PROVE  MapInv'
<1>1. UNCHANGED <<map, daemon, leaked, stale, torn>> /\ rng.fd # NoFd
  BY DEF ExitRandom
<1>2. /\ rng'.fd = NoFd /\ rng'.exited = TRUE /\ rng'.asked = rng.asked
      /\ rng' = [fd |-> rng'.fd, copy |-> rng'.copy, asked |-> rng'.asked,
                 exited |-> rng'.exited, misread |-> rng'.misread]
  BY Zenon DEF ExitRandom, MapInv, Records
<1>3. System(os') /\ os'.table = Without(os.table, rng.fd) /\ os'.region = os.region
  BY CloseParts DEF ExitRandom, MapInv, Records
<1>4. /\ DOMAIN os'.table = DOMAIN os.table \ {rng.fd}
      /\ \A x \in DOMAIN os.table \ {rng.fd} : os'.table[x] = os.table[x]
  BY <1>3 DEF Without, Restrict
<1>5. Records' /\ RegionsOK' /\ InUse' = InUse
  BY <1>1, <1>2, <1>3, MapsStay DEF MapInv, Records
<1>6. NoFd \notin Fds /\ Stderr # NoFd
  BY DEF NoFd, Fds, Stderr
<1>7. FdsOK'
  BY <1>1, <1>2, <1>4, <1>5, <1>6 DEF MapInv, FdsOK
<1>8. UsersOK'
  BY <1>1, <1>2, <1>4, <1>5 DEF MapInv, UsersOK
<1>9. RngOK'
  BY <1>2, Zenon DEF RngOK
<1>10. StreamsOK'
  BY <1>1, <1>2, <1>4, <1>5, <1>6 DEF MapInv, StreamsOK
<1> QED
  BY <1>5, <1>7, <1>8, <1>9, <1>10 DEF MapInv

\* daemonize()
LEMMA DaemonizeInv ==
    ASSUME MapInv, Daemonize
    PROVE  MapInv'
<1>1. UNCHANGED <<map, rng, leaked, stale, torn>> /\ ~daemon.is
  BY DEF Daemonize
<1>2. daemon'.is = TRUE /\ daemon' = [is |-> daemon'.is, wrote |-> daemon'.wrote]
  BY Zenon DEF Daemonize, MapInv, Records
<1>3. System(os') /\ os'.table = Without(os.table, Stderr) /\ os'.region = os.region
  BY CloseParts DEF Daemonize, MapInv, Records
<1>4. /\ DOMAIN os'.table = DOMAIN os.table \ {Stderr}
      /\ \A x \in DOMAIN os.table \ {Stderr} : os'.table[x] = os.table[x]
  BY <1>3 DEF Without, Restrict
<1>5. Records' /\ RegionsOK' /\ InUse' = InUse
  BY <1>1, <1>2, <1>3, MapsStay DEF MapInv, Records
<1>6. rng.fd # Stderr /\ \A m \in InUse : map[m].fd # Stderr
  BY <1>1, Zenon DEF MapInv, StreamsOK
<1>7. FdsOK'
  BY <1>1, <1>4, <1>5, <1>6, ZenonT(30) DEF MapInv, FdsOK
<1>8. UsersOK'
  BY <1>1, <1>4, <1>5, ZenonT(30) DEF MapInv, UsersOK
<1>9. RngOK'
  BY <1>1, <1>4, <1>6 DEF MapInv, RngOK
<1>10. StreamsOK'
  BY <1>2 DEF StreamsOK
<1> QED
  BY <1>5, <1>7, <1>8, <1>9, <1>10 DEF MapInv

\* A line of the Log.
LEMMA LogLineInv ==
    ASSUME MapInv, LogLine
    PROVE  MapInv'
<1>1. UNCHANGED <<os, map, rng, leaked, stale, torn>>
  BY DEF LogLine
<1>2. /\ daemon' = [daemon EXCEPT !.wrote = @ \union ({os.table[Stderr].file} \ {Console})]
      /\ daemon = [is |-> daemon.is, wrote |-> daemon.wrote]
  BY DEF LogLine, MapInv, Records
<1>3. /\ daemon'.is = daemon.is
      /\ daemon'.wrote = daemon.wrote \union ({os.table[Stderr].file} \ {Console})
      /\ daemon' = [is |-> daemon'.is, wrote |-> daemon'.wrote]
  BY <1>2
<1>4. Records' /\ RegionsOK' /\ InUse' = InUse
  BY <1>1, <1>3, MapsStay DEF MapInv, Records
<1>5. FdsOK' /\ UsersOK' /\ RngOK'
  BY <1>1, <1>4 DEF MapInv, FdsOK, UsersOK, RngOK
<1>6. StreamsOK'
  BY <1>1, <1>3, <1>4 DEF MapInv, StreamsOK
<1> QED
  BY <1>4, <1>5, <1>6 DEF MapInv

\* No step of any of the users breaks the invariant.
LEMMA MapStep == OpenFinds /\ MapInv /\ [MapNext]_mapVars => MapInv'
<1> SUFFICES ASSUME OpenFinds, MapInv, [MapNext]_mapVars PROVE MapInv'
  OBVIOUS
<1>1. CASE MapNext
  <2>1. ASSUME NEW m \in Maps, NEW f \in MapFiles, Map(m, f) PROVE MapInv'
    BY <2>1, InitMapInv DEF Map
  <2>2. ASSUME NEW m \in Maps, NEW f \in MapFiles, NEW size \in 1..MaxFileSize, Create(m, f, size)
        PROVE  MapInv'
    BY <2>2, InitMapInv, ZenonT(30) DEF Create
  <2> QED
    BY <1>1, <2>1, <2>2, UnmapInv, ResizeMapInv, GetRandomInv, ExitRandomInv, DaemonizeInv,
       LogLineInv, Zenon DEF MapNext
<1>2. CASE UNCHANGED mapVars
  <2>1. UNCHANGED <<os, map, rng, daemon, leaked, stale, torn>>
    BY <1>2 DEF mapVars
  <2>2. Records' /\ RegionsOK' /\ InUse' = InUse
    BY <2>1, MapsStay DEF MapInv, Records
  <2> QED
    BY <2>1, <2>2, ZenonT(30) DEF MapInv, FdsOK, UsersOK, RngOK, StreamsOK
<1> QED
  BY <1>1, <1>2

-------------------------------------------------------------------------------
(***************************************************************************)
(* Clock.  The start, taken as an instant, is as far back as the time that *)
(* has passed, unless set() was last called with a time that does not fit  *)
(* an int; the rest is the arithmetic of seconds and nanoseconds.          *)
(***************************************************************************)
\* The instant that a timespec stands for.
Instant(ts) == Second * ts.sec + ts.nsec

\* The inductive invariant: the start of the clock, taken as an instant, is as
\* far back as the time that has passed since the last lap.
ClockInv ==
    /\ now \in Int /\ elapsed \in Int /\ laps \in Int
    /\ start \in [sec : Int, nsec : Int]
    /\ Fits(setTo) => laps + (now - Instant(start)) = elapsed

\* The units are positive.
LEMMA UnitsPositive == Millis \in Nat \ {0} /\ Nanos \in Nat \ {0}
  BY UnitsAssumption

\* A second has nanoseconds.
LEMMA SecondPositive == Second \in Nat \ {0}
  BY UnitsPositive DEF Second

\* Division rounds down.
LEMMA Division ==
    ASSUME NEW a \in Int, NEW d \in Nat \ {0}
    PROVE  /\ a \div d \in Int /\ a % d \in Int
           /\ d * (a \div d) + (a % d) = a
           /\ d * (a \div d) <= a /\ a < d * (a \div d) + d
<1>1. /\ a \div d \in Int /\ a % d \in Int
      /\ a - d * (a \div d) = a % d
  OBVIOUS
<1>2. 0 <= a % d /\ a % d < d
  OBVIOUS
<1>3. ASSUME NEW p \in Int, NEW r \in Int, a - p = r, 0 <= r, r < d
      PROVE  p + r = a /\ p <= a /\ a < p + d
  BY <1>3
<1>4. d * (a \div d) \in Int
  BY <1>1
<1> QED
  BY <1>1, <1>2, <1>3, <1>4

\* An instant is a number.
LEMMA InstantType == \A ts \in [sec : Int, nsec : Int] : Instant(ts) \in Int
  BY SecondPositive DEF Instant

\* clock_gettime() loses nothing.
LEMMA TimespecInstant ==
    ASSUME NEW t \in Int
    PROVE  Timespec(t) \in [sec : Int, nsec : Int] /\ Instant(Timespec(t)) = t
  BY SecondPositive, Division DEF Timespec, Instant

\* What the getters compute is the distance of two instants.
LEMMA TimefIsDistance ==
    ASSUME ClockInv
    PROVE  GetTimef = now - Instant(start)
<1>1. Timespec(now) \in [sec : Int, nsec : Int] /\ Instant(Timespec(now)) = now
  BY TimespecInstant DEF ClockInv
<1>2. ASSUME NEW S \in Int, NEW a \in Int, NEW b \in Int, NEW c \in Int, NEW d \in Int
      PROVE  S * (a - c) + (b - d) = (S * a + b) - (S * c + d)
  OBVIOUS
<1> QED
  BY <1>1, <1>2, SecondPositive DEF GetTimef, Instant, ClockInv


\* A conversion to int gives a number, and keeps one that fits.
LEMMA AsIntKeeps ==
    ASSUME NEW x \in Int
    PROVE  AsInt(x) \in Int /\ (x \in Ints => AsInt(x) = x)
<1>1. 2 * (IntMax + 1) \in Nat \ {0} /\ x + IntMax + 1 \in Int /\ IntMax \in Nat
  BY UnitsAssumption
<1>2. (x + IntMax + 1) % (2 * (IntMax + 1)) \in Int
  BY <1>1, Division
<1> QED
  BY <1>1, <1>2 DEF AsInt

\* A quotient is rounded towards zero: with one more it is too large, by at most
\* two divisors.
LEMMA QuotientBounds ==
    ASSUME NEW a \in Int, NEW d \in Nat \ {0}
    PROVE  /\ Quotient(a, d) \in Int
           /\ a - (Quotient(a, d) + 1) * d \in -2 * d .. 0
<1>1. CASE a >= 0
  <2> DEFINE q == a \div d
  <2>1. q \in Int /\ d * q <= a /\ a < d * q + d
    BY Division
  <2>2. Quotient(a, d) = q
    BY <1>1 DEF Quotient
  <2> HIDE DEF q
  <2>3. (q + 1) * d = d * q + d /\ d * q \in Int
    BY <2>1
  <2> QED
    BY <2>1, <2>2, <2>3
<1>2. CASE a < 0
  <2> DEFINE q == (-a) \div d
  <2>1. q \in Int /\ d * q <= -a /\ -a < d * q + d
    BY Division
  <2>2. Quotient(a, d) = -q
    BY <1>2 DEF Quotient
  <2> HIDE DEF q
  <2>3. (-q + 1) * d = d - d * q /\ d * q \in Int
    BY <2>1
  <2> QED
    BY <2>1, <2>2, <2>3
<1> QED
  BY <1>1, <1>2

\* The timespecs that set() may leave, for the seconds and the nanoseconds it
\* has computed.
SetStarts(sec, nanos) ==
    LET at == Timespec(now)
    IN  { [sec |-> at.sec - sec + 1, nsec |-> at.nsec - nanos - Second],
          [sec |-> at.sec - sec, nsec |-> at.nsec - nanos] }

\* set() leaves a timespec, whatever overflows.
LEMMA SetType ==
    ASSUME ClockInv, NEW time \in Times, SetClock(time)
    PROVE  start' \in [sec : Int, nsec : Int]
<1>1. time \in Int /\ Quotient(time, Millis) \in Int /\ Millis \in Int /\ Nanos \in Int
  BY QuotientBounds, TimesAssumption, UnitsAssumption
<1>2. AsInt(Quotient(time, Millis)) + 1 \in Int
  BY <1>1, AsIntKeeps
<1>3. PICK sec \in IntResults(AsInt(Quotient(time, Millis)) + 1) :
      \E millis \in IntResults(sec * Millis) :
          start' \in SetStarts(sec, AsInt((time - millis) * Nanos))
  BY DEF SetClock, SetStarts
<1>4. sec \in Int
  BY <1>2, <1>3, AsIntKeeps DEF IntResults
<1>5. PICK millis \in IntResults(sec * Millis) :
          start' \in SetStarts(sec, AsInt((time - millis) * Nanos))
  BY <1>3
<1>6. sec * Millis \in Int
  BY <1>1, <1>4
<1>7. millis \in Int
  BY <1>5, <1>6, AsIntKeeps DEF IntResults
<1>8. AsInt((time - millis) * Nanos) \in Int
  BY <1>1, <1>7, AsIntKeeps
<1>9. Timespec(now) \in [sec : Int, nsec : Int]
  BY TimespecInstant DEF ClockInv
<1> QED
  BY <1>4, <1>5, <1>8, <1>9, SecondPositive DEF SetStarts

\* set() to a time that fits overflows nowhere, the nanoseconds included.
LEMMA SetFits ==
    ASSUME NEW time \in Times, SetClock(time), Fits(time)
    PROVE  LET sec == Quotient(time, Millis) + 1
           IN  start' \in SetStarts(sec, (time - sec * Millis) * Nanos)
<1> DEFINE quotient == Quotient(time, Millis)
           sec == quotient + 1
           rest == time - sec * Millis
<1>1. time \in Int /\ quotient \in Int /\ rest \in -2 * Millis .. 0
  BY QuotientBounds, TimesAssumption, UnitsAssumption
<1>2. quotient \in Ints /\ sec \in Ints /\ sec * Millis \in Ints
  BY DEF Fits
<1>3. AsInt(quotient) = quotient /\ AsInt(sec) = sec /\ AsInt(sec * Millis) = sec * Millis
  <2>1. sec \in Int /\ sec * Millis \in Int
    BY <1>2, UnitsAssumption DEF Ints
  <2> QED
    BY <1>1, <1>2, <2>1, AsIntKeeps
<1>4. AsInt(rest * Nanos) = rest * Nanos
  <2>1. ASSUME NEW M \in Nat, NEW N \in Nat, NEW x \in -2 * M .. 0
        PROVE  x * N \in Int /\ -2 * (M * N) <= x * N /\ x * N <= 0
    <3>1. (-x) * N <= (2 * M) * N /\ 0 <= (-x) * N
      OBVIOUS
    <3>2. (-x) * N = -(x * N) /\ (2 * M) * N = 2 * (M * N) /\ x * N \in Int
      OBVIOUS
    <3> QED
      BY <3>1, <3>2
  <2> HIDE DEF rest
  <2>2. rest * Nanos \in Int /\ -2 * (Millis * Nanos) <= rest * Nanos /\ rest * Nanos <= 0
    BY <1>1, <2>1, UnitsAssumption
  <2>3. Millis * Nanos \in Int
    BY UnitsAssumption
  <2>4. rest * Nanos \in Ints
    BY <2>2, <2>3, UnitsAssumption DEF Ints
  <2> QED
    BY <2>2, <2>4, AsIntKeeps
<1>5. PICK s \in IntResults(AsInt(quotient) + 1) :
      \E millis \in IntResults(s * Millis) :
          start' \in SetStarts(s, AsInt((time - millis) * Nanos))
  BY DEF SetClock, SetStarts
<1>6. s = sec
  BY <1>3, <1>5 DEF IntResults
<1>7. PICK millis \in IntResults(sec * Millis) :
          start' \in SetStarts(sec, AsInt((time - millis) * Nanos))
  BY <1>5, <1>6
<1>8. millis = sec * Millis
  BY <1>3, <1>7 DEF IntResults
<1> QED
  BY <1>4, <1>7, <1>8

\* set() to a time that fits: the start is moved by exactly that time, whether
\* the second that was subtracted is given back or not.
LEMMA SetInstant ==
    ASSUME ClockInv, NEW time \in Times, SetClock(time), Fits(time)
    PROVE  Instant(start') = now - time * Nanos
<1> DEFINE sec == Quotient(time, Millis) + 1
           at == Timespec(now)
           nsec == at.nsec - (time - sec * Millis) * Nanos
<1>1. at \in [sec : Int, nsec : Int] /\ Instant(at) = now
  BY TimespecInstant DEF ClockInv
<1>2. time \in Int /\ sec \in Int /\ nsec \in Int
  <2>1. time \in Int /\ sec \in Int
    BY QuotientBounds, TimesAssumption, UnitsPositive
  <2> HIDE DEF sec, at
  <2> QED
    BY <1>1, <2>1, UnitsPositive
<1>3. start' \in { [sec |-> at.sec - sec + 1, nsec |-> nsec - Second],
                   [sec |-> at.sec - sec, nsec |-> nsec] }
  BY SetFits DEF SetStarts
<1>4. ASSUME NEW a \in Int, NEW b \in Int, NEW s \in Int, NEW M \in Int, NEW N \in Int, NEW t \in Int
      PROVE  /\ (M * N) * (a - s) + (b - (t - s * M) * N) = ((M * N) * a + b) - t * N
             /\ (M * N) * (a - s + 1) + (b - (t - s * M) * N - M * N) = ((M * N) * a + b) - t * N
  OBVIOUS
<1> HIDE DEF sec, at
<1>5. /\ Instant([sec |-> at.sec - sec, nsec |-> nsec]) = Instant(at) - time * Nanos
      /\ Instant([sec |-> at.sec - sec + 1, nsec |-> nsec - Second]) = Instant(at) - time * Nanos
  BY <1>1, <1>2, <1>4, UnitsPositive DEF Instant, Second
<1> QED
  BY <1>1, <1>3, <1>5

\* Every step keeps the start where it has to be.
LEMMA ClockStep == ClockInv /\ [ClockNext]_clockVars => ClockInv'
<1> SUFFICES ASSUME ClockInv, [ClockNext]_clockVars PROVE ClockInv'
  OBVIOUS
<1>1. CASE ResetClock
  BY <1>1, TimespecInstant DEF ResetClock, ClockInv, Instant
<1>2. CASE ResetTimef
  <2>1. Instant(start) \in Int
    BY InstantType DEF ClockInv
  <2> QED
    BY <1>2, <2>1, TimespecInstant, TimefIsDistance DEF ResetTimef, ClockInv
<1>3. ASSUME NEW time \in Times, SetClock(time) PROVE ClockInv'
  <2>1. /\ start' \in [sec : Int, nsec : Int]
        /\ Fits(time) => Instant(start') = now - time * Nanos
    BY <1>3, SetType, SetInstant
  <2>2. /\ elapsed' = time * Nanos /\ laps' = 0 /\ setTo' = time /\ now' = now
        /\ time * Nanos \in Int
    BY <1>3, TimesAssumption, UnitsAssumption DEF SetClock
  <2> QED
    BY <2>1, <2>2 DEF ClockInv
<1>4. CASE Pass
  <2>1. Instant(start) \in Int /\ Instant(start)' = Instant(start)
    BY <1>4, InstantType DEF Pass, ClockInv
  <2> QED
    BY <1>4, <2>1 DEF Pass, ClockInv
<1>5. CASE UNCHANGED clockVars
  BY <1>5 DEF clockVars, ClockInv
<1> QED
  BY <1>1, <1>2, <1>3, <1>4, <1>5 DEF ClockNext

\* getTime64() truncates towards zero what half a millisecond was added to.
LEMMA RoundedQuotient ==
    ASSUME NEW n \in Int, NEW d \in Nat \ {0}
    PROVE  LET x == Quotient(n + d \div 2, d)
           IN  /\ x \in Int
               /\ 2 * (d * x) - 2 * n \in -d .. 3 * d - 1
<1> DEFINE h == d \div 2
           m == n + h
           x == Quotient(m, d)
<1>1. h \in Int /\ 2 * h <= d /\ d <= 2 * h + 1
  OBVIOUS
<1>2. m \in Int
  BY <1>1
<1>3. CASE m >= 0
  <2>1. x = m \div d
    BY <1>3 DEF Quotient
  <2>2. x \in Int /\ d * x <= m /\ m < d * x + d
    BY <1>2, <2>1, Division, Zenon
  <2>3. d * x \in Int
    BY <2>2
  <2> QED
    BY <1>1, <2>2, <2>3
<1>4. CASE m < 0
  <2>1. x = -((-m) \div d)
    BY <1>2, <1>4 DEF Quotient
  <2> DEFINE y == (-m) \div d
  <2>2. y \in Int /\ d * y <= -m /\ -m < d * y + d
    BY <1>2, Division
  <2>3. d * y \in Int /\ d * x = -(d * y) /\ x \in Int
    BY <2>1, <2>2
  <2> QED
    BY <1>1, <2>2, <2>3
<1> QED
  BY <1>2, <1>3, <1>4

(* clock.cpp: for any units, any width of int that holds two seconds, any  *)
(* times and any start, as long as the last set() was to a time that fits, *)
(* the floating-point getters and the laps add up to the elapsed time, and *)
(* getTime64() is within its rounding of it.                               *)
THEOREM ClockTellsTimeHolds == ClockSpec => []ClockTellsTime
<1>1. ClockInit => ClockInv
  <2>1. ASSUME now \in 0 .. Second PROVE now \in Int
    BY <2>1
  <2> QED
    BY <2>1, TimespecInstant DEF ClockInit, ClockInv
<1>2. ASSUME ClockInv, Fits(setTo) PROVE ClockTellsTime
  <2> DEFINE at == Timespec(now)
             s == at.sec - start.sec
             n == at.nsec - start.nsec
             x == Quotient(n + Nanos \div 2, Nanos)
  <2>1. GetTimef = now - Instant(start) /\ GetTimef = Second * s + n
    BY <1>2, TimefIsDistance DEF GetTimef
  <2>2. s \in Int /\ n \in Int /\ elapsed - laps = Second * s + n
    <3>1. at \in [sec : Int, nsec : Int]
      BY <1>2, TimespecInstant DEF ClockInv
    <3>2. Instant(start) \in Int
      BY <1>2, InstantType DEF ClockInv
    <3> HIDE DEF at
    <3> QED
      BY <1>2, <2>1, <3>1, <3>2 DEF ClockInv
  <2>3. GetTime64 = Millis * s + x
    BY DEF GetTime64
  <2>4. x \in Int /\ 2 * (Nanos * x) - 2 * n \in -Nanos .. 3 * Nanos - 1
    BY <2>2, RoundedQuotient, UnitsPositive, Zenon
  <2> HIDE DEF s, n, x
  <2>5. 2 * (Millis * s + x) * Nanos - 2 * ((Millis * Nanos) * s + n) = 2 * (Nanos * x) - 2 * n
    BY <2>2, <2>4, UnitsPositive
  <2> QED
    BY <1>2, <2>1, <2>2, <2>3, <2>4, <2>5 DEF ClockTellsTime, GetTimed, ClockInv, Second
<1>3. ClockInv => ClockTellsTime
  BY <1>2 DEF ClockTellsTime
<1> QED
  BY <1>1, <1>3, ClockStep, PTL DEF ClockSpec

-------------------------------------------------------------------------------
(* Last, because it takes the library on well-founded relations: open()    *)
(* finds a free descriptor.                                                *)
INSTANCE WellFoundedInduction

\* A set of natural numbers has a least element.
LEMMA LeastFd ==
    ASSUME NEW T, T \subseteq Nat, T # {}
    PROVE  \E x \in T : \A y \in T : x <= y
<1>1. PICK R : R = OpToRel(<, Nat)
  BY Zenon
<1>2. IsWellFoundedOn(R, Nat)
  BY <1>1, NatLessThanWellFounded, Zenon
<1>3. PICK x \in T : \A y \in T : <<y, x>> \notin R
  BY <1>2, WFMin, Zenon
<1>4. \A y \in Nat, z \in Nat : y < z => <<y, z>> \in R
  BY <1>1 DEF OpToRel
<1>5. x \in Nat /\ \A y \in T : y \in Nat /\ ~(y < x)
  BY <1>3, <1>4, Zenon
<1>6. \A y \in T : x <= y
  BY <1>5
<1> QED
  BY <1>6

\* open() finds a descriptor that is free.
LEMMA FreeFdIsFree == OpenFinds
<1> SUFFICES ASSUME CanOpen, DOMAIN os.table \subseteq Fds
             PROVE  FreeFd \in Fds /\ FreeFd \notin DOMAIN os.table /\ FreeFd # NoFd
  BY DEF OpenFinds
<1>1. PICK T : T = Fds \ DOMAIN os.table
  BY Zenon
<1>2. T \subseteq Nat
  BY <1>1, MapAssumption DEF Fds
<1>3. T # {}
  BY <1>1, Zenon DEF CanOpen
<1>4. \E x \in T : \A y \in T : x <= y
  BY <1>2, <1>3, LeastFd, Zenon
<1>5. FreeFd \in T
  BY <1>1, <1>4, Zenon DEF FreeFd
<1> QED
  BY <1>1, <1>5 DEF Fds, NoFd

(* memoryMap.cpp, rng.cpp, daemon.h: in every execution, of any number of  *)
(* objects and with any outcome of the system calls, what a MemoryMap, the *)
(* generator and the log believe to own they own, but for what the error   *)
(* paths of the code leave behind.                                         *)
THEOREM MapsOwnWhatTheyUseHolds == MapSpec => []MapsOwnWhatTheyUse
<1>1. MapInv => MapsOwnWhatTheyUse
  BY MapInvImplies
<1>2. MapInv /\ [MapNext]_mapVars => MapInv'
  BY MapStep, FreeFdIsFree
<1> QED
  BY <1>1, <1>2, MapInitInv, PTL DEF MapSpec
===============================================================================
