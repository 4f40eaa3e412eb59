---------------------------- MODULE AvVolumeProofs ----------------------------
(***************************************************************************)
(* Theorems about AvVolume, for any number of clients, handles, types and  *)
(* devices.                                                                *)
(***************************************************************************)
EXTENDS AvVolume, AvLeastProofs

-----------------------------------------------------------------------------
(* The inductive invariant *)

\* The stage of the open that a client is in.
Early == {"info", "device", "table", "fail"}
Late == {"stream", "level", "push"}

\* An open has a handle of its own, allocated, and no stream before it makes
\* one; what it has read is what it is about to write.  Sink input 0 is there as
\* long as a handle is known to have it.
OwnInv ==
  /\ \A p \in Proc : pc[p] # "idle" => cur[p] \in allocated
  /\ \A p, q \in Proc :
       pc[p] # "idle" /\ pc[q] # "idle" /\ cur[p] = cur[q] => p = q
  /\ \A p \in Proc :
       pc[p] \in Early \cup {"volume", "stream"} => heard[cur[p]] = Silent
  /\ \A h \in Handle \ allocated : heard[h] = Silent
  /\ \A h \in Handle : mode[h] = "in" => heard[h] = Silent
  /\ \A p \in Proc : pc[p] \in {"level", "push"} => mode[cur[p]] # "in"
  /\ \A p \in Proc : pc[p] = "table" => got[p] \in Device
  /\ \A p \in Proc : pc[p] = "push" => got[p] \in Level
  /\ first \in Handle => heard[first] # Silent

\* Whatever is past the conversion of its volume needed the tables.
LoadInv ==
  /\ \A h \in Handle : table[h] # NoTable => tables = "loaded"
  /\ \A p \in Proc : pc[p] = "stream" => mode[cur[p]] = "in" \/ tables = "loaded"
  /\ \A p \in Proc : pc[p] \in {"level", "push"} => tables = "loaded"
  /\ \A h \in allocated :
       mode[h] # "in" /\ ~Opening(h) => tables = "loaded"
  /\ NoSoundBeforeTables

\* Past the choice of its table, a handle has the one for its type and the
\* device, or, until its volume is converted, none.
DeviceInv ==
  ~routing =>
    /\ \A p \in Proc :
         pc[p] = "table" /\ cur[p] \notin overtaken => got[p] = device
    /\ \A h \in allocated \ overtaken :
         mode[h] = "out" /\ (\A p \in Proc : pc[p] \in Early => cur[p] # h) =>
           \/ table[h] = <<type[h], device>>
           \/ table[h] = NoTable /\ \E p \in Proc : pc[p] = "volume" /\ cur[p] = h

\* Past the conversion, the record of a handle has the volume of its type; the
\* stream of a handle that is open has the one of its record.
HeardInv ==
  \A h \in allocated \ missed : mode[h] # "in" =>
    /\ (\A p \in Proc : pc[p] \in Early \cup {"volume"} => cur[p] # h) =>
         setting[h] = volume[type[h]] /\ working[h] = volume[type[h]]
    /\ ~Opening(h) => heard[h] \in {working[h], Silent}

OpenInv == TypeOK /\ OwnInv /\ LoadInv

\* The steps of an open, and all the others.
LEMMA StepCases ==
  ASSUME [Next]_vars
  PROVE  \/ CreateTables \/ LoadTables
         \/ \E p \in Proc : Open(p)
         \/ \E h \in Handle : Close(h)
         \/ \E t \in Type, v \in Nat : SetVolume(t, v)
         \/ \E saved \in Saved : Resume(saved)
         \/ \E d \in Device : Route(d)
         \/ Controls \/ RouteFails
         \/ UNCHANGED vars
<1>1. ASSUME NEW t \in Type, NEW v \in 0 .. MaxLen[t]
      PROVE  v \in Nat
  BY VolumeAssumption
<1> QED
  BY <1>1 DEF Next

\* A change of a volume, where PulseAudio refuses it for some handles.
Told(t, v, refused) ==
  Handle \cap { Stream(h) : h \in Reached(t, v) \ refused }

SetVolumeBut(t, v, refused) ==
  /\ volume' = [volume EXCEPT ![t] = v]
  /\ setting' = [h \in Handle |-> IF h \in Tried(t, v) THEN v ELSE setting[h]]
  /\ working' = [h \in Handle |-> IF h \in Reached(t, v) THEN v ELSE working[h]]
  /\ heard' = [h \in Handle |-> IF h \in Told(t, v, refused) THEN v ELSE heard[h]]
  /\ missed' = ((missed \cup Targets(t) \cup Told(t, v, refused)) \ Reached(t, v))
                 \cup { h \in refused : heard[h] # Silent }
  /\ UNCHANGED <<hardware, allocated, mode, type, table, first, local, overtaken>>

LEMMA SetVolumeCases ==
  ASSUME NEW t \in Type, NEW v, SetVolume(t, v)
  PROVE  \E refused \in SUBSET Reached(t, v) : SetVolumeBut(t, v, refused)
BY DEF SetVolume, SetVolumeBut, Told

\* Only streams that are there are told.
LEMMA ToldPlay ==
  ASSUME OwnInv, NEW t \in Type, NEW v, NEW refused \in SUBSET Reached(t, v),
         NEW h \in Told(t, v, refused)
  PROVE  heard[h] # Silent
BY DEF OwnInv, Told, Stream

-----------------------------------------------------------------------------
(* Types *)

LEMMA LevelType ==
  /\ 0 \in Level
  /\ Level \subseteq Nat
  /\ \A t \in Type : \A v \in Nat : v < MaxLen[t] => v \in Level
<1>1. \A t \in Type : MaxLen[t] \in Nat \ {0}
  BY VolumeAssumption
<1>2. System \in Type
  BY VolumeAssumption
<1> QED
  BY <1>1, <1>2 DEF Level

\* What a table converts is a level of its type.
LEMMA ConvertibleLevel ==
  ASSUME NEW tab \in (Type \X Device) \cup {NoTable}, NEW level \in Nat,
         Convertible(tab, level)
  PROVE  tab # NoTable /\ level \in Level
BY LevelType DEF Convertible, Length

\* A handle that is free, if there is one, is given out.
LEMMA FreeHandle ==
  ASSUME allocated \in SUBSET Handle, allocated # Handle
  PROVE  Min(Handle \ allocated) \in Handle \ allocated
<1>1. Handle \ allocated \in SUBSET Nat
  BY VolumeAssumption DEF Handle
<1>2. Handle \ allocated # {}
  OBVIOUS
<1> QED
  BY <1>1, <1>2, MinIsLeast

LEMMA InitTypes == Init => TypeOK
<1> SUFFICES ASSUME Init PROVE TypeOK
  OBVIOUS
<1>1. 0 \in Handle /\ 0 \in Level /\ System \in Type
  BY VolumeAssumption, LevelType DEF Handle
<1>2. volume \in [Type -> Nat]
  BY VolumeAssumption DEF Init
<1> QED
  BY <1>1, <1>2, VolumeAssumption DEF Init, TypeOK, Stage

LEMMA FreeTypes ==
  ASSUME TypeOK, NEW h \in Handle, Free(h)
  PROVE  /\ allocated' \in SUBSET Handle
         /\ mode' \in [Handle -> {"out", "video", "in"}]
         /\ type' \in [Handle -> Type]
         /\ table' \in [Handle -> (Type \X Device) \cup {NoTable}]
         /\ setting' \in [Handle -> Nat]
         /\ working' \in [Handle -> Level]
         /\ heard' \in [Handle -> Level \cup {Silent, Loud}]
         /\ first' \in Handle \cup {Unborn, Foreign}
         /\ missed' \in SUBSET Handle
         /\ overtaken' \in SUBSET Handle
BY VolumeAssumption, LevelType DEF TypeOK, Free

\* Every step of an open goes on to a stage.
LEMMA OpenGoes ==
  ASSUME NEW p \in Proc, Open(p)
  PROVE  \E s \in Stage : pc' = [pc EXCEPT ![p] = s]
<1> USE DEF Goto, Stage
<1>1. CASE SetTable(p) \/ UpdateVolume(p)
  BY <1>1 DEF SetTable, UpdateVolume
<1>2. CASE Alloc(p) \/ SetInfo(p) \/ ReadDevice(p) \/ OpenStream(p)
  BY <1>2 DEF Alloc, SetInfo, ReadDevice, OpenStream
<1>3. CASE StreamRefused(p) \/ ReadLevel(p) \/ PushLevel(p) \/ PushFails(p) \/ FailOpen(p)
  BY <1>3 DEF StreamRefused, ReadLevel, PushLevel, PushFails, FailOpen
<1> QED
  BY <1>1, <1>2, <1>3 DEF Open

\* A table of functions of one type stays one when an entry is replaced.
LEMMA ExceptType ==
  ASSUME NEW D, NEW S, NEW f \in [D -> S], NEW x, NEW v \in S
  PROVE  [f EXCEPT ![x] = v] \in [D -> S]
OBVIOUS

LEMMA OpenTypes ==
  ASSUME TypeOK, OwnInv, NEW p \in Proc, Open(p)
  PROVE  TypeOK'
<1>0. pc' \in [Proc -> Stage]
  BY OpenGoes DEF TypeOK
<1> USE VolumeAssumption, LevelType
        DEF TypeOK, hardware, record, pulse, history, Goto, Forget, Stage
<1>1. 0 \in Handle
  BY DEF Handle
<1>2. CASE Alloc(p)
  BY <1>2, FreeHandle DEF Alloc
<1>3. CASE SetInfo(p)
  BY <1>3 DEF SetInfo
<1>4. CASE ReadDevice(p)
  BY <1>4 DEF ReadDevice
<1>5. CASE SetTable(p)
  <2>1. TableFor(type[cur[p]], got[p]) \in (Type \X Device) \cup {NoTable}
    BY <1>5 DEF SetTable, TableFor, OwnInv
  <2>2. table' \in [Handle -> (Type \X Device) \cup {NoTable}]
    <3>1. \/ table' = table
          \/ table' = [table EXCEPT ![cur[p]] = TableFor(type[cur[p]], got[p])]
      BY <1>5, SMTT(30) DEF SetTable
    <3>2. table \in [Handle -> (Type \X Device) \cup {NoTable}]
      OBVIOUS
    <3> HIDE DEF TypeOK
    <3> QED
      BY <2>1, <3>1, <3>2, ExceptType
  <2>3. got' \in [Proc -> Device \cup Level]
    BY <1>5 DEF SetTable
  <2> QED
    BY <1>0, <1>5, <2>2, <2>3 DEF SetTable
<1>6. CASE UpdateVolume(p)
  <2> DEFINE level == volume[type[cur[p]]]
  <2>1. level \in Nat
    OBVIOUS
  <2>2. working' \in [Handle -> Level] /\ setting' \in [Handle -> Nat]
    <3>1. working \in [Handle -> Level] /\ setting \in [Handle -> Nat]
      OBVIOUS
    <3>2. /\ setting' = [setting EXCEPT ![cur[p]] = level]
          /\ \/ working' = working
             \/ /\ working' = [working EXCEPT ![cur[p]] = level]
                /\ Convertible(table[cur[p]], level)
      BY <1>6 DEF UpdateVolume
    <3>3. Convertible(table[cur[p]], level) => level \in Level
      BY <2>1, ConvertibleLevel
    <3> HIDE DEF TypeOK, level
    <3> QED
      BY <2>1, <3>1, <3>2, <3>3, ExceptType
  <2> QED
    BY <1>0, <1>6, <2>2 DEF UpdateVolume
<1>7. CASE OpenStream(p)
  <2>1. CASE mode[cur[p]] = "in"
    <3>1. /\ heard' = heard
          /\ cur' = [cur EXCEPT ![p] = 0]
          /\ got' = [got EXCEPT ![p] = 0]
      BY <1>7, <2>1 DEF OpenStream
    <3>2. cur' \in [Proc -> Handle] /\ got' \in [Proc -> Device \cup Level]
      BY <1>1, <3>1
    <3> QED
      BY <1>0, <1>7, <3>1, <3>2 DEF OpenStream
  <2>2. CASE mode[cur[p]] # "in"
    <3>1. /\ heard' = [heard EXCEPT ![cur[p]] = Loud]
          /\ first' \in {cur[p], Foreign, first}
      BY <1>7, <2>2 DEF OpenStream
    <3>2. heard' \in [Handle -> Level \cup {Silent, Loud}]
      BY <3>1
    <3>3. first' \in Handle \cup {Unborn, Foreign}
      BY <3>1
    <3> QED
      BY <1>0, <1>7, <2>2, <3>2, <3>3 DEF OpenStream
  <2> QED
    BY <2>1, <2>2
<1>8. CASE StreamRefused(p)
  BY <1>8 DEF StreamRefused
<1>9. CASE ReadLevel(p)
  BY <1>9 DEF ReadLevel
<1>10. CASE PushLevel(p) \/ PushFails(p)
  <2>1. CASE PushLevel(p)
    BY <2>1, <1>1 DEF PushLevel, OwnInv
  <2>2. CASE PushFails(p)
    BY <2>2, <1>1 DEF PushFails, OwnInv
  <2> QED
    BY <1>10, <2>1, <2>2
<1>11. CASE FailOpen(p)
  BY <1>1, <1>11, FreeTypes DEF FailOpen
<1> QED
  BY <1>2, <1>3, <1>4, <1>5, <1>6, <1>7, <1>8, <1>9, <1>10, <1>11 DEF Open

LEMMA TypeStep ==
  ASSUME TypeOK, OwnInv, [Next]_vars
  PROVE  TypeOK'
<1> USE VolumeAssumption, LevelType DEF TypeOK, hardware, record, pulse, history, local
<1>1. CASE CreateTables \/ LoadTables
  BY <1>1 DEF CreateTables, LoadTables
<1>2. ASSUME NEW h \in Handle, Close(h)
      PROVE  TypeOK'
  BY <1>2, FreeTypes DEF Close
<1>3. ASSUME NEW t \in Type, NEW v \in 0 .. MaxLen[t], SetVolume(t, v)
      PROVE  TypeOK'
  <2>1. v \in Level /\ v < MaxLen[t]
    BY <1>3 DEF SetVolume, ValidVolume
  <2>2. Targets(t) \subseteq Handle /\ Reached(t, v) \subseteq Handle
    BY DEF Targets, Reached
  <2>3. PICK refused \in SUBSET Reached(t, v) : SetVolumeBut(t, v, refused)
    BY <1>3, SetVolumeCases
  <2> QED
    BY <1>3, <2>1, <2>2, <2>3 DEF SetVolumeBut, Told
<1>4. ASSUME NEW saved \in Saved, Resume(saved)
      PROVE  TypeOK'
  BY <1>4 DEF Resume
<1>5. ASSUME NEW d \in Device, Route(d)
      PROVE  TypeOK'
  BY <1>5 DEF Route
<1>6. CASE Controls
  <2>1. \A h \in Handle : TableFor(type[h], device) \in (Type \X Device) \cup {NoTable}
    BY DEF TableFor
  <2>2. Between \subseteq Handle
    BY DEF Between
  <2>3. table' \in [Handle -> (Type \X Device) \cup {NoTable}]
    BY <1>6, <2>1 DEF Controls
  <2>4. \A h \in Handle : Convertible(table'[h], setting[h]) => setting[h] \in Level
    BY <2>3, ConvertibleLevel
  <2>5. working' \in [Handle -> Level]
    BY <1>6, <2>4 DEF Controls
  <2> QED
    BY <1>6, <2>2, <2>3, <2>5 DEF Controls
<1>7. CASE RouteFails
  BY <1>7 DEF RouteFails
<1>8. CASE UNCHANGED vars
  BY <1>8 DEF vars
<1> QED
  BY <1>1, <1>2, <1>3, <1>4, <1>5, <1>6, <1>7, <1>8, OpenTypes
  DEF Next

-----------------------------------------------------------------------------
(* Handles that are being opened *)

\* What an open leaves alone: the other clients, and their handles.
LEMMA OpenOthers ==
  ASSUME TypeOK, OwnInv, NEW p \in Proc, Open(p), NEW q \in Proc \ {p}
  PROVE  /\ pc'[q] = pc[q] /\ cur'[q] = cur[q] /\ got'[q] = got[q]
         /\ pc[q] # "idle" /\ pc[p] # "idle" => cur[q] # cur[p]
<1>1. pc[q] # "idle" /\ pc[p] # "idle" => cur[q] # cur[p]
  BY DEF OwnInv
<1>2. pc'[q] = pc[q]
  BY OpenGoes DEF TypeOK
<1>3. cur'[q] = cur[q] /\ got'[q] = got[q]
  <2> USE DEF TypeOK, Forget
  <2>1. CASE Alloc(p) \/ SetInfo(p) \/ ReadDevice(p) \/ SetTable(p)
    BY <2>1 DEF Alloc, SetInfo, ReadDevice, SetTable
  <2>2. CASE UpdateVolume(p) \/ StreamRefused(p) \/ ReadLevel(p)
    BY <2>2 DEF UpdateVolume, StreamRefused, ReadLevel
  <2>3. CASE PushLevel(p) \/ PushFails(p) \/ FailOpen(p)
    BY <2>3 DEF PushLevel, PushFails, FailOpen
  <2>4. CASE OpenStream(p)
    BY <2>4 DEF OpenStream
  <2> QED
    BY <2>1, <2>2, <2>3, <2>4 DEF Open
<1> QED
  BY <1>1, <1>2, <1>3

LEMMA ForeignFirst == Foreign \notin Handle /\ Unborn \notin Handle
BY VolumeAssumption DEF Foreign, Unborn, Handle

LEMMA OwnOpen ==
  ASSUME TypeOK, OwnInv, NEW p \in Proc, Open(p)
  PROVE  OwnInv'
<1> USE OpenOthers DEF TypeOK, Goto, Forget, hardware, record, pulse, history, Early
<1>1. CASE Alloc(p)
  <2>1. PICK h \in Handle \ allocated :
          /\ cur' = [cur EXCEPT ![p] = h]
          /\ allocated' = allocated \cup {h}
    BY <1>1, FreeHandle DEF Alloc
  <2>2. /\ pc' = [pc EXCEPT ![p] = "info"]
        /\ UNCHANGED <<mode, heard, first, got>>
    BY <1>1 DEF Alloc
  <2>3. \A q \in Proc \ {p} : pc[q] # "idle" => cur'[q] # h
    BY <2>1 DEF OwnInv
  <2>4. pc'[p] = "info" /\ cur'[p] = h /\ heard[h] = Silent
    BY <2>1, <2>2 DEF OwnInv
  <2>5. \A q \in Proc \ {p} :
          pc'[q] = pc[q] /\ cur'[q] = cur[q] /\ got'[q] = got[q]
    BY <2>1, <2>2
  <2> QED
    BY <2>1, <2>2, <2>3, <2>4, <2>5 DEF OwnInv
<1>2. CASE SetInfo(p)
  BY <1>2 DEF SetInfo, OwnInv
<1>3. CASE ReadDevice(p)
  BY <1>3 DEF ReadDevice, OwnInv
<1>4. CASE SetTable(p)
  BY <1>4 DEF SetTable, OwnInv
<1>5. CASE UpdateVolume(p)
  <2>1. /\ pc[p] = "volume"
        /\ \E s \in {"stream", "fail"} : pc' = [pc EXCEPT ![p] = s]
        /\ UNCHANGED <<allocated, mode, heard, first, cur, got>>
    BY <1>5 DEF UpdateVolume
  <2> QED
    BY <2>1 DEF OwnInv
<1>6. CASE OpenStream(p)
  <2>1. CASE mode[cur[p]] = "in"
    BY <1>6, <2>1 DEF OpenStream, OwnInv
  <2>2. CASE mode[cur[p]] # "in"
    <3>1. /\ pc[p] = "stream" /\ pc' = [pc EXCEPT ![p] = "level"]
          /\ heard' = [heard EXCEPT ![cur[p]] = Loud]
          /\ first' \in {cur[p], Foreign, first}
          /\ UNCHANGED <<allocated, mode, cur, got>>
      BY <1>6, <2>2 DEF OpenStream
    <3>2. Foreign \notin Handle /\ Loud # Silent
      BY ForeignFirst DEF Loud, Silent
    <3>3. first' \in Handle => heard'[first'] # Silent
      BY <3>1, <3>2 DEF OwnInv
    <3> QED
      BY <2>2, <3>1, <3>3 DEF OwnInv
  <2> QED
    BY <2>1, <2>2
<1>7. CASE StreamRefused(p)
  BY <1>7 DEF StreamRefused, OwnInv
<1>8. CASE ReadLevel(p)
  <2>1. /\ pc[p] = "level" /\ pc' = [pc EXCEPT ![p] = "push"]
        /\ got' = [got EXCEPT ![p] = working[cur[p]]]
        /\ UNCHANGED <<allocated, mode, heard, first, cur>>
    BY <1>8 DEF ReadLevel
  <2>2. pc'[p] = "push" /\ cur'[p] = cur[p] /\ got'[p] \in Level
    BY <2>1
  <2>3. \A q \in Proc \ {p} :
          pc'[q] = pc[q] /\ cur'[q] = cur[q] /\ got'[q] = got[q]
    BY <2>1
  <2>4. \A q \in Proc : cur'[q] = cur[q] /\ (pc'[q] # "idle" <=> pc[q] # "idle")
    BY <2>1
  <2>5. /\ \A q \in Proc : pc'[q] = "push" => got'[q] \in Level
        /\ \A q \in Proc : pc'[q] = "table" => got'[q] \in Device
    BY <2>2, <2>3 DEF OwnInv
  <2> HIDE OpenOthers
  <2> QED
    BY <2>1, <2>2, <2>3, <2>4, <2>5 DEF OwnInv
<1>9. CASE PushLevel(p) \/ PushFails(p)
  <2>1. CASE PushLevel(p)
    <3>1. got[p] \in Level /\ got[p] # Silent
      BY <2>1, LevelType DEF PushLevel, OwnInv, Silent
    <3>2. first' \in Handle => heard'[first'] # Silent
      BY <2>1, <3>1 DEF PushLevel, OwnInv
    <3> QED
      BY <2>1, <3>2 DEF PushLevel, OwnInv
  <2>2. CASE PushFails(p)
    BY <2>2 DEF PushFails, OwnInv
  <2> QED
    BY <1>9, <2>1, <2>2
<1>10. CASE FailOpen(p)
  <2>1. first' \in Handle => heard'[first'] # Silent
    BY <1>10, ForeignFirst DEF FailOpen, Free, OwnInv
  <2> QED
    <3>1. \A q \in Proc : pc'[q] # "idle" => pc'[q] = pc[q] /\ q # p
      BY <1>10 DEF FailOpen
    <3> QED
      BY <1>10, <2>1, <3>1 DEF FailOpen, Free, OwnInv
<1> QED
  BY <1>1, <1>2, <1>3, <1>4, <1>5, <1>6, <1>7, <1>8, <1>9, <1>10 DEF Open

LEMMA OwnStep ==
  ASSUME TypeOK, OwnInv, [Next]_vars
  PROVE  OwnInv'
<1> USE DEF TypeOK, hardware, record, pulse, history, local
<1>1. CASE UNCHANGED <<allocated, mode, pulse, local>>
  BY <1>1 DEF OwnInv
<1>2. ASSUME NEW p \in Proc, Open(p)
      PROVE  OwnInv'
  BY <1>2, OwnOpen
<1>3. ASSUME NEW h \in Handle, Close(h)
      PROVE  OwnInv'
  <2>1. first' \in Handle => heard'[first'] # Silent
    BY <1>3, ForeignFirst DEF Close, Free, OwnInv
  <2> QED
    BY <1>3, <2>1 DEF Close, Free, Opening, Early, OwnInv
<1>4. ASSUME NEW t \in Type, NEW v \in Nat, SetVolume(t, v)
      PROVE  OwnInv'
  <2>1. PICK refused \in SUBSET Reached(t, v) : SetVolumeBut(t, v, refused)
    BY <1>4, SetVolumeCases
  <2>2. \A h \in Handle : heard[h] = Silent => heard'[h] = Silent
    BY <2>1, ToldPlay DEF SetVolumeBut
  <2>3. ASSUME first \in Handle
        PROVE  heard'[first] # Silent
    <3>1. heard'[first] \in {v, heard[first]}
      BY <2>1, <2>3 DEF SetVolumeBut
    <3>2. v # Silent
      BY DEF Silent
    <3> QED
      BY <2>3, <3>1, <3>2 DEF OwnInv
  <2> QED
    BY <2>1, <2>2, <2>3 DEF SetVolumeBut, OwnInv, Early
<1> QED
  BY <1>1, <1>2, <1>3, <1>4, StepCases
  DEF CreateTables, LoadTables, Resume, Route, Controls, RouteFails, vars

-----------------------------------------------------------------------------
(* The tables come first *)

LEMMA LoadOpen ==
  ASSUME TypeOK, OwnInv, LoadInv, NEW p \in Proc, Open(p)
  PROVE  LoadInv'
<1> USE OpenOthers
        DEF TypeOK, OwnInv, LoadInv, NoSoundBeforeTables, Opening, Goto, Forget,
            hardware, record, pulse, history, Early
<1>1. CASE Alloc(p)
  <2>1. PICK h \in Handle \ allocated :
          /\ cur' = [cur EXCEPT ![p] = h]
          /\ allocated' = allocated \cup {h}
          /\ pc' = [pc EXCEPT ![p] = "info"]
          /\ pc[p] = "idle"
          /\ UNCHANGED <<mode, heard, table, tables>>
    BY <1>1, FreeHandle DEF Alloc
  <2>2. pc'[p] = "info" /\ cur'[p] = h
    BY <2>1
  <2>3. \A q \in Proc \ {p} : pc'[q] = pc[q] /\ cur'[q] = cur[q]
    BY <2>1
  <2> QED
    BY <2>1, <2>2, <2>3
<1>2. CASE SetInfo(p)
  BY <1>2 DEF SetInfo
<1>3. CASE ReadDevice(p)
  BY <1>3 DEF ReadDevice
<1>4. CASE SetTable(p)
  BY <1>4 DEF SetTable, TableFor
<1>5. CASE UpdateVolume(p)
  <2>1. volume[type[cur[p]]] \in Nat
    OBVIOUS
  <2>2. CASE Convertible(table[cur[p]], volume[type[cur[p]]])
    <3>1. table[cur[p]] # NoTable
      <4>1. table[cur[p]] \in (Type \X Device) \cup {NoTable}
        OBVIOUS
      <4> QED
        BY <2>1, <2>2, <4>1, ConvertibleLevel
    <3>2. /\ pc[p] = "volume" /\ pc' = [pc EXCEPT ![p] = "stream"]
          /\ UNCHANGED <<allocated, tables, mode, type, table, device, routing, heard,
                         cur, got, overtaken>>
      BY <1>5, <2>2 DEF UpdateVolume
    <3> QED
      BY <3>1, <3>2
  <2>3. CASE ~Convertible(table[cur[p]], volume[type[cur[p]]])
    BY <1>5, <2>3 DEF UpdateVolume
  <2> QED
    BY <2>2, <2>3
<1>6. CASE OpenStream(p)
  <2>1. CASE mode[cur[p]] = "in"
    BY <1>6, <2>1 DEF OpenStream
  <2>2. CASE mode[cur[p]] # "in"
    BY <1>6, <2>2 DEF OpenStream
  <2> QED
    BY <2>1, <2>2
<1>7. CASE StreamRefused(p) \/ ReadLevel(p)
  BY <1>7 DEF StreamRefused, ReadLevel
<1>8. CASE PushLevel(p) \/ PushFails(p)
  <2>1. CASE PushLevel(p)
    BY <2>1 DEF PushLevel
  <2>2. CASE PushFails(p)
    BY <2>2 DEF PushFails
  <2> QED
    BY <1>8, <2>1, <2>2
<1>9. CASE FailOpen(p)
  BY <1>9 DEF FailOpen, Free
<1> QED
  BY <1>1, <1>2, <1>3, <1>4, <1>5, <1>6, <1>7, <1>8, <1>9 DEF Open

LEMMA LoadStep ==
  ASSUME TypeOK, OwnInv, LoadInv, [Next]_vars
  PROVE  LoadInv'
<1> USE DEF TypeOK, LoadInv, NoSoundBeforeTables, Opening, hardware, record, pulse,
            history, local
<1>1. CASE UNCHANGED <<allocated, mode, table, heard, local, tables>>
  BY <1>1
<1>2. ASSUME NEW p \in Proc, Open(p)
      PROVE  LoadInv'
  BY <1>2, LoadOpen
<1>3. ASSUME NEW h \in Handle, Close(h)
      PROVE  LoadInv'
  BY <1>3 DEF Close, Free
<1>4. ASSUME NEW t \in Type, NEW v \in Nat, SetVolume(t, v)
      PROVE  LoadInv'
  <2>1. PICK refused \in SUBSET Reached(t, v) : SetVolumeBut(t, v, refused)
    BY <1>4, SetVolumeCases
  <2>2. \A h \in Handle : heard[h] = Silent => heard'[h] = Silent
    BY <2>1, ToldPlay DEF SetVolumeBut
  <2> QED
    BY <2>1, <2>2 DEF SetVolumeBut
<1>5. CASE CreateTables \/ LoadTables
  BY <1>5 DEF CreateTables, LoadTables
<1>6. CASE Controls
  <2>1. \A h \in Handle : table'[h] # NoTable => tables = "loaded"
    BY <1>6 DEF Controls, TableFor
  <2> QED
    BY <1>6, <2>1 DEF Controls
<1> QED
  BY <1>1, <1>2, <1>3, <1>4, <1>5, <1>6, StepCases
  DEF Resume, Route, RouteFails, vars

THEOREM OpensInOrder == Spec => []OpenInv
<1>1. Init => OpenInv
  BY InitTypes, ForeignFirst DEF Init, OpenInv, OwnInv, LoadInv, NoSoundBeforeTables, Early
<1>2. OpenInv /\ [Next]_vars => OpenInv'
  BY TypeStep, OwnStep, LoadStep DEF OpenInv
<1> QED
  BY <1>1, <1>2, PTL DEF Spec

\* The gains of the records and the streams stay within the tables, though nobody
\* tests the range of the volumes a reset is given.
THEOREM VolumeTypes == Spec => []TypeOK
<1>1. OpenInv => TypeOK
  BY DEF OpenInv
<1> QED
  BY <1>1, OpensInOrder, PTL

\* No stream is opened before the tables are loaded, however early the clients
\* start.
THEOREM TablesFirst == Spec => []NoSoundBeforeTables
<1>1. OpenInv => NoSoundBeforeTables
  BY DEF OpenInv, LoadInv
<1> QED
  BY <1>1, OpensInOrder, PTL

-----------------------------------------------------------------------------
(* Tables and the device *)

LEMMA DeviceOpen ==
  ASSUME TypeOK, OwnInv, LoadInv, DeviceInv, NEW p \in Proc, Open(p)
  PROVE  DeviceInv'
<1> USE OpenOthers
        DEF TypeOK, OwnInv, DeviceInv, Goto, Forget, hardware, record, pulse,
            history, Early
<1>1. CASE Alloc(p)
  <2>1. PICK h \in Handle \ allocated :
          /\ cur' = [cur EXCEPT ![p] = h]
          /\ allocated' = allocated \cup {h}
          /\ pc' = [pc EXCEPT ![p] = "info"]
          /\ pc[p] = "idle"
          /\ UNCHANGED <<mode, table, type, got, device, routing, overtaken>>
    BY <1>1, FreeHandle DEF Alloc
  <2>2. pc'[p] = "info" /\ cur'[p] = h
    BY <2>1
  <2>3. \A q \in Proc \ {p} : pc'[q] = pc[q] /\ cur'[q] = cur[q]
    BY <2>1
  <2> QED
    BY <2>1, <2>2, <2>3
<1>2. CASE SetInfo(p)
  BY <1>2 DEF SetInfo
<1>3. CASE ReadDevice(p)
  BY <1>3 DEF ReadDevice
<1>4. CASE SetTable(p)
  BY <1>4 DEF SetTable, TableFor
<1>5. CASE UpdateVolume(p)
  <2>1. volume[type[cur[p]]] \in Nat
    OBVIOUS
  <2>2. CASE Convertible(table[cur[p]], volume[type[cur[p]]])
    <3>1. table[cur[p]] # NoTable
      <4>1. table[cur[p]] \in (Type \X Device) \cup {NoTable}
        OBVIOUS
      <4> QED
        BY <2>1, <2>2, <4>1, ConvertibleLevel
    <3>2. /\ pc[p] = "volume" /\ pc' = [pc EXCEPT ![p] = "stream"]
          /\ UNCHANGED <<allocated, tables, mode, type, table, device, routing, heard,
                         cur, got, overtaken>>
      BY <1>5, <2>2 DEF UpdateVolume
    <3> QED
      BY <3>1, <3>2
  <2>3. CASE ~Convertible(table[cur[p]], volume[type[cur[p]]])
    BY <1>5, <2>3, SMTT(30) DEF UpdateVolume
  <2> QED
    BY <2>2, <2>3
<1>6. CASE OpenStream(p)
  <2>1. CASE mode[cur[p]] = "in"
    <3>1. /\ pc[p] = "stream" /\ pc' = [pc EXCEPT ![p] = "idle"]
          /\ cur' = [cur EXCEPT ![p] = 0] /\ got' = [got EXCEPT ![p] = 0]
          /\ UNCHANGED <<allocated, mode, type, table, device, routing, overtaken>>
      BY <1>6, <2>1 DEF OpenStream
    <3>2. pc'[p] = "idle"
      BY <3>1
    <3>3. \A q \in Proc \ {p} : pc'[q] = pc[q] /\ cur'[q] = cur[q] /\ got'[q] = got[q]
      BY <3>1
    <3> HIDE OpenOthers
    <3> QED
      BY <2>1, <3>1, <3>2, <3>3
  <2>2. CASE mode[cur[p]] # "in"
    <3>1. /\ pc[p] = "stream" /\ pc' = [pc EXCEPT ![p] = "level"]
          /\ UNCHANGED <<allocated, mode, type, table, device, routing, cur, got,
                         overtaken>>
      BY <1>6, <2>2 DEF OpenStream
    <3> QED
      BY <3>1
  <2> QED
    BY <2>1, <2>2
<1>7. CASE StreamRefused(p) \/ ReadLevel(p)
  BY <1>7 DEF StreamRefused, ReadLevel
<1>8. CASE PushLevel(p) \/ PushFails(p)
  <2>1. CASE PushLevel(p)
    BY <2>1 DEF PushLevel
  <2>2. CASE PushFails(p)
    BY <2>2 DEF PushFails
  <2> QED
    BY <1>8, <2>1, <2>2
<1>9. CASE FailOpen(p)
  BY <1>9 DEF FailOpen, Free
<1> QED
  BY <1>1, <1>2, <1>3, <1>4, <1>5, <1>6, <1>7, <1>8, <1>9 DEF Open

\* A request that succeeds sees to every handle that had a table to take, and
\* counts those that are between two steps.
LEMMA DeviceControls ==
  ASSUME TypeOK, OwnInv, LoadInv, Controls
  PROVE  DeviceInv'
<1> USE DEF TypeOK, OwnInv
<1>1. /\ overtaken' = (overtaken \ Routed) \cup Between
      /\ table' = [h \in Handle |->
                     IF h \in Routed THEN TableFor(type[h], device) ELSE table[h]]
      /\ UNCHANGED <<allocated, mode, type, device, pc, cur, got, tables>>
  BY DEF Controls, local
<1>2. \A p \in Proc : pc[p] = "table" => cur[p] \in overtaken'
  BY <1>1 DEF Between
<1>3. ASSUME NEW h \in allocated \ overtaken', mode[h] = "out",
             \A p \in Proc : pc[p] \in Early => cur[p] # h
      PROVE  \/ table'[h] = <<type[h], device>>
             \/ table'[h] = NoTable /\ \E p \in Proc : pc[p] = "volume" /\ cur[p] = h
  <2>1. CASE tables = "loaded"
    <3>1. h \in Routed
      BY <1>3, <2>1 DEF Routed, TableRefused
    <3> QED
      BY <1>1, <2>1, <3>1 DEF TableFor
  <2>2. CASE tables # "loaded"
    <3>1. table'[h] = NoTable
      BY <1>1, <2>2 DEF TableFor, LoadInv
    <3>2. PICK p \in Proc : pc[p] # "idle" /\ cur[p] = h
      BY <1>3, <2>2 DEF LoadInv, Opening
    <3>3. pc[p] = "volume"
      BY <1>3, <2>2, <3>2 DEF LoadInv, Early, Stage
    <3> QED
      BY <3>1, <3>2, <3>3
  <2> QED
    BY <2>1, <2>2
<1> QED
  BY <1>1, <1>2, <1>3, ZenonT(40) DEF DeviceInv

LEMMA DeviceStep ==
  ASSUME TypeOK, OwnInv, LoadInv, DeviceInv, [Next]_vars
  PROVE  DeviceInv'
<1> USE DEF TypeOK, DeviceInv, hardware, record, pulse, history, local
<1>1. CASE UNCHANGED <<allocated, mode, type, table, device, routing, local,
                       overtaken>>
  BY <1>1
<1>2. ASSUME NEW p \in Proc, Open(p)
      PROVE  DeviceInv'
  BY <1>2, DeviceOpen
<1>3. ASSUME NEW h \in Handle, Close(h)
      PROVE  DeviceInv'
  BY <1>3 DEF Close, Free, Opening
<1>4. CASE RouteFails
  BY <1>4 DEF RouteFails, OwnInv
<1>5. ASSUME NEW d \in Device, Route(d)
      PROVE  DeviceInv'
  BY <1>5 DEF Route
<1> QED
  BY <1>1, <1>2, <1>3, <1>4, <1>5, DeviceControls, StepCases
  DEF Resume, SetVolume, CreateTables, LoadTables, vars

\* The table of every open playback stream is the one of the output device,
\* unless a request came between or failed.
THEOREM DeviceTables == Spec => []TableFollowsDevice
<1>1. Init => DeviceInv
  BY DEF Init, DeviceInv
<1>2. OpenInv /\ DeviceInv /\ [Next]_vars => DeviceInv'
  BY DeviceStep DEF OpenInv
<1>3. DeviceInv => TableFollowsDevice
  BY DEF DeviceInv, TableFollowsDevice, Opening, Early
<1> QED
  BY <1>1, <1>2, <1>3, OpensInOrder, PTL DEF Spec

-----------------------------------------------------------------------------
(* What is heard *)

LEMMA HeardOpen ==
  ASSUME TypeOK, OwnInv, HeardInv, NEW p \in Proc, Open(p)
  PROVE  HeardInv'
<1> USE OpenOthers
        DEF TypeOK, OwnInv, HeardInv, Opening, Goto, Forget, hardware, record, pulse,
            history, Early
<1>1. CASE Alloc(p)
  <2>1. PICK h \in Handle \ allocated :
          /\ cur' = [cur EXCEPT ![p] = h]
          /\ allocated' = allocated \cup {h}
          /\ pc' = [pc EXCEPT ![p] = "info"]
          /\ pc[p] = "idle"
          /\ UNCHANGED <<mode, type, volume, setting, working, heard, missed>>
    BY <1>1, FreeHandle DEF Alloc
  <2>2. pc'[p] = "info" /\ cur'[p] = h
    BY <2>1
  <2>3. \A q \in Proc \ {p} : pc'[q] = pc[q] /\ cur'[q] = cur[q]
    BY <2>1
  <2> QED
    BY <2>1, <2>2, <2>3
<1>2. CASE SetInfo(p)
  BY <1>2 DEF SetInfo
<1>3. CASE ReadDevice(p)
  BY <1>3 DEF ReadDevice
<1>4. CASE SetTable(p)
  BY <1>4 DEF SetTable
<1>5. CASE UpdateVolume(p)
  <2>1. CASE Convertible(table[cur[p]], volume[type[cur[p]]])
    BY <1>5, <2>1 DEF UpdateVolume
  <2>2. CASE ~Convertible(table[cur[p]], volume[type[cur[p]]])
    BY <1>5, <2>2 DEF UpdateVolume
  <2> QED
    BY <2>1, <2>2
<1>6. CASE OpenStream(p)
  <2>1. CASE mode[cur[p]] = "in"
    BY <1>6, <2>1 DEF OpenStream
  <2>2. CASE mode[cur[p]] # "in"
    <3>1. /\ pc[p] = "stream" /\ pc' = [pc EXCEPT ![p] = "level"]
          /\ heard' = [heard EXCEPT ![cur[p]] = Loud]
          /\ UNCHANGED <<allocated, mode, type, volume, setting, working, cur,
                         missed>>
      BY <1>6, <2>2 DEF OpenStream
    <3> QED
      BY <3>1
  <2> QED
    BY <2>1, <2>2
<1>7. CASE StreamRefused(p) \/ ReadLevel(p)
  BY <1>7 DEF StreamRefused, ReadLevel
<1>8. CASE PushLevel(p) \/ PushFails(p)
  <2>1. CASE PushLevel(p)
    BY <2>1 DEF PushLevel
  <2>2. CASE PushFails(p)
    BY <2>2 DEF PushFails
  <2> QED
    BY <1>8, <2>1, <2>2
<1>9. CASE FailOpen(p)
  BY <1>9 DEF FailOpen, Free
<1> QED
  BY <1>1, <1>2, <1>3, <1>4, <1>5, <1>6, <1>7, <1>8, <1>9 DEF Open

LEMMA HeardSetVolume ==
  ASSUME TypeOK, OwnInv, HeardInv, NEW t \in Type, NEW v \in Nat, SetVolume(t, v)
  PROVE  HeardInv'
<1> USE DEF TypeOK
<1>0. PICK refused \in SUBSET Reached(t, v) : SetVolumeBut(t, v, refused)
  BY SetVolumeCases
<1>1. /\ volume' = [volume EXCEPT ![t] = v]
      /\ UNCHANGED <<allocated, mode, type, local>>
  BY <1>0 DEF SetVolumeBut
<1>2. Reached(t, v) \subseteq Tried(t, v) /\ Tried(t, v) \subseteq Targets(t)
  <2>1. \A h, k \in Handle : h < k => h <= k
    BY VolumeAssumption DEF Handle
  <2> QED
    BY <2>1 DEF Reached, Tried, Stuck, Targets
<1>3. ASSUME NEW h \in Reached(t, v) \ missed'
      PROVE  /\ type[h] = t /\ setting'[h] = v /\ working'[h] = v
             /\ heard'[h] \in {v, Silent}
  <2>1. h \in Handle /\ type[h] = t /\ setting'[h] = v /\ working'[h] = v
    BY <1>0, <1>2, <1>3 DEF SetVolumeBut, Targets
  <2>2. CASE heard[h] = Silent
    BY <1>0, <2>1, <2>2 DEF SetVolumeBut
  <2>3. CASE heard[h] # Silent
    <3>1. h \notin refused
      BY <1>0, <1>3, <2>3 DEF SetVolumeBut
    <3>2. h \in Told(t, v, refused)
      BY <1>3, <2>1, <2>3, <3>1 DEF Told, Stream
    <3> QED
      BY <1>0, <2>1, <3>2 DEF SetVolumeBut
  <2> QED
    BY <2>1, <2>2, <2>3
<1>4. ASSUME NEW h \in Handle \ Targets(t), h \notin missed'
      PROVE  /\ setting'[h] = setting[h] /\ working'[h] = working[h]
             /\ heard'[h] = heard[h] /\ h \notin missed
  BY <1>0, <1>2, <1>4 DEF SetVolumeBut
<1>5. ASSUME NEW h \in allocated \ missed', mode[h] # "in"
      PROVE  h \in Reached(t, v) \/ (type[h] # t /\ h \notin Targets(t))
  BY <1>0, <1>5 DEF SetVolumeBut, Targets, Playback
<1>6. \A h \in Handle : Opening(h)' <=> Opening(h)
  BY <1>1 DEF Opening, local
<1> QED
  BY <1>1, <1>3, <1>4, <1>5, <1>6 DEF HeardInv, local

LEMMA HeardStep ==
  ASSUME TypeOK, OwnInv, HeardInv, [Next]_vars
  PROVE  HeardInv'
<1> USE DEF TypeOK, HeardInv, Opening, hardware, record, pulse, history, local
<1>1. CASE UNCHANGED <<allocated, mode, type, volume, setting, working, heard,
                       local, missed>>
  BY <1>1
<1>2. ASSUME NEW p \in Proc, Open(p)
      PROVE  HeardInv'
  BY <1>2, HeardOpen
<1>3. ASSUME NEW h \in Handle, Close(h)
      PROVE  HeardInv'
  BY <1>3 DEF Close, Free, Early
<1>4. ASSUME NEW t \in Type, NEW v \in Nat, SetVolume(t, v)
      PROVE  HeardInv'
  BY <1>4, HeardSetVolume
<1>5. ASSUME NEW saved \in Saved, Resume(saved)
      PROVE  HeardInv'
  BY <1>5 DEF Resume
<1>6. CASE Controls
  BY <1>6 DEF Controls, Early
<1> QED
  BY <1>1, <1>2, <1>3, <1>4, <1>5, <1>6, StepCases
  DEF CreateTables, LoadTables, Route, RouteFails, vars

\* Every open stream that the changes of its volume have reached, and whose gains
\* PulseAudio took, is heard at the volume of its type, unless a change meant for
\* another handle went to it (avsys_audio_handle_update_volume_by_type).
THEOREM HeardLevels == Spec => []HeardAsSet
<1>1. Init => HeardInv
  BY DEF Init, HeardInv
<1>2. OpenInv /\ HeardInv /\ [Next]_vars => HeardInv'
  BY HeardStep DEF OpenInv
<1>3. OpenInv /\ HeardInv => HeardAsSet
  BY DEF OpenInv, OwnInv, TypeOK, HeardInv, HeardAsSet, Opening, Early
<1> QED
  BY <1>1, <1>2, <1>3, OpensInOrder, PTL DEF Spec

=============================================================================
