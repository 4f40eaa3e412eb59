------------------------------- MODULE AvVolume -------------------------------
(***************************************************************************)
(* The volume of the streams (avsys-audio-logical-volume.c and its users). *)
(* Every volume type has one value, kept under the handle lock.  Every     *)
(* handle has a volume table, chosen by its type and the output device,    *)
(* which turns the value into the gain that PulseAudio is given.  Three    *)
(* calls write these records: an open fills them in step by step, mostly   *)
(* without a lock; a change of a type's volume walks over all handles      *)
(* under the handle lock; a request of the path changes the device under   *)
(* the path lock and then walks over all handles under both.               *)
(*                                                                         *)
(* Handles and their owners are those of AvHandle, the device is the       *)
(* lvol_dev_type of AvPath.  A call to PulseAudio is that of AvPaCtrl, one *)
(* step here, and may fail at any time: its callers go on all the same.    *)
(* dirty_volume, which would keep a handle out of a change of its volume,  *)
(* is never set and left out, and so are the fades, the tuning of table    *)
(* entries and the volume keys.                                            *)
(***************************************************************************)
EXTENDS Integers, FiniteSets, FiniteSetsExt

CONSTANTS
  Proc,         \* the client processes
  HandleMax,    \* AVSYS_AUDIO_HANDLE_MAX
  Type,         \* the volume types but FIXED, which cannot be set
  System,       \* the type of a cleared record, AVSYS_AUDIO_VOLUME_TYPE_SYSTEM
  MaxLen,       \* the length of the tables of a type
  Default,      \* the volume of a type after boot
  Saved,        \* the volumes that a reset after hibernation is given
  Device,       \* SPK, HEADSET, BTHEADSET
  Speaker,      \* the device after boot
  NoTable,      \* a table of length 0, as in a cleared record
  Modes         \* the open modes in use: "out" (and those with clock, low latency
                \* and for calls of the AP), "video", "in"

ASSUME VolumeAssumption ==
  /\ HandleMax \in Nat \ {0}
  /\ System \in Type
  /\ MaxLen \in [Type -> Nat \ {0}]
  /\ Default \in [Type -> Nat]
  /\ \A t \in Type : Default[t] < MaxLen[t]
  /\ Saved \subseteq [Type -> Nat]
  /\ Speaker \in Device
  /\ NoTable \notin Type \X Device
  /\ Modes \subseteq {"out", "video", "in"}

Handle == 0 .. HandleMax - 1

VARIABLES
  \* the segment of the volume tables
  tables,     \* "missing", "zeroed" or "loaded"
  \* the segment of the path
  device,     \* lvol_dev_type
  routing,    \* a request holds the path lock
  \* the segment of the handles
  volume,     \* volume_value
  allocated,  \* the handles whose bit is set
  mode,       \* handles[h].mode
  type,       \* handles[h].gain_setting.vol_type
  table,      \* handles[h].gain_setting.table and max_len
  setting,    \* handles[h].setting_vol
  working,    \* the level of the table entry in handles[h].working_vol
  \* PulseAudio
  heard,      \* the level of the gain of the handle's stream
  first,      \* the handle whose stream is sink input 0
  \* the clients
  pc,         \* where a client is in its open
  cur,        \* the handle it opens
  got,        \* what it has read: a device, then a level
  \* history
  missed,     \* the handles whose stream a change of its volume did not reach,
              \* or that was given the volume of another
  overtaken   \* the handles whose table a change of the device did not reach

hardware == <<tables, device, routing>>
record == <<mode, type, table, setting, working>>
pulse == <<heard, first>>
local == <<pc, cur, got>>
history == <<missed, overtaken>>
vars == <<hardware, volume, allocated, record, pulse, local, history>>

-----------------------------------------------------------------------------

\* What is heard of a handle without a stream, and of a stream that was not
\* given a volume yet.
Silent == -1
Loud == -2

\* Sink input 0 is to come; it is, or was, of some other program or is gone.
Unborn == -1
Foreign == -2

\* max_len of a table, which is a type and a device.
Length(tab) == IF tab = NoTable THEN 0 ELSE MaxLen[tab[1]]

\* Mutant: the level may be one past the end of the table.
ConvertibleTo(tab, level) == level <= Length(tab)

\* avsys_audio_logical_volume_convert refuses a level the table does not have.
Convertible(tab, level) == level < Length(tab)

Playback(h) == mode[h] \in {"out", "video"}

\* Where a client is in its open.
Stage == {"idle", "info", "device", "table", "volume", "stream", "level", "push",
          "fail"}

Goto(p, from, to) ==
  /\ pc[p] = from
  /\ pc' = [pc EXCEPT ![p] = to]

Init ==
  /\ tables = "missing"
  /\ device = Speaker
  /\ routing = FALSE
  /\ volume = Default
  /\ allocated = {}
  /\ mode = [h \in Handle |-> "out"]
  /\ type = [h \in Handle |-> System]
  /\ table = [h \in Handle |-> NoTable]
  /\ setting = [h \in Handle |-> 0]
  /\ working = [h \in Handle |-> 0]
  /\ heard = [h \in Handle |-> Silent]
  /\ first = Unborn
  /\ pc = [p \in Proc |-> "idle"]
  /\ cur = [p \in Proc |-> 0]
  /\ got = [p \in Proc |-> 0]
  /\ missed = {}
  /\ overtaken = {}

-----------------------------------------------------------------------------
(* Boot: the initializer makes the tables last, and fills them in place *)

CreateTables ==
  /\ tables = "missing"
  /\ tables' = "zeroed"
  /\ UNCHANGED <<device, routing, volume, allocated, record, pulse, local,
                 history>>

LoadTables ==
  /\ tables = "zeroed"
  /\ tables' = "loaded"
  /\ UNCHANGED <<device, routing, volume, allocated, record, pulse, local,
                 history>>

\* What a table has to offer to a type: a segment of zeroes has the type of the
\* system volume, and no entries.
TableFor(t, d) == IF tables = "loaded" THEN <<t, d>> ELSE NoTable

TableRefused(t) == tables = "missing" \/ (tables = "zeroed" /\ t # System)

-----------------------------------------------------------------------------
(* avsys_audio_open *)

\* A handle is allocated and its record is clear.  The code clears the record
\* here, after it has set the bit; the model has done so when the handle was
\* freed, so that nobody sees the record of the former handle under the new bit
\* (what is written to it then is cleared).
Alloc(p) ==
  LET h == Min(Handle \ allocated)
  IN  /\ allocated # Handle
      /\ Goto(p, "idle", "info")
      /\ cur' = [cur EXCEPT ![p] = h]
      /\ allocated' = allocated \cup {h}
      /\ UNCHANGED <<hardware, volume, record, pulse, got, history>>

\* The handle is free, its stream gone, its record clear.
Free(h) ==
  /\ allocated' = allocated \ {h}
  /\ mode' = [mode EXCEPT ![h] = "out"]
  /\ type' = [type EXCEPT ![h] = System]
  /\ table' = [table EXCEPT ![h] = NoTable]
  /\ setting' = [setting EXCEPT ![h] = 0]
  /\ working' = [working EXCEPT ![h] = 0]
  /\ heard' = [heard EXCEPT ![h] = Silent]
  /\ first' = IF first = h THEN Foreign ELSE first
  /\ missed' = missed \ {h}
  /\ overtaken' = overtaken \ {h}

\* __avsys_audio_set_info
SetInfo(p) ==
  \E m \in Modes, t \in Type :
    /\ Goto(p, "info", IF m = "in" THEN "stream" ELSE "device")
    /\ mode' = [mode EXCEPT ![cur[p]] = m]
    /\ type' = [type EXCEPT ![cur[p]] = t]
    /\ setting' = [setting EXCEPT ![cur[p]] = 0]
    /\ working' = [working EXCEPT ![cur[p]] = 0]
    /\ UNCHANGED <<hardware, volume, allocated, table, pulse, cur, got,
                   history>>

\* avsys_audio_path_set_volume reads the device under the path lock ...
ReadDevice(p) ==
  /\ ~routing
  /\ Goto(p, "device", "table")
  /\ got' = [got EXCEPT ![p] = device]
  /\ UNCHANGED <<hardware, volume, allocated, record, pulse, cur, history>>

\* ... and takes its table after that.
SetTable(p) ==
  /\ IF TableRefused(type[cur[p]])
       THEN Goto(p, "table", "fail") /\ UNCHANGED table
       ELSE /\ Goto(p, "table", "volume")
            /\ table' = [table EXCEPT ![cur[p]] = TableFor(type[cur[p]], got[p])]
  /\ got' = [got EXCEPT ![p] = 0]
  /\ UNCHANGED <<hardware, volume, allocated, mode, type, setting, working,
                 pulse, cur, history>>

\* avsys_audio_handle_update_volume
UpdateVolume(p) ==
  LET h == cur[p]
      level == volume[type[h]]
  IN  /\ setting' = [setting EXCEPT ![h] = level]
      /\ IF Convertible(table[h], level)
           THEN /\ Goto(p, "volume", "stream")
                /\ working' = [working EXCEPT ![h] = level]
           ELSE Goto(p, "volume", "fail") /\ UNCHANGED working
      /\ missed' = missed \ {h}
      /\ UNCHANGED <<hardware, volume, allocated, mode, type, table, pulse,
                     cur, got, overtaken>>

\* The locals of an open, at its end.
Forget(p) ==
  /\ cur' = [cur EXCEPT ![p] = 0]
  /\ got' = [got EXCEPT ![p] = 0]

\* avsys_audio_pasimple_open_device: a stream as loud as PulseAudio makes it.
OpenStream(p) ==
  LET h == cur[p]
  IN  /\ IF mode[h] = "in"
           THEN Goto(p, "stream", "idle") /\ Forget(p) /\ UNCHANGED pulse
           ELSE /\ Goto(p, "stream", "level")
                /\ heard' = [heard EXCEPT ![h] = Loud]
                /\ first' \in IF first = Unborn THEN {h, Foreign} ELSE {first}
                /\ UNCHANGED <<cur, got>>
      /\ UNCHANGED <<hardware, volume, allocated, record, history>>

StreamRefused(p) ==
  /\ Goto(p, "stream", "fail")
  /\ UNCHANGED <<hardware, volume, allocated, record, pulse, cur, got,
                 history>>

\* The gain is read from the record ...
ReadLevel(p) ==
  /\ Goto(p, "level", "push")
  /\ got' = [got EXCEPT ![p] = working[cur[p]]]
  /\ UNCHANGED <<hardware, volume, allocated, record, pulse, cur, history>>

\* ... and given to the stream, no lock held.
PushLevel(p) ==
  LET h == cur[p]
  IN  /\ Goto(p, "push", "idle")
      /\ heard' = [heard EXCEPT ![h] = got[p]]
      /\ missed' = IF got[p] # working[h] THEN missed \cup {h} ELSE missed
      /\ Forget(p)
      /\ UNCHANGED <<hardware, volume, allocated, record, first, overtaken>>

\* The open does not mind if PulseAudio does not take the gain.
PushFails(p) ==
  /\ Goto(p, "push", "idle")
  /\ missed' = missed \cup {cur[p]}
  /\ Forget(p)
  /\ UNCHANGED <<hardware, volume, allocated, record, pulse, overtaken>>

FailOpen(p) ==
  /\ Goto(p, "fail", "idle")
  /\ Free(cur[p])
  /\ Forget(p)
  /\ UNCHANGED <<hardware, volume>>

Opening(h) == \E p \in Proc : pc[p] # "idle" /\ cur[p] = h

\* avsys_audio_close
Close(h) ==
  /\ h \in allocated /\ ~Opening(h)
  /\ Free(h)
  /\ UNCHANGED <<hardware, volume, local>>

-----------------------------------------------------------------------------
(* avsys_audio_set_volume_by_type *)

\* __avsys_audio_validate_volume
ValidVolume(t, v) == v \in 0 .. MaxLen[t] - 1

\* Mutant: the loop leaves video streams out, as the one of the path does.
TargetsOut(t) == { h \in allocated : mode[h] = "out" /\ type[h] = t }

\* The playback handles of the type.
Targets(t) == { h \in allocated : Playback(h) /\ type[h] = t }

\* Those of them whose table cannot convert the value, and those the loop
\* converts, or tries to, before it is done with the first of these.
Stuck(t, v) == { h \in Targets(t) : ~Convertible(table[h], v) }
Reached(t, v) == { h \in Targets(t) : \A k \in Stuck(t, v) : h < k }
Tried(t, v) == { h \in Targets(t) : \A k \in Stuck(t, v) : h <= k }

\* The stream that the index in a record names: the handle's own, or sink input 0
\* as long as it has none.
Stream(h) == IF heard[h] = Silent THEN first ELSE h

\* avsys_audio_handle_update_volume_by_type: the first failure to convert ends the
\* loop, the failures to tell PulseAudio are passed over.
SetVolume(t, v) ==
  LET reached == Reached(t, v)
  IN  \E refused \in SUBSET reached :
        LET told == Handle \cap { Stream(h) : h \in reached \ refused }
        IN  /\ ValidVolume(t, v)
            /\ volume' = [volume EXCEPT ![t] = v]
            /\ setting' = [h \in Handle |-> IF h \in Tried(t, v) THEN v ELSE setting[h]]
            /\ working' = [h \in Handle |-> IF h \in reached THEN v ELSE working[h]]
            /\ heard' = [h \in Handle |-> IF h \in told THEN v ELSE heard[h]]
            /\ missed' = ((missed \cup Targets(t) \cup told) \ reached)
                           \cup { h \in refused : heard[h] # Silent }
            /\ UNCHANGED <<hardware, allocated, mode, type, table, first, local,
                           overtaken>>

\* avsys_audio_hibernation_reset with the volumes saved before, the part of
\* avsys_audio_handle_reset: nobody looks whether they are in range, and the open
\* handles are left as they are.
Resume(saved) ==
  /\ volume' = saved
  /\ missed' = allocated
  /\ UNCHANGED <<hardware, allocated, record, pulse, local, overtaken>>

-----------------------------------------------------------------------------
(* Requests of the path *)

\* A script sets the device, then runs.
Route(d) ==
  /\ ~routing
  /\ routing' = TRUE
  /\ device' = d
  /\ UNCHANGED <<tables, volume, allocated, record, pulse, local, history>>

\* The handles that have read a device and not yet taken its table.
Between == { cur[p] : p \in { q \in Proc : pc[q] = "table" } }

\* The open handles whose table the request sees to.
Routed == { h \in allocated : mode[h] = "out" /\ ~TableRefused(type[h]) }

\* Mutant: only streams that play get the new table.
ControlsPlaying ==
  LET some == { h \in Routed : heard[h] # Silent }
  IN  /\ routing
      /\ routing' = FALSE
      /\ table' = [h \in Handle |->
                     IF h \in some THEN TableFor(type[h], device) ELSE table[h]]
      /\ overtaken' = (overtaken \ Routed) \cup Between
      /\ UNCHANGED <<tables, device, volume, allocated, mode, type, setting,
                     working, pulse, local, missed>>

\* __avsys_audio_path_set_hw_controls: not for video, and PulseAudio is not told.
Controls ==
  /\ routing
  /\ routing' = FALSE
  /\ table' = [h \in Handle |->
                 IF h \in Routed THEN TableFor(type[h], device) ELSE table[h]]
  /\ working' = [h \in Handle |->
       IF mode[h] = "out" /\ h \in allocated /\ Convertible(table'[h], setting[h])
         THEN setting[h] ELSE working[h]]
  /\ overtaken' = (overtaken \ Routed) \cup Between
  /\ UNCHANGED <<tables, device, volume, allocated, mode, type, setting,
                 pulse, local, missed>>

\* The script fails, and the handles are not seen to.
RouteFails ==
  /\ routing
  /\ routing' = FALSE
  /\ overtaken' = allocated
  /\ UNCHANGED <<tables, device, volume, allocated, record, pulse, local,
                 missed>>

-----------------------------------------------------------------------------

Open(p) ==
  \/ Alloc(p) \/ SetInfo(p) \/ ReadDevice(p) \/ SetTable(p) \/ UpdateVolume(p)
  \/ OpenStream(p) \/ StreamRefused(p) \/ ReadLevel(p) \/ PushLevel(p)
  \/ PushFails(p) \/ FailOpen(p)

Next ==
  \/ CreateTables \/ LoadTables
  \/ \E p \in Proc : Open(p)
  \/ \E h \in Handle : Close(h)
  \/ \E t \in Type : \E v \in 0 .. MaxLen[t] : SetVolume(t, v)
  \/ \E saved \in Saved : Resume(saved)
  \/ \E d \in Device : Route(d)
  \/ Controls \/ RouteFails

Spec == Init /\ [][Next]_vars

-----------------------------------------------------------------------------
(* Properties *)

Level == UNION { 0 .. MaxLen[t] - 1 : t \in Type }

TypeOK ==
  /\ tables \in {"missing", "zeroed", "loaded"}
  /\ device \in Device
  /\ routing \in BOOLEAN
  /\ volume \in [Type -> Nat]
  /\ allocated \in SUBSET Handle
  /\ mode \in [Handle -> {"out", "video", "in"}]
  /\ type \in [Handle -> Type]
  /\ table \in [Handle -> (Type \X Device) \cup {NoTable}]
  /\ setting \in [Handle -> Nat]
  /\ working \in [Handle -> Level]
  /\ heard \in [Handle -> Level \cup {Silent, Loud}]
  /\ first \in Handle \cup {Unborn, Foreign}
  /\ pc \in [Proc -> Stage]
  /\ cur \in [Proc -> Handle]
  /\ got \in [Proc -> Device \cup Level]
  /\ missed \in SUBSET Handle
  /\ overtaken \in SUBSET Handle

\* No stream is opened before the tables are there: a client that comes between
\* the making of the segment and its filling in finds a table of length 0.
NoSoundBeforeTables ==
  \A h \in Handle : heard[h] # Silent => tables = "loaded"

\* A stream that was opened is heard at the volume of its type, as long as every
\* change of that volume reached it, PulseAudio took the gain each time, and no
\* change was given to it that was meant for another.
HeardAsSet ==
  \A h \in allocated \ missed :
    heard[h] # Silent /\ ~Opening(h) => heard[h] = volume[type[h]]

\* The table of a stream is the one of the output device, unless a request came
\* between the reading of the device and the choice of the table, or failed.
TableFollowsDevice ==
  ~routing => \A h \in allocated \ overtaken :
    mode[h] = "out" /\ ~Opening(h) => table[h] = <<type[h], device>>

=============================================================================
