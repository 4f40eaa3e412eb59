------------------------------ MODULE AvHandle ------------------------------
(***************************************************************************)
(* The handle table in shared memory and what avsys_audio_open and         *)
(* avsys_audio_close (avsys-audio.c) do to it: the reclaiming of handles   *)
(* whose process died (avsys_audio_handle_rejuvenation), allocation and    *)
(* release, and the solo policy that mutes or fades the normal streams     *)
(* while a handle of high priority is open (avsys-audio-handle.c).         *)
(*                                                                         *)
(* A step is one critical section of the handle semaphore, or one write    *)
(* made outside of it; AvSync says how far that lock can be relied on.     *)
(* The gaps between the steps are the subject: a handle is allocated in    *)
(* one step and gets its owner's pid two steps later, and dead handles are *)
(* listed in one step and freed, one by one, in others.                    *)
(***************************************************************************)
EXTENDS Integers, FiniteSets, FiniteSetsExt

CONSTANTS
  Proc,         \* the client processes
  HandleMax,    \* AVSYS_AUDIO_HANDLE_MAX
  IntBits,      \* the width of the int that lists the dead handles
  NoPid,        \* the pid of a cleared record
  Priorities,   \* the priorities the clients ask for, out of 0, 1, 2
  Modes,        \* "out" and "in": the open modes the clients use
  Crashers,     \* the processes that may die
  CrashPoints,  \* the places of a call where they may
  OpenFails,    \* whether PulseAudio may refuse a stream
  CallFails,    \* whether PulseAudio may refuse to mute or unmute one
  OneOpener     \* whether at most one process at a time is inside open

ASSUME HandleAssumption ==
  /\ HandleMax \in Nat \ {0}
  /\ IntBits \in Nat \ {0}
  /\ NoPid \notin Proc
  /\ Priorities \subseteq 0 .. 2
  /\ Modes \subseteq {"out", "in"}
  /\ Crashers \subseteq Proc
  /\ OpenFails \in BOOLEAN
  /\ CallFails \in BOOLEAN
  /\ OneOpener \in BOOLEAN

Handle == 0 .. HandleMax - 1

\* What the number of a capture stream can be among those of the playback
\* streams, when it is not the number of one: nobody's, or not yet given out.
NoHandle == -1
Ahead == -2

VARIABLES
  \* shared memory
  allocated,  \* the handles whose bit is set
  pid,        \* handles[h].pid
  priority,   \* handle_priority[h]
  want,       \* handles[h].priority, the one asked for
  stream,     \* handles[h].stream_index # 0
  mute,       \* handles[h].mute
  ramp,       \* the sign of handles[h].fadeup_vol
  \* PulseAudio
  sink,       \* the playback stream of the handle
  twin,       \* the handle whose playback stream bears the number that the
              \* capture stream of this record has, or had
  level,      \* its volume
  \* each process
  pc,         \* where it is inside open or close
  cur,        \* the handle it is opening or closing
  dead,       \* dead_handle: the handles it has yet to clean up
  again,      \* open is in its second try
  mine,       \* the handles its application has open
  stolen,     \* history: a cleanup freed a handle of a live process
  faded,      \* history: the policy was last carried out as a fade
  amiss       \* history: the playback streams whose last mute call failed, or
              \* which got one that was meant for a capture stream

record == <<pid, want, stream>>
policy == <<mute, ramp, sink, twin, faded, amiss>>
local == <<cur, dead, again, mine>>
vars == <<allocated, record, priority, policy, level, pc, local, stolen>>

-----------------------------------------------------------------------------

Opening == {"zero", "sign", "ptr", "prio", "dev", "devin", "rel", "fail"}
Closing == {"unset", "cdev", "crel", "cfree"}
PC == {"idle", "scan", "reset", "free", "rebalance", "alloc", "dead"}
        \cup Opening \cup Closing

Alive(p) == pc[p] # "dead"

\* avsys_check_process: the pid has an entry in /proc.
Running(x) == x \in Proc /\ pc[x] # "dead"

\* The handles a live process has been given and has not given back.
Held(p) == mine[p] \cup (IF pc[p] \in Opening THEN {cur[p]} ELSE {})

\* Mutant: the last bit of the list is lost.
TruncatedShort(S) == { h \in S : h < IntBits - 1 }

\* dead_handle |= flag << i, in an int.
Truncated(S) == { h \in S : h < IntBits }

\* dead_handle & (flag << i), with the int widened to a long long.
SignExtended(S) ==
  IF IntBits - 1 \in S THEN S \cup { h \in Handle : h >= IntBits } ELSE S

Goto(p, from, to) ==
  /\ pc[p] = from
  /\ pc' = [pc EXCEPT ![p] = to]

Init ==
  /\ allocated = {}
  /\ pid = [h \in Handle |-> NoPid]
  /\ priority = [h \in Handle |-> 0]
  /\ want = [h \in Handle |-> 0]
  /\ stream = [h \in Handle |-> FALSE]
  /\ mute = [h \in Handle |-> FALSE]
  /\ ramp = [h \in Handle |-> "none"]
  /\ sink = [h \in Handle |-> "none"]
  /\ level = [h \in Handle |-> "full"]
  /\ pc = [p \in Proc |-> "idle"]
  /\ cur = [p \in Proc |-> 0]
  /\ dead = [p \in Proc |-> {}]
  /\ again = [p \in Proc |-> FALSE]
  /\ mine = [p \in Proc |-> {}]
  /\ stolen = FALSE
  /\ faded = FALSE
  /\ twin = [h \in Handle |-> NoHandle]
  /\ amiss = {}

\* The playback streams of S end; PulseAudio does not give their numbers again.
StreamsEnd(S) ==
  /\ sink' = [h \in Handle |-> IF h \in S THEN "none" ELSE sink[h]]
  /\ twin' = [h \in Handle |-> IF twin[h] \in S THEN NoHandle ELSE twin[h]]
  /\ amiss' = amiss \ S

\* The end of a process: the shared memory keeps what it had there, PulseAudio
\* drops its streams.
Die(p) ==
  /\ pc' = [pc EXCEPT ![p] = "dead"]
  /\ StreamsEnd(Held(p))
  /\ dead' = [dead EXCEPT ![p] = {}]
  /\ mine' = [mine EXCEPT ![p] = {}]
  /\ UNCHANGED <<allocated, record, priority, mute, ramp, level, cur, again,
                 stolen, faded>>

-----------------------------------------------------------------------------
(* avsys_audio_handle_rejuvenation, the first thing open does *)

StartOpen(p) ==
  /\ OneOpener => \A q \in Proc : pc[q] \in {"idle", "dead"} \cup Closing
  /\ Goto(p, "idle", "scan")
  /\ UNCHANGED <<allocated, record, priority, policy, level, local, stolen>>

Scan(p) ==
  LET found == Truncated({ h \in allocated : ~Running(pid[h]) })
  IN  /\ Goto(p, "scan", IF found = {} THEN "alloc" ELSE "reset")
      /\ dead' = [dead EXCEPT ![p] = SignExtended(found)]
      /\ UNCHANGED <<allocated, record, priority, policy, level, cur, again,
                     mine, stolen>>

\* Mutant: the priority of a dead handle is left as it is.
ResetPriorityNot(p) ==
  /\ Goto(p, "reset", "free")
  /\ UNCHANGED <<allocated, record, priority, policy, level, local, stolen>>

\* "set priority of dead handle as lowest", without the lock
ResetPriority(p) ==
  /\ Goto(p, "reset", "free")
  /\ priority' = [priority EXCEPT ![Min(dead[p])] = 0]
  /\ UNCHANGED <<allocated, record, policy, level, local, stolen>>

\* Mutant: the loop over the list does not end with its last handle.
FreeDeadOn(p) ==
  LET h == Min(dead[p])
  IN  /\ Goto(p, "free", "reset")
      /\ allocated' = allocated \ {h}
      /\ dead' = [dead EXCEPT ![p] = @ \ {h}]
      /\ UNCHANGED <<record, priority, policy, level, cur, again, mine, stolen>>

\* Mutant: only the first handle of the list is cleaned up.
FreeDeadOne(p) ==
  LET h == Min(dead[p])
  IN  /\ Goto(p, "free", "rebalance")
      /\ allocated' = allocated \ {h}
      /\ dead' = [dead EXCEPT ![p] = @ \ {h}]
      /\ stolen' = (stolen \/ /\ h \in allocated
                              /\ \E q \in Proc : Alive(q) /\ h \in Held(q))
      /\ UNCHANGED <<record, priority, policy, level, cur, again, mine>>

\* "free this handle": whoever has it by now
FreeDead(p) ==
  LET h == Min(dead[p])
  IN  /\ Goto(p, "free", IF dead[p] = {h} THEN "rebalance" ELSE "reset")
      /\ allocated' = allocated \ {h}
      /\ dead' = [dead EXCEPT ![p] = @ \ {h}]
      /\ stolen' = (stolen \/ /\ h \in allocated
                              /\ \E q \in Proc : Alive(q) /\ h \in Held(q))
      /\ UNCHANGED <<record, priority, policy, level, cur, again, mine>>

\* Mutant: the records are set straight and PulseAudio is not told.
RebalanceRecords(p) ==
  LET high == \E h \in Handle : priority[h] > 0
  IN  /\ Goto(p, "rebalance", "alloc")
      /\ mute' = [h \in Handle |-> high /\ priority[h] = 0]
      /\ faded' = FALSE
      /\ UNCHANGED <<allocated, record, priority, ramp, sink, twin, amiss, level,
                     local, stolen>>

\* The playback stream that a mute call with the number in record h reaches: the
\* number is that of a source output if the handle was opened for capture, and
\* is looked up among the sink inputs all the same.
Target(h) == IF sink[h] # "none" THEN h ELSE twin[h]

\* avsys_audio_pa_ctrl_mute_by_index for the records of a set, from the first to
\* the last.  A call that fails is logged and forgotten.
MuteCalls(calls, silence) ==
  \E failed \in IF CallFails THEN SUBSET calls ELSE {{}} :
    LET reached(k) == { h \in calls \ failed : Target(h) = k }
    IN  /\ sink' = [k \in Handle |->
                      IF sink[k] = "none" \/ reached(k) = {} THEN sink[k]
                      ELSE IF silence[Max(reached(k))] THEN "muted" ELSE "on"]
        /\ amiss' = { k \in Handle : sink[k] # "none" /\
                        \/ k \in failed
                        \/ reached(k) \ {k} # {}
                        \/ k \in amiss \ calls }
        /\ UNCHANGED twin

\* Every record is brought in line with the priorities, free ones included.
Rebalance(p) ==
  LET high == \E h \in Handle : priority[h] > 0
      quiet == [h \in Handle |-> high /\ priority[h] = 0]
  IN  /\ Goto(p, "rebalance", "alloc")
      /\ mute' = quiet
      /\ MuteCalls({ h \in Handle : mute[h] # quiet[h] }, quiet)
      /\ faded' = FALSE
      /\ UNCHANGED <<allocated, record, priority, ramp, level, local, stolen>>

-----------------------------------------------------------------------------
(* The rest of avsys_audio_open *)

\* Mutant: the free bit is found and not set.
AllocUnset(p) ==
  LET free == Handle \ allocated
  IN  /\ free # {}
      /\ Goto(p, "alloc", "zero")
      /\ cur' = [cur EXCEPT ![p] = Min(free)]
      /\ again' = [again EXCEPT ![p] = FALSE]
      /\ UNCHANGED <<allocated, record, priority, policy, level, dead, mine,
                     stolen>>

\* avsys_audio_handle_alloc, as far as it holds the lock
Alloc(p) ==
  LET free == Handle \ allocated
  IN  /\ free # {}
      /\ Goto(p, "alloc", "zero")
      /\ cur' = [cur EXCEPT ![p] = Min(free)]
      /\ allocated' = allocated \cup {Min(free)}
      /\ again' = [again EXCEPT ![p] = FALSE]
      /\ UNCHANGED <<record, priority, policy, level, dead, mine, stolen>>

\* ERR_RANGE_OVER: one more rejuvenation, one more try
AllocFull(p) ==
  /\ allocated = Handle
  /\ Goto(p, "alloc", IF again[p] THEN "idle" ELSE "scan")
  /\ again' = [again EXCEPT ![p] = ~@]
  /\ UNCHANGED <<allocated, record, priority, policy, level, cur, dead, mine,
                 stolen>>

\* memset of the record, after the unlock
ZeroRecord(p) ==
  LET h == cur[p]
  IN  /\ Goto(p, "zero", "sign")
      /\ pid' = [pid EXCEPT ![h] = NoPid]
      /\ want' = [want EXCEPT ![h] = 0]
      /\ stream' = [stream EXCEPT ![h] = FALSE]
      /\ mute' = [mute EXCEPT ![h] = FALSE]
      /\ ramp' = [ramp EXCEPT ![h] = "none"]
      /\ twin' = [twin EXCEPT ![h] = NoHandle]
      /\ UNCHANGED <<allocated, priority, sink, faded, amiss, level, local, stolen>>

\* Mutant: the record is never signed.
SignRecordNot(p) ==
  /\ Goto(p, "sign", "ptr")
  /\ UNCHANGED <<allocated, record, priority, policy, level, local, stolen>>

SignRecord(p) ==
  /\ Goto(p, "sign", "ptr")
  /\ pid' = [pid EXCEPT ![cur[p]] = p]
  /\ UNCHANGED <<allocated, want, stream, priority, policy, level, local,
                 stolen>>

\* avsys_audio_handle_get_ptr and __avsys_audio_set_info
GetPtr(p) ==
  LET h == cur[p]
  IN  IF h \in allocated
        THEN /\ \E mode \in Modes :
                  Goto(p, "ptr", IF mode = "out" THEN "prio" ELSE "devin")
             /\ \E w \in Priorities : want' = [want EXCEPT ![h] = w]
             /\ ramp' = [ramp EXCEPT ![h] = "none"]
             /\ UNCHANGED <<allocated, pid, stream, priority, mute, sink, twin,
                            faded, amiss, level, local, stolen>>
        ELSE /\ Goto(p, "ptr", "fail")
             /\ UNCHANGED <<allocated, record, priority, policy, level, local,
                            stolen>>

\* Mutant: the solo handles are silenced with the others.
SwayAll(newPriority, unsetTwo) ==
  LET high == \E h \in Handle : newPriority[h] > 0
      swayed(h) == h \in allocated /\ stream[h]
  IN  /\ priority' = newPriority
      /\ ramp' = [h \in Handle |-> IF ~swayed(h) THEN ramp[h]
                                   ELSE IF high THEN "out" ELSE "in"]
      /\ UNCHANGED <<mute, sink, twin, faded, amiss>>

\* The body of avsys_audio_handle_update_priority under the lock: who is muted,
\* who is unmuted, and who is left to fade with its own writes.
Sway(newPriority, unsetTwo) ==
  LET high == \E h \in Handle : newPriority[h] > 0
      transition == unsetTwo \/ \E h \in Handle : newPriority[h] = 2
      swayed(h) == h \in allocated /\ stream[h] /\ newPriority[h] = 0
  IN  /\ priority' = newPriority
      /\ faded' = transition
      /\ IF transition
           THEN /\ ramp' = [h \in Handle |->
                              IF ~swayed(h) THEN ramp[h]
                              ELSE IF high THEN "out" ELSE "in"]
                /\ UNCHANGED <<mute, sink, twin, amiss>>
           ELSE /\ mute' = [h \in Handle |-> IF swayed(h) THEN high ELSE mute[h]]
                /\ MuteCalls({ h \in Handle : swayed(h) /\ (high \/ mute[h]) },
                             [h \in Handle |-> high])
                /\ UNCHANGED ramp

SetPriority(p) ==
  LET h == cur[p]
  IN  /\ IF h \in allocated
           THEN /\ Goto(p, "prio", "dev")
                /\ Sway([priority EXCEPT ![h] = want[h]], FALSE)
           ELSE /\ Goto(p, "prio", "fail")
                /\ UNCHANGED <<priority, policy>>
      /\ UNCHANGED <<allocated, record, level, local, stolen>>

\* A new sink input is not muted.  Its number may be that of one capture stream
\* whose own was ahead.
OpenSink(h) ==
  /\ sink' = [sink EXCEPT ![h] = "on"]
  /\ \E T \in SUBSET { c \in Handle : twin[c] = Ahead } :
       /\ \A c, d \in T : c = d
       /\ twin' = [c \in Handle |-> IF c \in T THEN h ELSE twin[c]]
  /\ amiss' = amiss \ {h}

\* A source output has no sink input, and its number comes from another count:
\* no two source outputs have the same.
OpenSource(h) ==
  /\ sink' = [sink EXCEPT ![h] = "none"]
  /\ \E t \in {NoHandle, Ahead} \cup { k \in Handle : sink[k] # "none" } :
       /\ t \in Handle => \A c \in Handle : twin[c] # t
       /\ twin' = [twin EXCEPT ![h] = t]
  /\ UNCHANGED amiss

\* avsys_audio_pasimple_open_device and the first volume of the stream: the
\* index of either kind goes into stream_index.  (It is taken as not 0 here:
\* the number of the system's own mono stream.)
OpenDevice(p) ==
  LET h == cur[p]
  IN  /\ \/ Goto(p, "dev", "rel") /\ OpenSink(h)
         \/ Goto(p, "devin", "rel") /\ OpenSource(h)
      /\ stream' = [stream EXCEPT ![h] = TRUE]
      /\ level' = [level EXCEPT ![h] = "full"]
      /\ UNCHANGED <<allocated, pid, want, priority, mute, ramp, faded, local, stolen>>

DeviceRefused(p) ==
  /\ OpenFails
  /\ Goto(p, "dev", "fail") \/ Goto(p, "devin", "fail")
  /\ UNCHANGED <<allocated, record, priority, policy, level, local, stolen>>

\* avsys_audio_handle_release_ptr decides whether the client gets the handle.
ReleasePtr(p) ==
  LET h == cur[p]
  IN  /\ IF h \in allocated
           THEN /\ Goto(p, "rel", "idle")
                /\ mine' = [mine EXCEPT ![p] = @ \cup {h}]
           ELSE /\ Goto(p, "rel", "fail")
                /\ UNCHANGED mine
      /\ UNCHANGED <<allocated, record, priority, policy, level, cur, dead,
                     again, stolen>>

\* error: only the bit is cleared
FailOpen(p) ==
  /\ Goto(p, "fail", "idle")
  /\ allocated' = allocated \ {cur[p]}
  /\ UNCHANGED <<record, priority, policy, level, local, stolen>>

-----------------------------------------------------------------------------
(* avsys_audio_close *)

StartClose(p) ==
  \E h \in mine[p] :
    IF h \in allocated
      THEN /\ Goto(p, "idle", "unset")
           /\ cur' = [cur EXCEPT ![p] = h]
           /\ UNCHANGED <<allocated, record, priority, policy, level, dead,
                          again, mine, stolen>>
      ELSE /\ pc[p] = "idle"
           /\ mine' = [mine EXCEPT ![p] = @ \ {h}]
           /\ UNCHANGED <<allocated, record, priority, policy, level, pc, cur,
                          dead, again, stolen>>

UnsetPriority(p) ==
  LET h == cur[p]
  IN  /\ Goto(p, "unset", "cdev")
      /\ IF h \in allocated
           THEN Sway([priority EXCEPT ![h] = 0], want[h] = 2)
           ELSE UNCHANGED <<priority, policy>>
      /\ UNCHANGED <<allocated, record, level, local, stolen>>

\* The device pointer is one of the own address space, unless the record has
\* become another process's: what using it does then is undefined.
CloseDevice(p) ==
  LET h == cur[p]
  IN  \/ /\ Goto(p, "cdev", "crel")
         /\ StreamsEnd({h})
         /\ UNCHANGED <<allocated, record, priority, mute, ramp, level, local,
                        stolen, faded>>
      \/ /\ pid[h] # p
         /\ pc[p] = "cdev"
         /\ Die(p)

CheckRelease(p) ==
  LET h == cur[p]
  IN  /\ IF h \in allocated
           THEN /\ Goto(p, "crel", "cfree")
                /\ UNCHANGED mine
           ELSE /\ Goto(p, "crel", "idle")
                /\ mine' = [mine EXCEPT ![p] = @ \ {h}]
      /\ UNCHANGED <<allocated, record, priority, policy, level, cur, dead,
                     again, stolen>>

\* Mutant: the bit stays.
FreeOwnNot(p) ==
  /\ Goto(p, "cfree", "idle")
  /\ mine' = [mine EXCEPT ![p] = @ \ {cur[p]}]
  /\ UNCHANGED <<allocated, record, priority, policy, level, cur, dead, again,
                 stolen>>

FreeOwn(p) ==
  LET h == cur[p]
  IN  /\ Goto(p, "cfree", "idle")
      /\ allocated' = allocated \ {h}
      /\ mine' = [mine EXCEPT ![p] = @ \ {h}]
      /\ UNCHANGED <<record, priority, policy, level, cur, dead, again, stolen>>

-----------------------------------------------------------------------------

\* The fade of avsys_audio_write, taken to its end: in ends at the setting
\* volume, out at zero, and out marks the record with every further write.
Write(p) ==
  \E h \in mine[p] :
    /\ pc[p] = "idle"
    /\ h \in allocated
    /\ sink[h] # "none"
    /\ ramp[h] # "none"
    /\ level' = [level EXCEPT ![h] = IF ramp[h] = "in" THEN "full" ELSE "zero"]
    /\ ramp' = [ramp EXCEPT ![h] = IF @ = "in" THEN "none" ELSE @]
    /\ mute' = [mute EXCEPT ![h] = @ \/ ramp[h] = "out"]
    /\ UNCHANGED <<allocated, record, priority, sink, twin, pc, local, stolen,
                   faded, amiss>>

Crash(p) ==
  /\ p \in Crashers
  /\ pc[p] \in CrashPoints
  /\ Die(p)

\* What a call does once it has been made.
Advance(p) ==
  \/ Scan(p) \/ ResetPriority(p) \/ FreeDead(p) \/ Rebalance(p)
  \/ Alloc(p) \/ AllocFull(p) \/ ZeroRecord(p) \/ SignRecord(p) \/ GetPtr(p)
  \/ SetPriority(p) \/ OpenDevice(p) \/ DeviceRefused(p)
  \/ ReleasePtr(p) \/ FailOpen(p)
  \/ UnsetPriority(p) \/ CloseDevice(p) \/ CheckRelease(p) \/ FreeOwn(p)

Next ==
  \E p \in Proc : StartOpen(p) \/ StartClose(p) \/ Advance(p) \/ Write(p) \/ Crash(p)

Spec == Init /\ [][Next]_vars

\* A call that was made runs until it returns or its process dies.
FairSpec == Spec /\ \A p \in Proc : WF_vars(Advance(p))

-----------------------------------------------------------------------------
(* Properties *)

TypeOK ==
  /\ allocated \subseteq Handle
  /\ pid \in [Handle -> Proc \cup {NoPid}]
  /\ priority \in [Handle -> 0 .. 2]
  /\ want \in [Handle -> 0 .. 2]
  /\ stream \in [Handle -> BOOLEAN]
  /\ mute \in [Handle -> BOOLEAN]
  /\ ramp \in [Handle -> {"none", "in", "out"}]
  /\ sink \in [Handle -> {"none", "on", "muted"}]
  /\ level \in [Handle -> {"full", "zero"}]
  /\ pc \in [Proc -> PC]
  /\ cur \in [Proc -> Handle]
  /\ dead \in [Proc -> SUBSET Handle]
  /\ again \in [Proc -> BOOLEAN]
  /\ mine \in [Proc -> SUBSET Handle]
  /\ stolen \in BOOLEAN
  /\ faded \in BOOLEAN
  /\ twin \in [Handle -> Handle \cup {NoHandle, Ahead}]
  /\ amiss \subseteq Handle
  /\ \A p \in Proc : pc[p] \in {"reset", "free"} => dead[p] # {}

\* As long as no cleanup has freed a handle of a live process: what a process
\* was given is allocated, is given to nobody else, and bears its pid from the
\* moment open has signed it until close has freed it.
Ownership ==
  ~stolen =>
    /\ \A p \in Proc : Held(p) \subseteq allocated
    /\ \A p, q \in Proc : p # q => Held(p) \cap Held(q) = {}
    /\ \A p \in Proc : \A h \in Held(p) :
         pid[h] = p \/ (h = cur[p] /\ pc[p] \in {"zero", "sign"})

\* "check pid of handle... still alive?" and "Cleanup dead handle...": the
\* cleanup frees no handle of a process that is alive.
OnlyTheDeadAreCleaned == ~stolen

\* A handle whose process is gone and that nobody else was given since.
Leaked(h) ==
  /\ h \in allocated
  /\ ~Running(pid[h])
  /\ \A p \in Proc : h \notin Held(p)

\* An open that runs to its end brings back every leaked handle it was there
\* to see, if the int that lists the dead handles has a bit for it.
LowLeaksAreReclaimed ==
  \A p \in Proc \ Crashers : \A h \in Handle :
    (h < IntBits /\ pc[p] = "scan" /\ Leaked(h)) ~> ~Leaked(h)

\* No leaked handle is passed over on the way: the list takes in every one that
\* it has a bit for, and the cleaner goes on until all it has listed are freed,
\* whatever the others allocate, free and list meanwhile.
NoLeakIsPassedOver ==
  [][\A p \in Proc : \A h \in Handle :
       /\ pc[p] = "scan" /\ pc'[p] \notin {"scan", "dead"} /\ Leaked(h) /\ h < IntBits
            => pc'[p] = "reset" /\ h \in dead'[p]
       /\ pc[p] \in {"reset", "free"} /\ pc'[p] # "dead" /\ h \in dead[p]
            => \/ pc'[p] \in {"reset", "free"} /\ h \in dead'[p]
               \/ h \notin allocated']_vars

\* No call is under way, and every allocated handle is a live process's.
Settled ==
  /\ \A p \in Proc : pc[p] \in {"idle", "dead"}
  /\ \A h \in allocated : Running(pid[h])

Playing(h) == \E p \in Proc : h \in mine[p] /\ sink[h] # "none"

\* A stream that can be heard, or will be when it is written to.
Heard(h) == sink[h] = "on" /\ (level[h] = "full" \/ ramp[h] = "in")

\* An open solo handle has the priority it asked for and is heard, whatever the
\* other processes opened, closed or cleaned up meanwhile, unless a call to mute
\* its stream failed or one meant for a capture stream reached it.
SoloIsHeard ==
  \A p \in Proc : \A h \in mine[p] :
    (~stolen /\ pc[p] = "idle" /\ Playing(h) /\ want[h] > 0)
      => priority[h] = want[h] /\ (h \in amiss \/ Heard(h))

\* When the last solo handle is gone, closed or cleaned up, no stream it had
\* muted stays muted, whose mute calls all succeeded and were its own since the
\* last that did not.  Two ways out of step are left aside: a policy that was
\* last carried out as a fade, which undoes a fade and no mute, and a cleaner
\* that died after the owner of the handle.
MutedComeBack ==
  /\ Settled /\ ~stolen /\ ~faded
  /\ \A h \in Handle : priority[h] = 0
  /\ \A p, q \in Proc : pc[p] = "dead" /\ pc[q] = "dead" => p = q
  => \A h \in Handle : Playing(h) /\ h \notin amiss => sink[h] = "on"

\* No priority outlives the handle it was set for.
NoPriorityWithoutHandle ==
  Settled /\ ~stolen => \A h \in Handle : priority[h] > 0 => h \in allocated

\* The table the clients see: what they have been given and have not given back,
\* and the rest of the bits.
Table == INSTANCE AvTable WITH
  has <- [p \in Proc |-> Held(p)],
  leaked <- allocated \ UNION { Held(p) : p \in Proc },
  gone <- { p \in Proc : pc[p] = "dead" }

ImplementsTable == Table!TableSpec

=============================================================================
