-------------------------------- MODULE AvMute --------------------------------
(***************************************************************************)
(* Muting (avsys_audio_set_mute, avsys_audio_ext_device_ampon and _ampoff, *)
(* avsys_audio_set_global_mute): three layers that are kept in step under  *)
(* two locks.  Under the handle lock a call mutes the stream in PulseAudio *)
(* and decides from the amplifier bits whether the sound path should be    *)
(* muted; it gives that lock back, and applies its decision under the path *)
(* lock: the flag of the path first, then the script that mutes the codec. *)
(* The NOLOCK values of the global mute do the last part without a lock.   *)
(*                                                                         *)
(* The call to PulseAudio is the one of AvPaCtrl.  A lock whose owner died *)
(* comes back (AvSync).  No solo stream is open (AvHandle).                *)
(***************************************************************************)
EXTENDS AvPaCtrl, FiniteSets

CONSTANTS
  Client,       \* the client processes
  NoLocker,     \* those that use only the NOLOCK values of the global mute
  Nobody,       \* the owner of a lock that is free
  Handle,       \* the handles
  LowHandle,    \* those with a bit in handle_amp, an int
  Crashers,     \* the clients that may die
  ScriptFails   \* whether a mute script may fail

UNMUTE == 0
MUTE == 1
Mute == {UNMUTE, MUTE}

ASSUME MuteAssumption ==
  /\ Index = Handle
  /\ Value = Mute
  /\ Nobody \notin Client
  /\ NoLocker \subseteq Client
  /\ LowHandle \subseteq Handle
  /\ Crashers \subseteq Client
  /\ ScriptFails \in BOOLEAN

VARIABLES
  \* the segment of the handles
  allocated,    \* the handles that are open
  mute,         \* handles[h].mute
  handle_amp,   \* the handles whose bit is set
  ext_amp,      \* the bit of the radio in ext_device_amp
  cur,          \* the handle, if any, that set_mute is muting or unmuting
  handleLock,   \* the owner of the handle lock
  \* the segment of the path
  flag,         \* avsys_audio_path_ex_info_t.mute
  pathLock,     \* the owner of the path lock
  \* the hardware
  codec,        \* what the scripts left: muted or not
  \* each client
  pc,           \* where it is
  todo,         \* the mute it is about to apply
  \* history
  decider,      \* who decided last, until that is applied or overruled
  inOrder,      \* the last to decide was the last to apply
  torn          \* a script failed, or ran next to one of a NOLOCK call

amps == <<allocated, handle_amp, ext_amp>>
path == <<flag, codec>>
history == <<decider, inOrder, torn>>
muteVars == <<amps, mute, cur, handleLock, path, pathLock, pc, todo, history>>
vars == <<paVars, muteVars>>

-----------------------------------------------------------------------------

PC == {"idle", "pa", "apply", "pick", "run", "test", "set", "route", "dead"}

InScript == {"pick", "run"}

\* What the amplifier bits ask of the path.
Decide(amp, ext) == IF amp # {} \/ ext THEN UNMUTE ELSE MUTE

\* The clients, other than p, whose script may mix with one of p.
Mixing(p) ==
  { q \in Client \ {p} : pc[q] \in InScript /\ {p, q} \cap NoLocker # {} }

Goto(p, from, to) ==
  /\ pc[p] = from
  /\ pc' = [pc EXCEPT ![p] = to]

Init ==
  /\ PaInit
  /\ input = [h \in Handle |-> UNMUTE]
  /\ allocated = {}
  /\ mute = [h \in Handle |-> UNMUTE]
  /\ handle_amp = {}
  /\ ext_amp = FALSE
  /\ cur = {}
  /\ handleLock = Nobody
  /\ flag = UNMUTE
  /\ pathLock = Nobody
  /\ codec = UNMUTE
  /\ pc = [p \in Client |-> "idle"]
  /\ todo = [p \in Client |-> UNMUTE]
  /\ decider = Nobody
  /\ inOrder = FALSE
  /\ torn = FALSE

-----------------------------------------------------------------------------
(* Streams come and go (AvHandle has the steps) *)

\* The record is cleared, the new stream is heard.  The amplifier bit waits
\* for the first set_mute.
Open(p, h) ==
  /\ pc[p] = "idle" /\ p \notin NoLocker
  /\ handleLock = Nobody
  /\ h \notin allocated
  /\ allocated' = allocated \cup {h}
  /\ mute' = [mute EXCEPT ![h] = UNMUTE]
  /\ UNCHANGED <<paVars, handle_amp, ext_amp, cur, handleLock, path, pathLock,
                 pc, todo, history>>

\* avsys_audio_handle_free takes the bit back and leaves the path as it is.
\* The stream goes with the handle.
Free(p, h) ==
  /\ pc[p] = "idle" /\ p \notin NoLocker
  /\ handleLock = Nobody
  /\ h \in allocated
  /\ allocated' = allocated \ {h}
  /\ handle_amp' = handle_amp \ {h}
  /\ input' = [input EXCEPT ![h] = UNMUTE]
  /\ unsure' = unsure \ {h}
  /\ decider' = Nobody
  /\ inOrder' = FALSE
  /\ UNCHANGED <<session, mute, ext_amp, cur, handleLock, path, pathLock, pc,
                 todo, torn>>

-----------------------------------------------------------------------------
(* avsys_audio_handle_set_mute *)

SetMute(p, h, v) ==
  /\ p \notin NoLocker
  /\ handleLock = Nobody
  /\ h \in allocated
  /\ Goto(p, "idle", "pa")
  /\ handleLock' = p
  /\ mute' = [mute EXCEPT ![h] = v]
  /\ cur' = {h}
  /\ todo' = [todo EXCEPT ![p] = v]
  /\ \/ Connect(h, v)
     \/ ConnectFails(h)
  /\ UNCHANGED <<amps, path, pathLock, history>>

\* handle_amp after the handles in H were given the mute v.
AmpAfter(H, v) ==
  IF v = UNMUTE THEN handle_amp \cup (H \cap LowHandle) ELSE handle_amp \ H

\* p decides, and goes on to apply it.
Decided(p, amp, ext) ==
  /\ todo' = [todo EXCEPT ![p] = Decide(amp, ext)]
  /\ decider' = p
  /\ inOrder' = FALSE

\* Mutant: the path is decided before the bit is updated.
MuteDoneEarly(p) ==
  /\ ctx = "none"
  /\ Goto(p, "pa", "apply")
  /\ handle_amp' = AmpAfter(cur, todo[p])
  /\ Decided(p, handle_amp, ext_amp)
  /\ cur' = {}
  /\ handleLock' = Nobody
  /\ UNCHANGED <<paVars, allocated, ext_amp, mute, path, pathLock, torn>>

\* The call to PulseAudio is over, well or badly.
MuteDone(p) ==
  /\ ctx = "none"
  /\ Goto(p, "pa", "apply")
  /\ handle_amp' = AmpAfter(cur, todo[p])
  /\ Decided(p, handle_amp', ext_amp)
  /\ cur' = {}
  /\ handleLock' = Nobody
  /\ UNCHANGED <<paVars, allocated, ext_amp, mute, path, pathLock, torn>>

\* avsys_audio_handle_ext_dev_set_mute: MUTE sets the bit of the radio.
ExtMute(p, v) ==
  /\ p \notin NoLocker
  /\ handleLock = Nobody
  /\ Goto(p, "idle", "apply")
  /\ ext_amp' = (v = MUTE)
  /\ Decided(p, handle_amp, ext_amp')
  /\ UNCHANGED <<paVars, allocated, handle_amp, mute, cur, handleLock, path,
                 pathLock, torn>>

-----------------------------------------------------------------------------
(* avsys_audio_path_ex_set_mute *)

\* A value of set_global_mute, with the lock or without.
GlobalMute(p, v) ==
  /\ Goto(p, "idle", IF p \in NoLocker THEN "test" ELSE "apply")
  /\ todo' = [todo EXCEPT ![p] = v]
  /\ UNCHANGED <<paVars, amps, mute, cur, handleLock, path, pathLock, history>>

Return(p) ==
  /\ pc' = [pc EXCEPT ![p] = "idle"]
  /\ todo' = [todo EXCEPT ![p] = UNMUTE]

\* p's decision, if it has one, is no longer pending.
Settled(p) == decider' = IF decider = p THEN Nobody ELSE decider

\* Mutant: the NOLOCK values are stored as they are.
SetFlagRaw(p, v) ==
  /\ flag' = IF p \in NoLocker THEN v + 2 ELSE v
  /\ Settled(p)
  /\ inOrder' = (decider = p)
  /\ torn' = (Mixing(p) # {})

\* The path is muted or not, as far as the flag goes.
SetFlag(p, v) ==
  /\ flag' = v
  /\ Settled(p)
  /\ inOrder' = (decider = p)
  /\ torn' = (Mixing(p) # {})

\* The request of a path that is as requested is skipped.
Skip(p) ==
  /\ pc[p] = "apply"
  /\ pathLock = Nobody
  /\ flag = todo[p]
  /\ Return(p)
  /\ Settled(p)
  /\ inOrder' = (inOrder \/ decider = p)
  /\ UNCHANGED <<paVars, amps, mute, cur, handleLock, path, pathLock, torn>>

\* Mutant: the lock covers the test of the flag, not the script.
ApplyUnlocked(p) ==
  /\ pathLock = Nobody
  /\ flag # todo[p]
  /\ Goto(p, "apply", "pick")
  /\ SetFlag(p, todo[p])
  /\ UNCHANGED <<paVars, amps, mute, cur, handleLock, codec, pathLock, todo>>

Apply(p) ==
  /\ pathLock = Nobody
  /\ flag # todo[p]
  /\ Goto(p, "apply", "pick")
  /\ pathLock' = p
  /\ SetFlag(p, todo[p])
  /\ UNCHANGED <<paVars, amps, mute, cur, handleLock, codec, todo>>

NoLockTest(p) ==
  /\ pc[p] = "test"
  /\ IF flag = todo[p]
       THEN Return(p)
       ELSE pc' = [pc EXCEPT ![p] = "set"] /\ UNCHANGED todo
  /\ UNCHANGED <<paVars, amps, mute, cur, handleLock, path, pathLock, history>>

NoLockSet(p) ==
  /\ Goto(p, "set", "pick")
  /\ SetFlag(p, todo[p])
  /\ UNCHANGED <<paVars, amps, mute, cur, handleLock, codec, pathLock, todo>>

\* The script is chosen by the flag in shared memory, read again.
Pick(p) ==
  /\ Goto(p, "pick", "run")
  /\ todo' = [todo EXCEPT ![p] = flag]
  /\ UNCHANGED <<paVars, amps, mute, cur, handleLock, path, pathLock, history>>

\* The script runs, and the lock, if there is one, is given back.
Run(p) ==
  /\ pc[p] = "run"
  /\ Return(p)
  /\ \/ codec' = todo[p] /\ UNCHANGED torn
     \/ ScriptFails /\ torn' = TRUE /\ UNCHANGED codec
  /\ pathLock' = IF pathLock = p THEN Nobody ELSE pathLock
  /\ UNCHANGED <<paVars, amps, mute, cur, handleLock, flag, decider, inOrder>>

-----------------------------------------------------------------------------
(* Requests of the path: the path lock first, the handle lock inside it *)

Route(p) ==
  /\ p \notin NoLocker
  /\ pathLock = Nobody
  /\ Goto(p, "idle", "route")
  /\ pathLock' = p
  /\ UNCHANGED <<paVars, amps, mute, cur, handleLock, path, todo, history>>

\* avsys_audio_path_ex_reset clears the flag and runs no mute script.
Reset(p) ==
  /\ p \notin NoLocker
  /\ pathLock = Nobody
  /\ Goto(p, "idle", "route")
  /\ pathLock' = p
  /\ flag' = UNMUTE
  /\ inOrder' = FALSE
  /\ decider' = Nobody
  /\ torn' = (torn \/ codec # UNMUTE \/ \E q \in Client : pc[q] \in InScript)
  /\ UNCHANGED <<paVars, amps, mute, cur, handleLock, codec, todo>>

\* __avsys_audio_path_set_hw_controls updates the handles, under both locks.
Controls(p) ==
  /\ handleLock = Nobody
  /\ Goto(p, "route", "idle")
  /\ pathLock' = Nobody
  /\ UNCHANGED <<paVars, amps, mute, cur, handleLock, path, todo, history>>

-----------------------------------------------------------------------------
(* Crashes *)

Crash(p) ==
  /\ p \in Crashers
  /\ pc[p] \notin {"idle", "dead"}
  /\ pc' = [pc EXCEPT ![p] = "dead"]
  /\ IF pc[p] = "pa" /\ ctx # "none" THEN Abandon ELSE UNCHANGED paVars
  /\ cur' = IF pc[p] = "pa" THEN {} ELSE cur
  /\ todo' = [todo EXCEPT ![p] = UNMUTE]
  /\ torn' = (torn \/ pc[p] \in InScript)
  /\ UNCHANGED <<amps, mute, handleLock, path, pathLock, decider, inOrder>>

\* Whoever waits for the lock of a dead owner gives it back.
Recover ==
  /\ \E p \in Crashers :
       /\ pc[p] = "dead"
       /\ p \in {handleLock, pathLock}
       /\ handleLock' = IF handleLock = p THEN Nobody ELSE handleLock
       /\ pathLock' = IF pathLock = p THEN Nobody ELSE pathLock
  /\ UNCHANGED <<paVars, amps, mute, cur, path, pc, todo, history>>

-----------------------------------------------------------------------------

\* The rest of a call, once it was made.
Advance(p) ==
  \/ MuteDone(p) \/ Skip(p) \/ Apply(p)
  \/ NoLockTest(p) \/ NoLockSet(p)
  \/ Pick(p) \/ Run(p) \/ Controls(p)

Pulse == PaStep /\ UNCHANGED muteVars

Next ==
  \/ \E p \in Client :
       \/ \E h \in Handle : Open(p, h) \/ Free(p, h)
       \/ \E h \in Handle, v \in Mute : SetMute(p, h, v)
       \/ \E v \in Mute : ExtMute(p, v) \/ GlobalMute(p, v)
       \/ Route(p) \/ Reset(p)
       \/ Advance(p)
       \/ Crash(p)
  \/ Pulse
  \/ Recover

Spec == Init /\ [][Next]_vars

\* A client whose call can go on goes on, PulseAudio answers what it is asked,
\* the sleeper that was woken wakes up, and a lock of the dead is recovered.
Fairness ==
  /\ \A p \in Client : WF_vars(Advance(p))
  /\ WF_vars(PaAnswers /\ UNCHANGED muteVars)
  /\ WF_vars(Wake /\ UNCHANGED muteVars)
  /\ WF_vars(Recover)

FairSpec == Spec /\ Fairness

-----------------------------------------------------------------------------
(* Properties *)

TypeOK ==
  /\ PaTypeOK
  /\ allocated \in SUBSET Handle
  /\ mute \in [Handle -> Mute]
  /\ handle_amp \in SUBSET LowHandle
  /\ ext_amp \in BOOLEAN
  /\ cur \in SUBSET Handle
  /\ handleLock \in Client \cup {Nobody}
  /\ flag \in Mute
  /\ pathLock \in Client \cup {Nobody}
  /\ codec \in Mute
  /\ pc \in [Client -> PC]
  /\ todo \in [Client -> Mute]
  /\ decider \in Client \cup {Nobody}
  /\ inOrder \in BOOLEAN
  /\ torn \in BOOLEAN

\* The decision is made under one lock and applied under another: as long as
\* the last to decide is the last to apply, the path is muted exactly when no
\* amplifier bit is set.
PathFollowsAmps == inOrder => flag = Decide(handle_amp, ext_amp)

\* The flag is shared before the script runs, and the script is chosen by
\* reading it again: when no script is running, none has failed and none ran
\* next to one of a NOLOCK call, the codec is what the flag says.
CodecFollowsFlag ==
  (torn \/ \E p \in Client : pc[p] \in InScript) \/ codec = flag

\* What the record of an open handle says is what PulseAudio does with its
\* stream, unless the last call about it failed or was refused, or is running.
StreamFollowsRecord ==
  \A h \in allocated \ unsure : input[h] = mute[h]

\* Every lock that is held is on its way back, and nobody waits in a circle: its
\* owner is dead and can be recovered from, or it runs a script, or it waits for
\* something that waits for none of this.  A request of the path waits for the
\* handle lock, a call under the handle lock for PulseAudio alone; there, a
\* context that has failed has woken the caller, and a ready one has an operation
\* under way.
NoLockIsStranded ==
  /\ \A p \in Client : handleLock = p =>
       \/ pc[p] = "dead" /\ p \in Crashers
       \/ /\ pc[p] = "pa"
          /\ ctx = "failed" => woken
          /\ ctx = "ready" => op # "none"
  /\ \A p \in Client : pathLock = p =>
       \/ pc[p] = "dead" /\ p \in Crashers
       \/ pc[p] \in InScript \cup {"route"}

\* Nothing that is done under the handle lock can keep it for ever: not the
\* call to PulseAudio, and no wait for the path lock, which is taken the other
\* way round by the requests of the path.
HandleLockComesBack == \A p \in Client : handleLock = p ~> handleLock # p

=============================================================================
