----------------------------- MODULE AvMuteProofs -----------------------------
(***************************************************************************)
(* Theorems about AvMute, for any number of clients and handles, whoever   *)
(* may die, and whether scripts fail or not.                               *)
(***************************************************************************)
EXTENDS AvMute, AvPaCtrlProofs

-----------------------------------------------------------------------------
(* Types and locks *)

\* Where a client is tells which locks it owns, and which it never takes.
LockInv ==
  /\ \A p \in Client : pc[p] = "pa" => handleLock = p
  /\ ctx # "none" => \E p \in Client : pc[p] = "pa"
  /\ \A p \in Client : pc[p] \in {"pa", "apply", "route"} => p \notin NoLocker
  /\ \A p \in Client : pc[p] \in {"test", "set"} => p \in NoLocker
  /\ \A p \in Client : pc[p] \in {"pick", "run", "route"} =>
       p \in NoLocker \/ pathLock = p

LEMMA InitTypes == Init => TypeOK /\ PaInv /\ LockInv
BY PaInitInv, MuteAssumption
DEF Init, TypeOK, PaInit, PaTypeOK, LockInv, PC, Mute, UNMUTE

LEMMA DecideType ==
  ASSUME NEW A, NEW e PROVE Decide(A, e) \in Mute
BY DEF Decide, Mute

\* With the handle lock free, nobody is in a call to PulseAudio.
LEMMA FreeLockNoCall ==
  ASSUME LockInv, handleLock = Nobody
  PROVE  ctx = "none"
BY MuteAssumption DEF LockInv

\* The call to PulseAudio goes on, or starts, or ends, or is not touched.
LEMMA CallStep ==
  ASSUME TypeOK, PaInv, LockInv, [Next]_vars
  PROVE  PaTypeOK' /\ PaInv'
<1>1. CASE UNCHANGED paVars
  BY <1>1 DEF paVars, session, TypeOK, PaTypeOK, PaInv
<1>2. ASSUME NEW p \in Client, NEW h \in Handle, Free(p, h)
      PROVE  PaTypeOK' /\ PaInv'
  BY <1>2, FreeLockNoCall, MuteAssumption
  DEF Free, session, TypeOK, PaTypeOK, PaInv, Mute
<1>3. ASSUME NEW p \in Client, NEW h \in Handle, NEW v \in Mute, SetMute(p, h, v)
      PROVE  PaTypeOK' /\ PaInv'
  BY <1>3, ConnectKeeps, ConnectFailsKeeps, MuteAssumption DEF SetMute, TypeOK
<1>4. ASSUME NEW p \in Client, Crash(p)
      PROVE  PaTypeOK' /\ PaInv'
  BY <1>1, <1>4, AbandonKeeps DEF Crash, TypeOK
<1>5. CASE Pulse
  BY <1>5, PaStepKeeps DEF Pulse, TypeOK
<1>6. ASSUME NEW p \in Client, Advance(p)
      PROVE  UNCHANGED paVars
  BY <1>6 DEF Advance, MuteDone, Skip, Apply, NoLockTest, NoLockSet, Pick, Run,
              Controls
<1>7. CASE UNCHANGED vars
  BY <1>1, <1>7 DEF vars
<1> QED
  BY <1>1, <1>2, <1>3, <1>4, <1>5, <1>6, <1>7
  DEF Next, Open, ExtMute, GlobalMute, Route, Reset, Recover

\* The three Boolean variables.
LEMMA FlagsStep ==
  ASSUME TypeOK, [Next]_vars
  PROVE  torn' \in BOOLEAN /\ inOrder' \in BOOLEAN /\ ext_amp' \in BOOLEAN
<1>1. torn \in BOOLEAN /\ inOrder \in BOOLEAN /\ ext_amp \in BOOLEAN
  BY DEF TypeOK
<1>2. CASE UNCHANGED <<ext_amp, history>>
  BY <1>1, <1>2 DEF history
<1>3. ASSUME NEW p \in Client, NEW h \in Handle, Free(p, h)
      PROVE  UNCHANGED <<ext_amp, torn>> /\ inOrder' = FALSE
  BY <1>3 DEF Free
<1>4. ASSUME NEW p \in Client, NEW v \in Mute, ExtMute(p, v)
      PROVE  UNCHANGED torn /\ inOrder' = FALSE /\ ext_amp' \in BOOLEAN
  BY <1>4 DEF ExtMute, Decided
<1>5. ASSUME NEW p \in Client, Reset(p)
      PROVE  ext_amp' = ext_amp /\ inOrder' = FALSE /\ torn' \in BOOLEAN
  BY <1>5, Zenon DEF Reset, amps
<1>6. ASSUME NEW p \in Client, MuteDone(p)
      PROVE  UNCHANGED <<ext_amp, torn>> /\ inOrder' = FALSE
  BY <1>6 DEF MuteDone, Decided
<1>7. ASSUME NEW p \in Client, Apply(p) \/ NoLockSet(p)
      PROVE  ext_amp' = ext_amp /\ inOrder' \in BOOLEAN /\ torn' \in BOOLEAN
  BY <1>7 DEF Apply, NoLockSet, SetFlag, amps
<1>8. ASSUME NEW p \in Client, Skip(p)
      PROVE  UNCHANGED <<ext_amp, torn>> /\ inOrder' \in BOOLEAN
  BY <1>8, Zenon DEF Skip, amps
<1>9. ASSUME NEW p \in Client, Run(p)
      PROVE  UNCHANGED <<ext_amp, inOrder>> /\ torn' \in {torn, TRUE}
  BY <1>9, Zenon DEF Run, amps
<1>10. ASSUME NEW p \in Client, Crash(p)
       PROVE  UNCHANGED <<ext_amp, inOrder>> /\ torn' \in BOOLEAN
  BY <1>10, Zenon DEF Crash, amps
<1>11. ASSUME NEW p \in Client, NoLockTest(p) \/ Pick(p) \/ Controls(p)
       PROVE  UNCHANGED <<ext_amp, history>>
  BY <1>11, Zenon DEF NoLockTest, Pick, Controls, amps
<1>12. ASSUME NEW p \in Client, Route(p)
       PROVE  UNCHANGED <<ext_amp, history>>
  BY <1>12 DEF Route, amps
<1>13. ASSUME NEW p \in Client, Advance(p)
       PROVE  torn' \in BOOLEAN /\ inOrder' \in BOOLEAN /\ ext_amp' \in BOOLEAN
  <2>1. torn' \in BOOLEAN
    BY <1>1, <1>6, <1>7, <1>8, <1>9, <1>11, <1>13 DEF Advance, history
  <2>2. inOrder' \in BOOLEAN
    BY <1>1, <1>6, <1>7, <1>8, <1>9, <1>11, <1>13 DEF Advance, history
  <2>3. ext_amp' \in BOOLEAN
    BY <1>1, <1>6, <1>7, <1>8, <1>9, <1>11, <1>13 DEF Advance
  <2> QED
    BY <2>1, <2>2, <2>3
<1>14. CASE UNCHANGED vars
  BY <1>2, <1>14 DEF vars, muteVars, amps
<1>15. CASE Pulse \/ Recover
  BY <1>2, <1>15 DEF Pulse, Recover, muteVars, amps
<1>16. ASSUME NEW p \in Client, NEW h \in Handle, Open(p, h) \/ Free(p, h)
       PROVE  torn' \in BOOLEAN /\ inOrder' \in BOOLEAN /\ ext_amp' \in BOOLEAN
  <2>1. CASE Open(p, h)
    BY <1>2, <2>1 DEF Open
  <2>2. CASE Free(p, h)
    BY <1>1, <1>3, <2>2
  <2> QED
    BY <1>16, <2>1, <2>2
<1>17. ASSUME NEW p \in Client, NEW h \in Handle, NEW v \in Mute, SetMute(p, h, v)
       PROVE  torn' \in BOOLEAN /\ inOrder' \in BOOLEAN /\ ext_amp' \in BOOLEAN
  BY <1>2, <1>17 DEF SetMute, amps
<1>18. ASSUME NEW p \in Client, NEW v \in Mute, ExtMute(p, v) \/ GlobalMute(p, v)
       PROVE  torn' \in BOOLEAN /\ inOrder' \in BOOLEAN /\ ext_amp' \in BOOLEAN
  <2>1. CASE ExtMute(p, v)
    BY <1>1, <1>4, <2>1
  <2>2. CASE GlobalMute(p, v)
    BY <1>2, <2>2 DEF GlobalMute, amps
  <2> QED
    BY <1>18, <2>1, <2>2
<1>19. ASSUME NEW p \in Client, Route(p) \/ Reset(p) \/ Crash(p)
       PROVE  torn' \in BOOLEAN /\ inOrder' \in BOOLEAN /\ ext_amp' \in BOOLEAN
  <2>1. CASE Route(p)
    BY <1>2, <1>12, <2>1
  <2>2. CASE Reset(p)
    BY <1>1, <1>5, <2>2
  <2>3. CASE Crash(p)
    BY <1>1, <1>10, <2>3
  <2> QED
    BY <1>19, <2>1, <2>2, <2>3
<1> QED
  BY <1>13, <1>14, <1>15, <1>16, <1>17, <1>18, <1>19, Zenon DEF Next

LEMMA TypeStep ==
  ASSUME TypeOK, PaInv, LockInv, [Next]_vars
  PROVE  TypeOK'
<1> USE MuteAssumption, CallStep, DecideType
        DEF TypeOK, PC, Goto, amps, path, history, Return, Settled, Decided,
            Mute, UNMUTE
<1>1. torn' \in BOOLEAN /\ inOrder' \in BOOLEAN /\ ext_amp' \in BOOLEAN
  BY FlagsStep
<1>2. CASE UNCHANGED muteVars
  BY <1>1, <1>2 DEF muteVars
<1>3. ASSUME NEW p \in Client, NEW h \in Handle, Open(p, h)
      PROVE  TypeOK'
  BY <1>1, <1>3 DEF Open
<1>4. ASSUME NEW p \in Client, NEW h \in Handle, Free(p, h)
      PROVE  TypeOK'
  BY <1>1, <1>4 DEF Free
<1>5. ASSUME NEW p \in Client, NEW h \in Handle, NEW v \in Mute, SetMute(p, h, v)
      PROVE  TypeOK'
  BY <1>1, <1>5 DEF SetMute
<1>6. ASSUME NEW p \in Client, NEW v \in Mute, ExtMute(p, v) \/ GlobalMute(p, v)
      PROVE  TypeOK'
  BY <1>1, <1>6 DEF ExtMute, GlobalMute
<1>7. ASSUME NEW p \in Client, Route(p) \/ Reset(p) \/ Controls(p)
      PROVE  TypeOK'
  BY <1>1, <1>7 DEF Route, Reset, Controls
<1>8. ASSUME NEW p \in Client, MuteDone(p)
      PROVE  TypeOK'
  BY <1>1, <1>8 DEF MuteDone, AmpAfter
<1>9. ASSUME NEW p \in Client, Apply(p) \/ NoLockSet(p)
      PROVE  TypeOK'
  BY <1>1, <1>9 DEF Apply, NoLockSet, SetFlag
<1>10. ASSUME NEW p \in Client, Skip(p) \/ NoLockTest(p)
       PROVE  TypeOK'
  BY <1>1, <1>10 DEF Skip, NoLockTest
<1>11. ASSUME NEW p \in Client, Pick(p) \/ Run(p)
       PROVE  TypeOK'
  BY <1>1, <1>11 DEF Pick, Run
<1>12. ASSUME NEW p \in Client, Crash(p)
       PROVE  TypeOK'
  BY <1>1, <1>12 DEF Crash
<1>13. CASE Recover
  BY <1>1, <1>13 DEF Recover
<1> QED
  BY <1>2, <1>3, <1>4, <1>5, <1>6, <1>7, <1>8, <1>9, <1>10, <1>11, <1>12, <1>13
  DEF Next, Advance, Pulse, vars

LEMMA LockStep ==
  ASSUME TypeOK, PaInv, LockInv, [Next]_vars
  PROVE  LockInv'
<1> USE MuteAssumption DEF TypeOK, LockInv, Goto, Return
<1>1. CASE UNCHANGED vars
  BY <1>1 DEF vars, paVars, session, muteVars
<1>2. ASSUME NEW p \in Client, NEW h \in Handle, Open(p, h) \/ Free(p, h)
      PROVE  LockInv'
  BY <1>2 DEF Open, Free, paVars, session
<1>3. ASSUME NEW p \in Client, NEW h \in Handle, NEW v \in Mute, SetMute(p, h, v)
      PROVE  LockInv'
  BY <1>3 DEF SetMute
<1>4. ASSUME NEW p \in Client, NEW v \in Mute, ExtMute(p, v) \/ GlobalMute(p, v)
      PROVE  LockInv'
  BY <1>4 DEF ExtMute, GlobalMute, paVars, session
<1>5. ASSUME NEW p \in Client, Route(p) \/ Reset(p) \/ Controls(p)
      PROVE  LockInv'
  BY <1>5 DEF Route, Reset, Controls, paVars, session
<1>6. ASSUME NEW p \in Client, MuteDone(p)
      PROVE  LockInv'
  BY <1>6 DEF MuteDone, paVars, session
<1>7. ASSUME NEW p \in Client, Apply(p) \/ NoLockSet(p)
      PROVE  LockInv'
  BY <1>7 DEF Apply, NoLockSet, paVars, session
<1>8. ASSUME NEW p \in Client, Skip(p) \/ NoLockTest(p)
      PROVE  LockInv'
  BY <1>8 DEF Skip, NoLockTest, paVars, session
<1>9. ASSUME NEW p \in Client, Pick(p) \/ Run(p)
      PROVE  LockInv'
  BY <1>9 DEF Pick, Run, paVars, session
<1>10. ASSUME NEW p \in Client, Crash(p)
       PROVE  LockInv'
  <2>1. CASE pc[p] = "pa"
    <3>1. ctx' = "none"
      BY <1>10, <2>1 DEF Crash, Abandon, Close, paVars, session
    <3> QED
      BY <1>10, <3>1 DEF Crash
  <2>2. CASE pc[p] # "pa"
    BY <1>10, <2>2 DEF Crash, paVars, session
  <2> QED
    BY <2>1, <2>2
<1>11. CASE Pulse
  BY <1>11, PaStepKeeps DEF Pulse, muteVars
<1>12. CASE Recover
  BY <1>12 DEF Recover, paVars, session
<1> QED
  BY <1>1, <1>2, <1>3, <1>4, <1>5, <1>6, <1>7, <1>8, <1>9, <1>10, <1>11, <1>12
  DEF Next, Advance

THEOREM MuteLocks == Spec => [](TypeOK /\ PaInv /\ LockInv)
<1>1. TypeOK /\ PaInv /\ LockInv /\ [Next]_vars => (TypeOK /\ PaInv /\ LockInv)'
  BY TypeStep, CallStep, LockStep
<1> QED
  BY <1>1, InitTypes, PTL DEF Spec

\* Flags, bits, locks and the call to PulseAudio keep their types.
THEOREM MuteTypes == Spec => []TypeOK
BY MuteLocks, PTL

\* Where the owner of a lock is.
OwnerInv ==
  /\ \A p \in Client : pc[p] = "dead" => p \in Crashers
  /\ \A p \in Client : handleLock = p => pc[p] \in {"pa", "dead"}
  /\ \A p \in Client : pathLock = p => pc[p] \in {"pick", "run", "route", "dead"}

LEMMA OwnerStep ==
  ASSUME TypeOK, LockInv, OwnerInv, [Next]_vars
  PROVE  OwnerInv'
<1> USE MuteAssumption DEF TypeOK, OwnerInv, Goto, Return
<1>1. CASE UNCHANGED <<pc, handleLock, pathLock>>
  BY <1>1
<1>2. ASSUME NEW p \in Client, NEW h \in Handle, Open(p, h) \/ Free(p, h)
      PROVE  OwnerInv'
  BY <1>1, <1>2 DEF Open, Free
<1>3. ASSUME NEW p \in Client, NEW h \in Handle, NEW v \in Mute, SetMute(p, h, v)
      PROVE  OwnerInv'
  BY <1>3 DEF SetMute
<1>4. ASSUME NEW p \in Client, NEW v \in Mute, ExtMute(p, v) \/ GlobalMute(p, v)
      PROVE  OwnerInv'
  BY <1>4 DEF ExtMute, GlobalMute
<1>5. ASSUME NEW p \in Client, Route(p) \/ Reset(p) \/ Controls(p)
      PROVE  OwnerInv'
  BY <1>5 DEF Route, Reset, Controls, LockInv
<1>6. ASSUME NEW p \in Client, MuteDone(p)
      PROVE  OwnerInv'
  BY <1>6 DEF MuteDone, LockInv
<1>7. ASSUME NEW p \in Client, Apply(p) \/ NoLockSet(p)
      PROVE  OwnerInv'
  BY <1>7 DEF Apply, NoLockSet
<1>8. ASSUME NEW p \in Client, Skip(p) \/ NoLockTest(p)
      PROVE  OwnerInv'
  BY <1>8 DEF Skip, NoLockTest
<1>9. ASSUME NEW p \in Client, Pick(p) \/ Run(p)
      PROVE  OwnerInv'
  BY <1>9 DEF Pick, Run
<1>10. ASSUME NEW p \in Client, Crash(p)
       PROVE  OwnerInv'
  BY <1>10 DEF Crash
<1>11. CASE Pulse \/ UNCHANGED vars
  BY <1>1, <1>11 DEF Pulse, vars, muteVars
<1>12. CASE Recover
  BY <1>12 DEF Recover
<1> QED
  BY <1>2, <1>3, <1>4, <1>5, <1>6, <1>7, <1>8, <1>9, <1>10, <1>11, <1>12
  DEF Next, Advance

\* No lock is kept by a client that waits for another lock in a circle, or for a
\* signal that nobody will give, whoever dies and wherever.
THEOREM LocksAreOnTheirWayBack == Spec => []NoLockIsStranded
<1>1. Init => OwnerInv
  BY MuteAssumption DEF Init, OwnerInv
<1>2. PaInv /\ OwnerInv => NoLockIsStranded
  BY DEF PaInv, OwnerInv, NoLockIsStranded, InScript
<1>3. TypeOK /\ LockInv /\ OwnerInv /\ [Next]_vars => OwnerInv'
  BY OwnerStep
<1> QED
  BY <1>1, <1>2, <1>3, MuteLocks, PTL DEF Spec

-----------------------------------------------------------------------------
(* The path and the amplifiers *)

\* A decision that is still pending is the one the bits ask for.
PathInv ==
  /\ \A p \in Client : decider = p =>
       \/ pc[p] = "dead"
       \/ pc[p] = "apply" /\ todo[p] = Decide(handle_amp, ext_amp)
  /\ PathFollowsAmps

LEMMA PathStep ==
  ASSUME TypeOK, LockInv, PathInv, [Next]_vars
  PROVE  PathInv'
<1> USE MuteAssumption
        DEF TypeOK, LockInv, PathInv, PathFollowsAmps, Goto, Return, Settled,
            amps, path, history
<1>1. CASE UNCHANGED muteVars
  BY <1>1 DEF muteVars
<1>2. ASSUME NEW p \in Client, NEW h \in Handle, Open(p, h) \/ Free(p, h)
      PROVE  PathInv'
  BY <1>2 DEF Open, Free
<1>3. ASSUME NEW p \in Client, NEW h \in Handle, NEW v \in Mute, SetMute(p, h, v)
      PROVE  PathInv'
  BY <1>3 DEF SetMute
<1>4. ASSUME NEW p \in Client, NEW v \in Mute, ExtMute(p, v)
      PROVE  PathInv'
  BY <1>4 DEF ExtMute, Decided
<1>5. ASSUME NEW p \in Client, NEW v \in Mute, GlobalMute(p, v)
      PROVE  PathInv'
  BY <1>5 DEF GlobalMute
<1>6. ASSUME NEW p \in Client, Route(p) \/ Reset(p) \/ Controls(p)
      PROVE  PathInv'
  BY <1>6 DEF Route, Reset, Controls
<1>7. ASSUME NEW p \in Client, MuteDone(p)
      PROVE  PathInv'
  BY <1>7 DEF MuteDone, Decided
<1>8. ASSUME NEW p \in Client, Apply(p) \/ NoLockSet(p)
      PROVE  PathInv'
  <2>1. /\ inOrder' = (decider = p)
        /\ decider' = IF decider = p THEN Nobody ELSE decider
        /\ flag' = todo[p]
        /\ pc[p] \in {"apply", "set"}
        /\ pc' = [pc EXCEPT ![p] = "pick"]
        /\ UNCHANGED <<handle_amp, ext_amp, todo>>
    BY <1>8 DEF Apply, NoLockSet, SetFlag
  <2>2. CASE decider = p
    BY <2>1, <2>2
  <2>3. CASE decider # p
    BY <2>1, <2>3
  <2> QED
    BY <2>2, <2>3
<1>9. ASSUME NEW p \in Client, Skip(p) \/ NoLockTest(p)
      PROVE  PathInv'
  BY <1>9 DEF Skip, NoLockTest
<1>10. ASSUME NEW p \in Client, Pick(p) \/ Run(p)
       PROVE  PathInv'
  BY <1>10 DEF Pick, Run
<1>11. ASSUME NEW p \in Client, Crash(p)
       PROVE  PathInv'
  BY <1>11 DEF Crash
<1>12. CASE Recover
  BY <1>12 DEF Recover
<1> QED
  BY <1>1, <1>2, <1>3, <1>4, <1>5, <1>6, <1>7, <1>8, <1>9, <1>10, <1>11, <1>12
  DEF Next, Advance, Pulse, vars

\* As long as the last to decide was the last to apply, the path is muted
\* exactly when no amplifier bit is set.
THEOREM PathInStep == Spec => []PathFollowsAmps
<1>1. Init => PathInv
  BY MuteAssumption DEF Init, PathInv, PathFollowsAmps
<1>2. TypeOK /\ LockInv /\ PathInv /\ [Next]_vars => PathInv'
  BY PathStep
<1>3. PathInv => PathFollowsAmps
  BY DEF PathInv
<1> QED
  BY <1>1, <1>2, <1>3, MuteLocks, PTL DEF Spec

-----------------------------------------------------------------------------
(* The codec and the flag *)

\* A script that was picked is the one for the flag as it stands.
CodecInv ==
  /\ ~torn => \A p \in Client : pc[p] = "run" => todo[p] = flag
  /\ CodecFollowsFlag

\* Nobody but p runs a script when p, under the lock or not mixing with anyone,
\* changes the flag.
LEMMA OneScript ==
  ASSUME LockInv, NEW p \in Client, NEW q \in Client \ {p},
         Mixing(p) = {}, p \in NoLocker \/ pathLock = Nobody
  PROVE  pc[q] \notin InScript
BY MuteAssumption DEF LockInv, Mixing, InScript

LEMMA CodecStep ==
  ASSUME TypeOK, LockInv, CodecInv, [Next]_vars
  PROVE  CodecInv'
<1> USE MuteAssumption
        DEF TypeOK, CodecInv, CodecFollowsFlag, InScript, Goto, Return, amps,
            path, history
<1>1. CASE UNCHANGED muteVars
  BY <1>1 DEF muteVars
<1>2. ASSUME NEW p \in Client, NEW h \in Handle, Open(p, h) \/ Free(p, h)
      PROVE  CodecInv'
  BY <1>2 DEF Open, Free
<1>3. ASSUME NEW p \in Client, NEW h \in Handle, NEW v \in Mute, SetMute(p, h, v)
      PROVE  CodecInv'
  BY <1>3 DEF SetMute
<1>4. ASSUME NEW p \in Client, NEW v \in Mute, ExtMute(p, v) \/ GlobalMute(p, v)
      PROVE  CodecInv'
  BY <1>4 DEF ExtMute, GlobalMute, Decided
<1>5. ASSUME NEW p \in Client, Reset(p)
      PROVE  CodecInv'
  BY <1>5 DEF Reset
<1>6. ASSUME NEW p \in Client, Route(p) \/ Controls(p)
      PROVE  CodecInv'
  BY <1>6 DEF Route, Controls
<1>7. ASSUME NEW p \in Client, MuteDone(p)
      PROVE  CodecInv'
  BY <1>7 DEF MuteDone, Decided
<1>8. ASSUME NEW p \in Client, Apply(p) \/ NoLockSet(p)
      PROVE  CodecInv'
  <2>1. p \in NoLocker \/ pathLock = Nobody
    BY <1>8 DEF Apply, NoLockSet, LockInv
  <2>2. torn' = (Mixing(p) # {}) /\ pc' = [pc EXCEPT ![p] = "pick"]
    BY <1>8 DEF Apply, NoLockSet, SetFlag
  <2>3. CASE Mixing(p) # {}
    BY <2>2, <2>3
  <2>4. CASE Mixing(p) = {}
    <3>1. \A q \in Client \ {p} : pc[q] \notin {"pick", "run"}
      BY <2>1, <2>4, OneScript
    <3> QED
      BY <2>2, <3>1
  <2> QED
    BY <2>3, <2>4
<1>9. ASSUME NEW p \in Client, Skip(p) \/ NoLockTest(p)
      PROVE  CodecInv'
  BY <1>9 DEF Skip, NoLockTest
<1>10. ASSUME NEW p \in Client, Pick(p)
       PROVE  CodecInv'
  BY <1>10 DEF Pick
<1>11. ASSUME NEW p \in Client, Run(p)
       PROVE  CodecInv'
  BY <1>11 DEF Run
<1>12. ASSUME NEW p \in Client, Crash(p)
       PROVE  CodecInv'
  BY <1>12 DEF Crash
<1>13. CASE Recover
  BY <1>13 DEF Recover
<1> QED
  BY <1>1, <1>2, <1>3, <1>4, <1>5, <1>6, <1>7, <1>8, <1>9, <1>10, <1>11, <1>12,
     <1>13 DEF Next, Advance, Pulse, vars

\* With no script running, failed or mixed with an unlocked one, the codec is
\* what the flag says.
THEOREM CodecInStep == Spec => []CodecFollowsFlag
<1>1. Init => CodecInv
  BY DEF Init, CodecInv, CodecFollowsFlag
<1>2. TypeOK /\ LockInv /\ CodecInv /\ [Next]_vars => CodecInv'
  BY CodecStep
<1>3. CodecInv => CodecFollowsFlag
  BY DEF CodecInv
<1> QED
  BY <1>1, <1>2, <1>3, MuteLocks, PTL DEF Spec

-----------------------------------------------------------------------------
(* The streams and their records *)

\* The call is about the record of an open handle, and says what it says; a
\* handle that is free has no stream.
StreamInv ==
  /\ ctx # "none" => ask[1] \in allocated /\ ask[2] = mute[ask[1]]
  /\ \A h \in Handle \ allocated : input[h] = UNMUTE
  /\ StreamFollowsRecord

LEMMA PulseStreams ==
  ASSUME TypeOK, PaInv, StreamInv, ~Spurious, Pulse
  PROVE  StreamInv'
<1> USE DEF Pulse, muteVars, amps, StreamInv, StreamFollowsRecord
<1>1. CASE Serve
  <2>1. /\ \A h \in Handle \ {ask[1]} : input'[h] = input[h]
        /\ ask' = ask /\ unsure' = unsure
    BY <1>1, ServedSets, MuteAssumption DEF Serve, TypeOK
  <2>2. ask[1] \in unsure /\ ask[1] \in allocated
    BY <1>1 DEF Serve, PaInv
  <2>3. allocated' = allocated /\ mute' = mute
    OBVIOUS
  <2>4. allocated \subseteq Handle
    BY DEF TypeOK
  <2>5. \A h \in Handle \ allocated' : input'[h] = UNMUTE
    BY <2>1, <2>2, <2>3
  <2>6. \A h \in allocated' \ unsure' : input'[h] = mute'[h]
    BY <2>1, <2>2, <2>3, <2>4
  <2>7. ctx # "none"
    BY <1>1 DEF Serve
  <2>8. ask'[1] \in allocated' /\ ask'[2] = mute'[ask'[1]]
    BY <2>1, <2>3, <2>7
  <2> HIDE DEF Pulse, muteVars, amps
  <2> QED
    BY <2>5, <2>6, <2>8
<1>2. CASE Refuse \/ Establish \/ Answer \/ Lose
  BY <1>2 DEF Refuse, Establish, Answer, Lose
<1>3. CASE Wake
  <2>1. input' = input /\ ctx' = "none"
    BY <1>3, WakeKeeps, WakeCloses DEF TypeOK
  <2>2. CASE op = "served"
    <3>1. ctx # "none" /\ input[ask[1]] = ask[2]
      BY <1>3, <2>2 DEF Wake, PaInv
    <3>2. \A h \in unsure \ unsure' : h = ask[1]
      BY <1>3 DEF Wake
    <3> QED
      BY <2>1, <3>1, <3>2
  <2>3. CASE op # "served"
    <3>1. unsure' = unsure
      BY <1>3, <2>3 DEF Wake, PaInv
    <3> QED
      BY <2>1, <3>1
  <2> QED
    BY <2>2, <2>3
<1> QED
  BY <1>1, <1>2, <1>3 DEF PaStep, PaAnswers

LEMMA StreamStep ==
  ASSUME TypeOK, PaInv, LockInv, StreamInv, ~Spurious, [Next]_vars
  PROVE  StreamInv'
<1> USE MuteAssumption DEF TypeOK, StreamInv, StreamFollowsRecord, amps, Goto
<1>1. CASE UNCHANGED <<paVars, allocated, mute>>
  BY <1>1 DEF paVars, session
<1>2. ASSUME NEW p \in Client, NEW h \in Handle, Open(p, h)
      PROVE  StreamInv'
  BY <1>2, FreeLockNoCall DEF Open, paVars, session
<1>3. ASSUME NEW p \in Client, NEW h \in Handle, Free(p, h)
      PROVE  StreamInv'
  BY <1>3, FreeLockNoCall DEF Free, session, PaTypeOK
<1>4. ASSUME NEW p \in Client, NEW h \in Handle, NEW v \in Mute, SetMute(p, h, v)
      PROVE  StreamInv'
  <2>1. CASE Connect(h, v)
    BY <1>4, <2>1 DEF SetMute, Connect
  <2>2. CASE ConnectFails(h)
    BY <1>4, <2>2, FreeLockNoCall DEF SetMute, ConnectFails, session
  <2> QED
    BY <1>4, <2>1, <2>2 DEF SetMute
<1>5. ASSUME NEW p \in Client, Crash(p)
      PROVE  StreamInv'
  <2>1. CASE ~(pc[p] = "pa" /\ ctx # "none")
    BY <1>1, <1>5, <2>1 DEF Crash
  <2>2. CASE pc[p] = "pa" /\ ctx # "none"
    <3>1. Abandon /\ UNCHANGED <<allocated, mute>>
      BY <1>5, <2>2 DEF Crash
    <3>2. ask[1] \in allocated /\ ask[1] \in unsure
      BY <2>2 DEF PaInv
    <3>3. \A h \in Handle \ {ask[1]} : input'[h] = input[h]
      BY <2>2, <3>1, ServedSets DEF Abandon, Outcome
    <3>4. ctx' = "none" /\ unsure' = unsure
      BY <3>1 DEF Abandon, Close
    <3> QED
      BY <3>1, <3>2, <3>3, <3>4
  <2> QED
    BY <2>1, <2>2
<1>6. CASE Pulse
  BY <1>6, PulseStreams
<1>7. ASSUME NEW p \in Client, Advance(p)
      PROVE  UNCHANGED <<paVars, allocated, mute>>
  BY <1>7 DEF Advance, MuteDone, Skip, Apply, NoLockTest, NoLockSet, Pick, Run,
              Controls
<1> QED
  BY <1>1, <1>2, <1>3, <1>4, <1>5, <1>6, <1>7
  DEF Next, ExtMute, GlobalMute, Route, Reset, Recover, vars, muteVars

\* The record of every open handle is what PulseAudio does with its stream,
\* unless a call about it failed or is running.
THEOREM StreamsInStep == ASSUME ~Spurious PROVE Spec => []StreamFollowsRecord
<1>1. Init => StreamInv
  BY MuteAssumption DEF Init, PaInit, StreamInv, StreamFollowsRecord
<1>2. TypeOK /\ PaInv /\ LockInv /\ StreamInv /\ [Next]_vars => StreamInv'
  BY StreamStep
<1>3. StreamInv => StreamFollowsRecord
  BY DEF StreamInv
<1> QED
  BY <1>1, <1>2, <1>3, MuteLocks, PTL DEF Spec

-----------------------------------------------------------------------------
(* Refinement *)

LEMMA PulseCall ==
  ASSUME TypeOK, PaInv, ~Spurious, PaStep
  PROVE  [Call!Next]_(Call!vars)
BY ServeKeeps, RefuseKeeps, SilentKeeps, WakeKeeps
DEF TypeOK, PaStep, PaAnswers, Call!Next

LEMMA PromiseStep ==
  ASSUME TypeOK, PaInv, LockInv, ~Spurious, [Next]_vars
  PROVE  [Call!Next]_(Call!vars)
<1> USE MuteAssumption DEF TypeOK
<1>1. CASE UNCHANGED paVars
  BY <1>1 DEF paVars, session, Call!vars, Phase
<1>2. ASSUME NEW p \in Client, NEW h \in Handle, Free(p, h)
      PROVE  Call!Replace(h)
  <2>1. ctx = "none" /\ ctx' = ctx /\ op = "none" /\ op' = op
    BY <1>2, FreeLockNoCall DEF Free, session, PaInv
  <2>2. Phase = "idle" /\ Phase' = "idle"
    BY <2>1 DEF Phase
  <2>3. UNMUTE \in Value
    BY DEF Mute
  <2>4. /\ input' = [input EXCEPT ![h] = UNMUTE]
        /\ unsure' = unsure \ {h}
        /\ ask' = ask
    BY <1>2 DEF Free, session
  <2> QED
    BY <2>2, <2>3, <2>4 DEF Call!Replace
<1>3. ASSUME NEW p \in Client, NEW h \in Handle, NEW v \in Mute, SetMute(p, h, v)
      PROVE  Call!Begin(h, v) \/ Call!FailAtOnce(h)
  BY <1>3, ConnectKeeps, ConnectFailsKeeps DEF SetMute
<1>4. ASSUME NEW p \in Client, Crash(p)
      PROVE  UNCHANGED paVars \/ Call!Die
  BY <1>4, AbandonKeeps DEF Crash
<1>5. CASE Pulse
  BY <1>5, PulseCall DEF Pulse
<1>6. ASSUME NEW p \in Client, Advance(p)
      PROVE  UNCHANGED paVars
  BY <1>6 DEF Advance, MuteDone, Skip, Apply, NoLockTest, NoLockSet, Pick, Run,
              Controls
<1> QED
  BY <1>1, <1>2, <1>3, <1>4, <1>5, <1>6
  DEF Next, Open, ExtMute, GlobalMute, Route, Reset, Recover, vars, Call!Next

\* Next to crashes, refusals and streams that come and go, a call to PulseAudio
\* keeps the promise of AvCall.
THEOREM CallsKeepTheirPromise == ASSUME ~Spurious PROVE Spec => ImplementsCall
<1>1. Init => Call!Init
  BY PaInitInv DEF Init
<1>2. TypeOK /\ PaInv /\ LockInv /\ [Next]_vars => [Call!Next]_(Call!vars)
  BY PromiseStep
<1> QED
  BY <1>1, <1>2, MuteLocks, PTL DEF Spec, ImplementsCall, Call!Spec

=============================================================================
