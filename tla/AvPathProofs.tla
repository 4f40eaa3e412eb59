---------------------------- MODULE AvPathProofs ----------------------------
(***************************************************************************)
(* Theorems about AvPath, for every set of clients, devices and options.   *)
(***************************************************************************)
EXTENDS AvPath, TLAPS

-----------------------------------------------------------------------------
(* The decision on a request *)

\* The outcome on one side: nothing was asked, or the request decides, or the
\* protection lets the table of the gains decide.
LEMMA DecideCases ==
  ASSUME NEW current, NEW request, NEW forced \in BOOLEAN
  PROVE  \/ request = "none" /\ Decide(current, request, forced) = current
         \/ request # "none" /\ Decide(current, request, forced) = request
         \/ /\ request # "none" /\ ~forced /\ Protected
            /\ Decide(current, request, forced) = Select(current, request)
<1>1. CASE request = "none"
  BY <1>1 DEF Decide
<1>2. CASE request # "none" /\ (forced \/ ~Protected)
  BY <1>2 DEF Decide
<1>3. CASE request # "none" /\ ~(forced \/ ~Protected)
  <2>1. Decide(current, request, forced) = Select(current, request)
    BY <1>3 DEF Decide
  <2> QED
    BY <1>3, <2>1
<1> QED
  BY <1>1, <1>2, <1>3

\* A request gets gains that its two sides know.
LEMMA LocalType ==
  ASSUME TypeOK, NEW kind \in Kinds, NEW forced \in BOOLEAN
  PROVE  Local(kind, forced) \in [playback : PlaybackGain, capture : CaptureGain]
<1>1. PlaybackOf(kind) \in PlaybackGain \cup {"none"}
  BY DEF Kinds, PlaybackOf, PlaybackGain, CaptureGain, Calls
<1>2. CaptureOf(kind) \in CaptureGain \cup {"none"}
  BY DEF Kinds, CaptureOf, CaptureGain, Calls
<1>3. gain.playback \in PlaybackGain /\ gain.capture \in CaptureGain
  BY DEF TypeOK
<1>4. Decide(gain.playback, PlaybackOf(kind), forced) \in PlaybackGain
  BY <1>1, <1>3, DecideCases DEF Select
<1>5. Decide(gain.capture, CaptureOf(kind), forced) \in CaptureGain
  BY <1>2, <1>3, DecideCases DEF Select
<1> QED
  BY <1>4, <1>5 DEF Local

\* A side that the request does not decide keeps its gain, unless the request
\* was refused that side by the protection, which keeps the gain as well.
LEMMA LosersKeep ==
  ASSUME NEW kind \in Kinds, NEW forced \in BOOLEAN
  PROVE  /\ ~WinsPlayback(kind, forced)
              => Local(kind, forced).playback = gain.playback
         /\ ~WinsCapture(kind, forced)
              => Local(kind, forced).capture = gain.capture
<1>1. /\ Local(kind, forced).playback
           = Decide(gain.playback, PlaybackOf(kind), forced)
      /\ Local(kind, forced).capture
           = Decide(gain.capture, CaptureOf(kind), forced)
  BY DEF Local
<1> QED
  BY <1>1, DecideCases DEF WinsPlayback, WinsCapture, Select

-----------------------------------------------------------------------------
(* The scripts *)

\* Scripts open known outputs and inputs only.
LEMMA RanType ==
  ASSUME NEW S, NEW done \in BOOLEAN, NEW set \in SUBSET S, NEW before \in SUBSET S
  PROVE  Ran(done, set, before) \subseteq SUBSET S
BY DEF Ran

LEMMA MediaScriptType ==
  ASSUME TypeOK, NEW g, NEW at \in [playback : Output, capture : Input],
         NEW both, NEW jack, NEW playDone \in BOOLEAN, NEW micDone \in BOOLEAN,
         MediaScript(g, at, both, jack, playDone, micDone)
  PROVE  /\ fixed' = FALSE
         /\ device' \in {"spk", "headset", "bt"}
         /\ outs' \subseteq Output
         /\ ins' \subseteq Input
<1>1. MediaOutputs(at.playback, both, jack) \in SUBSET Output
  BY DEF MediaOutputs, Output
<1>2. MediaInputs(at.capture) \in SUBSET Input
  BY DEF MediaInputs, Input
<1>3. outs \in SUBSET Output /\ ins \in SUBSET Input
  BY DEF TypeOK
<1>4. outs' \in SUBSET Output
  <2>1. outs' \in Ran(playDone, MediaOutputs(at.playback, both, jack), outs)
    BY DEF MediaScript
  <2> QED
    BY <2>1, <1>1, <1>3, RanType
<1>5. ins' \in SUBSET Input
  <2>1. \/ ins' \in Ran(micDone, MediaInputs(at.capture), ins)
        \/ ins' = ins
    BY DEF MediaScript, CaptureScript
  <2> QED
    BY <2>1, <1>2, <1>3, RanType
<1> QED
  BY <1>4, <1>5 DEF MediaScript, DeviceOf

LEMMA VideoCallScriptType ==
  ASSUME TypeOK, NEW g, NEW at \in [playback : Output, capture : Input],
         NEW request, NEW done \in BOOLEAN,
         VideoCallScript(g, at, request, done)
  PROVE  /\ fixed' = TRUE
         /\ device' \in {"spk", "headset", "bt"}
         /\ outs' \subseteq Output
         /\ ins' \subseteq Input
<1>1. device' \in {"spk", "headset", "bt"}
  BY DEF VideoCallScript, CallDevice, DeviceOf, TypeOK
<1>2. outs' \subseteq Output /\ ins' \subseteq Input
  BY DEF VideoCallScript, CallPlays, TypeOK
<1> QED
  BY <1>1, <1>2 DEF VideoCallScript

LEMMA RadioScriptType ==
  ASSUME TypeOK, NEW g, NEW at, NEW request, NEW done \in BOOLEAN,
         RadioScript(g, at, request, done)
  PROVE  /\ fixed' = Protected
         /\ device' \in {"spk", "headset", "bt"}
         /\ outs' \subseteq Output
         /\ ins' \subseteq Input
<1>1. {"SPK", "HEADSET"} \subseteq Output /\ "FMINPUT" \in Input
  BY DEF Output, Input
<1>2. device' \in {"spk", "headset", "bt"}
  BY DEF RadioScript, DeviceOf, TypeOK
<1>3. outs' \subseteq Output
  BY <1>1 DEF RadioScript, TypeOK
<1>4. ins' \subseteq Input
  BY <1>1 DEF RadioScript, TypeOK
<1> QED
  BY <1>2, <1>3, <1>4 DEF RadioScript

LEMMA NoPlaybackScriptType ==
  ASSUME TypeOK, NEW g, NEW at, NEW micDone \in BOOLEAN,
         NoPlaybackScript(g, at, micDone)
  PROVE  /\ fixed' = Protected
         /\ device' \in {"spk", "headset", "bt"}
         /\ outs' \subseteq Output
         /\ ins' \subseteq Input
<1>1. MediaInputs(at.capture) \in SUBSET Input
  BY DEF MediaInputs, Input
<1>2. ins \in SUBSET Input
  BY DEF TypeOK
<1>3. \/ ins' \in Ran(micDone, MediaInputs(at.capture), ins)
      \/ ins' = ins
  BY DEF NoPlaybackScript, CaptureScript
<1>4. ins' \in SUBSET Input
  BY <1>1, <1>2, <1>3, RanType
<1> QED
  BY <1>4 DEF NoPlaybackScript, TypeOK

-----------------------------------------------------------------------------
(* Type correctness *)

LEMMA TypeInit == Init => TypeOK
<1> SUFFICES ASSUME Init PROVE TypeOK
  OBVIOUS
<1>1. gain \in [playback : PlaybackGain, capture : CaptureGain]
  BY DEF Init, PlaybackGain, CaptureGain
<1>2. reqgain \in [playback : PlaybackGain, capture : CaptureGain]
  BY DEF Init, PlaybackGain, CaptureGain
<1>3. /\ path \in [playback : Output, capture : Input]
      /\ outs \subseteq Output /\ ins \subseteq Input
  BY DEF Init, Output, Input
<1>4. inserted \in Jack
  BY PathAssumption DEF Init
<1>5. aif \in [Proc -> SUBSET Aifs]
  BY DEF Init
<1> QED
  BY <1>1, <1>2, <1>3, <1>4, <1>5 DEF Init, TypeOK

LEMMA TypeChange ==
  ASSUME TypeOK, NEW p \in Proc, NEW kind \in Kinds, NEW out \in Outs,
         NEW in \in Ins, NEW both \in Duals, NEW forced \in BOOLEAN,
         ChangePath(p, kind, out, in, both, forced)
  PROVE  TypeOK'
<1> DEFINE g == Local(kind, forced)
<1>1. g \in [playback : PlaybackGain, capture : CaptureGain]
  BY LocalType
<1>2. gain' \in [playback : PlaybackGain, capture : CaptureGain]
  BY <1>1 DEF ChangePath
<1>3. path' \in [playback : Output, capture : Input]
  BY PathAssumption DEF ChangePath, TypeOK
<1>4. /\ reqgain' \in [playback : PlaybackGain, capture : CaptureGain]
      /\ dual' \in BOOLEAN
  BY PathAssumption DEF ChangePath, Register, TypeOK, Kinds, PlaybackOf, CaptureOf,
     PlaybackGain, CaptureGain, Calls
<1>5. fixedPid' \in Proc \cup {NoPid}
  BY DEF ChangePath, TypeOK
<1>6. aif' \in [Proc -> SUBSET Aifs]
  <2>1. PlaybackAifs(g.playback, out) \subseteq Aifs
    BY DEF PlaybackAifs, Aifs, CallAifs
  <2>2. CaptureAifs(g.capture, in) \subseteq Aifs
    BY DEF CaptureAifs, Aifs, CallAifs
  <2> QED
    BY <2>1, <2>2 DEF ChangePath, TypeOK
<1>7. PICK playDone \in BOOLEAN, micDone \in BOOLEAN, aifDone \in BOOLEAN :
        /\ \/ MediaScript(g, path', both, inserted, playDone, micDone)
           \/ VideoCallScript(g, path', reqgain', playDone)
           \/ RadioScript(g, path', reqgain', playDone)
           \/ playDone /\ NoPlaybackScript(g, path', micDone)
        /\ result' = ChangeResult(g, playDone, micDone, aifDone)
  BY DEF ChangePath
<1>8. /\ fixed' \in BOOLEAN
      /\ device' \in {"spk", "headset", "bt"}
      /\ outs' \subseteq Output
      /\ ins' \subseteq Input
  <2>1. Protected \in BOOLEAN
    BY DEF Protected, TypeOK
  <2>2. CASE MediaScript(g, path', both, inserted, playDone, micDone)
    BY <1>3, <2>2, MediaScriptType, ZenonT(40)
  <2>3. CASE VideoCallScript(g, path', reqgain', playDone)
    BY <1>3, <2>3, VideoCallScriptType
  <2>4. CASE RadioScript(g, path', reqgain', playDone)
    BY <2>1, <2>4, RadioScriptType
  <2>5. CASE NoPlaybackScript(g, path', micDone)
    BY <2>1, <2>5, NoPlaybackScriptType
  <2> QED
    BY <1>7, <2>2, <2>3, <2>4, <2>5
<1>9. result' \in {"ok", "rejected", "failed"}
  BY <1>7 DEF ChangeResult
<1>10. inserted' = inserted /\ alive' = alive
  BY DEF ChangePath
<1> HIDE DEF g
<1> QED
  BY <1>2, <1>3, <1>4, <1>5, <1>6, <1>8, <1>9, <1>10 DEF TypeOK

\* Back to the default leaves well-typed devices.
LEMMA TypeDefault ==
  ASSUME TypeOK, NEW jack, NEW both, NEW playDone \in BOOLEAN, NEW micDone \in BOOLEAN,
         ToDefault(jack, both, playDone, micDone)
  PROVE  /\ gain' \in [playback : PlaybackGain, capture : CaptureGain]
         /\ path' \in [playback : Output, capture : Input]
         /\ fixed' = FALSE
         /\ device' \in {"spk", "headset", "bt"}
         /\ outs' \subseteq Output
         /\ ins' \subseteq Input
<1>1. gain' \in [playback : PlaybackGain, capture : CaptureGain]
  BY DEF ToDefault, PlaybackGain, CaptureGain
<1>2. path' \in [playback : Output, capture : Input]
  BY DEF ToDefault, Output, Input
<1>3. MediaScript(gain', path', both, jack, playDone, micDone)
  BY DEF ToDefault
<1>4. /\ fixed' = FALSE
      /\ device' \in {"spk", "headset", "bt"}
      /\ outs' \subseteq Output
      /\ ins' \subseteq Input
  BY <1>2, <1>3, MediaScriptType, Zenon
<1> QED
  BY <1>1, <1>2, <1>4

LEMMA TypeRelease ==
  ASSUME TypeOK, NEW p \in Proc, NEW kind \in Kinds, NEW out \in Outs,
         NEW in \in Ins, NEW both \in Duals, NEW forced \in BOOLEAN,
         ReleasePath(p, kind, out, in, both, forced)
  PROVE  TypeOK'
<1>1. /\ reqgain' \in [playback : PlaybackGain, capture : CaptureGain]
      /\ dual' \in BOOLEAN
  BY PathAssumption DEF ReleasePath, Register, TypeOK, Kinds, PlaybackOf, CaptureOf,
     PlaybackGain, CaptureGain, Calls
<1>2. fixedPid' \in Proc \cup {NoPid}
  BY DEF ReleasePath, TypeOK
<1>3. aif' \in [Proc -> SUBSET Aifs]
  BY DEF ReleasePath, Closed, TypeOK
<1>4. inserted' = inserted /\ alive' = alive
  BY DEF ReleasePath
<1>5. CASE /\ gain' = Local(kind, forced)
           /\ ins' \in Ran(~ScriptFails, {}, ins)
           /\ result' = "ok"
           /\ UNCHANGED <<path, fixed, device, outs>>
  <2>1. gain' \in [playback : PlaybackGain, capture : CaptureGain]
    BY <1>5, LocalType
  <2>2. ins' \subseteq Input
    BY <1>5, PathAssumption DEF Ran, TypeOK
  <2> QED
    BY <1>1, <1>2, <1>3, <1>4, <1>5, <2>1, <2>2 DEF TypeOK
<1>6. CASE \E playDone, micDone \in BOOLEAN :
             /\ ToDefault(inserted, both, playDone, micDone)
             /\ result' = IF micDone THEN "ok" ELSE "failed"
  <2>1. PICK playDone \in BOOLEAN, micDone \in BOOLEAN :
          /\ ToDefault(inserted, both, playDone, micDone)
          /\ result' = IF micDone THEN "ok" ELSE "failed"
    BY <1>6
  <2>2. /\ gain' \in [playback : PlaybackGain, capture : CaptureGain]
        /\ path' \in [playback : Output, capture : Input]
        /\ fixed' = FALSE
        /\ device' \in {"spk", "headset", "bt"}
        /\ outs' \subseteq Output
        /\ ins' \subseteq Input
    BY <2>1, TypeDefault, Zenon
  <2> QED
    BY <1>1, <1>2, <1>3, <1>4, <2>1, <2>2 DEF TypeOK
<1> QED
  BY <1>5, <1>6 DEF ReleasePath

LEMMA TypeReset ==
  ASSUME TypeOK, NEW jack \in Jacks, Reset(jack)
  PROVE  TypeOK'
<1>1. PICK playDone \in BOOLEAN, micDone \in BOOLEAN :
        /\ ToDefault(jack, FALSE, playDone, micDone)
        /\ result' = IF playDone /\ micDone THEN "ok" ELSE "failed"
  BY DEF Reset
<1>2. reqgain' \in [playback : PlaybackGain, capture : CaptureGain]
  BY DEF Reset, PlaybackGain, CaptureGain
<1>3. /\ gain' \in [playback : PlaybackGain, capture : CaptureGain]
      /\ path' \in [playback : Output, capture : Input]
      /\ fixed' = FALSE
      /\ device' \in {"spk", "headset", "bt"}
      /\ outs' \subseteq Output
      /\ ins' \subseteq Input
  BY <1>1, TypeDefault, Zenon
<1>4. /\ dual' = FALSE /\ fixedPid' = NoPid /\ inserted' = jack
      /\ UNCHANGED <<aif, alive>>
  BY DEF Reset
<1> QED
  BY <1>1, <1>2, <1>3, <1>4, PathAssumption DEF TypeOK

LEMMA TypeNext == TypeOK /\ [Next]_vars => TypeOK'
<1> SUFFICES ASSUME TypeOK, [Next]_vars PROVE TypeOK'
  OBVIOUS
<1>1. ASSUME NEW p \in Proc, SetPath(p) PROVE TypeOK'
  <2>1. PICK kind \in Kinds, out \in Outs, in \in Ins, both \in Duals, forced \in Forces :
          \/ RejectPath(p, kind, out, in, forced)
          \/ ChangePath(p, kind, out, in, both, forced)
          \/ ReleasePath(p, kind, out, in, both, forced)
    BY <1>1 DEF SetPath
  <2>2. forced \in BOOLEAN
    BY PathAssumption
  <2>3. CASE RejectPath(p, kind, out, in, forced)
    BY <2>3 DEF RejectPath, Protected, TypeOK
  <2> QED
    BY <2>1, <2>2, <2>3, TypeChange, TypeRelease
<1>2. ASSUME NEW p \in Proc, Crash(p) PROVE TypeOK'
  BY <1>2 DEF Crash, record, TypeOK
<1>3. ASSUME NEW jack \in Jacks, Plug(jack) PROVE TypeOK'
  BY <1>3, PathAssumption DEF Plug, record, TypeOK
<1>4. CASE UNCHANGED vars
  BY <1>4 DEF vars, record, TypeOK
<1> QED
  BY <1>1, <1>2, <1>3, <1>4, TypeReset DEF Next

\* The record, the codec and the devices of every process keep their types.
THEOREM PathTypes == Spec => []TypeOK
BY TypeInit, TypeNext, PTL DEF Spec

-----------------------------------------------------------------------------
(* The protection is that of a live process *)

LEMMA LiveChange ==
  ASSUME NEW p \in Proc, NEW kind \in Kinds, NEW out, NEW in, NEW both,
         NEW forced \in BOOLEAN, ChangePath(p, kind, out, in, both, forced)
  PROVE  fixed' => fixedPid' \in alive'
<1> DEFINE g == Local(kind, forced)
<1>1. p \in alive /\ alive' = alive
  BY DEF ChangePath, Sends
<1>2. fixedPid' \in {p, fixedPid}
  BY DEF ChangePath
<1>3. PICK playDone \in BOOLEAN, micDone \in BOOLEAN :
        \/ MediaScript(g, path', both, inserted, playDone, micDone)
        \/ VideoCallScript(g, path', reqgain', playDone)
        \/ RadioScript(g, path', reqgain', playDone)
        \/ NoPlaybackScript(g, path', micDone)
  BY DEF ChangePath
<1>4. CASE MediaScript(g, path', both, inserted, playDone, micDone)
  BY <1>4 DEF MediaScript
<1>5. CASE \/ RadioScript(g, path', reqgain', playDone)
           \/ NoPlaybackScript(g, path', micDone)
  BY <1>1, <1>2, <1>5 DEF RadioScript, NoPlaybackScript, Protected
<1>6. CASE VideoCallScript(g, path', reqgain', playDone)
  <2>1. g.playback = "VIDEOCALL" /\ g.capture = "VIDEOCALL"
    BY <1>6 DEF VideoCallScript
  <2>2. CASE kind = "video"
    <3>1. WinsPlayback(kind, forced)
      BY <2>1, <2>2 DEF WinsPlayback, PlaybackOf
    <3>2. fixedPid' = p
      BY <2>1, <3>1 DEF ChangePath, Calls
    <3> QED
      BY <1>1, <3>2
  <2>3. CASE kind # "video"
    <3>1. /\ Decide(gain.playback, PlaybackOf(kind), forced) = "VIDEOCALL"
          /\ Decide(gain.capture, CaptureOf(kind), forced) = "VIDEOCALL"
      BY <2>1 DEF Local
    <3>2. CASE kind = "alert"
      <4>1. PlaybackOf(kind) = "CALLALERT"
        BY <3>2 DEF PlaybackOf
      <4> QED
        BY <3>1, <4>1, DecideCases DEF Select, Calls
    <3>3. CASE kind \in {"media", "record", "voice", "radio"}
      <4>1. CaptureOf(kind) \notin {"none", "VIDEOCALL"}
        BY <3>3 DEF CaptureOf
      <4>2. Protected
        BY <3>1, <4>1, DecideCases
      <4> QED
        BY <1>1, <1>2, <4>2 DEF Protected
    <3> QED
      BY <2>3, <3>2, <3>3 DEF Kinds
  <2> QED
    BY <2>2, <2>3
<1> QED
  BY <1>3, <1>4, <1>5, <1>6

\* After any request, only a live process protects the path.
THEOREM LiveProtector == Spec => OnlyTheLivingAreProtected
<1>1. [Next]_vars =>
        [fixed' => fixedPid' \in alive']_<<gain, path, reqgain, fixedPid, result>>
  <2> SUFFICES ASSUME Next, ~UNCHANGED <<gain, path, reqgain, fixedPid, result>>
               PROVE  fixed' => fixedPid' \in alive'
    BY DEF vars, record
  <2>1. ASSUME NEW p \in Proc, SetPath(p) PROVE fixed' => fixedPid' \in alive'
    <3>1. PICK kind \in Kinds, out \in Outs, in \in Ins, both \in Duals, forced \in Forces :
            \/ RejectPath(p, kind, out, in, forced)
            \/ ChangePath(p, kind, out, in, both, forced)
            \/ ReleasePath(p, kind, out, in, both, forced)
      BY <2>1 DEF SetPath
    <3>2. forced \in BOOLEAN
      BY PathAssumption
    <3>3. CASE RejectPath(p, kind, out, in, forced)
      BY <3>3 DEF RejectPath, Protected
    <3>4. CASE ReleasePath(p, kind, out, in, both, forced)
      BY <3>4 DEF ReleasePath, Protected, ToDefault, MediaScript
    <3> QED
      BY <3>1, <3>2, <3>3, <3>4, LiveChange
  <2>2. ASSUME NEW p \in Proc, Crash(p) PROVE FALSE
    BY <2>2 DEF Crash, record
  <2>3. ASSUME NEW jack \in Jacks, Plug(jack) PROVE FALSE
    BY <2>3 DEF Plug, record
  <2>4. ASSUME NEW jack \in Jacks, Reset(jack) PROVE fixed' => fixedPid' \in alive'
    BY <2>4 DEF Reset, ToDefault, MediaScript
  <2> QED
    BY <2>1, <2>2, <2>3, <2>4 DEF Next
<1> QED
  BY <1>1, PTL DEF Spec, OnlyTheLivingAreProtected

-----------------------------------------------------------------------------
(* A video call keeps its gain and its devices *)

LEMMA ProtectedChange ==
  ASSUME NEW p \in Proc, NEW kind \in Kinds, NEW out, NEW in, NEW both,
         NEW forced \in BOOLEAN, ~forced,
         ChangePath(p, kind, out, in, both, forced),
         Protected, gain.playback = "VIDEOCALL", gain.capture = "VIDEOCALL", TypeOK
  PROVE  \/ UNCHANGED <<gain, path>>
         \/ gain'.playback \in Calls /\ gain' = reqgain'
         \/ /\ gain'.playback = "CALLALERT"
            /\ UNCHANGED <<gain.capture, path.capture>>
<1> DEFINE play == IF PlaybackOf(kind) = "none" THEN "VIDEOCALL"
                     ELSE Select("VIDEOCALL", PlaybackOf(kind))
           mic == IF CaptureOf(kind) = "none" THEN "VIDEOCALL"
                     ELSE Select("VIDEOCALL", CaptureOf(kind))
<1>1. gain' = [playback |-> play, capture |-> mic]
  BY DEF ChangePath, Local, Decide
<1>2. /\ WinsPlayback(kind, forced) <=> PlaybackOf(kind) = play
      /\ WinsCapture(kind, forced) <=> CaptureOf(kind) = mic
  BY DEF WinsPlayback, WinsCapture, Local, Decide
<1>3. /\ gain = [playback |-> gain.playback, capture |-> gain.capture]
      /\ path = [playback |-> path.playback, capture |-> path.capture]
  BY DEF TypeOK
<1>4. path' = [playback |-> IF WinsPlayback(kind, forced) THEN out ELSE path.playback,
               capture  |-> IF WinsCapture(kind, forced) THEN in ELSE path.capture]
  BY DEF ChangePath
<1>5. CASE kind \in {"media", "record", "radio"}
  <2>1. play = "VIDEOCALL" /\ mic = "VIDEOCALL"
    BY <1>5 DEF PlaybackOf, CaptureOf, Select, Calls
  <2>2. PlaybackOf(kind) # "VIDEOCALL" /\ CaptureOf(kind) # "VIDEOCALL"
    BY <1>5 DEF PlaybackOf, CaptureOf
  <2> HIDE DEF play, mic
  <2>3. ~WinsPlayback(kind, forced) /\ ~WinsCapture(kind, forced)
    BY <1>2, <2>1, <2>2
  <2>4. gain' = gain
    BY <1>1, <1>3, <2>1
  <2>5. path' = path
    BY <1>3, <1>4, <2>3
  <2> QED
    BY <2>4, <2>5
<1>6. CASE kind = "alert"
  <2>1. play = "CALLALERT" /\ mic = "VIDEOCALL" /\ CaptureOf(kind) = "none"
    BY <1>6 DEF PlaybackOf, CaptureOf, Select, Calls
  <2> HIDE DEF play, mic
  <2>2. ~WinsCapture(kind, forced)
    BY <1>2, <2>1
  <2> QED
    BY <1>1, <1>4, <2>1, <2>2
<1>7. CASE kind \in {"voice", "video"}
  <2>1. /\ PlaybackOf(kind) = CaptureOf(kind) /\ PlaybackOf(kind) \in Calls
        /\ kind # "record" /\ kind # "alert"
    BY <1>7 DEF PlaybackOf, CaptureOf, Calls
  <2>2. play = PlaybackOf(kind) /\ mic = CaptureOf(kind)
    BY <2>1 DEF Select, Calls
  <2>3. reqgain' = [playback |-> PlaybackOf(kind), capture |-> CaptureOf(kind)]
    BY <2>1 DEF ChangePath, Register
  <2> HIDE DEF play, mic
  <2> QED
    BY <1>1, <2>1, <2>2, <2>3
<1> QED
  BY <1>5, <1>6, <1>7 DEF Kinds

\* Unless the FORCED option is used, nothing but calls and ringtones takes the
\* path from a video call.
THEOREM CallProtection ==
  ASSUME Forces \subseteq {FALSE}
  PROVE  Spec => CallIsProtected
<1> DEFINE Holds == \/ UNCHANGED <<gain, path>>
                    \/ gain'.playback \in Calls /\ gain' = reqgain'
                    \/ /\ gain'.playback = "CALLALERT"
                       /\ UNCHANGED <<gain.capture, path.capture>>
                    \/ fixedPid' = NoPid
           Guard == Protected /\ gain.playback = "VIDEOCALL" /\ gain.capture = "VIDEOCALL"
<1>1. TypeOK /\ [Next]_vars => [Guard => Holds]_vars
  <2> SUFFICES ASSUME TypeOK, Next, Guard PROVE Holds
    OBVIOUS
  <2>1. ASSUME NEW p \in Proc, SetPath(p) PROVE Holds
    <3>1. PICK kind \in Kinds, out \in Outs, in \in Ins, both \in Duals, forced \in Forces :
            \/ RejectPath(p, kind, out, in, forced)
            \/ ChangePath(p, kind, out, in, both, forced)
            \/ ReleasePath(p, kind, out, in, both, forced)
      BY <2>1 DEF SetPath
    <3>2. forced = FALSE
      BY <3>1
    <3>3. CASE RejectPath(p, kind, out, in, forced)
      BY <3>3 DEF RejectPath
    <3>4. CASE ChangePath(p, kind, out, in, both, forced)
      BY <3>2, <3>4, ProtectedChange
    <3>5. CASE ReleasePath(p, kind, out, in, both, forced)
      <4>1. kind # "radio"
        <5>1. SUFFICES ASSUME kind = "radio" PROVE FALSE
          OBVIOUS
        <5>2. WinsPlayback(kind, FALSE) /\ PlaybackOf(kind) = "FMRADIO"
          BY <3>2, <3>5, <5>1 DEF ReleasePath, IsRelease, PlaybackOf
        <5>3. Decide(gain.playback, PlaybackOf(kind), FALSE) = "VIDEOCALL"
          BY <5>2 DEF Decide, Select, Calls
        <5> QED
          BY <5>2, <5>3 DEF WinsPlayback, Local
      <4> QED
        BY <3>5, <4>1 DEF ReleasePath
    <3> QED
      BY <3>1, <3>3, <3>4, <3>5
  <2>2. ASSUME NEW p \in Proc, Crash(p) PROVE Holds
    BY <2>2 DEF Crash, record
  <2>3. ASSUME NEW jack \in Jacks, Plug(jack) PROVE Holds
    BY <2>3 DEF Plug, record
  <2>4. ASSUME NEW jack \in Jacks, Reset(jack) PROVE Holds
    BY <2>4 DEF Reset
  <2> QED
    BY <2>1, <2>2, <2>3, <2>4 DEF Next
<1> QED
  BY <1>1, PathTypes, PTL DEF Spec, CallIsProtected

-----------------------------------------------------------------------------
(* The gain supports the device *)

\* What protects the path is a call, on both sides.
FixedIsCall == fixed => gain.playback \in Calls /\ gain.capture = gain.playback

SupportInv == TypeOK /\ FixedIsCall /\ PathIsSupported

\* An accepted request keeps the devices supported: the side that it decides
\* was looked up in the table, and the side that it loses keeps its gain too.
LEMMA SupportChange ==
  ASSUME SupportInv, NEW p \in Proc, NEW kind \in Kinds, NEW out, NEW in, NEW both,
         NEW forced \in BOOLEAN, ChangePath(p, kind, out, in, both, forced)
  PROVE  PathIsSupported'
<1> DEFINE g == Local(kind, forced)
<1>1. /\ gain' = g
      /\ path'.playback = IF WinsPlayback(kind, forced) THEN out ELSE path.playback
      /\ path'.capture = IF WinsCapture(kind, forced) THEN in ELSE path.capture
      /\ Accepted(kind, out, in, forced)
  BY DEF ChangePath
<1>2. path'.playback \in OutputsOf(g.playback)
  <2>1. CASE WinsPlayback(kind, forced)
    <3>1. PlaybackOf(kind) # "none"
      BY <2>1, LocalType DEF WinsPlayback, SupportInv, PlaybackGain, CaptureGain, Calls
    <3> QED
      BY <1>1, <2>1, <3>1 DEF Accepted
  <2>2. CASE ~WinsPlayback(kind, forced)
    BY <1>1, <2>2, LosersKeep DEF SupportInv, PathIsSupported
  <2> QED
    BY <2>1, <2>2
<1>3. path'.capture \in InputsOf(g.capture)
  <2>1. CASE WinsCapture(kind, forced)
    <3>1. CaptureOf(kind) # "none"
      BY <2>1, LocalType DEF WinsCapture, SupportInv, CaptureGain, Calls
    <3> QED
      BY <1>1, <2>1, <3>1 DEF Accepted
  <2>2. CASE ~WinsCapture(kind, forced)
    BY <1>1, <2>2, LosersKeep DEF SupportInv, PathIsSupported
  <2> QED
    BY <2>1, <2>2
<1> HIDE DEF g
<1> QED
  BY <1>1, <1>2, <1>3 DEF PathIsSupported

\* Without the FORCED option, only another call takes the gain of the call that
\* protects the path; a ringtone does as well, but ends the protection.
LEMMA FixedChange ==
  ASSUME SupportInv, NEW p \in Proc, NEW kind \in Kinds, NEW out, NEW in, NEW both,
         NEW forced \in BOOLEAN, ~forced, ChangePath(p, kind, out, in, both, forced)
  PROVE  FixedIsCall'
<1> DEFINE g == Local(kind, forced)
<1>1. gain' = g
  BY DEF ChangePath
<1>2. PICK playDone \in BOOLEAN, micDone \in BOOLEAN :
        \/ MediaScript(g, path', both, inserted, playDone, micDone)
        \/ VideoCallScript(g, path', reqgain', playDone)
        \/ RadioScript(g, path', reqgain', playDone)
        \/ NoPlaybackScript(g, path', micDone)
  BY DEF ChangePath
<1>3. CASE MediaScript(g, path', both, inserted, playDone, micDone)
  BY <1>3 DEF MediaScript, FixedIsCall
<1>4. CASE VideoCallScript(g, path', reqgain', playDone)
  BY <1>1, <1>4 DEF VideoCallScript, FixedIsCall, Calls
<1>5. CASE /\ g.playback \notin {"AP", "CALLALERT"}
           /\ fixed' = Protected
  <2> SUFFICES ASSUME Protected PROVE g.playback \in Calls /\ g.capture = g.playback
    BY <1>1, <1>5 DEF FixedIsCall
  <2>1. gain.playback \in Calls /\ gain.capture = gain.playback
    BY DEF SupportInv, FixedIsCall, Protected
  <2>2. /\ g.playback = IF PlaybackOf(kind) = "none" THEN gain.playback
                          ELSE Select(gain.playback, PlaybackOf(kind))
        /\ g.capture = IF CaptureOf(kind) = "none" THEN gain.capture
                          ELSE Select(gain.capture, CaptureOf(kind))
    BY DEF Local, Decide
  <2> HIDE DEF g
  <2>3. CASE kind \in {"media", "record", "radio"}
    BY <2>1, <2>2, <2>3 DEF PlaybackOf, CaptureOf, Select, Calls
  <2>4. CASE kind = "alert"
    BY <1>5, <2>1, <2>2, <2>4 DEF PlaybackOf, Select, Calls
  <2>5. CASE kind \in {"voice", "video"}
    BY <2>1, <2>2, <2>5 DEF PlaybackOf, CaptureOf, Select, Calls
  <2> QED
    BY <2>3, <2>4, <2>5 DEF Kinds
<1> QED
  BY <1>2, <1>3, <1>4, <1>5 DEF RadioScript, NoPlaybackScript

\* The default devices are supported by media, and protect nothing.
LEMMA SupportDefault ==
  ASSUME NEW jack, NEW both, NEW playDone, NEW micDone,
         ToDefault(jack, both, playDone, micDone)
  PROVE  PathIsSupported' /\ FixedIsCall'
BY DEF ToDefault, MediaScript, PathIsSupported, FixedIsCall, OutputsOf, InputsOf

\* Without the FORCED option a call's protection is never in the way of a
\* release.
LEMMA ReleaseIsFree ==
  ASSUME SupportInv, NEW p \in Proc, NEW kind \in Kinds, NEW out, NEW in, NEW both,
         NEW forced \in BOOLEAN, ~forced, ReleasePath(p, kind, out, in, both, forced)
  PROVE  ~(Protected /\ kind = "radio")
<1> SUFFICES ASSUME Protected, kind = "radio" PROVE FALSE
  OBVIOUS
<1>1. PlaybackOf(kind) = "FMRADIO"
  BY DEF PlaybackOf
<1>2. Decide(gain.playback, PlaybackOf(kind), forced) = "FMRADIO"
  BY <1>1 DEF ReleasePath, IsRelease, WinsPlayback, Local
<1>3. gain.playback \in Calls
  BY DEF SupportInv, FixedIsCall, Protected
<1> QED
  BY <1>1, <1>2, <1>3 DEF Decide, Select, Calls

\* A release takes the path back to the default.
LEMMA SupportRelease ==
  ASSUME SupportInv, NEW p \in Proc, NEW kind \in Kinds, NEW out, NEW in, NEW both,
         NEW forced \in BOOLEAN, ~forced, ReleasePath(p, kind, out, in, both, forced)
  PROVE  PathIsSupported' /\ FixedIsCall'
<1>1. ~(Protected /\ kind = "radio")
  BY ReleaseIsFree
<1>2. \E playDone, micDone \in BOOLEAN : ToDefault(inserted, both, playDone, micDone)
  BY <1>1 DEF ReleasePath
<1> QED
  BY <1>2, SupportDefault

LEMMA SupportNext ==
  ASSUME Forces \subseteq {FALSE}
  PROVE  SupportInv /\ [Next]_vars => SupportInv'
<1> SUFFICES ASSUME SupportInv, [Next]_vars PROVE FixedIsCall' /\ PathIsSupported'
  BY TypeNext DEF SupportInv
<1>1. ASSUME NEW p \in Proc, SetPath(p) PROVE FixedIsCall' /\ PathIsSupported'
  <2>1. PICK kind \in Kinds, out \in Outs, in \in Ins, both \in Duals, forced \in Forces :
          \/ RejectPath(p, kind, out, in, forced)
          \/ ChangePath(p, kind, out, in, both, forced)
          \/ ReleasePath(p, kind, out, in, both, forced)
    BY <1>1 DEF SetPath
  <2>2. forced \in BOOLEAN /\ ~forced
    BY <2>1
  <2>3. CASE RejectPath(p, kind, out, in, forced)
    BY <2>3 DEF RejectPath, Protected, SupportInv, FixedIsCall, PathIsSupported
  <2>4. CASE ChangePath(p, kind, out, in, both, forced)
    BY <2>2, <2>4, SupportChange, FixedChange
  <2>5. CASE ReleasePath(p, kind, out, in, both, forced)
    BY <2>2, <2>5, SupportRelease
  <2> QED
    BY <2>1, <2>3, <2>4, <2>5
<1>2. ASSUME NEW p \in Proc, Crash(p) PROVE FixedIsCall' /\ PathIsSupported'
  BY <1>2 DEF Crash, record, SupportInv, FixedIsCall, PathIsSupported
<1>3. ASSUME NEW jack \in Jacks, Plug(jack) PROVE FixedIsCall' /\ PathIsSupported'
  BY <1>3 DEF Plug, record, SupportInv, FixedIsCall, PathIsSupported
<1>4. ASSUME NEW jack \in Jacks, Reset(jack) PROVE FixedIsCall' /\ PathIsSupported'
  <2>1. \E playDone, micDone \in BOOLEAN : ToDefault(jack, FALSE, playDone, micDone)
    BY <1>4 DEF Reset
  <2> QED
    BY <2>1, SupportDefault
<1>5. CASE UNCHANGED vars
  BY <1>5 DEF vars, record, SupportInv, FixedIsCall, PathIsSupported
<1> QED
  BY <1>1, <1>2, <1>3, <1>4, <1>5 DEF Next

\* Unless the FORCED option is used, the recorded gain supports the recorded
\* devices, whatever the requests, resets and crashes were.
THEOREM PathSupport ==
  ASSUME Forces \subseteq {FALSE}
  PROVE  Spec => []PathIsSupported
<1>1. Init => SupportInv
  BY TypeInit DEF Init, SupportInv, FixedIsCall, PathIsSupported, OutputsOf, InputsOf
<1>2. SupportInv => PathIsSupported
  BY DEF SupportInv
<1> QED
  BY <1>1, <1>2, SupportNext, PTL DEF Spec

-----------------------------------------------------------------------------
(* The devices of a voice call are closed by who opened them *)

\* Only who makes calls opens the devices of a call.
CallersOwn == \A p \in Proc : aif[p] \cap CallAifs # {} => p \in Callers

OwnerInv == TypeOK /\ CallersOwn /\ CallDevicesHaveAnOwner

\* A request that opens a device of a call comes from a caller, whose pid it
\* records; only a caller's request replaces the pid that is recorded.
LEMMA OpensAsOwner ==
  ASSUME TypeOK, NEW p \in Proc, NEW kind \in Kinds, NEW out, NEW in, NEW both,
         NEW forced \in BOOLEAN, ChangePath(p, kind, out, in, both, forced)
  PROVE  /\ fixedPid' = fixedPid \/ (fixedPid' = p /\ p \in Callers)
         /\ \A q \in Proc : q # p => aif'[q] = aif[q]
         /\ \/ aif'[p] \cap CallAifs = aif[p] \cap CallAifs
            \/ fixedPid' = p /\ p \in Callers
<1> DEFINE g == Local(kind, forced)
           plays == IF WinsPlayback(kind, forced) THEN PlaybackAifs(g.playback, out) ELSE {}
           records == IF WinsCapture(kind, forced) THEN CaptureAifs(g.capture, in) ELSE {}
<1>1. /\ fixedPid' = IF \/ WinsPlayback(kind, forced) /\ g.playback \in Calls
                        \/ WinsCapture(kind, forced) /\ g.capture \in Calls
                       THEN p ELSE fixedPid
      /\ aif' = [aif EXCEPT ![p] = (@ \cup plays) \cup records]
      /\ kind \in {"voice", "video"} => p \in Callers
  BY DEF ChangePath, Sends
<1>2. /\ WinsPlayback(kind, forced) /\ g.playback \in Calls => kind \in {"voice", "video"}
      /\ WinsCapture(kind, forced) /\ g.capture \in Calls => kind \in {"voice", "video"}
  BY DEF WinsPlayback, WinsCapture, PlaybackOf, CaptureOf, Kinds, Calls
<1>3. /\ plays \cap CallAifs # {} => WinsPlayback(kind, forced) /\ g.playback \in Calls
      /\ records \cap CallAifs # {} => WinsCapture(kind, forced) /\ g.capture \in Calls
  BY DEF PlaybackAifs, CaptureAifs, CallAifs, Calls
<1>4. /\ aif'[p] = (aif[p] \cup plays) \cup records
      /\ \A q \in Proc : q # p => aif'[q] = aif[q]
  <2> HIDE DEF plays, records
  <2> QED
    BY <1>1 DEF TypeOK
<1> HIDE DEF plays, records
<1>5. /\ fixedPid' = fixedPid \/ (fixedPid' = p /\ p \in Callers)
      /\ plays \cap CallAifs # {} => fixedPid' = p /\ p \in Callers
      /\ records \cap CallAifs # {} => fixedPid' = p /\ p \in Callers
  BY <1>1, <1>2, <1>3
<1>6. \/ aif'[p] \cap CallAifs = aif[p] \cap CallAifs
      \/ fixedPid' = p /\ p \in Callers
  <2>1. CASE plays \cap CallAifs = {} /\ records \cap CallAifs = {}
    BY <1>4, <2>1
  <2> QED
    BY <1>5, <2>1
<1> QED
  BY <1>4, <1>5, <1>6

LEMMA OwnerNext ==
  ASSUME NEW c, Callers \subseteq {c}, ~Resets
  PROVE  OwnerInv /\ [Next]_vars => OwnerInv'
<1> SUFFICES ASSUME OwnerInv, [Next]_vars PROVE CallersOwn' /\ CallDevicesHaveAnOwner'
  BY TypeNext DEF OwnerInv
<1>1. ASSUME NEW p \in Proc, SetPath(p) PROVE CallersOwn' /\ CallDevicesHaveAnOwner'
  <2>1. PICK kind \in Kinds, out \in Outs, in \in Ins, both \in Duals, forced \in Forces :
          \/ RejectPath(p, kind, out, in, forced)
          \/ ChangePath(p, kind, out, in, both, forced)
          \/ ReleasePath(p, kind, out, in, both, forced)
    BY <1>1 DEF SetPath
  <2>2. forced \in BOOLEAN
    BY PathAssumption
  <2>3. CASE RejectPath(p, kind, out, in, forced)
    BY <2>3 DEF RejectPath, OwnerInv, CallersOwn, CallDevicesHaveAnOwner
  <2>4. CASE ChangePath(p, kind, out, in, both, forced)
    <3>1. /\ fixedPid' = fixedPid \/ (fixedPid' = p /\ p \in Callers)
          /\ \A q \in Proc : q # p => aif'[q] = aif[q]
          /\ \/ aif'[p] \cap CallAifs = aif[p] \cap CallAifs
             \/ fixedPid' = p /\ p \in Callers
      BY <2>2, <2>4, OpensAsOwner DEF OwnerInv
    <3> SUFFICES ASSUME NEW q \in Proc, aif'[q] \cap CallAifs # {}
                 PROVE  q \in Callers /\ fixedPid' = q
      BY DEF CallersOwn, CallDevicesHaveAnOwner
    <3>2. CASE aif[q] \cap CallAifs # {}
      BY <3>1, <3>2 DEF OwnerInv, CallersOwn, CallDevicesHaveAnOwner
    <3>3. CASE aif[q] \cap CallAifs = {}
      BY <3>1, <3>3
    <3> QED
      BY <3>2, <3>3
  <2>5. CASE ReleasePath(p, kind, out, in, both, forced)
    <3>1. /\ aif' = Closed(p, kind # "radio")
          /\ fixedPid' = IF kind # "radio" THEN NoPid ELSE fixedPid
          /\ kind \in {"voice", "video", "radio"}
          /\ kind \in {"voice", "video"} => p \in Callers
      BY <2>5 DEF ReleasePath, IsRelease, Sends
    <3>2. CASE kind = "radio"
      BY <3>1, <3>2 DEF Closed, OwnerInv, CallersOwn, CallDevicesHaveAnOwner
    <3>3. CASE kind # "radio"
      <4>1. p = c
        BY <3>1, <3>3
      <4>2. \A q \in Proc : aif[q] \cap CallAifs # {} => q = p /\ fixedPid = p
        BY <4>1 DEF OwnerInv, CallersOwn, CallDevicesHaveAnOwner
      <4>3. \A q \in Proc : aif'[q] \cap CallAifs = {}
        BY <3>1, <3>3, <4>2 DEF Closed, OwnerInv, TypeOK
      <4> QED
        BY <4>3 DEF CallersOwn, CallDevicesHaveAnOwner
    <3> QED
      BY <3>2, <3>3
  <2> QED
    BY <2>1, <2>3, <2>4, <2>5
<1>2. ASSUME NEW p \in Proc, Crash(p) PROVE CallersOwn' /\ CallDevicesHaveAnOwner'
  <2>1. \A q \in Proc : aif'[q] = IF q = p THEN {} ELSE aif[q]
    BY <1>2 DEF Crash, OwnerInv, TypeOK
  <2>2. fixedPid' = fixedPid
    BY <1>2 DEF Crash, record
  <2> QED
    BY <2>1, <2>2 DEF OwnerInv, CallersOwn, CallDevicesHaveAnOwner
<1>3. ASSUME NEW jack \in Jacks, Plug(jack) PROVE CallersOwn' /\ CallDevicesHaveAnOwner'
  BY <1>3 DEF Plug, record, OwnerInv, CallersOwn, CallDevicesHaveAnOwner
<1>4. \A jack \in Jacks : ~Reset(jack)
  BY DEF Reset
<1>5. CASE UNCHANGED vars
  BY <1>5 DEF vars, record, OwnerInv, CallersOwn, CallDevicesHaveAnOwner
<1> QED
  BY <1>1, <1>2, <1>3, <1>4, <1>5 DEF Next

\* Where one process makes the calls and the system does not hibernate, the
\* devices that a voice call opened belong to the process that the release of
\* the call will find in the record.
THEOREM CallDeviceOwner ==
  ASSUME NEW c, Callers \subseteq {c}, ~Resets
  PROVE  Spec => []CallDevicesHaveAnOwner
<1>1. Init => OwnerInv
  BY TypeInit DEF Init, OwnerInv, CallersOwn, CallDevicesHaveAnOwner
<1>2. OwnerInv => CallDevicesHaveAnOwner
  BY DEF OwnerInv
<1> QED
  BY <1>1, <1>2, OwnerNext, PTL DEF Spec

-----------------------------------------------------------------------------
(* The volume table follows the device *)

DeviceInv == TypeOK /\ DeviceFollowsPath

\* Only a video request brings the gain of a video call.
LEMMA VideoAsks ==
  ASSUME NEW kind \in Kinds, NEW forced \in BOOLEAN,
         PlaybackOf(kind) # "VIDEOCALL", Local(kind, forced).playback = "VIDEOCALL"
  PROVE  gain.playback = "VIDEOCALL" /\ ~WinsPlayback(kind, forced)
<1>1. ~WinsPlayback(kind, forced)
  BY DEF WinsPlayback
<1> QED
  BY <1>1, LosersKeep

\* Media, ringtones and the call's own request choose the table of the new
\* device; a request that the call outlives changes neither.
LEMMA DeviceChange ==
  ASSUME DeviceInv, NEW p \in Proc, NEW kind \in Kinds, NEW out, NEW in, NEW both,
         NEW forced \in BOOLEAN, ChangePath(p, kind, out, in, both, forced)
  PROVE  DeviceFollowsPath'
<1> DEFINE g == Local(kind, forced)
<1>1. /\ gain' = g
      /\ path'.playback = IF WinsPlayback(kind, forced) THEN out ELSE path.playback
      /\ reqgain'.playback
           = IF kind = "record" THEN reqgain.playback ELSE PlaybackOf(kind)
  BY DEF ChangePath, Register
<1>2. PICK playDone \in BOOLEAN, micDone \in BOOLEAN :
        \/ MediaScript(g, path', both, inserted, playDone, micDone)
        \/ VideoCallScript(g, path', reqgain', playDone)
        \/ RadioScript(g, path', reqgain', playDone)
        \/ NoPlaybackScript(g, path', micDone)
  BY DEF ChangePath
<1>3. CASE MediaScript(g, path', both, inserted, playDone, micDone)
  BY <1>3 DEF MediaScript, DeviceFollowsPath
<1>4. CASE RadioScript(g, path', reqgain', playDone)
  BY <1>1, <1>4 DEF RadioScript, DeviceFollowsPath
<1>5. ASSUME device' = device, g.playback \notin {"AP", "CALLALERT"},
             PlaybackOf(kind) # "VIDEOCALL"
      PROVE  DeviceFollowsPath'
  <2> SUFFICES ASSUME g.playback = "VIDEOCALL", path'.playback # "NONE"
               PROVE  device = DeviceOf(path'.playback)
    BY <1>1, <1>5 DEF DeviceFollowsPath
  <2>1. gain.playback = "VIDEOCALL" /\ path'.playback = path.playback
    BY <1>1, <1>5, VideoAsks
  <2> QED
    BY <2>1 DEF DeviceInv, DeviceFollowsPath
<1>6. CASE VideoCallScript(g, path', reqgain', playDone)
  <2>1. /\ device' = CallDevice(g, path', reqgain')
        /\ g.playback = "VIDEOCALL"
    BY <1>6 DEF VideoCallScript
  <2>2. CASE PlaybackOf(kind) = "VIDEOCALL"
    <3>1. reqgain'.playback = "VIDEOCALL"
      BY <1>1, <2>2 DEF PlaybackOf
    <3> QED
      BY <2>1, <3>1 DEF CallDevice, DeviceFollowsPath
  <2>3. CASE PlaybackOf(kind) # "VIDEOCALL" /\ device' = device
    BY <1>5, <2>1, <2>3
  <2>4. CASE device' # device
    BY <2>1, <2>4 DEF CallDevice, DeviceFollowsPath
  <2> QED
    BY <2>2, <2>3, <2>4
<1>7. CASE NoPlaybackScript(g, path', micDone)
  <2>1. /\ device' = device
        /\ g.playback \notin {"AP", "CALLALERT"}
        /\ g.playback = g.capture => g.playback = "VOICECALL"
    BY <1>7 DEF NoPlaybackScript
  <2>2. PlaybackOf(kind) # "VIDEOCALL"
    <3> SUFFICES ASSUME PlaybackOf(kind) = "VIDEOCALL" PROVE FALSE
      OBVIOUS
    <3>1. CaptureOf(kind) = "VIDEOCALL"
      BY DEF PlaybackOf, CaptureOf, Kinds
    <3>2. g.playback = "VIDEOCALL" /\ g.capture = "VIDEOCALL"
      BY <3>1 DEF Local, Decide, Select, Calls
    <3> QED
      BY <2>1, <3>2
  <2> QED
    BY <1>5, <2>1, <2>2
<1> QED
  BY <1>2, <1>3, <1>4, <1>6, <1>7

LEMMA DeviceNext == DeviceInv /\ [Next]_vars => DeviceInv'
<1> SUFFICES ASSUME DeviceInv, [Next]_vars PROVE DeviceFollowsPath'
  BY TypeNext DEF DeviceInv
<1>1. ASSUME NEW jack, NEW both, NEW playDone, NEW micDone,
             ToDefault(jack, both, playDone, micDone)
      PROVE  DeviceFollowsPath'
  BY <1>1 DEF ToDefault, MediaScript, DeviceFollowsPath
<1>2. ASSUME NEW p \in Proc, SetPath(p) PROVE DeviceFollowsPath'
  <2>1. PICK kind \in Kinds, out \in Outs, in \in Ins, both \in Duals, forced \in Forces :
          \/ RejectPath(p, kind, out, in, forced)
          \/ ChangePath(p, kind, out, in, both, forced)
          \/ ReleasePath(p, kind, out, in, both, forced)
    BY <1>2 DEF SetPath
  <2>2. forced \in BOOLEAN
    BY PathAssumption
  <2>3. CASE RejectPath(p, kind, out, in, forced)
    BY <2>3 DEF RejectPath, DeviceInv, DeviceFollowsPath
  <2>4. CASE ChangePath(p, kind, out, in, both, forced)
    BY <2>2, <2>4, DeviceChange
  <2>5. CASE ReleasePath(p, kind, out, in, both, forced)
    <3>1. CASE /\ kind = "radio"
               /\ gain' = Local(kind, forced)
      <4>1. gain'.playback = "FMRADIO"
        BY <2>5, <3>1 DEF ReleasePath, IsRelease, WinsPlayback, PlaybackOf
      <4> QED
        BY <4>1 DEF DeviceFollowsPath
    <3>2. CASE \E playDone, micDone \in BOOLEAN :
                 ToDefault(inserted, both, playDone, micDone)
      BY <1>1, <3>2
    <3> QED
      BY <2>5, <3>1, <3>2 DEF ReleasePath
  <2> QED
    BY <2>1, <2>3, <2>4, <2>5
<1>3. ASSUME NEW p \in Proc, Crash(p) PROVE DeviceFollowsPath'
  BY <1>3 DEF Crash, record, DeviceInv, DeviceFollowsPath
<1>4. ASSUME NEW jack \in Jacks, Plug(jack) PROVE DeviceFollowsPath'
  BY <1>4 DEF Plug, record, DeviceInv, DeviceFollowsPath
<1>5. ASSUME NEW jack \in Jacks, Reset(jack) PROVE DeviceFollowsPath'
  BY <1>1, <1>5 DEF Reset
<1>6. CASE UNCHANGED vars
  BY <1>6 DEF vars, record, DeviceInv, DeviceFollowsPath
<1> QED
  BY <1>2, <1>3, <1>4, <1>5, <1>6 DEF Next

\* The volume table is that of the output device with media, ringtones and video
\* calls: also with the FORCED option, and whether the scripts fail or not.
THEOREM DeviceInStep == Spec => []DeviceFollowsPath
<1>1. Init => DeviceInv
  BY TypeInit DEF Init, DeviceInv, DeviceFollowsPath, DeviceOf
<1>2. DeviceInv => DeviceFollowsPath
  BY DEF DeviceInv
<1> QED
  BY <1>1, <1>2, DeviceNext, PTL DEF Spec

-----------------------------------------------------------------------------
(* SUCCESS means routed *)

RoutedInv == SupportInv /\ Routed

\* A script that does not fail plays and records what it was asked to.
LEMMA MediaRoutes ==
  ASSUME ~ScriptFails, NEW g, NEW at, NEW both, NEW jack,
         MediaScript(g, at, both, jack, TRUE, TRUE),
         at.playback \in {"SPK", "RECV", "HEADSET", "DOCK", "BTHEADSET"}
  PROVE  /\ at.playback \in outs'
         /\ g.capture = "AP" => MediaInputs(at.capture) \subseteq ins'
<1>1. outs' = MediaOutputs(at.playback, both, jack)
  BY DEF MediaScript, Ran
<1>2. at.playback \in outs'
  BY <1>1 DEF MediaOutputs
<1>3. g.capture = "AP" => ins' = MediaInputs(at.capture)
  BY DEF MediaScript, CaptureScript, Ran
<1> QED
  BY <1>2, <1>3

LEMMA RoutedDefault ==
  ASSUME ~ScriptFails, NEW jack, NEW both, ToDefault(jack, both, TRUE, TRUE)
  PROVE  Routed'
<1>1. /\ MediaScript(gain', path', both, jack, TRUE, TRUE)
      /\ path'.playback \in {"SPK", "HEADSET"}
  BY DEF ToDefault
<1>2. /\ path'.playback \in outs'
      /\ gain'.capture = "AP" => MediaInputs(path'.capture) \subseteq ins'
  BY <1>1, MediaRoutes
<1> QED
  BY <1>2 DEF Routed

LEMMA RoutedChange ==
  ASSUME ~ScriptFails, PathIsSupported', NEW p \in Proc, NEW kind \in Kinds, NEW out,
         NEW in, NEW both, NEW forced \in BOOLEAN,
         ChangePath(p, kind, out, in, both, forced)
  PROVE  Routed'
<1> DEFINE g == Local(kind, forced)
<1>1. gain' = g
  BY DEF ChangePath
<1>2. \/ MediaScript(g, path', both, inserted, TRUE, TRUE)
      \/ VideoCallScript(g, path', reqgain', TRUE)
      \/ RadioScript(g, path', reqgain', TRUE)
      \/ NoPlaybackScript(g, path', TRUE)
  <2>1. PICK playDone \in BOOLEAN, micDone \in BOOLEAN :
          /\ ~ScriptFails => playDone /\ micDone
          /\ \/ MediaScript(g, path', both, inserted, playDone, micDone)
             \/ VideoCallScript(g, path', reqgain', playDone)
             \/ RadioScript(g, path', reqgain', playDone)
             \/ NoPlaybackScript(g, path', micDone)
    BY DEF ChangePath
  <2>2. playDone = TRUE /\ micDone = TRUE
    BY <2>1
  <2> QED
    BY <2>1, <2>2
<1>3. CASE MediaScript(g, path', both, inserted, TRUE, TRUE)
  <2>1. g.playback \in {"AP", "CALLALERT"}
    BY <1>3 DEF MediaScript
  <2>2. path'.playback \in {"SPK", "RECV", "HEADSET", "DOCK", "BTHEADSET"}
    <3> HIDE DEF g
    <3>1. gain'.playback = "AP" \/ gain'.playback = "CALLALERT"
      BY <1>1, <2>1
    <3> QED
      BY <3>1 DEF PathIsSupported, OutputsOf, Calls
  <2>3. /\ path'.playback \in outs'
        /\ g.capture = "AP" => MediaInputs(path'.capture) \subseteq ins'
    BY <1>3, <2>2, MediaRoutes
  <2> QED
    BY <1>1, <2>3 DEF Routed
<1>4. CASE VideoCallScript(g, path', reqgain', TRUE)
  BY <1>1, <1>4 DEF VideoCallScript, Routed
<1>5. CASE RadioScript(g, path', reqgain', TRUE)
  BY <1>1, <1>5 DEF RadioScript, Routed
<1>6. CASE NoPlaybackScript(g, path', TRUE)
  <2>1. /\ g.playback \notin {"AP", "CALLALERT"}
        /\ g.capture = "AP" => ins' = MediaInputs(path'.capture)
    BY <1>6 DEF NoPlaybackScript, CaptureScript, Ran
  <2> QED
    BY <1>1, <2>1 DEF Routed
<1> QED
  BY <1>2, <1>3, <1>4, <1>5, <1>6

LEMMA RoutedNext ==
  ASSUME Forces \subseteq {FALSE}, ~ScriptFails
  PROVE  RoutedInv /\ [Next]_vars => RoutedInv'
<1> SUFFICES ASSUME RoutedInv, [Next]_vars PROVE Routed'
  BY SupportNext DEF RoutedInv
<1>1. PathIsSupported'
  BY SupportNext DEF RoutedInv, SupportInv
<1>2. ASSUME NEW p \in Proc, SetPath(p) PROVE Routed'
  <2>1. PICK kind \in Kinds, out \in Outs, in \in Ins, both \in Duals, forced \in Forces :
          \/ RejectPath(p, kind, out, in, forced)
          \/ ChangePath(p, kind, out, in, both, forced)
          \/ ReleasePath(p, kind, out, in, both, forced)
    BY <1>2 DEF SetPath
  <2>2. forced \in BOOLEAN /\ ~forced
    BY <2>1
  <2>3. CASE RejectPath(p, kind, out, in, forced)
    BY <2>3 DEF RejectPath, RoutedInv, Routed
  <2>4. CASE ChangePath(p, kind, out, in, both, forced)
    BY <1>1, <2>2, <2>4, RoutedChange
  <2>5. CASE ReleasePath(p, kind, out, in, both, forced)
    <3>1. ~(Protected /\ kind = "radio")
      BY <2>2, <2>5, ReleaseIsFree DEF RoutedInv
    <3>2. \E playDone, micDone \in BOOLEAN :
            playDone /\ micDone /\ ToDefault(inserted, both, playDone, micDone)
      BY <2>5, <3>1 DEF ReleasePath
    <3>3. ToDefault(inserted, both, TRUE, TRUE)
      BY <3>2
    <3> QED
      BY <3>3, RoutedDefault
  <2> QED
    BY <2>1, <2>3, <2>4, <2>5
<1>3. ASSUME NEW p \in Proc, Crash(p) PROVE Routed'
  BY <1>3 DEF Crash, record, RoutedInv, Routed
<1>4. ASSUME NEW jack \in Jacks, Plug(jack) PROVE Routed'
  BY <1>4 DEF Plug, record, RoutedInv, Routed
<1>5. ASSUME NEW jack \in Jacks, Reset(jack) PROVE Routed'
  <2>1. ToDefault(jack, FALSE, TRUE, TRUE)
    BY <1>5 DEF Reset
  <2> QED
    BY <2>1, RoutedDefault
<1>6. CASE UNCHANGED vars
  BY <1>6 DEF vars, record, RoutedInv, Routed
<1> QED
  BY <1>2, <1>3, <1>4, <1>5, <1>6 DEF Next

\* Where no script fails and no request is FORCED, a request that returns SUCCESS
\* has set the codec as asked, whatever came before it and with AIF devices that
\* fail to open.
THEOREM SuccessRoutes ==
  ASSUME Forces \subseteq {FALSE}, ~ScriptFails
  PROVE  Spec => []SuccessMeansRouted
<1>1. Init => RoutedInv
  BY TypeInit DEF Init, RoutedInv, SupportInv, FixedIsCall, PathIsSupported, OutputsOf,
     InputsOf, Routed, MediaInputs
<1>2. RoutedInv => SuccessMeansRouted
  BY DEF RoutedInv, SuccessMeansRouted
<1> QED
  BY <1>1, <1>2, RoutedNext, PTL DEF Spec

-----------------------------------------------------------------------------
(* A call is heard until other playback is asked for *)

\* The script of a video call plays on the device of the record, if the call
\* was the last to ask for playback.
LEMMA HeardChange ==
  ASSUME ~ScriptFails, NEW p \in Proc, NEW kind \in Kinds, NEW out, NEW in,
         NEW both, NEW forced \in BOOLEAN,
         ChangePath(p, kind, out, in, both, forced)
  PROVE  CallIsHeard'
<1> DEFINE g == Local(kind, forced)
<1> SUFFICES ASSUME gain'.playback = "VIDEOCALL", gain'.capture = "VIDEOCALL",
                    reqgain'.playback = "VIDEOCALL", path'.playback # "NONE"
             PROVE  path'.playback \in outs'
  BY DEF CallIsHeard
<1>1. g = gain'
  BY DEF ChangePath
<1>2. PICK playDone \in BOOLEAN, micDone \in BOOLEAN :
        /\ ~ScriptFails => playDone /\ micDone
        /\ \/ MediaScript(g, path', both, inserted, playDone, micDone)
           \/ VideoCallScript(g, path', reqgain', playDone)
           \/ RadioScript(g, path', reqgain', playDone)
           \/ NoPlaybackScript(g, path', micDone)
  BY DEF ChangePath
<1>3. g.playback = "VIDEOCALL" /\ g.capture = "VIDEOCALL"
  BY <1>1
<1> HIDE DEF g
<1>4. VideoCallScript(g, path', reqgain', playDone)
  BY <1>2, <1>3 DEF MediaScript, RadioScript, NoPlaybackScript
<1>5. outs' = CallPlays(g, path', reqgain')
  BY <1>2, <1>4 DEF VideoCallScript
<1> QED
  BY <1>3, <1>5 DEF CallPlays

LEMMA HeardNext ==
  ASSUME ~ScriptFails
  PROVE  CallIsHeard /\ [Next]_vars => CallIsHeard'
<1> SUFFICES ASSUME CallIsHeard, [Next]_vars PROVE CallIsHeard'
  OBVIOUS
<1>1. ASSUME NEW jack, NEW both, NEW playDone, NEW micDone,
             ToDefault(jack, both, playDone, micDone)
      PROVE  CallIsHeard'
  BY <1>1 DEF ToDefault, CallIsHeard
<1>2. ASSUME NEW p \in Proc, SetPath(p) PROVE CallIsHeard'
  <2>1. PICK kind \in Kinds, out \in Outs, in \in Ins, both \in Duals, forced \in Forces :
          \/ RejectPath(p, kind, out, in, forced)
          \/ ChangePath(p, kind, out, in, both, forced)
          \/ ReleasePath(p, kind, out, in, both, forced)
    BY <1>2 DEF SetPath
  <2>2. forced \in BOOLEAN
    BY PathAssumption
  <2>3. CASE RejectPath(p, kind, out, in, forced)
    BY <2>3 DEF RejectPath, CallIsHeard
  <2>4. CASE ChangePath(p, kind, out, in, both, forced)
    BY <2>2, <2>4, HeardChange
  <2>5. CASE ReleasePath(p, kind, out, in, both, forced)
    <3>1. CASE kind = "radio" /\ gain' = Local(kind, forced)
      <4>1. gain'.playback = "FMRADIO"
        BY <2>5, <3>1 DEF ReleasePath, IsRelease, WinsPlayback, PlaybackOf
      <4> QED
        BY <4>1 DEF CallIsHeard
    <3>2. CASE \E playDone, micDone \in BOOLEAN :
                 ToDefault(inserted, both, playDone, micDone)
      BY <1>1, <3>2
    <3> QED
      BY <2>5, <3>1, <3>2 DEF ReleasePath
  <2> QED
    BY <2>1, <2>3, <2>4, <2>5
<1>3. ASSUME NEW p \in Proc, Crash(p) PROVE CallIsHeard'
  BY <1>3 DEF Crash, record, CallIsHeard
<1>4. ASSUME NEW jack \in Jacks, Plug(jack) PROVE CallIsHeard'
  BY <1>4 DEF Plug, record, CallIsHeard
<1>5. ASSUME NEW jack \in Jacks, Reset(jack) PROVE CallIsHeard'
  BY <1>1, <1>5 DEF Reset
<1>6. CASE UNCHANGED vars
  BY <1>6 DEF vars, record, CallIsHeard
<1> QED
  BY <1>2, <1>3, <1>4, <1>5, <1>6 DEF Next

\* Where no script fails, a video call loses its sound only to a request for
\* playback of another kind, which the path_silenced_call run shows to be enough:
\* recordings, callers that take over, deaths, FORCED requests and hibernation
\* do not silence it.
THEOREM CallsAreHeard ==
  ASSUME ~ScriptFails
  PROVE  Spec => []CallIsHeard
<1>1. Init => CallIsHeard
  BY DEF Init, CallIsHeard
<1> QED
  BY <1>1, HeardNext, PTL DEF Spec

-----------------------------------------------------------------------------
(* What SUCCESS means when scripts fail *)

\* The half of Routed that the error of the last script tells of.
SuccessMeansRecording ==
  (result = "ok" /\ gain.capture = "AP") => MediaInputs(path.capture) \subseteq ins

\* A capture script that reports success has opened its input.
LEMMA CaptureRecords ==
  ASSUME NEW g, NEW input, CaptureScript(g, input, TRUE), g.capture = "AP"
  PROVE  MediaInputs(input) \subseteq ins'
<1>1. ins' \in Ran(TRUE, MediaInputs(input), ins)
  BY DEF CaptureScript
<1> QED
  BY <1>1 DEF Ran

LEMMA RecordingDefault ==
  ASSUME NEW jack, NEW both, NEW playDone, ToDefault(jack, both, playDone, TRUE)
  PROVE  SuccessMeansRecording'
<1>1. CaptureScript(gain', path'.capture, TRUE)
  BY DEF ToDefault, MediaScript
<1> QED
  BY <1>1, CaptureRecords DEF SuccessMeansRecording

LEMMA RecordingChange ==
  ASSUME AifFirst, NEW p \in Proc, NEW kind, NEW out, NEW in, NEW both, NEW forced,
         ChangePath(p, kind, out, in, both, forced)
  PROVE  SuccessMeansRecording'
<1> DEFINE g == Local(kind, forced)
<1> SUFFICES ASSUME result' = "ok", gain'.capture = "AP"
             PROVE  MediaInputs(path'.capture) \subseteq ins'
  BY DEF SuccessMeansRecording
<1>1. g = gain'
  BY DEF ChangePath
<1>2. PICK playDone \in BOOLEAN, micDone \in BOOLEAN, aifDone \in BOOLEAN :
        /\ \/ MediaScript(g, path', both, inserted, playDone, micDone)
           \/ VideoCallScript(g, path', reqgain', playDone)
           \/ RadioScript(g, path', reqgain', playDone)
           \/ NoPlaybackScript(g, path', micDone)
        /\ result' = ChangeResult(g, playDone, micDone, aifDone)
  BY DEF ChangePath
<1>3. g.capture = "AP"
  BY <1>1
<1> HIDE DEF g
<1>4. micDone = TRUE
  BY <1>2, <1>3 DEF ChangeResult
<1>5. CaptureScript(g, path'.capture, TRUE)
  BY <1>2, <1>3, <1>4 DEF MediaScript, VideoCallScript, RadioScript, NoPlaybackScript
<1> QED
  BY <1>3, <1>5, CaptureRecords

LEMMA RecordingNext ==
  ASSUME AifFirst
  PROVE  SuccessMeansRecording /\ [Next]_vars => SuccessMeansRecording'
<1> SUFFICES ASSUME SuccessMeansRecording, [Next]_vars PROVE SuccessMeansRecording'
  OBVIOUS
<1>1. ASSUME NEW p \in Proc, SetPath(p) PROVE SuccessMeansRecording'
  <2>1. PICK kind \in Kinds, out \in Outs, in \in Ins, both \in Duals, forced \in Forces :
          \/ RejectPath(p, kind, out, in, forced)
          \/ ChangePath(p, kind, out, in, both, forced)
          \/ ReleasePath(p, kind, out, in, both, forced)
    BY <1>1 DEF SetPath
  <2>2. CASE RejectPath(p, kind, out, in, forced)
    BY <2>2 DEF RejectPath, SuccessMeansRecording
  <2>3. CASE ChangePath(p, kind, out, in, both, forced)
    BY <2>3, RecordingChange
  <2>4. CASE ReleasePath(p, kind, out, in, both, forced)
    <3>1. CASE kind = "radio" /\ gain' = Local(kind, forced)
      <4>1. gain'.capture = "FMRADIO"
        BY <2>4, <3>1 DEF ReleasePath, IsRelease, WinsCapture, CaptureOf
      <4> QED
        BY <4>1 DEF SuccessMeansRecording
    <3>2. CASE \E playDone, micDone \in BOOLEAN :
                 /\ ToDefault(inserted, both, playDone, micDone)
                 /\ result' = IF micDone THEN "ok" ELSE "failed"
      <4>1. PICK playDone \in BOOLEAN, micDone \in BOOLEAN :
              /\ ToDefault(inserted, both, playDone, micDone)
              /\ result' = IF micDone THEN "ok" ELSE "failed"
        BY <3>2
      <4>2. CASE micDone = TRUE
        BY <4>1, <4>2, RecordingDefault
      <4>3. CASE micDone = FALSE
        BY <4>1, <4>3 DEF SuccessMeansRecording
      <4> QED
        BY <4>2, <4>3
    <3> QED
      BY <2>4, <3>1, <3>2 DEF ReleasePath
  <2> QED
    BY <2>1, <2>2, <2>3, <2>4
<1>2. ASSUME NEW p \in Proc, Crash(p) PROVE SuccessMeansRecording'
  BY <1>2 DEF Crash, record, SuccessMeansRecording
<1>3. ASSUME NEW jack \in Jacks, Plug(jack) PROVE SuccessMeansRecording'
  BY <1>3 DEF Plug, record, SuccessMeansRecording
<1>4. ASSUME NEW jack \in Jacks, Reset(jack) PROVE SuccessMeansRecording'
  <2>1. PICK playDone \in BOOLEAN, micDone \in BOOLEAN :
          /\ ToDefault(jack, FALSE, playDone, micDone)
          /\ result' = IF playDone /\ micDone THEN "ok" ELSE "failed"
    BY <1>4 DEF Reset
  <2>2. CASE micDone = TRUE
    BY <2>1, <2>2, RecordingDefault
  <2>3. CASE micDone = FALSE
    BY <2>1, <2>3 DEF SuccessMeansRecording
  <2> QED
    BY <2>2, <2>3
<1>5. CASE UNCHANGED vars
  BY <1>5 DEF vars, record, SuccessMeansRecording
<1> QED
  BY <1>1, <1>2, <1>3, <1>4, <1>5 DEF Next

\* Scripts that fail, FORCED requests and resets included, SUCCESS still means
\* that media record from the input of the record: the error that the others
\* are overwritten with is the capture script's own.  The path_lost_error run
\* shows that nothing of the kind holds of the playback.
THEOREM SuccessRecords ==
  ASSUME AifFirst
  PROVE  Spec => []SuccessMeansRecording
<1>1. Init => SuccessMeansRecording
  BY DEF Init, SuccessMeansRecording, MediaInputs
<1> QED
  BY <1>1, RecordingNext, PTL DEF Spec

=============================================================================
