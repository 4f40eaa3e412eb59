------------------------------- MODULE AvPath -------------------------------
(***************************************************************************)
(* The sound path: the gains and devices of playback and capture, the      *)
(* protection of a call, the codec scripts and the AIF devices of a call   *)
(* (avsys_audio_path_ex_set_path, __avsys_audio_release_path and           *)
(* avsys_audio_path_ex_reset, avsys-audio-path.c).                         *)
(*                                                                         *)
(* Every operation runs under the path semaphore, so it is one step here.  *)
(* What is hard is the sequence of the requests of several clients: each   *)
(* finds the record the others left, in shared memory; the codec, which    *)
(* only the scripts of some gains touch; and its own AIF devices, which    *)
(* are private to the process.                                             *)
(***************************************************************************)
CONSTANTS
  Proc,         \* the client processes
  Callers,      \* those that make voice and video calls
  Crashers,     \* those that may die
  NoPid,        \* the -1 of path_fixed_pid
  Outs,         \* the output devices the clients ask for
  Ins,          \* the input devices the clients ask for
  Jacks,        \* what may be in the earphone jack
  Duals,        \* the values of AVSYS_AUDIO_PATH_OPTION_DUAL_OUT in use
  Forces,       \* the values of AVSYS_AUDIO_PATH_OPTION_FORCED in use
  AifFirst,     \* control_aif_before_path_set
  ScriptFails,  \* whether a codec script may fail
  AifFails,     \* whether the opening of an AIF device may fail
  Resets        \* whether the system hibernates

\* The output devices; HDMI stands for the three that no gain supports.
Output == {"NONE", "SPK", "RECV", "HEADSET", "BTHEADSET", "A2DP", "DOCK", "HDMI"}
Input == {"NONE", "MIC", "HEADSETMIC", "BTMIC", "FMINPUT", "HANDSFREEMIC"}
Jack == {"none", "three", "four"}

ASSUME PathAssumption ==
  /\ Callers \subseteq Proc
  /\ Crashers \subseteq Proc
  /\ NoPid \notin Proc
  /\ Outs \subseteq Output
  /\ Ins \subseteq Input
  /\ Jacks \subseteq Jack
  /\ Duals \subseteq BOOLEAN
  /\ Forces \subseteq BOOLEAN
  /\ AifFirst \in BOOLEAN
  /\ ScriptFails \in BOOLEAN
  /\ AifFails \in BOOLEAN
  /\ Resets \in BOOLEAN

VARIABLES
  \* shared memory
  gain,      \* control->gain
  path,      \* control->path
  reqgain,   \* control->reqgain
  dual,      \* DUAL_OUT in control->option.playback
  fixed,     \* PATH_FIXED_WITH_CALL in control->path_fixed
  fixedPid,  \* control->path_fixed_pid[PATH_FIXED_TYPE_CALL]
  inserted,  \* control->inserted
  device,    \* control->lvol_dev_type
  \* the codec
  outs,      \* the outputs that play
  ins,       \* the inputs that record
  \* the processes
  aif,       \* g_hAIF: the AIF devices a process has a handle of
  alive,
  result     \* what the last call returned

record == <<gain, path, reqgain, dual, fixed, fixedPid, device>>
vars == <<record, inserted, outs, ins, aif, alive, result>>

-----------------------------------------------------------------------------
(* The tables *)

Calls == {"VOICECALL", "VIDEOCALL"}
CaptureGain == {"AP", "FMRADIO"} \cup Calls
PlaybackGain == CaptureGain \cup {"CALLALERT"}

\* g_playback_path_select_data
OutputsOf(g) ==
  CASE g = "AP"        -> {"SPK", "HEADSET", "DOCK"}
    [] g = "FMRADIO"   -> {"NONE", "SPK", "HEADSET", "A2DP"}
    [] g \in Calls     -> {"NONE", "SPK", "RECV", "HEADSET", "BTHEADSET"}
    [] g = "CALLALERT" -> {"SPK", "RECV", "HEADSET", "BTHEADSET"}

\* g_capture_path_select_data
InputsOf(g) ==
  IF g = "FMRADIO" THEN {"NONE", "FMINPUT"}
                   ELSE {"NONE", "MIC", "HEADSETMIC", "BTMIC"}

\* g_playback_gain_select_data and g_capture_gain_select_data: the radio keeps
\* its gain from media and ringtones, a call from media and the radio.
\*
\* Mutant: the row of the calls lets media through.
SelectMedia(current, request) ==
  IF \/ current = "FMRADIO" /\ request \in {"AP", "CALLALERT"}
     \/ current \in Calls /\ request = "FMRADIO"
    THEN current ELSE request

Select(current, request) ==
  IF \/ current = "FMRADIO" /\ request \in {"AP", "CALLALERT"}
     \/ current \in Calls /\ request \in {"AP", "FMRADIO"}
    THEN current ELSE request

\* The kinds of gain that avsys_audio_path_ex_set_path tells apart, with the
\* gains they ask for; a simplex kind asks for one side only.
Kinds == {"media", "alert", "record", "voice", "video", "radio"}

PlaybackOf(kind) ==
  CASE kind = "media" -> "AP"
    [] kind = "alert" -> "CALLALERT"
    [] kind = "record" -> "none"
    [] kind = "voice" -> "VOICECALL"
    [] kind = "video" -> "VIDEOCALL"
    [] kind = "radio" -> "FMRADIO"

CaptureOf(kind) ==
  CASE kind \in {"media", "record"} -> "AP"
    [] kind = "alert" -> "none"
    [] kind = "voice" -> "VOICECALL"
    [] kind = "video" -> "VIDEOCALL"
    [] kind = "radio" -> "FMRADIO"

\* The volume table of an output.
DeviceOf(out) ==
  CASE out = "HEADSET" -> "headset"
    [] out = "BTHEADSET" -> "bt"
    [] OTHER -> "spk"

\* The outputs and the input that the scripts of media and ringtones open.
\*
\* Mutant: the second output of DUAL_OUT overwrites the first.
MediaOutputsOne(out, both, jack) ==
  IF out = "SPK" /\ both /\ jack # "none" THEN {"HEADSET"}
    ELSE {out} \cap {"SPK", "RECV", "HEADSET", "DOCK", "BTHEADSET"}

MediaOutputs(out, both, jack) ==
  ({out} \cap {"SPK", "RECV", "HEADSET", "DOCK", "BTHEADSET"})
    \cup (IF out = "SPK" /\ both /\ jack # "none" THEN {"HEADSET"} ELSE {})

MediaInputs(in) == {in} \cap {"MIC", "HEADSETMIC"}

\* The AIF devices that playback to out and capture from in need.
PlaybackAifs(g, out) ==
  CASE g \in {"VIDEOCALL", "CALLALERT"} /\ out = "BTHEADSET"
                         -> {"AIF3 Playback", "AIF3 Capture"}
    [] g = "VOICECALL"   -> {"AIF2 Playback"} \cup
                            (IF out = "BTHEADSET" THEN {"AIF3 Playback"} ELSE {})
    [] g = "FMRADIO"     -> {"AIF4 Playback"}
    [] OTHER             -> {}

CaptureAifs(g, in) ==
  (IF g = "VOICECALL" THEN {"AIF2 Capture"} ELSE {}) \cup
  (IF g \in Calls /\ in = "BTMIC" THEN {"AIF3 Capture"} ELSE {})

CallAifs == {"AIF2 Playback", "AIF2 Capture"}
Aifs == CallAifs \cup {"AIF3 Playback", "AIF3 Capture", "AIF4 Playback"}

-----------------------------------------------------------------------------

Init ==
  /\ gain = [playback |-> "AP", capture |-> "AP"]
  /\ path = [playback |-> "SPK", capture |-> "MIC"]
  /\ reqgain = [playback |-> "AP", capture |-> "AP"]
  /\ dual = FALSE
  /\ fixed = FALSE
  /\ fixedPid = NoPid
  /\ inserted \in Jacks
  /\ device = "spk"
  /\ outs = {"SPK"}
  /\ ins = {"MIC"}
  /\ aif = [p \in Proc |-> {}]
  /\ alive = Proc
  /\ result = "ok"

\* What a script leaves behind.  Its reset may fail unnoticed when there is
\* something to set afterwards; what it sets ends at the first failure.
Ran(done, set, before) ==
  IF done THEN {set, IF ScriptFails /\ set # {} THEN before \cup set ELSE set}
          ELSE UNION {{some, before \cup some} : some \in SUBSET set}

\* "Check path fixed process alive."
\*
\* Mutant: without that check.
ProtectedByAnyone == fixed
Protected == fixed /\ fixedPid \in alive

\* The gain of one side after a request: the requested one, unless the path is
\* protected, and the current one if the request is about the other side.
Decide(current, request, forced) ==
  IF request = "none" THEN current
  ELSE IF forced \/ ~Protected THEN request ELSE Select(current, request)

Local(kind, forced) ==
  [playback |-> Decide(gain.playback, PlaybackOf(kind), forced),
   capture  |-> Decide(gain.capture, CaptureOf(kind), forced)]

\* Whether the request decides the side, and is not kept off by the protection.
WinsPlayback(kind, forced) == PlaybackOf(kind) = Local(kind, forced).playback
WinsCapture(kind, forced) == CaptureOf(kind) = Local(kind, forced).capture

Accepted(kind, out, in, forced) ==
  /\ PlaybackOf(kind) # "none" => out \in OutputsOf(Local(kind, forced).playback)
  /\ CaptureOf(kind) # "none" => in \in InputsOf(Local(kind, forced).capture)

IsRelease(kind, out, in, forced) ==
  /\ kind \in {"voice", "video", "radio"}
  /\ out = "NONE" /\ in = "NONE"
  /\ WinsPlayback(kind, forced) /\ WinsCapture(kind, forced)

\* Who may send which request.
Sends(p, kind) == p \in alive /\ (kind \in {"voice", "video"} => p \in Callers)

\* The part of the record that any accepted request writes.
\*
\* Mutant: without DO_IF_VALID.
RegisterBoth(kind, both) ==
  /\ reqgain' = [playback |-> PlaybackOf(kind), capture |-> CaptureOf(kind)]
  /\ dual' = both

Register(kind, both) ==
  /\ reqgain' =
       [playback |-> IF kind = "record" THEN reqgain.playback ELSE PlaybackOf(kind),
        capture  |-> IF kind = "alert" THEN reqgain.capture ELSE CaptureOf(kind)]
  /\ dual' = both

\* Unsupported sound path.  The protection of a dead call ends nevertheless.
RejectPath(p, kind, out, in, forced) ==
  /\ Sends(p, kind)
  /\ ~Accepted(kind, out, in, forced)
  /\ fixed' = Protected
  /\ result' = "rejected"
  /\ UNCHANGED <<gain, path, reqgain, dual, fixedPid, device, inserted, outs,
                 ins, aif, alive>>

-----------------------------------------------------------------------------
(* The scenario scripts *)

\* __avsys_audio_path_set_ascn_ap_capture, when the capture gain is media
CaptureScript(g, in, done) ==
  IF g.capture = "AP"
    THEN ins' \in Ran(done, MediaInputs(in), ins)
    ELSE UNCHANGED ins

\* __avsys_audio_path_set_ascn_ap_playback
MediaScript(g, at, both, jack, playDone, micDone) ==
  /\ g.playback \in {"AP", "CALLALERT"}
  /\ fixed' = FALSE
  /\ device' = DeviceOf(at.playback)
  /\ outs' \in Ran(playDone, MediaOutputs(at.playback, both, jack), outs)
  /\ CaptureScript(g, at.capture, micDone)

\* The volume table after the script of a video call: only the playback that
\* the call itself has asked for counts.
\*
\* Mutant: the case of the speaker misses the assignment.
CallDeviceSkipsSpeaker(g, at, request) ==
  IF request.playback = g.playback /\ at.playback \notin {"NONE", "SPK"}
    THEN DeviceOf(at.playback) ELSE device

CallDevice(g, at, request) ==
  IF request.playback = g.playback /\ at.playback # "NONE"
    THEN DeviceOf(at.playback) ELSE device

\* What that script plays on: nothing, unless the call itself has asked.
\*
\* Mutant: the request is looked up before it is registered.
CallPlaysBefore(g, at, request) ==
  IF reqgain.playback = g.playback THEN {at.playback} \ {"NONE"} ELSE {}

CallPlays(g, at, request) ==
  IF request.playback = g.playback THEN {at.playback} \ {"NONE"} ELSE {}

\* __avsys_audio_path_set_ascn_videocall: the reset is for both sides, and the
\* playback comes back only if the call itself has asked.
VideoCallScript(g, at, request, done) ==
  /\ g.playback = "VIDEOCALL" /\ g.capture = "VIDEOCALL"
  /\ fixed' = TRUE
  /\ device' = CallDevice(g, at, request)
  /\ LET plays == CallPlays(g, at, request)
         records == {at.capture} \ {"NONE"}
     IN  \/ /\ done
            /\ outs' = plays /\ ins' = records
         \/ /\ ~done
            /\ outs' \in SUBSET plays /\ ins' \in SUBSET records
         \/ ~done /\ UNCHANGED <<outs, ins>>

\* __avsys_audio_path_set_ascn_fmradio: what is appended is not reset before.
RadioScript(g, at, request, done) ==
  LET appends == /\ request.playback # g.playback
                 /\ at.playback \in {"SPK", "HEADSET", "A2DP"}
      tuned == at.capture = "FMINPUT" /\ request.capture = g.capture
      stays == tuned /\ gain.capture = g.capture
      kept == IF appends /\ ~stays THEN outs ELSE {}
      keptIns == IF appends \/ stays THEN ins ELSE {}
      plays == {at.playback} \cap {"SPK", "HEADSET"}
      records == IF tuned THEN {"FMINPUT"} ELSE {}
  IN  /\ g.playback = "FMRADIO" /\ g.capture = "FMRADIO"
      /\ fixed' = Protected
      /\ device' = IF ~appends THEN device
                   ELSE IF at.playback = "A2DP" THEN "bt" ELSE DeviceOf(at.playback)
      /\ \/ /\ done
            /\ outs' = kept \cup plays /\ ins' = keptIns \cup records
         \/ /\ ~done
            /\ \E some \in SUBSET plays : outs' = kept \cup some
            /\ \E some \in SUBSET records : ins' = keptIns \cup some
         \/ ~done /\ UNCHANGED <<outs, ins>>

\* A voice call, whose script is empty, and the mixed gains, which have none.
NoPlaybackScript(g, at, micDone) ==
  /\ g.playback \notin {"AP", "CALLALERT"}
  /\ g.playback = g.capture => g.playback = "VOICECALL"
  /\ fixed' = Protected
  /\ CaptureScript(g, at.capture, micDone)
  /\ UNCHANGED <<device, outs>>

\* The one error that is returned: each assignment overwrites the one before.
ChangeResult(g, playDone, micDone, aifDone) ==
  LET scripted == g.playback \in {"AP", "CALLALERT"} \/ g.playback = g.capture
      last == IF g.capture = "AP" THEN micDone
              ELSE IF scripted THEN playDone ELSE aifDone
  IN  IF (IF AifFirst THEN last ELSE aifDone) THEN "ok" ELSE "failed"

\* avsys_audio_path_ex_set_path, neither rejected nor a release
ChangePath(p, kind, out, in, both, forced) ==
  LET g == Local(kind, forced)
      winsPlayback == WinsPlayback(kind, forced)
      winsCapture == WinsCapture(kind, forced)
  IN  /\ Sends(p, kind)
      /\ Accepted(kind, out, in, forced)
      /\ ~IsRelease(kind, out, in, forced)
      /\ gain' = g
      /\ path' = [playback |-> IF winsPlayback THEN out ELSE path.playback,
                  capture  |-> IF winsCapture THEN in ELSE path.capture]
      /\ Register(kind, both)
      /\ fixedPid' = IF \/ winsPlayback /\ g.playback \in Calls
                        \/ winsCapture /\ g.capture \in Calls
                       THEN p ELSE fixedPid
      /\ aif' = [aif EXCEPT ![p] = @
           \cup (IF winsPlayback THEN PlaybackAifs(g.playback, out) ELSE {})
           \cup (IF winsCapture THEN CaptureAifs(g.capture, in) ELSE {})]
      /\ \E playDone, micDone, aifDone \in BOOLEAN :
           /\ ~ScriptFails => playDone /\ micDone
           /\ ~AifFails \/ aif' = aif => aifDone
           /\ \/ MediaScript(g, path', both, inserted, playDone, micDone)
              \/ VideoCallScript(g, path', reqgain', playDone)
              \/ RadioScript(g, path', reqgain', playDone)
              \/ playDone /\ NoPlaybackScript(g, path', micDone)
           /\ result' = ChangeResult(g, playDone, micDone, aifDone)
      /\ UNCHANGED <<inserted, alive>>

-----------------------------------------------------------------------------

\* Back to media on the speaker and the microphone, or on what is in the jack.
\*
\* Mutant: the devices of the call stay.
ToDefaultGain(jack, both, playDone, micDone) ==
  /\ gain' = [playback |-> "AP", capture |-> "AP"]
  /\ path' = path
  /\ MediaScript(gain', path', both, jack, playDone, micDone)

ToDefault(jack, both, playDone, micDone) ==
  /\ gain' = [playback |-> "AP", capture |-> "AP"]
  /\ path' = [playback |-> IF jack = "none" THEN "SPK" ELSE "HEADSET",
              capture  |-> IF jack = "four" THEN "HEADSETMIC" ELSE "MIC"]
  /\ MediaScript(gain', path', both, jack, playDone, micDone)

\* The process that the path is fixed for closes all its AIF devices.
\*
\* Mutant: the pid is cleared before it is compared.
ClosedTooLate(p, call) == aif

Closed(p, call) ==
  IF call /\ p = fixedPid THEN [aif EXCEPT ![p] = {}] ELSE aif

\* __avsys_audio_release_path
ReleasePath(p, kind, out, in, both, forced) ==
  LET call == kind # "radio"
      stillFixed == Protected /\ ~call
  IN  /\ Sends(p, kind)
      /\ Accepted(kind, out, in, forced)
      /\ IsRelease(kind, out, in, forced)
      /\ Register(kind, both)
      /\ aif' = Closed(p, call)
      /\ fixedPid' = IF call THEN NoPid ELSE fixedPid
      /\ IF stillFixed
           THEN /\ gain' = Local(kind, forced)
                /\ ins' \in Ran(~ScriptFails, {}, ins)
                /\ result' = "ok"
                /\ UNCHANGED <<path, fixed, device, outs>>
           ELSE \E playDone, micDone \in BOOLEAN :
                  /\ ~ScriptFails => playDone /\ micDone
                  /\ ToDefault(inserted, both, playDone, micDone)
                  /\ result' = IF micDone THEN "ok" ELSE "failed"
      /\ UNCHANGED <<inserted, alive>>

SetPath(p) ==
  \E kind \in Kinds, out \in Outs, in \in Ins, both \in Duals, forced \in Forces :
    \/ RejectPath(p, kind, out, in, forced)
    \/ ChangePath(p, kind, out, in, both, forced)
    \/ ReleasePath(p, kind, out, in, both, forced)

\* avsys_audio_path_earjack_process, without the lock
Plug(jack) ==
  /\ inserted' = jack
  /\ UNCHANGED <<record, outs, ins, aif, alive, result>>

\* avsys_audio_path_ex_reset.  The AIF devices are not its own to close.
Reset(jack) ==
  /\ Resets
  /\ reqgain' = [playback |-> "AP", capture |-> "AP"]
  /\ dual' = FALSE
  /\ fixedPid' = NoPid
  /\ inserted' = jack
  /\ \E playDone, micDone \in BOOLEAN :
       /\ ~ScriptFails => playDone /\ micDone
       /\ ToDefault(jack, FALSE, playDone, micDone)
       /\ ~playDone => ~micDone /\ ins' = ins
       /\ result' = IF playDone /\ micDone THEN "ok" ELSE "failed"
  /\ UNCHANGED <<aif, alive>>

Crash(p) ==
  /\ p \in Crashers \cap alive
  /\ alive' = alive \ {p}
  /\ aif' = [aif EXCEPT ![p] = {}]
  /\ UNCHANGED <<record, inserted, outs, ins, result>>

Next ==
  \/ \E p \in Proc : SetPath(p) \/ Crash(p)
  \/ \E jack \in Jacks : Plug(jack) \/ Reset(jack)

Spec == Init /\ [][Next]_vars

-----------------------------------------------------------------------------
(* Properties *)

TypeOK ==
  /\ gain \in [playback : PlaybackGain, capture : CaptureGain]
  /\ path \in [playback : Output, capture : Input]
  /\ reqgain \in [playback : PlaybackGain, capture : CaptureGain]
  /\ dual \in BOOLEAN
  /\ fixed \in BOOLEAN
  /\ fixedPid \in Proc \cup {NoPid}
  /\ inserted \in Jack
  /\ device \in {"spk", "headset", "bt"}
  /\ outs \subseteq Output
  /\ ins \subseteq Input
  /\ aif \in [Proc -> SUBSET Aifs]
  /\ alive \subseteq Proc
  /\ result \in {"ok", "rejected", "failed"}

\* The gain and the device of the record fit together, whoever asked for the
\* one and was refused, or kept off, with the other.
PathIsSupported ==
  /\ path.playback \in OutputsOf(gain.playback)
  /\ path.capture \in InputsOf(gain.capture)

\* A video call that a live process has fixed is left for another call, for a
\* ringtone, which takes the playback only, or because a call was released:
\* media, recordings and the radio change neither its gain nor its devices.
CallIsProtected ==
  [][(Protected /\ gain.playback = "VIDEOCALL" /\ gain.capture = "VIDEOCALL")
       => \/ UNCHANGED <<gain, path>>
          \/ gain'.playback \in Calls /\ gain' = reqgain'
          \/ /\ gain'.playback = "CALLALERT"
             /\ UNCHANGED <<gain.capture, path.capture>>
          \/ fixedPid' = NoPid]_vars

\* The protection outlives no process: after any request, it is a live process
\* that the path is fixed for.
OnlyTheLivingAreProtected ==
  [][fixed' => fixedPid' \in alive']_<<gain, path, reqgain, fixedPid, result>>

\* The table that volumes are looked up in is that of the device the sound
\* goes to, ringtones and video calls included.
DeviceFollowsPath ==
  (gain.playback \in {"AP", "CALLALERT", "VIDEOCALL"} /\ path.playback # "NONE")
    => device = DeviceOf(path.playback)

\* Where one process makes the calls: the devices that a voice call opened are
\* those of the process that will close them when it releases the call.
CallDevicesHaveAnOwner ==
  \A p \in Proc : aif[p] \cap CallAifs # {} => fixedPid = p

\* The codec plays and records what the record says.
Routed ==
  /\ gain.playback \in {"AP", "CALLALERT"} => path.playback \in outs
  /\ gain.capture = "AP" => MediaInputs(path.capture) \subseteq ins

\* "This function returns AVSYS_STATE_SUCCESS on success, or negative value
\* with error code": SUCCESS means that the codec is set as asked.
SuccessMeansRouted == result = "ok" => Routed

\* A video call is heard on its device as long as no other playback has been
\* asked for: the recordings of other clients, the deaths and the hand-over from
\* one caller to the next do not silence it.
CallIsHeard ==
  (/\ gain.playback = "VIDEOCALL" /\ gain.capture = "VIDEOCALL"
   /\ reqgain.playback = "VIDEOCALL"
   /\ path.playback # "NONE")
    => path.playback \in outs

\* "Sound Path request during VT call ignored.": a request that the protection
\* keeps off leaves the video call its sound.
CallKeepsItsSound ==
  (Protected /\ gain.playback = "VIDEOCALL" /\ gain.capture = "VIDEOCALL"
     /\ path.playback # "NONE")
    => path.playback \in outs

=============================================================================
