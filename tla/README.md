# AVSystem: models, checks and proofs

This directory holds TLA+ models of the audio part of AVSystem
(`platform.core.multimedia.avsystem`), the TLC runs that check them on small
instances, and theorems about them that TLAPS proves for every instance. Paths
are relative to the repository's root.

- [The system](#the-system)
- [Modules](#modules)
- [Runs](#runs)
- [What is proved](#what-is-proved)
- [What the models disagree with](#what-the-models-disagree-with)
- [What is only model-checked, and what is not modelled](#what-is-only-model-checked-and-what-is-not-modelled)
- [Plan](#plan)
- [How to run it](#how-to-run-it)

## The system

AVSystem is a C library. Every process that plays or records sound links it, and
there is no server of its own: the clients share two records in System V shared
memory (the handle table and the sound path), two named semaphores that guard
them, a table of volumes, and, behind those, PulseAudio and the codec. A command
line tool, `sound_initializer`, creates, resets and removes the shared part. All
that is hard about the system is in that arrangement: each client brings the
shared record from one state to the next by itself, may die anywhere while it
does, and the next client has to cope with what it finds.

| Component | State | Operations | Interacts by |
| --- | --- | --- | --- |
| Inter-process lock (`avsys-common.c`, `avsys-audio-sync.c`) | two semaphores; four pids of owners for each, in shared memory | lock with a timeout of 6 s and a recovery, unlock, dump | every other component calls it |
| Handle table (`avsys-audio-handle.c`) | bits of 64 handles, their records, priorities, amplifier bits, volumes | alloc, free, get/release of a record, rejuvenation, solo policy, mute, volume, reset | shared memory under the handle lock; mutes PulseAudio streams |
| Stream calls (`avsys-audio.c`) | none of its own | open, close, write, read, and the wrappers of the public API | calls all the others |
| Sound path (`avsys-audio-path.c`) | gains, devices, options, the process a call has fixed the path for, the jack, path mute; the AIF handles private to each process | set path, release, reset, jack, global mute, volume of a stream | shared memory under the path lock; runs codec scripts; updates volumes under the handle lock |
| Mutes (`avsys-audio-handle.c`, `-path.c`, `avsys-audio.c`) | amplifier bits, external devices, path mute | mute of a handle, of a device, of all | handle lock, then path lock |
| PulseAudio control (`avsys-audio-pactrl.c`) | one context for each call | mute and volume of a stream, sinks | asynchronous callbacks of PulseAudio's thread |
| Streams (`avsys-audio-pasimple.c`) | one PulseAudio stream for a handle | open, close, write, read, drain | PulseAudio |
| Scripts (`avsys-audio-ascenario.c`) | the codec | run a bulk of commands, after a reset | alsa-scenario |
| AIF devices (`avsys-audio-alsa.c`) | the PCM devices of a call | open, close | ALSA |
| Logical volume (`avsys-audio-logical-volume.c`) | a table of gains in shared memory | choose the table of a stream, convert, load, store | handle and path |
| Shared memory (`avsys-common.c`, `avsys-audio-shm.c`) | the segments, and the address each process has attached | create, attach, remove | every other component |
| Initializer (`avsys-audio-initializer.c`, `init/snd_init`) | none | init, uninit, reset, dump, mute, rejuvenation | all of the shared part |
| Test tools, headers, build files | none | none that change state | |

What is hard in it, and what makes it correct:

- **The lock.** Its owner can die with it, and a waiter can be kept out for the
  length of its timeout by owners that are alive. Correct means: one owner at a time; a lost lock comes back; the
  recovery gives back what was lost and not more; the table of owners, which is
  written after the lock is taken and erased after it was given back, tells the
  truth.
- **Handle table and streams.** Opening is a dozen steps, only some of them under
  the lock. A handle is allocated in one step and gets the pid of its owner two
  steps later; dead handles are listed in one step and freed in others; a step
  of open can fail after the earlier ones took effect. Correct means: a handle
  has one owner, cleanups free only handles of the dead and in the end all of
  them, a solo stream is heard, and when the last one is gone nobody stays
  silent.
- **Sound path.** One step under the path lock for each request, so what is hard
  is the sequence: whether a request gets its gain depends on the gain others
  left, on who fixed the path and whether that process lives; a script resets
  more than it sets; the AIF devices are private to a process while the pid that
  decides on closing them is shared. Correct means: the recorded gain supports
  the recorded device; media and radio do not take a call's path; only a living
  process protects it; SUCCESS means the codec does what was asked; the volume
  table is that of the device; whoever releases a call finds its devices.
- **Mutes.** The path mute is decided under one lock and applied under another,
  by scripts that may fail; a call to PulseAudio is made with the first lock held,
  and a request of the path takes the two the other way round. Correct means: path,
  codec and streams end up as the last decision says, and no call keeps the
  handle lock for good.
- **PulseAudio control.** The caller sleeps until a callback wakes it, and then looks
  at the context, not at its operation. Correct means: the call changes its setting
  once, and succeeds only after the server has answered.
- **Volumes.** An opening stream reads the device under one lock, takes its table
  and its level under none or another, and gives the gain to PulseAudio under none,
  next to changes of the volume and of the device that walk over all handles. Correct
  means: a stream is heard as the volume of its type says, with the table of
  the device.
- **Shared memory and initializer.** A reset, or an uninit, next to live clients.

## Modules

| Module | Models | |
| --- | --- | --- |
| `AvMutex` | the lock as its callers see it: taken, given back, lost, handed out again | abstract specification |
| `AvSync` | one semaphore with its timeouts, its recovery and its pid table | implements `AvMutex` |
| `AvTable` | the handles as the clients see them: free, somebody's, or left behind | abstract specification |
| `AvHandle` | handle table, open, close, rejuvenation, solo policy, fades | implements `AvTable` |
| `AvPath` | gains, devices, protection of calls, scripts, AIF devices | |
| `AvCall` | a control call to PulseAudio as the library counts on it | abstract specification |
| `AvPaCtrl` | the call as it is made: caller, mainloop thread, context, server | implements `AvCall` |
| `AvMute` | mutes of streams, of the radio and of everything, under two locks | extends `AvPaCtrl` |
| `AvVolume` | volume tables, volumes of types, streams and devices | |
| `MCAvHandle`, `MCAvPath`, `MCAvMute`, `MCAvVolume` | instances for TLC | `AvSync` needs none |
| `AvLeastProofs` | what the least element of a set of naturals is | lemma for `AvSyncProofs` and `AvHandleProofs` |
| `AvSyncProofs`, `AvHandleProofs`, `AvPathProofs`, `AvPaCtrlProofs`, `AvMuteProofs`, `AvVolumeProofs` | theorems | |

### AvSync

One instance of the lock; both semaphores run the same code. `sem` is the
semaphore's value, `slot` the pid table, `at` the index a process has found and
not yet written. `pc` is where a process is:

| `pc` | In the code |
| --- | --- |
| idle | outside `avsys_audio_lock_sync` and `avsys_audio_unlock_sync` |
| waiting | in `sem_timedwait` (`Lock`); `Acquire` is its success, `TimeOut` its ETIMEDOUT |
| timedout | before `sem_getvalue` (`ReadValue`) |
| recovering | it returned 0; before the `sem_post` (`Recover`, `RecoverFails`) |
| locked | back in `avsys_audio_lock_sync`; before the search for a free slot (`FindFree`, or `LockFails` without shared memory, which may happen to the processes in `Detached`) |
| marking | before the pid is written (`WriteMark`) |
| critical | the caller is inside |
| posted | after `sem_post` (`Post`, `PostFails`), before the search for the own mark (`FindMark`) |
| unmarking | before it is erased (`EraseMark`) |
| dead | `Crash`, possible anywhere for `Crashers` |

`TimeOut` is possible whenever the value is 0: the deadline is that of the wait
(`src/avsys-common.c:236`), whoever had the lock since. A wait may expire next to one
slow owner, to several quick ones in a row, to one that takes the lock again before the
waiter, or beside a dead one.

Two variables are history, which nothing in the actions reads. `surplus` is the recovery
posts so far, less the tokens lost (with a process that died, that was refused the shared
memory, or whose post failed). `past` is what has happened to the lock: a wait expired
next to a live owner (`outlasted`) or next to another expired one (`overlapped`), the
recovery posts outran the lost tokens (`overposted`), a process took the lock and was
refused the shared memory (`refused`), an unlock met the limit of the semaphore (`overflowed`),
a full pid table was emptied (`emptied`). The properties are stated up to such an event
where the code keeps them up to then and no longer.

### AvHandle

A step is one critical section of the handle lock, or one write made outside of
it. `allocated` is the bit set; `pid`, `want` (priority asked for), `stream`,
`mute` and `ramp` are fields of the records; `priority` is the array
`handle_priority`. `sink` and `level` are what PulseAudio does with the stream,
`mine` what the application believes it has open. `avsys_audio_open` is
`StartOpen`, then the rejuvenation `Scan`, (`ResetPriority`, `FreeDead`)*,
`Rebalance`, then `Alloc` or `AllocFull` (one retry), `ZeroRecord`,
`SignRecord`, `GetPtr`, `SetPriority`, `OpenDevice` or `DeviceRefused`,
`ReleasePtr`, and `FailOpen` for its error path. `avsys_audio_close` is
`StartClose`, `UnsetPriority`, `CloseDevice`, `CheckRelease`, `FreeOwn`.

`AvTable` has three variables and four steps: a handle is taken by a process, given back by
it, left behind by its death (`Leave`), and cleaned up. `ImplementsTable` maps `has` to what
each process was given, half-done opens and closes included, and `leaked` to all other bits.

The list of the dead is a 32-bit `int` indexed with 64 handles: `Truncated` and
`SignExtended` are those two conversions, with `IntBits` and `HandleMax` for the
two numbers. What a process does with a device pointer that another process wrote
(`CloseDevice` on a record that is not its own) is undefined: the model lets it
go on or die. The fade of `avsys_audio_write` is taken to its end in one step.
The lock is taken as exclusive here; `AvSync` says how far it is.

The solo policy mutes by the number in the record (`stream_index`). The code puts the
number of a source output there as well (`src/avsys-audio-pasimple.c:256`) and never looks at the
mode, while PulseAudio numbers sink inputs and source outputs apart: the mute for a capture handle
reaches whatever playback stream has its number. `sink` says which handles have a playback
stream, `twin` which playback stream has the number of a capture handle's source output,
and `Target` which stream a mute call reaches. Any mute call may fail (`CallFails`); the
code logs that and changes the record all the same
(`src/avsys-audio-handle.c:302`, `:324`, `:1097`, `:1115`), and so does `MuteCalls`. A number is taken to be
that of a stream, and not the 0 of a sink input that is not there yet; that case is
in `AvVolume`, for the volume.

Three variables are history: `stolen`, a cleanup freed a handle of a live process; `faded`, the
policy was last carried out as a fade; `amiss`, the streams whose last mute call failed,
or that a call meant for a capture handle reached.

### AvPath

Every request runs under the path lock from start to end and is one action:
`SetPath` is `RejectPath` (the tables do not have the device), `ReleasePath` (a
call or the radio with NONE on both sides) or `ChangePath`, with `MediaScript`,
`VideoCallScript`, `RadioScript` or `NoPlaybackScript` for the dispatch on the
resulting gain. `gain`, `path`, `reqgain`, `fixed`, `fixedPid`, `inserted` and
`device` are the fields of the shared record (`path_fixed`, `path_fixed_pid`,
`lvol_dev_type`); `dual` is DUAL_OUT of `option.playback`; `outs` and `ins` are
what the codec plays and records; `aif` is the set of AIF devices each process
has a handle of; `result` is what the last call returned. A codec script that
fails stops anywhere in what it had to set (`Ran`). Abstracted: the device and
input bits are names, HDMI stands for the three outputs no gain supports, the
sub-microphone options and the texts of the commands are left out, and a jack
that is pulled between two reads of one script is not modelled.

### AvCall and AvPaCtrl

`avsys_audio_pa_ctrl_mute_by_index` and `avsys_audio_pa_ctrl_volume_by_index` are
one procedure with two operations, and so one module with a set of values. The caller
makes a mainloop and a context and sleeps (`Connect`, or `ConnectFails`); the
callback of the context's state sends the operation when the context is ready
(`Establish`) and signals when it has failed (`Lose`); the server serves the operation or
refuses it (`Serve`, `Refuse`), the callback of the operation signals (`Answer`), and
the caller wakes up and leaves (`Wake`). `ctx` and `op` are the two state machines,
`woken` the signal, `ask` what the call asked for, `input` what the server
holds. `Abandon` is the death of the caller. An operation that was sent may still be
served after its caller has left or died (`Outcome`). `unsure` is history: the sink inputs whose
last call failed or was refused.

`AvCall` has four phases and no machinery: `Begin`, then `Apply` or `Refuse`, then
`Return`, `Fail` at any time, and `Die`, which leaves open whether what was asked is
done; `Replace` is a stream that goes and one that
comes in its place. `ImplementsCall` maps its `phase` to what has become of the
operation. What makes it hold is not the loop, which leaves as soon as it finds the
context ready, but that nobody signals before the answer: with
`Spurious = TRUE`, a wait that returns by itself, both `ImplementsCall` and
`StreamFollowsRecord` fail.

### AvMute

`avsys_audio_set_mute` is `SetMute` (the handle lock, the record, the call of `AvPaCtrl`),
`MuteDone` (the amplifier bit, the decision, the unlock), then
`avsys_audio_path_ex_set_mute`: `Skip` or `Apply` (the path lock, the flag), `Pick`
(the flag in shared memory read again, to choose the script), `Run`. The radio
(`ExtMute`) and `avsys_audio_set_global_mute` (`GlobalMute`) join at the second part; its
NOLOCK values go through `NoLockTest` and `NoLockSet` and hold no lock. `Open` and
`Free` are the parts of `AvHandle`'s open and close that touch these records; `Route`,
`Reset` and `Controls` the parts of a path request that hold the path lock and take the
handle lock inside it. A client may `Crash` anywhere in a call; `Recover` gives its lock
back, as `AvSync` shows. `pc` is the place of a client: idle, pa, apply, pick, run,
test, set, route, dead. `handle_amp` and `ext_amp` are the bits, `flag` is the `mute` of the path
record, `codec` what the scripts left.

History variables: `decider` and `inOrder` tell whether the last client to decide was
the last to apply, `torn` whether a script failed or ran next to one of a NOLOCK call.

### AvVolume

An open is `Alloc`, `SetInfo`, `ReadDevice` (under the path lock), `SetTable`,
`UpdateVolume` (under the handle lock), `OpenStream` or `StreamRefused`, `ReadLevel`,
`PushLevel` or `PushFails`, and `FailOpen` for its error path; `Close` is one step. A table is a
type and a device; `table`, `setting` and `working` are the fields of a record, a gain being the
level it belongs to, and `heard` what PulseAudio was given. `SetVolume` is the loop of
`avsys_audio_handle_update_volume_by_type`, which its first failure to convert ends: `Stuck` are
the handles that fail, `Reached` those before. The failures of PulseAudio, which the code passes
over, are `refused` in it, and `PushFails` in an open: the stream keeps the volume it had.
`Stream` is the stream a record names: its own, or sink input 0 (`first`) as long as it has
none, which may be that of another handle or of some other program. `dirty_volume`
(`src/avsys-audio-handle.c:947`) would keep a handle out of the loop; nothing in the library
sets it. A request of the path is `Route`
(a script has set `device`, the path lock is held), then `Controls` (the refresh of the open
handles) or `RouteFails`. The segment of the tables is `missing`, `zeroed` (made, and
attachable) or `loaded`. `Resume` is what the reset after a hibernation does to the
volumes: it stores the values it is given (`Saved`), in range or not.

History variables: `missed`, the handles that a change of their volume did not reach, that
PulseAudio did not give the gain to, or that were given the volume of another;
`overtaken`, those that a change of the device did not reach.

### The modules for TLC

`MCAvHandle` lets a process die at any place of a call. `MCAvPath` and
`MCAvMute` name sets of values. `MCAvVolume` gives each behaviour a `topic`, which says
what changes in it: the volumes, or the device and the volume of one type.

## Runs

All passing runs check for deadlock except where the configuration says
`CHECK_DEADLOCK FALSE`: `handle_leak` and `handle_clients`, where every process may
have died or may be kept from opening.

| Run | Asks | Instance |
| --- | --- | --- |
| `sync_lock` | Do the tokens add up (`TokenConservation`); how many too many can there be (`RecoveryBound`, and `PatientBound` where waits expire beside the dead only) and what does it take (`OverpostHasACause`); until then, is there one owner (`MutualExclusion`), is the semaphore the lock its callers expect (`ImplementsMutex`), and does the table of owners tell the truth (`MarksAreHonest`); does a mark ever stay behind (`NoStrayMarks`); does a lost lock come back (`LostLockIsRecovered`)? | 3 processes, 1 may die, 1 may be refused the shared memory, 2 slots, a semaphore that reaches its maximum |
| `sync_starved_waiter` | Does the recovery only replace what was lost (`RecoveryOnlyReplaces`)? *Violated.* | 2 processes, nobody dies |
| `sync_double_recovery` | Does it, where waits expire beside dead owners only (`PatientRecoveryReplaces`)? *Violated.* | 3 processes, one may die |
| `handle_leak` | With two processes inside open and close at once: is a handle the property of one process (`Ownership`), and does an open bring back the leaked ones (`LowLeaksAreReclaimed`), passing none over on the way (`NoLeakIsPassedOver`)? | 2 processes, 2 handles, PulseAudio may refuse, one may die anywhere |
| `handle_clients` | With one opener at a time: are only dead handles cleaned up (`OnlyTheDeadAreCleaned`), is the table what the clients are promised (`ImplementsTable`), does no priority outlive its handle (`NoPriorityWithoutHandle`), and, but for the streams that a failed or misdirected mute call left behind, is a solo stream heard (`SoloIsHeard`) and does every stream it muted come back when the last one is gone (`MutedComeBack`)? | 2 processes that may die anywhere, 2 handles, playback and capture, solo streams that mute and solo streams that fade, mute calls that fail |
| `handle_two_openers` | Are only dead handles cleaned up, with two openers? *Violated.* | 2 processes, nobody dies |
| `path_calls` | Does the protection end with its process (`OnlyTheLivingAreProtected`), are the devices of a voice call those of the process its release looks for (`CallDevicesHaveAnOwner`), and is a video call heard until other playback is asked for (`CallIsHeard`)? | a caller that may die and another client, FORCED requests, AIF devices that fail to open, the Bluetooth headset |
| `path_routes` | Do gain and device fit (`PathIsSupported`), does the volume table follow the device (`DeviceFollowsPath`), does SUCCESS mean routed (`SuccessMeansRouted`), and is a video call protected (`CallIsProtected`)? | a caller that may die and another client, jack, requests with DUAL_OUT, hibernation |
| `path_lost_error` | Does SUCCESS mean routed when scripts may fail? *Violated.* | 2 callers |
| `path_silenced_call` | Does a request that a video call keeps off leave it its sound (`CallKeepsItsSound`)? *Violated.* | 2 callers |
| `mute_calls` | Is the path muted exactly when no amplifier is on (`PathFollowsAmps`), is the codec what the flag says (`CodecFollowsFlag`), is a stream what its record says (`StreamFollowsRecord`), does a call to PulseAudio keep its promise (`ImplementsCall`), is every lock that is held on its way back (`NoLockIsStranded`), and does the handle lock always come back (`HandleLockComesBack`)? | 2 clients, one of which may die anywhere, a NOLOCK client, 1 stream and the radio, scripts and calls that fail |
| `volume_calls` | Is there no sound before the tables (`NoSoundBeforeTables`), is a stream heard as its volume says (`HeardAsSet`) with the table of the device (`TableFollowsDevice`)? | 1 opening client, 2 handles, 2 types with tables of different lengths, 2 devices, gains that PulseAudio refuses, a reset with volumes in range and out of it |

`sync_lock`, `handle_leak`, `path_calls`, `mute_calls` and `volume_calls` also check the type
invariants.

Why the bounds are enough:

- *Processes of the lock.* The roles are an owner that dies or stays, a waiter that times
  out, and another one. Three processes can have two recoveries at once (`overlapped`), two
  tokens too many next to an owner (the N - 1 of `RecoveryBound`), and one recovery too many
  beside a dead owner (the N - 2 of `PatientBound`); a fourth would repeat a role. That the bounds hold for N is a theorem.
- *`SemValueMax` 2, `LockSlotMax` 2.* Both limits are reached: two posts too many next to an
  owner bring the value to 2, where its unlock and another recovery fail, and three
  markers overflow two slots.
- *One crasher in `sync_lock`.* A recovery that meets the limit of the semaphore ends its wait with an
  error. With two processes that die, those that have posted may be dead by then: the lock is
  free, the one waiter has been sent away, and nobody takes it because nobody asks for it. That
  is no lost lock; with one process that dies it does not come about.
- *Handles.* Two handles are what the policy needs (one solo, one normal), and
  what the races need (one to steal, one to be next). Two solo streams of different kinds
  next to a normal one take three: with three handles `MutedComeBack` fails if its condition on
  fades is dropped, with two it does not. Two processes give a cleaner and a dead owner; the
  third that closes or opens next to them is in the theorems, which hold for any number of
  processes and handles, and in a run of the same configuration with `Proc = {p1, p2, p3}` and
  `Crashers = {p1}`, which passes too (3,662,698 states, under four minutes). `IntBits` is 2 in the runs that
  pass: as many bits as handles. Fewer is a disagreement, below.
- *Clients of the path.* A request sees the record, whether the process that fixed
  the path lives, and whether it is that process: two clients give all of these,
  and the crash the third. The device sets hold one device of each class the
  scripts tell apart; the classes are spread over two runs, the wired ones in
  `path_routes`, Bluetooth with the AIF devices in `path_calls`. The requests of
  `path_routes` carry DUAL_OUT, which opens a second output only with the speaker and
  a jack, and the hibernation, like the other path runs, is without it.
- *Mutes.* What can overtake is one decision another: two clients. A NOLOCK client next
  to them gives two scripts at once, one with the lock and one without. One stream and
  the radio are two reasons to keep the path open; a second stream would be a third of the
  same kind.
- *Volumes.* Two handles let one be open while the other is being opened, and let the loop of
  `SetVolume` stop before or after one. Two types with tables of different lengths make a
  level that is valid for one and not for the other; `System` is the type a zeroed record
  has. One client opens: an open acts on its own handle only, and no open waits for
  another in the middle, so a second one adds combinations and no case; the theorems
  hold for any number of them. A client that dies in its open is, for the others, one
  that never moves on, which a run without fairness allows. The topics leave out video handles next
  to changes of the device, which do not touch them. `Saved` has the volumes after boot, and one
  past the end of its table for each type.

Nothing is bounded by a counter: every reachable state of every instance is
explored. `sem` is bounded by `SemValueMax`, as in the code.

**Fairness.** `AvSync!FairSpec` has weak fairness for what a live process does on
its own once it called lock or unlock (`Advance`): code that runs to its return,
and a semaphore that hands a token to a waiter sooner or later. An owner may keep the lock
for ever. No process has to call anything, and
`LostLockIsRecovered` asks only for *some* process to get the lock:
`sem_timedwait` does not promise that it is a certain one. `AvHandle!FairSpec` has
weak fairness for the steps of a call that was made (`Advance`), since a call runs
until it returns or its process dies. `AvMute!FairSpec` has the same, and adds the
server: `HandleLockComesBack` needs PulseAudio to answer what it is asked
(`PaAnswers`), the woken caller to wake (`Wake`), and the lock of a dead owner to be recovered
(`Recover`, which is `LostLockIsRecovered` of the semaphore). The first is what the code
counts on: the wait has no timeout, so with a server that hangs, the handle lock
is kept until others take it for lost. No other run uses fairness.

## What is proved

TLAPS checks the proofs of seven modules. The theorems hold for every number of
processes, handles, slots, and every value of the other constants that the
named assumptions (`SyncAssumption`, `HandleAssumption`, `PathAssumption`, `PaAssumption`,
`MuteAssumption`, `VolumeAssumption`) and the theorem's own hypotheses allow. "In step" below
means: under the conditions of the property, which its comment states.

| Theorem | States | By |
| --- | --- | --- |
| `AvSyncProofs!TypeCorrect` | `[]TypeOK` | inductive as it stands |
| `TokensAreConserved` | `[]TokenConservation` | every step is one of seven kinds (`StepKinds`): what it does to `sem`, the owners and `surplus` |
| `MutexUnlessOverPosted` | `[]MutualExclusion` | from the accounting |
| `RecoveryIsBounded` | `[]RecoveryBound` | every process counts once (`PostersStep`): as an owner of a token, or as one that may yet post |
| `PatientRecoveryIsBounded` | `[]PatientBound` | `RecoveryInv`, below |
| `PatientRecoveryKeepsCount` | `[]PatientRecoveryReplaces` with two processes or nobody who dies | `RecoveryInv` |
| `OverpostsHaveACause` | `[]OverpostHasACause` | `CauseInv`, below |
| `LockRefinesMutex` | `ImplementsMutex` | `CauseInv`; `StepKinds`: each kind is a step of `AvMutex` or a stutter |
| `MarksTellTheTruth` | `[]MarksAreHonest` | `MarksInv`, below |
| `MarksDoNotStray` | `[]NoStrayMarks` | `StrayInv`, below |
| `NoPostOverflows` | no post meets EOVERFLOW (`[]PostsSucceed`) with no more processes than `SemValueMax` | from `TokenConservation` and `RecoveryBound` |
| `AvHandleProofs!TypeCorrect` | `[]TypeOK` | inductive as it stands |
| `HandlesAreOwned` | `[]Ownership` | `OwnershipInv`, below |
| `SerialCleanupIsSafe` | `Spec /\ []SignBitUnused /\ []CleanupApart => []OnlyTheDeadAreCleaned` | `SerialInv`, below |
| `SoloStreamsAreHeard` | `[]SoloIsHeard`, same hypotheses | `SoloInv`, below |
| `PrioritiesAreTakenBack` | `[]NoPriorityWithoutHandle`, same hypotheses, and no stream refused | `PriorityInv`, below |
| `MutedStreamsComeBack` | `Spec /\ []CleanupApart => []MutedComeBack` | `ComeBackInv`, below |
| `TableIsKept` | `Spec /\ []OnlyTheDeadAreCleaned => ImplementsTable` | `OwnershipInv`; `TableStepKinds`: which steps the clients see |
| `LeaksAreFollowed` | `NoLeakIsPassedOver`, for all clients and however they overlap | `OthersStay`: no process touches the list of another |
| `FewStreamsSpareTheSignBit` | `Spec /\ []FewStreams => []SignBitUnused` | the lowest free handle is the one that is given away |
| `OneOpenerIsApart` | `[]CleanupApart` with one opener at a time | nobody else is inside open |
| `SerialClientsAreServed` | `ImplementsTable`, `OnlyTheDeadAreCleaned`, `SoloIsHeard` and `MutedComeBack` with one opener at a time and `[]FewStreams` | `SerialCleanupIsSafe`, `TableIsKept`, `SoloStreamsAreHeard`, `MutedStreamsComeBack` with the two before |
| `AvPathProofs!PathTypes` | `[]TypeOK` | inductive; one lemma for each script |
| `LiveProtector` | `OnlyTheLivingAreProtected`, FORCED included | an action property that needs no invariant |
| `CallProtection` | `CallIsProtected` without FORCED | types only; a case for each kind of request |
| `PathSupport` | `[]PathIsSupported` without FORCED | `SupportInv`, below |
| `CallDeviceOwner` | `[]CallDevicesHaveAnOwner` with one caller and no hibernation | `OwnerInv`, below |
| `DeviceInStep` | `[]DeviceFollowsPath`, FORCED and failing scripts included | inductive with the types |
| `SuccessRoutes` | `[]SuccessMeansRouted` without FORCED, where no script fails | `RoutedInv`, below |
| `CallsAreHeard` | `[]CallIsHeard` where no script fails, FORCED included | inductive as it stands |
| `SuccessRecords` | `[]SuccessMeansRecording` (the half of `Routed` about media that record) with `AifFirst`, failing scripts and FORCED included | inductive as it stands |
| `AvMuteProofs!MuteTypes` | `[]TypeOK` | with `PaInv` and `LockInv`, below |
| `LocksAreOnTheirWayBack` | `[]NoLockIsStranded` | `OwnerInv` of `AvMuteProofs`, below |
| `PathInStep` | `[]PathFollowsAmps` | `PathInv`, below |
| `CodecInStep` | `[]CodecFollowsFlag` | `CodecInv`, below |
| `StreamsInStep` | `[]StreamFollowsRecord` with `~Spurious` | `StreamInv`, below |
| `CallsKeepTheirPromise` | `ImplementsCall` with `~Spurious` | `AvPaCtrlProofs`: each step of caller, thread and server is a step of `AvCall` or a stutter |
| `AvVolumeProofs!VolumeTypes` | `[]TypeOK` | `OpenInv`, below |
| `TablesFirst` | `[]NoSoundBeforeTables` | `OpenInv` |
| `DeviceTables` | `[]TableFollowsDevice` | `DeviceInv`, below |
| `HeardLevels` | `[]HeardAsSet` | `HeardInv`, below |

Some hypotheses are conditions on a behaviour, and not on a constant: they name exactly what the
code leaves to its clients or to luck. The theorems about the lock have none: what the lock
promises up to some event, its property says of the `past`.

- `CleanupApart`: no cleanup, from its look at the table to its last free, goes on next to a
  handle that is allocated and not signed. Opens may overlap in everything else, and so may
  cleanups, closes and deaths. The code does not see to it (`handle_two_openers`); clients that
  open one at a time do (`OneOpenerIsApart`).
- `SignBitUnused`: where there are more handles than the list of the dead has bits, 64 and 32 in
  the code, the handle of the sign bit, 31, is not in use. Handles are given away from the
  lowest on, so this is so while no more than 31 are in use, dead ones included (`FewStreams`).

The inductive invariants, and why the properties need them:

- `RecoveryInv`: while no wait expired next to a live owner and nobody was refused the shared
  memory, a process can only have timed out if some process died, and once
  it has, `surplus` plus the processes that may yet post come to N - 2 at most: the
  dead process cannot post, and the token lost with it counts against the others.
  `PatientBound` alone does not say that without a death nothing is ever posted.
- `OwnershipInv`: besides `Ownership`, a process that is opening a handle does not
  have it already, one that is closing a handle has it, and the dead have none.
  Without this a close could free what is still listed as open, and in `ImplementsTable` a
  failing open could give back a handle the process still has. It is conditional on
  `~stolen`, like the property: `handle_two_openers` shows that no unconditional
  form holds.
- `SerialInv`: no handle on a cleaner's list is anybody's. `StepEffects` names the only
  steps that give a handle out, make a list or count a theft. `Alloc` leaves a handle that is
  not signed, so `CleanupApart` lets none be given out while a list is worked off. When a list
  is made, the owners of what is allocated have signed, so no live process's handle gets on
  it; `SignBitUnused` says that widening it adds none.
- `ComeBackInv`: three facts, all conditional on `~stolen`. A stream that PulseAudio has belongs
  to a process, and its record knows its index and that it is muted, so that an unmuting
  reaches it, or it is in `amiss` (`SinkInv`). Whoever cleans up has seen a death, since until somebody dies every
  allocated handle is a live process's (`DeathInv`). And a stream that is muted is owed: to a
  priority, or to a cleaner that took the priority back and has yet to rebalance
  (`DebtInv`). The last one is what the condition of `MutedComeBack` on deaths is for: with one
  dead process, which is then the owner of what is cleaned up, no cleaner has died with its
  debt.
- `SupportInv`: what fixes the path is a call, on both sides (`FixedIsCall`). The
  side a request loses keeps its gain and its device, the side it wins was looked up
  in the table. The one step that changes the gain and not the devices is a release
  of the radio while the path stays fixed; with `FixedIsCall` the radio cannot win
  there, so the step does not exist. FORCED makes it exist.
- `OwnerInv` (path): only callers have devices of a call open. With one caller, the pid
  every opening leaves is then the only one there is to be replaced.

- `CauseInv`: until a wait expires next to a live owner or to another expired one, a wait that
  is being handled is the only one, the value is 0, nobody has a token and exactly one is
  missing. So its post brings back what was lost, and the first token too many has one of the
  two causes.
- `StrayInv`: a process that is about to erase its mark has found the only one it can have,
  although other owners, of which an over-posted lock has several, may have written over it or
  emptied the table since. A mark that stays is that of an unlock whose post failed (`overflowed`).
- `MarksInv`: besides the property, a process that is about to write its mark has found
  a slot that is still free, and one that is about to erase its mark has found its own.
  Marks are erased next to the marking of the next owner, but only one process at a time
  marks, until a recovery posts a token too many, and it has found a free slot, until a full
  table is emptied. `MarksDoNotStray` is what is left without both conditions.
- `PriorityInv`: a priority is set only on an allocated handle, and whoever is about to
  free one, in a cleanup or in a close, has taken its priority back. Only the error path
  of open frees without that, hence the hypothesis.
- `SoloInv`: says for each place of a process what its streams are: an open solo
  stream has the priority it asked for and is on, full and not fading (`Good`), except
  the one its own close is taking down; a handle that is being opened has no stream
  yet, and has its priority when the stream is made. A mute call that
  goes astray or fails puts its stream into `amiss`. The policy of the others keeps
  `Good` (`SwayKeeps`), since it touches only streams without a priority; that it is
  the stream of a living process and nobody else's is `OwnershipInv` and `SerialInv`.
- `RoutedInv`: `SupportInv`, because which script runs and what it appends follows from the
  gain and the devices fitting together, and that the codec is what gain and devices say
  in every state: where no script fails, each puts back what its reset took.
- `PaInv` and `LockInv`: what context, operation and signal can be together: no operation
  before the context is ready, no signal on a ready context before the answer;
  a call under way belongs to the client in `pa`, which has the handle lock, and a script
  runs under the path lock or in a NOLOCK client.
- `OwnerInv` (mutes): the owner of the handle lock is dead or in its call to PulseAudio, the owner of
  the path lock dead, in a script, or waiting for the handle lock. `PaInv` adds what the call
  waits for: a context that is ready has an operation under way, and one that has failed has
  woken the caller.
- `PathInv`: a decision that is pending is the one the bits ask for now. Nobody can change
  the bits without deciding anew, so the last decider's `todo` is up to date until it is
  applied. A client that dies with its decision leaves it pending, and `inOrder`
  false.
- `CodecInv`: a client that has picked its script has picked the one of the flag. This
  is the path lock's doing, and fails next to a script of a NOLOCK call, which is what `torn`
  records.
- `StreamInv`: the call under way is about an open handle and asks for what its record
  says; the streams of free handles are not muted. The rest is the promise of the
  call: success means that the server has done it.
- `OpenInv`: what has been filled in at each stage of an open (`OwnInv`), each of
  them on a handle of its own, and that a table with entries, a stream, and an open
  playback handle all mean that the tables were loaded (`LoadInv`): an open
  that met a zeroed segment fails at the conversion of its volume.
- `DeviceInv`: a device that was read and not yet used is the current one, unless the
  handle was overtaken; the table of a handle whose open is past that is of its
  type and of the device.
- `HeardInv`: for the handles that are not in `missed`, the level of the record is the volume of the type from the step under the
  handle lock on, through every change that reaches the handle; what is heard is the
  level of the record once the open is over.

`MutexUnlessOverPosted` is a consequence of `TokensAreConserved`, and is listed
because it is the form the callers depend on.

## What the models disagree with

Five disagreements between the code and what the repository says have a run that
exhibits them.

- `sync_starved_waiter`: the deadline of a wait counts from the waiter's own call
  (`src/avsys-common.c:236`). A waiter that live owners keep out for six seconds, one that is
  slow, several that are quick or one that takes the lock again, takes the lock for lost and posts:
  two processes are inside, with nobody dead.
- `sync_double_recovery`: reading the value and posting are two steps
  (`src/avsys-common.c:254`, `:263`), so two waiters on the lock of one dead owner
  both post. The semaphore has a token too many for good. `OverpostsHaveACause` proves that
  there is no third way to one.
- `handle_two_openers`: the bit of a new handle is set under the lock, its pid is
  written after it (`src/avsys-audio-handle.c:470`). A cleanup in between takes the
  handle for a dead one. `SerialCleanupIsSafe` proves that this, and the sign bit, are the only
  ways to lose a handle.
- `path_lost_error`: `err` is assigned by the playback script, the capture script
  and the AIF devices in turn (`src/avsys-audio-path.c:1263`); the last one wins. `SuccessRecords` proves what that
  leaves: SUCCESS can be relied on for media that record.
- `path_silenced_call`: a media request during a video call is "ignored", but the
  call's script runs with it: it resets the codec and appends nothing for the
  playback, because the request was not the call's (`src/avsys-audio-path.c:1655`).
  `CallsAreHeard` proves that nothing but a request for playback does this.

Others follow from the models with another value of a constant, or were seen while
modelling. They are recorded here and have no run.

*Handles.*
- The policy mutes and unmutes a capture stream like the others, and the call for it
  reaches the playback stream of another process that has the same number
  (`src/avsys-audio-pasimple.c:256`, `src/avsys-audio-handle.c:1097`): a solo stream can be silenced by it, and a
  stream silenced for a solo stream can be heard. `src/include/avsys-audio-handle.h:38` calls the
  priority "solo". `SoloIsHeard` without its exception for `amiss` fails with
  nobody dead and no call failing.
- A mute call that fails is recorded as done: a stream whose unmuting failed stays silent, as no
  later policy takes it for muted. `MutedComeBack` without its exception for `amiss` fails.
- More handles than bits (`handle_clients` with `IntBits = 1`, where bit 0 is the sign):
  a dead handle at the sign bit extends to all the handles above it, and
  `OnlyTheDeadAreCleaned` fails with a single opener
  (`src/avsys-audio-handle.c:242`, `:278`). A dead handle above the bits is listed
  by no rejuvenation: `LowLeaksAreReclaimed` says what remains true.
- `handle_clients` with `OpenFails = TRUE`: a solo open that PulseAudio refuses leaves
  its priority set, and the normal streams silent, until another process is given
  that handle (`src/avsys-audio.c:213`). `NoPriorityWithoutHandle` fails.
- A fade and a mute undo each other badly (`src/avsys-audio-handle.c:1087`, `:1115`). A stream
  that a fade silenced is unmuted but not faded in where the policy ends by a mute, or where the
  owner of the solo stream died and a cleanup takes its priority: it stays at volume
  zero. A stream that a mute silenced stays muted where a solo stream that fades is the last to
  close: three handles, a normal stream, one that mutes, one that fades, the latter two closed in
  that order. The next open that rebalances unmutes it, which is why `MutedComeBack` leaves
  aside only the states in which the policy was last carried out as a fade (`faded`).
- The owner of the solo stream dies, the process that cleans up after it dies before it
  rebalances the mutes, and no later open finds a dead handle to clean up after: the muted
  streams stay muted. Without its condition on deaths, `MutedComeBack` fails.
- The solo policy runs before the new stream exists (`src/avsys-audio.c:168`): a normal
  stream opened next to a running solo stream is heard.

*Path.*
- With FORCED (`path_routes` with `Forces = {TRUE, FALSE}`), a release of the radio
  during a video call leaves the gain of the radio with the path of the call, where
  the code says "This is not expected condition" (`:946`), and media may take the
  call's path: `PathIsSupported` and `CallIsProtected` fail. FORCED is meant to override
  the protection, so the properties are stated without it.
- Only video calls set `path_fixed` (`src/avsys-audio-path.c:1559`), although the
  tables of gains say the same of voice calls and a pid is recorded for them: media
  takes the path of a voice call or of the radio.
- A ringtone during a video call clears `path_fixed` (`:1482`) while the capture
  stays the call's; the next media request takes the call's path.
- `path_calls` with two callers, or with `Resets`: a call released by another
  process, or a hibernation in it, clears the pid (`:914`), and the AIF devices of
  the caller stay open until it makes and releases another call.
  `CallDevicesHaveAnOwner` fails.
- The release of the radio never closes AIF4.
- An AIF device that fails to open leaves its handle (`:854`), so the retry skips it.
- A request that is only about capture overwrites `option.playback` (`:1141`): DUAL_OUT
  is lost.
- The radio leaves `lvol_dev_type` to what the device before it had set, which
  is why `DeviceFollowsPath` is not about it.
- `avsys_audio_path_ex_init` with a headset in the jack leaves the path on the
  speaker; `avsys_audio_path_ex_reset` does not.
- `__avsys_audio_path_check_cp_audio` (`:1848`) compares a playback gain with a
  constant of the other enumeration.

*Mutes.*
- Two clients can apply their decisions in the other order than they made them: without
  the condition `inOrder`, `PathFollowsAmps` fails, and the path stays muted with an
  amplifier on, or open with none, until somebody decides again
  (`src/avsys-audio-handle.c:663`).
- `avsys_audio_path_ex_set_mute` sets its flag before it runs the script
  (`src/avsys-audio-path.c:1378`): after a script that failed, the same request is
  skipped. A reset clears the flag without running a script (`:457`): a muted codec stays
  muted, and the request to unmute it is skipped. A NOLOCK call next to a call with
  the lock leaves flag and codec as their steps fall. `torn` marks all three.
- The amplifier bits of 64 handles are in an `int` (`src/avsys-audio-handle.c:638`):
  muting the last handle below 32 mutes the path under those above, which is
  `LowHandle` smaller than `Handle`.
- `avsys_audio_handle_free` takes back the bit of its handle and leaves the path as it is: with
  the last unmuted stream closed, the path stays open.
- The two layers disagree about the external device: `avsys_audio_ext_device_ampon` asks for
  UNMUTE, which *clears* the bit, and a bit that is set keeps the path open
  (`src/avsys-audio-handle.c:705`). Switching the radio's amplifier on mutes the path when
  no stream is unmuted, and switching it off opens the path. The model has this as it is.
- The range test of `avsys_audio_set_global_mute` (`src/avsys-audio.c:631`) is never true.
- `avsys_audio_pa_ctrl_get_default_sink` returns what the answer would have brought as soon as
  the context is ready (`src/avsys-audio-pactrl.c:392`). It has no caller in the library.

*Volumes.*
- The first playback handle that cannot convert the new volume ends the loop
  (`src/avsys-audio-handle.c:957`). One that is being opened, and has no table yet, cannot: every
  later stream of the type keeps its old gain, and the call returns an error with
  the volume set. A cleared record counts as playback of the system volume, so any
  open may do this to a change of the system volume. `HeardAsSet` is about the streams that
  were reached (`missed` is the others).
- A change of the volume between the reading of the gain and its delivery
  (`src/avsys-audio.c:185`) is overwritten by the old gain; these are in `missed`
  too.
- The refresh after a change of the device leaves out video handles, although the comment at
  `src/avsys-audio-path.c:1800` speaks of the open handles, and it does not tell
  PulseAudio: the gain of the new device is heard after the next change of
  the volume. A script that fails skips the refresh. An open between its two steps
  (`src/avsys-audio-path.c:1884`) keeps the table of the former device
  (`overtaken`).
- A change of the volume of a handle whose stream is not there yet goes to sink input 0
  (`src/avsys-audio-handle.c:962`), whose volume is then not that of its own type: such a stream is in
  `missed`.
- PulseAudio's refusal of a gain is passed over (`src/avsys-audio-handle.c:962`,
  `src/avsys-audio.c:185`): record and volume have the new value, the stream keeps the old one
  until the next change.
- The volumes of a reset after hibernation are taken without the range test of
  `avsys_audio_set_volume_by_type` (`src/avsys-audio-handle.c:212`), and the open streams
  are not given them. After one that is too high, every open of that type fails at the conversion
  until the volume is set again. `default_volume` has one entry less than the loop that reads it
  (`src/avsys-audio-handle.c:170`).
- The type that the volume keys change counts the handles of dead processes until they
  are cleaned up. The primary volume of a dead process stays until the first question about
  it, which drops it (`src/avsys-audio-handle.c:846`). These two were read, and are not modelled.

*Creation and removal.* These were read and not modelled.
- `sound_initializer -u` removes the segment of the handles, and the unlock that ends
  the removal attaches that segment to erase its mark, which fails: the uninit reports an
  error and ends, and the semaphores and the other segments stay
  (`src/avsys-audio-handle.c:132`). A second `-u` takes the lock, fails to attach, and keeps
  the lock: this is `LockFails` of `AvSync`.
- `sound_initializer -i` does not repair a lost lock, since `sem_open` keeps the value of a
  semaphore that exists. On a segment that exists it clears the bits and
  priorities of open handles, without the lock.
- A segment can be attached before it is filled in (`src/avsys-audio-shm.c:66`). For the
  volume tables this is modelled (`NoSoundBeforeTables`).
- The reset waits for open handles in a loop whose counter starts at its end
  (`src/avsys-audio-handle.c:199`): it never waits, and clears the bits of open handles; after
  hibernation it keeps the bits and clears the priorities. It lists the dead handles
  without the lock (`:186`), so that a handle its opener has not signed looks dead.
- A client that has attached a segment keeps it after a removal: it and the clients of the
  new one share the streams of PulseAudio and nothing else.

Looked at and found in order: the path lock is taken first wherever both locks are
held (`__avsys_audio_path_set_hw_controls`), so the two locks cannot deadlock
(`HandleLockComesBack`, and `LocksAreOnTheirWayBack` for any number of clients).

## What is only model-checked, and what is not modelled

Model-checked and not proved: liveness (`LostLockIsRecovered`,
`LowLeaksAreReclaimed`, `HandleLockComesBack`), since fairness is out of the prover's
reach here, though `LeaksAreFollowed` and `LocksAreOnTheirWayBack` prove the safety part of the
latter two, that what is to happen is never given up; `CallKeepsItsSound`, which the code breaks.

Not modelled:

- *Creation, removal and reset of the shared part next to live clients*
  (`avsys_audio_handle_init`, `_fini`, `avsys_audio_handle_reset` as far as the bits go,
  `avsys_remove_shm`, `sound_initializer`). They are maintenance commands that assume there are no
  clients, and with clients they keep no promise that could be stated as a
  property of the table: the list above is what a reading shows. Modelled of them are the
  segments that are missing or not filled in, the reset of the path and of the
  volumes, and the rejuvenation.
- *Values that nothing is decided on*: the entries of the volume tables and their tuning
  (`avsys_audio_logical_volume_set_to_table`, the volume file), the arithmetic of a fade, the
  sub-microphone options, the fields of the path record that are written and not read.
- *The volume keys*: the primary volume and the type they change
  (`avsys_audio_handle_current_playing_volume_type`, `src/avsys-audio-handle.c:799`), with what that decides on
  the radio (`ext_device_status`), on handles of the AP's calls and of
  MEDIA_HL. It is one reading of the records under the handle lock, and its answer changes nothing
  in them but the pid of a dead process.
- *Data*: read, write, drain and the buffers of `avsys-audio-pasimple.c`; the
  text of codec commands and of configuration files; log output; what PulseAudio and
  ALSA do inside, beyond what the calls rely on.
- *Programs and files around it*: the test tools, the build and package files.

`avsys_audio_path_ex_set_path` locks and unlocks around the whole request; that its lock may
fail (`AvSync!MutualExclusion` is conditional) is not carried over to `AvHandle`,
`AvPath`, `AvMute` and `AvVolume`, which take the locks as exclusive.

## Plan

Done, in this order: the lock (`AvSync`, `AvMutex`), the handle table
(`AvHandle` and its abstract `AvTable`), the sound path (`AvPath`), the control calls (`AvCall`,
`AvPaCtrl`), the mutes (`AvMute`), the volumes (`AvVolume`), each with its theorems.

Left, most important first:

1. A composition of `AvSync` and the steps of `AvHandle`, to show which of the
   handle properties survive an over-posted lock.
2. The reset of the handle table as steps of `AvHandle`, once it is decided what it
   promises to open handles.

## How to run it

```
tlc -config sync_lock.cfg AvSync
tlc -config handle_leak.cfg MCAvHandle
tlc -config path_routes.cfg MCAvPath
tlc -config mute_calls.cfg MCAvMute
tlc -config volume_calls.cfg MCAvVolume
tlapm AvMuteProofs.tla
```

The `sync_` runs use `AvSync`, the `handle_` runs `MCAvHandle`, the `path_` runs `MCAvPath`. The longest runs, `handle_leak`, `mute_calls` and `volume_calls`, take two to three minutes with two
workers, the longest proofs, `AvHandleProofs`, about as long. The runs marked *violated* end
with a counterexample, which is their point.
`PROJECT.json` lists components, runs, hazards, the mutant that each property of a
passing run is tested against, and the source lines of every definition.
