---------------------------- MODULE AvPaCtrlProofs ----------------------------
(***************************************************************************)
(* A control call to PulseAudio keeps the promise of AvCall, for any sink  *)
(* inputs and values, where the wait returns only when it was signalled.   *)
(* The callers' steps (AvMute) compose these lemmas with steps of their    *)
(* own.                                                                    *)
(***************************************************************************)
EXTENDS AvPaCtrl, TLAPS

\* What is there between two calls, and what the signals tell the caller.
PaInv ==
  /\ ctx = "none" => op = "none" /\ ~woken /\ ask = <<>>
  /\ ctx = "connecting" => op = "none" /\ ~woken
  /\ ctx = "ready" => op # "none"
  /\ ctx = "ready" /\ woken => op \in {"served", "refused"}
  /\ ctx = "failed" => woken
  /\ ctx # "none" => /\ ask \in Index \X Value
                     /\ ask[1] \in unsure
  /\ op = "served" => input[ask[1]] = ask[2]

LEMMA PaInitInv == PaInit => PaTypeOK /\ PaInv /\ Call!Init
BY DEF PaInit, PaTypeOK, PaInv, Call!Init, Phase

-----------------------------------------------------------------------------
(* Each step keeps the invariant, and is a step of AvCall or a stutter *)

LEMMA ConnectKeeps ==
  ASSUME PaTypeOK, PaInv, NEW i \in Index, NEW v \in Value, Connect(i, v)
  PROVE  PaTypeOK' /\ PaInv' /\ Call!Begin(i, v)
BY DEF Connect, PaTypeOK, PaInv, Phase, Call!Begin

LEMMA ConnectFailsKeeps ==
  ASSUME PaTypeOK, PaInv, NEW i \in Index, ConnectFails(i)
  PROVE  PaTypeOK' /\ PaInv' /\ Call!FailAtOnce(i)
BY DEF ConnectFails, PaTypeOK, PaInv, Phase, Call!FailAtOnce, session

\* The setting after the server has served the operation.
LEMMA ServedSets ==
  ASSUME PaTypeOK, PaInv, ctx # "none"
  PROVE  /\ Served \in [Index -> Value]
         /\ Served[ask[1]] = ask[2]
         /\ \A i \in Index \ {ask[1]} : Served[i] = input[i]
BY DEF Served, PaTypeOK, PaInv

LEMMA ServeKeeps ==
  ASSUME PaTypeOK, PaInv, Serve
  PROVE  PaTypeOK' /\ PaInv' /\ Call!Apply
<1>1. PaTypeOK' /\ PaInv'
  BY ServedSets DEF Serve, PaTypeOK, PaInv
<1>2. Call!Apply
  BY DEF Serve, Served, PaInv, Phase, Call!Apply
<1> QED
  BY <1>1, <1>2

LEMMA RefuseKeeps ==
  ASSUME PaTypeOK, PaInv, Refuse
  PROVE  PaTypeOK' /\ PaInv' /\ Call!Refuse
BY DEF Refuse, PaTypeOK, PaInv, Phase, Call!Refuse

\* The context becomes ready or fails, the caller is signalled: the phase of
\* the call is what it was.
LEMMA SilentKeeps ==
  ASSUME PaTypeOK, PaInv, Establish \/ Answer \/ Lose
  PROVE  PaTypeOK' /\ PaInv' /\ UNCHANGED Call!vars
<1>1. CASE Establish
  BY <1>1 DEF Establish, PaTypeOK, PaInv, Phase, Call!vars
<1>2. CASE Answer
  BY <1>2 DEF Answer, PaTypeOK, PaInv, Phase, Call!vars
<1>3. CASE Lose
  BY <1>3 DEF Lose, PaTypeOK, PaInv, Phase, Call!vars
<1> QED
  BY <1>1, <1>2, <1>3

\* However the wait ended, nothing is left of the call.
LEMMA WakeCloses ==
  ASSUME PaTypeOK, PaInv, Wake
  PROVE  /\ PaTypeOK' /\ PaInv'
         /\ ctx' = "none"
<1>1. Served \in [Index -> Value]
  BY ServedSets DEF Wake, Outcome, PaTypeOK
<1>2. input' \in [Index -> Value] /\ unsure' \in SUBSET Index
  BY <1>1 DEF Wake, Outcome, PaTypeOK
<1> QED
  BY <1>2 DEF Wake, Close, PaTypeOK, PaInv

\* The caller leaves its loop with success only after the answer: the ready
\* state alone does not wake it.
LEMMA WakeKeeps ==
  ASSUME PaTypeOK, PaInv, ~Spurious, Wake
  PROVE  /\ Call!Return \/ Call!Fail
         /\ input' = input
<1>1. woken /\ Close /\ ctx \in {"ready", "failed"}
  BY DEF Wake
<1>2. input' = input
  BY <1>1 DEF Wake, Outcome, PaInv
<1>3. CASE ctx = "ready"
  <2>1. Call!Return
    BY <1>1, <1>2, <1>3 DEF Wake, Close, PaInv, Phase, Call!Return
  <2> QED
    BY <1>2, <2>1
<1>4. CASE ctx = "failed"
  <2>1. Call!Fail
    BY <1>1, <1>2, <1>4 DEF Wake, Close, PaTypeOK, PaInv, Phase, Call!Fail
  <2> QED
    BY <1>2, <2>1
<1> QED
  BY <1>1, <1>3, <1>4

LEMMA PaStepKeeps ==
  ASSUME PaTypeOK, PaInv, PaStep
  PROVE  /\ PaTypeOK' /\ PaInv'
         /\ ctx # "none"
BY ServeKeeps, RefuseKeeps, SilentKeeps, WakeCloses
DEF PaStep, PaAnswers, Serve, Refuse, Establish, Answer, Lose, Wake

LEMMA AbandonKeeps ==
  ASSUME PaTypeOK, PaInv, ctx # "none", Abandon
  PROVE  PaTypeOK' /\ PaInv' /\ Call!Die
<1>1. Phase # "idle" /\ (op = "sent" /\ ctx = "ready" => Phase = "asked")
  BY DEF Phase, PaTypeOK
<1>2. input' \in [Index -> Value]
  <2>1. input \in [Index -> Value] /\ Served \in [Index -> Value]
    BY ServedSets DEF PaTypeOK
  <2> QED
    BY <2>1 DEF Abandon, Outcome
<1>3. input' = input \/ (Phase = "asked" /\ input' = Served)
  BY <1>1 DEF Abandon, Outcome
<1>4. PaTypeOK' /\ PaInv'
  BY <1>2 DEF Abandon, Close, PaTypeOK, PaInv
<1>5. Phase' = "idle" /\ ask' = <<>> /\ unsure' = unsure
  BY DEF Abandon, Close, Phase
<1>6. Call!Die
  <2>1. CASE input' = input
    BY <1>1, <1>5, <2>1 DEF Call!Die
  <2>2. CASE Phase = "asked" /\ input' = Served
    BY <1>1, <1>5, <2>2 DEF Call!Die, Served
  <2> QED
    BY <1>3, <2>1, <2>2
<1> QED
  BY <1>4, <1>6

=============================================================================
