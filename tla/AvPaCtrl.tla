------------------------------- MODULE AvPaCtrl -------------------------------
(***************************************************************************)
(* A control call to PulseAudio (avsys-audio-pactrl.c): the caller starts a *)
(* mainloop thread and sleeps on it; the thread sends the operation when   *)
(* the context becomes ready, and wakes the caller when the server has     *)
(* answered or the context has failed.  The loop of the caller tests the   *)
(* state of the context only, so that the call succeeds after the answer   *)
(* hangs on who signals, and when: the callback of the state does not      *)
(* signal the ready state, and the callback of the operation does signal.  *)
(*                                                                         *)
(* Every call of the library is made under the handle lock: one at a time. *)
(***************************************************************************)
EXTENDS Integers, Sequences

CONSTANTS
  Index,     \* the sink inputs
  Value,     \* the values of the setting
  Spurious   \* whether pa_threaded_mainloop_wait may return unsignalled

ASSUME PaAssumption == Spurious \in BOOLEAN

VARIABLES
  ctx,     \* the context: "none", "connecting", "ready" or "failed"
  op,      \* the operation: "none", "sent", "served" or "refused"
  woken,   \* pa_threaded_mainloop_signal was called since the caller waits
  ask,     \* the sink input and the value asked for; empty when no call is made
  input,   \* the setting of every sink input, in the server
  unsure   \* history: the sink inputs whose last call failed, or was refused

session == <<ctx, op, woken, ask>>
paVars == <<session, input, unsure>>

PaInit ==
  /\ ctx = "none"
  /\ op = "none"
  /\ woken = FALSE
  /\ ask = <<>>
  /\ input \in [Index -> Value]
  /\ unsure = {}

\* The setting, once the server has served the operation.
Served == [input EXCEPT ![ask[1]] = ask[2]]

\* What may become of the setting when the caller leaves: a message still on its
\* way is served or lost.
Outcome == IF op = "sent" /\ ctx = "ready" THEN {input, Served} ELSE {input}

Close ==
  /\ ctx' = "none"
  /\ op' = "none"
  /\ woken' = FALSE
  /\ ask' = <<>>

-----------------------------------------------------------------------------
(* The caller *)

Connect(i, v) ==
  /\ ctx = "none"
  /\ ctx' = "connecting"
  /\ ask' = <<i, v>>
  /\ unsure' = unsure \cup {i}
  /\ UNCHANGED <<op, woken, input>>

\* No mainloop, no context, no memory, or no server to connect to.
ConnectFails(i) ==
  /\ ctx = "none"
  /\ unsure' = unsure \cup {i}
  /\ UNCHANGED <<session, input>>

\* Mutant: a context that has failed counts as connected.
WakeAnyhow ==
  /\ ctx \in {"ready", "failed"}
  /\ woken \/ Spurious
  /\ Close
  /\ unsure' = IF op # "refused" THEN unsure \ {ask[1]} ELSE unsure
  /\ UNCHANGED input

\* The wait returns, and the loop is left: with success when the context is
\* ready, with an error when it has failed.
Wake ==
  /\ ctx \in {"ready", "failed"}
  /\ woken \/ Spurious
  /\ Close
  /\ input' \in Outcome
  /\ unsure' = IF ctx = "ready" /\ op # "refused" THEN unsure \ {ask[1]} ELSE unsure

\* The caller dies in the middle of the call.
Abandon ==
  /\ Close
  /\ input' \in Outcome
  /\ UNCHANGED unsure

-----------------------------------------------------------------------------
(* The mainloop thread and the server *)

\* Mutant: the callback of the state signals the ready state too.
EstablishSignals ==
  /\ ctx = "connecting"
  /\ ctx' = "ready"
  /\ op' = "sent"
  /\ woken' = TRUE
  /\ UNCHANGED <<ask, input, unsure>>

Establish ==
  /\ ctx = "connecting"
  /\ ctx' = "ready"
  /\ op' = "sent"
  /\ UNCHANGED <<woken, ask, input, unsure>>

\* Mutant: only an answer wakes the caller.
LoseSilently ==
  /\ ctx \in {"connecting", "ready"}
  /\ ctx' = "failed"
  /\ UNCHANGED <<op, woken, ask, input, unsure>>

\* PA_CONTEXT_TERMINATED or PA_CONTEXT_FAILED, with or without an answer.
Lose ==
  /\ ctx \in {"connecting", "ready"}
  /\ ctx' = "failed"
  /\ woken' = TRUE
  /\ UNCHANGED <<op, ask, input, unsure>>

Serve ==
  /\ ctx = "ready"
  /\ op = "sent"
  /\ op' = "served"
  /\ input' = Served
  /\ UNCHANGED <<ctx, woken, ask, unsure>>

\* The sink input is gone; the callback logs it, and the call succeeds.
Refuse ==
  /\ ctx = "ready"
  /\ op = "sent"
  /\ op' = "refused"
  /\ UNCHANGED <<ctx, woken, ask, input, unsure>>

\* Mutant: a refused operation does not signal.
AnswerServedOnly ==
  /\ ctx = "ready"
  /\ op = "served"
  /\ ~woken
  /\ woken' = TRUE
  /\ UNCHANGED <<ctx, op, ask, input, unsure>>

Answer ==
  /\ ctx = "ready"
  /\ op \in {"served", "refused"}
  /\ ~woken
  /\ woken' = TRUE
  /\ UNCHANGED <<ctx, op, ask, input, unsure>>

\* What a server that is alive does by itself.
PaAnswers == Establish \/ Serve \/ Refuse \/ Answer

PaStep == PaAnswers \/ Lose \/ Wake

-----------------------------------------------------------------------------
(* What a call promises *)

Phase ==
  CASE ctx = "none" -> "idle"
    [] op = "served" -> "applied"
    [] op = "refused" -> "refused"
    [] OTHER -> "asked"

Call == INSTANCE AvCall WITH phase <- Phase

\* The machinery of callbacks and signals keeps the promise of AvCall: the
\* setting changes once per call, and a call that succeeds was answered.
ImplementsCall == Call!Spec

PaTypeOK ==
  /\ ctx \in {"none", "connecting", "ready", "failed"}
  /\ op \in {"none", "sent", "served", "refused"}
  /\ woken \in BOOLEAN
  /\ ask \in {<<>>} \cup (Index \X Value)
  /\ input \in [Index -> Value]
  /\ unsure \in SUBSET Index

=============================================================================
