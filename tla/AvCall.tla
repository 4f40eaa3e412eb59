-------------------------------- MODULE AvCall --------------------------------
(***************************************************************************)
(* What the library expects of a control call to PulseAudio: the setting   *)
(* of a sink input changes at most once per call, to the value the call    *)
(* names, and the call succeeds only after the server has taken or refused *)
(* it.  AvPaCtrl implements this with a mainloop, a context and callbacks. *)
(***************************************************************************)
CONSTANTS
  Index,  \* the sink inputs
  Value   \* the values of the setting (mute or volume)

VARIABLES
  phase,  \* "idle", "asked", "applied" or "refused"
  ask,    \* the sink input and the value of the call; empty when idle
  input,  \* the setting of every sink input, in the server
  unsure  \* the sink inputs whose last call failed, or was refused

vars == <<phase, ask, input, unsure>>

Init ==
  /\ phase = "idle"
  /\ ask = <<>>
  /\ input \in [Index -> Value]
  /\ unsure = {}

Begin(i, v) ==
  /\ phase = "idle"
  /\ phase' = "asked"
  /\ ask' = <<i, v>>
  /\ unsure' = unsure \cup {i}
  /\ UNCHANGED input

Apply ==
  /\ phase = "asked"
  /\ phase' = "applied"
  /\ input' = [input EXCEPT ![ask[1]] = ask[2]]
  /\ UNCHANGED <<ask, unsure>>

Refuse ==
  /\ phase = "asked"
  /\ phase' = "refused"
  /\ UNCHANGED <<ask, input, unsure>>

\* Success: only after the server's decision.
Return ==
  /\ phase \in {"applied", "refused"}
  /\ phase' = "idle"
  /\ ask' = <<>>
  /\ unsure' = IF phase = "applied" THEN unsure \ {ask[1]} ELSE unsure
  /\ UNCHANGED input

\* The caller dies, and what it has asked for is done or not.
Die ==
  /\ phase # "idle"
  /\ phase' = "idle"
  /\ ask' = <<>>
  /\ \/ UNCHANGED input
     \/ phase = "asked" /\ input' = [input EXCEPT ![ask[1]] = ask[2]]
  /\ UNCHANGED unsure

\* Failure leaves the setting as it is by then; a call may fail before it asks.
Fail ==
  /\ phase # "idle"
  /\ phase' = "idle"
  /\ ask' = <<>>
  /\ UNCHANGED <<input, unsure>>

FailAtOnce(i) ==
  /\ phase = "idle"
  /\ unsure' = unsure \cup {i}
  /\ UNCHANGED <<phase, ask, input>>

\* Between two calls the stream of a sink input may be replaced by a new one.
Replace(i) ==
  /\ phase = "idle"
  /\ \E v \in Value : input' = [input EXCEPT ![i] = v]
  /\ unsure' = unsure \ {i}
  /\ UNCHANGED <<phase, ask>>

Next ==
  \/ \E i \in Index, v \in Value : Begin(i, v)
  \/ Apply \/ Refuse \/ Return \/ Fail \/ Die
  \/ \E i \in Index : FailAtOnce(i) \/ Replace(i)

Spec == Init /\ [][Next]_vars

=============================================================================
