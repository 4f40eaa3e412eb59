------------------------------ MODULE MCAvPath ------------------------------
(***************************************************************************)
(* Instances of AvPath for TLC: the devices that the clients ask for.      *)
(***************************************************************************)
EXTENDS AvPath

\* A call on the speaker or on the Bluetooth headset, with its microphone.
CallOuts == {"NONE", "SPK", "BTHEADSET"}
CallIns == {"NONE", "MIC", "BTMIC"}

\* The inputs of the radio; media and calls may do without one.
RadioIns == {"NONE", "FMINPUT"}

\* Media, the radio and calls on the speaker and in the jack.
WiredOuts == {"NONE", "SPK", "HEADSET"}
WiredIns == {"NONE", "MIC", "FMINPUT"}

=============================================================================
