------------------------------ MODULE MCAvMute ------------------------------
(***************************************************************************)
(* Instances of AvMute for TLC.                                            *)
(***************************************************************************)
EXTENDS AvMute

\* The values of the mute of a sink input.
MuteValues == 0 .. 1

=============================================================================
