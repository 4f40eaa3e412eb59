----------------------------- MODULE MCAvHandle -----------------------------
(***************************************************************************)
(* Instances of AvHandle for TLC.                                          *)
(***************************************************************************)
EXTENDS AvHandle, TLC

\* A process may die at any point of a call.
Everywhere == PC \ {"dead"}

\* The processes differ only in whether they may die.
Symmetry == Permutations(Crashers) \cup Permutations(Proc \ Crashers)

=============================================================================
