------------------------------ MODULE AvMutex ------------------------------
(***************************************************************************)
(* What the callers of avsys_audio_lock_sync and avsys_audio_unlock_sync   *)
(* can count on: a lock with one owner at a time, which can be lost when   *)
(* its owner vanishes inside the critical section and which is then        *)
(* handed out again, once.  A lock handed out again that nobody had lost   *)
(* is broken for good: from there nothing is promised.  AvSync is shown to *)
(* implement it.                                                           *)
(***************************************************************************)

CONSTANT Proc

VARIABLES
  owner,  \* the set of processes inside the critical section
  lost,   \* the lock went down with its owner and was not reissued yet
  broken  \* it was reissued without having been lost

mutexVars == <<owner, lost, broken>>

MutexInit ==
  /\ owner = {}
  /\ lost = FALSE
  /\ broken = FALSE

Take(p) ==
  /\ owner = {}
  /\ ~lost
  /\ ~broken
  /\ owner' = {p}
  /\ UNCHANGED <<lost, broken>>

Give(p) ==
  /\ owner = {p}
  /\ owner' = {}
  /\ UNCHANGED <<lost, broken>>

Lose(p) ==
  /\ owner = {p}
  /\ owner' = {}
  /\ lost' = TRUE
  /\ UNCHANGED broken

Reissue ==
  /\ lost
  /\ lost' = FALSE
  /\ UNCHANGED <<owner, broken>>

Break ==
  /\ ~lost
  /\ ~broken
  /\ broken' = TRUE
  /\ owner' = {}
  /\ UNCHANGED lost

MutexNext ==
  \/ \E p \in Proc : Take(p) \/ Give(p) \/ Lose(p)
  \/ Reissue
  \/ Break

MutexSpec == MutexInit /\ [][MutexNext]_mutexVars

=============================================================================
