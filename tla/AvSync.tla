------------------------------- MODULE AvSync -------------------------------
(***************************************************************************)
(* One of the two named semaphores of avsystem (path or handle), with the  *)
(* table of owner pids that sits beside it in shared memory:               *)
(* avsys_lock_sync / avsys_unlock_sync (avsys-common.c) inside             *)
(* avsys_audio_lock_sync / avsys_audio_unlock_sync (avsys-audio-sync.c).   *)
(*                                                                         *)
(* A waiter whose sem_timedwait expires reads the semaphore value and, if  *)
(* it is zero, posts the semaphore "back".  Reading and posting are two    *)
(* steps, and nothing tells a lock whose owner died from a lock that live  *)
(* owners kept from the waiter: both are what this module is about.  The   *)
(* pid table is written after the wait and erased after the post, so the   *)
(* erasing runs next to the following owner.                               *)
(***************************************************************************)
EXTENDS Integers, FiniteSets, FiniteSetsExt

CONSTANTS
  Proc,          \* the client processes, one thread each
  Crashers,      \* those that may die at any point
  Detached,      \* those for which avsys_audio_get_shm may fail
  LockSlotMax,   \* AVSYS_AUDIO_LOCK_SLOT_MAX
  SemValueMax,   \* SEM_VALUE_MAX: sem_post fails with EOVERFLOW there
  NoPid          \* the -1 of an empty slot

ASSUME SyncAssumption ==
  /\ IsFiniteSet(Proc) /\ Proc # {}
  /\ Crashers \subseteq Proc
  /\ Detached \subseteq Proc
  /\ LockSlotMax \in Nat \ {0}
  /\ SemValueMax \in Nat \ {0}
  /\ NoPid \notin Proc

VARIABLES
  sem,      \* the semaphore value
  pc,       \* where each process is between lock and unlock
  slot,     \* handlelock_pid / pathlock_pid
  at,       \* the slot index a process has found and not yet written
  surplus,  \* history: recovery posts so far, less the tokens lost so far
  past      \* history: what has happened to the lock, out of Past

vars == <<sem, pc, slot, at, surplus, past>>

-----------------------------------------------------------------------------

Slots == 0 .. LockSlotMax - 1

PC == { "idle",         \* outside lock and unlock, not the owner
        "waiting",      \* in sem_timedwait
        "timedout",     \* sem_timedwait returned ETIMEDOUT
        "recovering",   \* sem_getvalue returned 0, sem_post is next
        "locked",       \* sem_timedwait succeeded, the pid is not marked yet
        "marking",      \* the index for the pid is chosen
        "critical",     \* avsys_audio_lock_sync returned SUCCESS
        "posted",       \* sem_post done, the mark is still there
        "unmarking",    \* the index of the own mark is found
        "dead" }

Past == { "outlasted",   \* a wait expired while a live process owned a token
          "overlapped",  \* a wait expired while another expired one was handled
          "overposted",  \* the recovery posts outran the lost tokens
          "refused",     \* a lock was taken and the shared memory was not there
          "overflowed",  \* an unlock met the limit of the semaphore
          "emptied" }    \* a full pid table was emptied

\* The processes that own a token of the semaphore.
Holders == { p \in Proc : pc[p] \in {"locked", "marking", "critical"} }

\* The processes between an ETIMEDOUT and the end of its handling.
Recoverers == { p \in Proc : pc[p] \in {"timedout", "recovering"} }

Waiters == { p \in Proc : pc[p] = "waiting" } \cup Recoverers

\* The lowest slot holding pid x, or LockSlotMax when there is none.
IndexOf(x) ==
  LET found == { i \in Slots : slot[i] = x }
  IN  IF found = {} THEN LockSlotMax ELSE Min(found)

Goto(p, from, to) ==
  /\ pc[p] = from
  /\ pc' = [pc EXCEPT ![p] = to]

-----------------------------------------------------------------------------
(* avsys_lock_sync *)

Init ==
  /\ sem = 1
  /\ pc = [p \in Proc |-> "idle"]
  /\ slot = [i \in Slots |-> NoPid]
  /\ at = [p \in Proc |-> 0]
  /\ surplus = 0
  /\ past = {}

Lock(p) ==
  /\ Goto(p, "idle", "waiting")
  /\ UNCHANGED <<sem, slot, at, surplus, past>>

\* Mutant: the wait does not take the token.
AcquireKeeps(p) ==
  /\ Goto(p, "waiting", "locked")
  /\ sem > 0
  /\ UNCHANGED <<sem, slot, at, surplus, past>>

Acquire(p) ==
  /\ Goto(p, "waiting", "locked")
  /\ sem > 0
  /\ sem' = sem - 1
  /\ UNCHANGED <<slot, at, surplus, past>>

\* Mutant: an expired wait counts as a successful one.
TimeOutTakes(p) ==
  /\ Goto(p, "waiting", "locked")
  /\ sem = 0
  /\ UNCHANGED <<sem, slot, at, surplus, past>>

\* LOCK_TIMEOUT_SEC have passed since the call and there is no token.  The
\* deadline is that of the wait, whoever has had the lock since: an owner that
\* keeps it as long, several quick ones in a row, one that takes it again
\* before the waiter, or nobody any more.
TimeOut(p) ==
  /\ Goto(p, "waiting", "timedout")
  /\ sem = 0
  /\ past' = past \cup { e \in {"outlasted"} : Holders # {} }
                  \cup { e \in {"overlapped"} : Recoverers # {} }
  /\ UNCHANGED <<sem, slot, at, surplus>>

\* Mutant: the value that leads to the recovery is mistaken.
ReadValueNever(p) ==
  /\ Goto(p, "timedout", IF sem < 0 THEN "recovering" ELSE "waiting")
  /\ UNCHANGED <<sem, slot, at, surplus, past>>

\* sem_getvalue: only a zero leads to the recovery.
ReadValue(p) ==
  /\ Goto(p, "timedout", IF sem = 0 THEN "recovering" ELSE "waiting")
  /\ UNCHANGED <<sem, slot, at, surplus, past>>

NotesOverpost == past' = past \cup { e \in {"overposted"} : surplus' > 0 }

\* Mutant: the recovery posts twice.
RecoverTwice(p) ==
  /\ sem < SemValueMax
  /\ Goto(p, "recovering", "waiting")
  /\ sem' = sem + 2
  /\ surplus' = surplus + 2
  /\ NotesOverpost
  /\ UNCHANGED <<slot, at>>

\* Mutant: the recovery looks at the value again instead of waiting again.
RecoverAgain(p) ==
  /\ sem < SemValueMax
  /\ Goto(p, "recovering", "timedout")
  /\ sem' = sem + 1
  /\ surplus' = surplus + 1
  /\ NotesOverpost
  /\ UNCHANGED <<slot, at>>

\* The sem_post of the recovery, whatever the value is by now.
Recover(p) ==
  /\ sem < SemValueMax
  /\ Goto(p, "recovering", "waiting")
  /\ sem' = sem + 1
  /\ surplus' = surplus + 1
  /\ NotesOverpost
  /\ UNCHANGED <<slot, at>>

RecoverFails(p) ==
  /\ sem = SemValueMax
  /\ Goto(p, "recovering", "idle")
  /\ UNCHANGED <<sem, slot, at, surplus, past>>

-----------------------------------------------------------------------------
(* The rest of avsys_audio_lock_sync: the mark *)

\* No shared memory: the call fails and keeps the token it has just taken.
LockFails(p) ==
  /\ p \in Detached
  /\ Goto(p, "locked", "idle")
  /\ surplus' = surplus - 1
  /\ past' = past \cup {"refused"}
  /\ UNCHANGED <<sem, slot, at>>

FindFree(p) ==
  /\ Goto(p, "locked", "marking")
  /\ at' = [at EXCEPT ![p] = IndexOf(NoPid)]
  /\ UNCHANGED <<sem, slot, surplus, past>>

\* A full table is emptied and restarted with the own pid.
WriteMark(p) ==
  /\ Goto(p, "marking", "critical")
  /\ slot' = IF at[p] < LockSlotMax
               THEN [slot EXCEPT ![at[p]] = p]
               ELSE [i \in Slots |-> IF i = 0 THEN p ELSE NoPid]
  /\ at' = [at EXCEPT ![p] = 0]
  /\ past' = past \cup { e \in {"emptied"} : at[p] = LockSlotMax }
  /\ UNCHANGED <<sem, surplus>>

-----------------------------------------------------------------------------
(* avsys_audio_unlock_sync *)

\* Mutant: both layers of unlock post.
PostTwice(p) ==
  /\ sem < SemValueMax
  /\ Goto(p, "critical", "posted")
  /\ sem' = sem + 2
  /\ UNCHANGED <<slot, at, surplus, past>>

Post(p) ==
  /\ sem < SemValueMax
  /\ Goto(p, "critical", "posted")
  /\ sem' = sem + 1
  /\ UNCHANGED <<slot, at, surplus, past>>

\* EOVERFLOW: the token is gone and the mark stays.
PostFails(p) ==
  /\ sem = SemValueMax
  /\ Goto(p, "critical", "idle")
  /\ surplus' = surplus - 1
  /\ past' = past \cup {"overflowed"}
  /\ UNCHANGED <<sem, slot, at>>

\* Mutant: any mark is taken for the own one.
FindMarkAny(p) ==
  LET found == { i \in Slots : slot[i] # NoPid }
  IN  /\ IF found # {}
           THEN /\ Goto(p, "posted", "unmarking")
                /\ at' = [at EXCEPT ![p] = Min(found)]
           ELSE /\ Goto(p, "posted", "idle")
                /\ UNCHANGED at
      /\ UNCHANGED <<sem, slot, surplus, past>>

FindMark(p) ==
  /\ IF IndexOf(p) < LockSlotMax
       THEN /\ Goto(p, "posted", "unmarking")
            /\ at' = [at EXCEPT ![p] = IndexOf(p)]
       ELSE /\ Goto(p, "posted", "idle")
            /\ UNCHANGED at
  /\ UNCHANGED <<sem, slot, surplus, past>>

EraseMark(p) ==
  /\ Goto(p, "unmarking", "idle")
  /\ slot' = [slot EXCEPT ![at[p]] = NoPid]
  /\ at' = [at EXCEPT ![p] = 0]
  /\ UNCHANGED <<sem, surplus, past>>

-----------------------------------------------------------------------------

\* A process dies: its mark stays, and so does the token if it had one.
Crash(p) ==
  /\ p \in Crashers
  /\ pc[p] # "dead"
  /\ pc' = [pc EXCEPT ![p] = "dead"]
  /\ at' = [at EXCEPT ![p] = 0]
  /\ surplus' = IF p \in Holders THEN surplus - 1 ELSE surplus
  /\ UNCHANGED <<sem, slot, past>>

\* What a live process does on its own once it has called lock or unlock.
Advance(p) ==
  \/ Acquire(p) \/ TimeOut(p) \/ ReadValue(p) \/ Recover(p) \/ RecoverFails(p)
  \/ LockFails(p) \/ FindFree(p) \/ WriteMark(p)
  \/ FindMark(p) \/ EraseMark(p)

Unlock(p) == Post(p) \/ PostFails(p)

Next == \E p \in Proc : Lock(p) \/ Advance(p) \/ Unlock(p) \/ Crash(p)

Spec == Init /\ [][Next]_vars

\* A started lock or unlock goes on until it returns or its process dies.
Fairness == \A p \in Proc : WF_vars(Advance(p))

FairSpec == Spec /\ Fairness

-----------------------------------------------------------------------------
(* Properties *)

TypeOK ==
  /\ sem \in 0 .. SemValueMax
  /\ pc \in [Proc -> PC]
  /\ slot \in [Slots -> Proc \cup {NoPid}]
  /\ at \in [Proc -> 0 .. LockSlotMax]
  /\ \A p \in Proc : pc[p] = "unmarking" => at[p] \in Slots
  /\ surplus \in Int
  /\ past \subseteq Past

\* Every token is accounted for: the value of the semaphore and its live owners
\* add up to the one token it was created with, plus the recovery posts, less
\* the tokens that died with their owner.  No path through lock, unlock and
\* the timeout handling makes or drops a token any other way.
TokenConservation == sem + Cardinality(Holders) = 1 + surplus

\* As long as the recovery posts have not outrun the lost tokens, at most one
\* live process is between lock and unlock and nobody else can enter.
MutualExclusion ==
  surplus <= 0 => /\ \A p, q \in Holders : p = q
                  /\ Holders # {} => sem = 0

\* The recovery cannot go on adding tokens: those there are and those still to
\* be posted never outnumber the processes, however long the owners take.
RecoveryBound == surplus + Cardinality(Recoverers) < Cardinality(Proc)

\* No wait expired so far unless its token had gone down with a process.
Patient == past \cap {"outlasted", "refused"} = {}

\* As long as no wait has expired next to a live owner, only those that wait
\* beside a dead one can post, and N processes never have more than N - 2
\* tokens too many, those still to be posted included.
PatientBound ==
  (Patient /\ (surplus > 0 \/ Recoverers # {}))
    => surplus + Cardinality(Recoverers) <= Cardinality(Proc) - 2

\* There are two ways to a token too many and no third: a wait that expired
\* next to a live owner, and two expired waits handled at the same time.
\* Whoever dies, is refused the shared memory or meets the limit of the
\* semaphore only ever takes tokens away.
OverpostHasACause ==
  "overposted" \in past => past \cap {"outlasted", "overlapped"} # {}

\* A pid is in the table once, and it is that of a process inside the lock, on
\* its way out of it, or dead.
EveryMarkIsDue ==
  \A i \in Slots : slot[i] # NoPid =>
    /\ pc[slot[i]] \in {"critical", "posted", "unmarking", "dead"}
    /\ \A j \in Slots : slot[j] = slot[i] => i = j

\* No mark stays behind in the pid table: also where a full table is emptied
\* under its owners, where two owners choose the same slot, and where the one
\* erases what the other has written over.  Only an unlock that meets the limit
\* of the semaphore leaves its mark.
NoStrayMarks == "overflowed" \notin past => EveryMarkIsDue

\* A dump of the pid table names the live owner, and nobody it should not name,
\* until a recovery posts a token too many, as then two owners may find the same
\* free slot, or a full table is emptied.
MarksAreHonest ==
  past \cap {"overposted", "emptied"} = {} =>
    /\ \A p \in Proc : pc[p] = "critical" => \E i \in Slots : slot[i] = p
    /\ EveryMarkIsDue

\* A lock that went down with its owner is taken again as long as one process
\* that does not die is waiting for it: the timeout, the reading and the post
\* bring back a token.
LostLockIsRecovered ==
  (sem = 0 /\ Holders = {} /\ Waiters \ Crashers # {}) ~> (Holders # {})

\* "Recovery of sem_wait lock....in abnormal condition": the recovery gives
\* back a token that was lost, and no more than that.
RecoveryOnlyReplaces == surplus <= 0

\* The same, of waits that expire only where no live process has the lock.
PatientRecoveryReplaces == Patient => surplus <= 0

\* The lock the callers see, until a recovery posts a token too many.
Mutex == INSTANCE AvMutex WITH
  owner  <- IF "overposted" \in past THEN {} ELSE Holders,
  lost   <- "overposted" \notin past /\ surplus = -1,
  broken <- "overposted" \in past

ImplementsMutex == Mutex!MutexSpec

=============================================================================
