---------------------------- MODULE AvSyncProofs ----------------------------
(***************************************************************************)
(* Theorems about AvSync, for every set of processes, every choice of the  *)
(* ones that crash or have no shared memory, and every size of the pid     *)
(* table.                                                                  *)
(***************************************************************************)
EXTENDS AvSync, AvLeastProofs, FiniteSetTheorems, TLAPS

-----------------------------------------------------------------------------
(* Operators *)

\* The lowest index with pid x is an index of the table, or the table's size.
LEMMA IndexOfType ==
  ASSUME NEW x
  PROVE  /\ IndexOf(x) \in 0 .. LockSlotMax
         /\ IndexOf(x) < LockSlotMax => IndexOf(x) \in Slots
<1> DEFINE found == { i \in Slots : slot[i] = x }
<1>1. CASE found = {}
  BY <1>1, SyncAssumption DEF IndexOf
<1>2. CASE found # {}
  <2>1. found \in SUBSET Nat
    BY SyncAssumption DEF Slots
  <2>2. Min(found) \in found
    <3> HIDE DEF found
    <3> QED
      BY <1>2, <2>1, MinIsLeast
  <2> QED
    BY <1>2, <2>2, SyncAssumption DEF IndexOf, Slots
<1> QED
  BY <1>1, <1>2

\* Adding an element to a finite set, or taking one out, moves its cardinality
\* by one.
LEMMA CardinalityStep ==
  ASSUME NEW S, IsFiniteSet(S), NEW x
  PROVE  /\ Cardinality(S) \in Nat
         /\ x \notin S => Cardinality(S \cup {x}) = Cardinality(S) + 1
         /\ x \in S => Cardinality(S \ {x}) = Cardinality(S) - 1
BY FS_CardinalityType, FS_AddElement, FS_RemoveElement

\* The owners and the recovering processes are finite sets.
LEMMA FiniteSubsets ==
  /\ IsFiniteSet(Holders) /\ Cardinality(Holders) \in Nat
  /\ IsFiniteSet(Recoverers) /\ Cardinality(Recoverers) \in Nat
<1>1. Holders \in SUBSET Proc /\ Recoverers \in SUBSET Proc
  BY DEF Holders, Recoverers
<1> QED
  BY <1>1, SyncAssumption, FS_Subset, FS_CardinalityType

-----------------------------------------------------------------------------
(* Types *)

\* Every variable keeps its type, and an index is written only inside the table.
THEOREM TypeCorrect == Spec => []TypeOK
<1>1. Init => TypeOK
  BY SyncAssumption DEF Init, TypeOK, PC, Slots, Past
<1>2. TypeOK /\ [Next]_vars => TypeOK'
  <2> SUFFICES ASSUME TypeOK, [Next]_vars
               PROVE  TypeOK'
    OBVIOUS
  <2>1. CASE UNCHANGED vars
    BY <2>1 DEF TypeOK, vars
  <2>2. ASSUME NEW p \in Proc, Lock(p)
        PROVE  TypeOK'
    BY <2>2 DEF TypeOK, Lock, Goto, PC
  <2>3. ASSUME NEW p \in Proc, Acquire(p)
        PROVE  TypeOK'
    BY <2>3, SyncAssumption DEF TypeOK, Acquire, Goto, PC
  <2>4. ASSUME NEW p \in Proc, TimeOut(p)
        PROVE  TypeOK'
    BY <2>4 DEF TypeOK, TimeOut, Goto, PC, Past
  <2>5. ASSUME NEW p \in Proc, ReadValue(p)
        PROVE  TypeOK'
    BY <2>5 DEF TypeOK, ReadValue, Goto, PC
  <2>6. ASSUME NEW p \in Proc, Recover(p)
        PROVE  TypeOK'
    <3>1. past' \subseteq Past
      BY <2>6 DEF TypeOK, Recover, NotesOverpost, Past
    <3> QED
      BY <2>6, <3>1, SyncAssumption DEF TypeOK, Recover, Goto, PC
  <2>7. ASSUME NEW p \in Proc, RecoverFails(p)
        PROVE  TypeOK'
    BY <2>7 DEF TypeOK, RecoverFails, Goto, PC
  <2>8. ASSUME NEW p \in Proc, LockFails(p)
        PROVE  TypeOK'
    BY <2>8 DEF TypeOK, LockFails, Goto, PC, Past
  <2>9. ASSUME NEW p \in Proc, FindFree(p)
        PROVE  TypeOK'
    BY <2>9, IndexOfType DEF TypeOK, FindFree, Goto, PC
  <2>10. ASSUME NEW p \in Proc, WriteMark(p)
         PROVE  TypeOK'
    <3>1. slot' \in [Slots -> Proc \cup {NoPid}]
      BY <2>10, SyncAssumption DEF TypeOK, WriteMark, Goto, PC, Slots
    <3>2. past' \subseteq Past
      BY <2>10 DEF TypeOK, WriteMark, Past
    <3> QED
      BY <2>10, <3>1, <3>2, SyncAssumption DEF TypeOK, WriteMark, Goto, PC
  <2>11. ASSUME NEW p \in Proc, Post(p)
         PROVE  TypeOK'
    BY <2>11, SyncAssumption DEF TypeOK, Post, Goto, PC
  <2>12. ASSUME NEW p \in Proc, PostFails(p)
         PROVE  TypeOK'
    BY <2>12 DEF TypeOK, PostFails, Goto, PC, Past
  <2>13. ASSUME NEW p \in Proc, FindMark(p)
         PROVE  TypeOK'
    BY <2>13, IndexOfType DEF TypeOK, FindMark, Goto, PC
  <2>14. ASSUME NEW p \in Proc, EraseMark(p)
         PROVE  TypeOK'
    <3>1. slot' \in [Slots -> Proc \cup {NoPid}]
      BY <2>14, SyncAssumption DEF TypeOK, EraseMark, Goto, PC
    <3> QED
      BY <2>14, <3>1, SyncAssumption DEF TypeOK, EraseMark, Goto, PC
  <2>15. ASSUME NEW p \in Proc, Crash(p)
         PROVE  TypeOK'
    BY <2>15, SyncAssumption DEF TypeOK, Crash, PC
  <2> QED
    BY <2>1, <2>2, <2>3, <2>4, <2>5, <2>6, <2>7, <2>8, <2>9, <2>10, <2>11,
       <2>12, <2>13, <2>14, <2>15
    DEF Next, Advance, Unlock
<1> QED
  BY <1>1, <1>2, PTL DEF Spec


-----------------------------------------------------------------------------
(* What a step can do to the token *)

Dead == { p \in Proc : pc[p] = "dead" }

\* p takes a token of the semaphore.
Enters(p) ==
  /\ sem > 0 /\ sem' = sem - 1
  /\ p \notin Holders /\ Holders' = Holders \cup {p}
  /\ UNCHANGED <<Recoverers, surplus, past>>

\* p gives its token back.
Leaves(p) ==
  /\ sem' = sem + 1
  /\ p \in Holders /\ Holders' = Holders \ {p}
  /\ UNCHANGED <<Recoverers, surplus, past>>

\* The token of p is gone: p died, could not post, or returned an error.
LosesToken(p) ==
  /\ p \in Holders /\ Holders' = Holders \ {p}
  /\ surplus' = surplus - 1
  /\ \/ Dead' # {} /\ past' = past
     \/ past' = past \cup {"refused"}
     \/ sem = SemValueMax /\ past' = past \cup {"overflowed"}
  /\ UNCHANGED <<sem, Recoverers>>

\* p starts to handle a timeout.
StartsRecovery(p) ==
  /\ sem = 0
  /\ p \notin Recoverers /\ p \notin Dead
  /\ Recoverers' = Recoverers \cup {p}
  /\ past' = past \cup { e \in {"outlasted"} : Holders # {} }
                  \cup { e \in {"overlapped"} : Recoverers # {} }
  /\ UNCHANGED <<sem, Holders, surplus>>

\* p stops handling a timeout without having posted.
StopsRecovery(p) ==
  /\ p \in Recoverers /\ Recoverers' = Recoverers \ {p}
  /\ UNCHANGED <<sem, Holders, surplus, past>>

\* p posts the semaphore because it once read a zero.
Reposts(p) ==
  /\ sem' = sem + 1
  /\ p \in Recoverers /\ Recoverers' = Recoverers \ {p}
  /\ surplus' = surplus + 1
  /\ NotesOverpost
  /\ UNCHANGED Holders

TokenStep(p) ==
  \/ Enters(p) \/ Leaves(p) \/ LosesToken(p)
  \/ StartsRecovery(p) \/ StopsRecovery(p) \/ Reposts(p)

NoTokenStep ==
  /\ past' \in {past, past \cup {"emptied"}}
  /\ UNCHANGED <<sem, Holders, Recoverers, surplus>>

\* Where a process goes decides whether it is an owner, recovering or dead.
LEMMA Moves ==
  ASSUME TypeOK, NEW p \in Proc, NEW to \in PC,
         pc' = [pc EXCEPT ![p] = to]
  PROVE  /\ Holders' = IF to \in {"locked", "marking", "critical"}
                         THEN Holders \cup {p} ELSE Holders \ {p}
         /\ Recoverers' = IF to \in {"timedout", "recovering"}
                            THEN Recoverers \cup {p} ELSE Recoverers \ {p}
         /\ to = "dead" => p \in Dead'
         /\ pc[p] # "dead" => Dead \subseteq Dead'
BY DEF TypeOK, Holders, Recoverers, Dead

\* Every step of the specification is one of these, and no process rises from
\* the dead.
LEMMA StepKinds ==
  ASSUME TypeOK, [Next]_vars
  PROVE  /\ (\E p \in Proc : TokenStep(p)) \/ NoTokenStep
         /\ Dead \subseteq Dead'
<1> USE DEF TokenStep, NoTokenStep, Holders, Recoverers
<1>1. CASE UNCHANGED vars
  BY <1>1 DEF vars, Dead
<1>2. ASSUME NEW p \in Proc, Lock(p)
      PROVE  NoTokenStep /\ Dead \subseteq Dead'
  BY <1>2, Moves DEF Lock, Goto, PC
<1>3. ASSUME NEW p \in Proc, Acquire(p)
      PROVE  Enters(p) /\ Dead \subseteq Dead'
  BY <1>3, Moves DEF Acquire, Goto, PC, Enters
<1>4. ASSUME NEW p \in Proc, TimeOut(p)
      PROVE  StartsRecovery(p) /\ Dead \subseteq Dead'
  BY <1>4, Moves DEF TimeOut, Goto, PC, StartsRecovery, Dead
<1>5. ASSUME NEW p \in Proc, ReadValue(p)
      PROVE  (NoTokenStep \/ StopsRecovery(p)) /\ Dead \subseteq Dead'
  BY <1>5, Moves DEF ReadValue, Goto, PC, StopsRecovery
<1>6. ASSUME NEW p \in Proc, Recover(p)
      PROVE  Reposts(p) /\ Dead \subseteq Dead'
  BY <1>6, Moves DEF Recover, Goto, PC, Reposts
<1>7. ASSUME NEW p \in Proc, RecoverFails(p)
      PROVE  StopsRecovery(p) /\ Dead \subseteq Dead'
  BY <1>7, Moves DEF RecoverFails, Goto, PC, StopsRecovery
<1>8. ASSUME NEW p \in Proc, LockFails(p)
      PROVE  LosesToken(p) /\ Dead \subseteq Dead'
  BY <1>8, Moves DEF LockFails, Goto, PC, LosesToken
<1>9. ASSUME NEW p \in Proc, FindFree(p)
      PROVE  NoTokenStep /\ Dead \subseteq Dead'
  BY <1>9, Moves DEF FindFree, Goto, PC
<1>10. ASSUME NEW p \in Proc, WriteMark(p)
       PROVE  NoTokenStep /\ Dead \subseteq Dead'
  BY <1>10, Moves DEF WriteMark, Goto, PC
<1>11. ASSUME NEW p \in Proc, Post(p)
       PROVE  Leaves(p) /\ Dead \subseteq Dead'
  BY <1>11, Moves DEF Post, Goto, PC, Leaves
<1>12. ASSUME NEW p \in Proc, PostFails(p)
       PROVE  LosesToken(p) /\ Dead \subseteq Dead'
  BY <1>12, Moves DEF PostFails, Goto, PC, LosesToken
<1>13. ASSUME NEW p \in Proc, FindMark(p)
       PROVE  NoTokenStep /\ Dead \subseteq Dead'
  BY <1>13, Moves DEF FindMark, Goto, PC
<1>14. ASSUME NEW p \in Proc, EraseMark(p)
       PROVE  NoTokenStep /\ Dead \subseteq Dead'
  BY <1>14, Moves DEF EraseMark, Goto, PC
<1>15. ASSUME NEW p \in Proc, Crash(p)
       PROVE  /\ LosesToken(p) \/ StopsRecovery(p) \/ NoTokenStep
              /\ Dead \subseteq Dead'
  BY <1>15, Moves DEF Crash, PC, LosesToken, StopsRecovery
<1> QED
  BY <1>1, <1>2, <1>3, <1>4, <1>5, <1>6, <1>7, <1>8, <1>9, <1>10, <1>11,
     <1>12, <1>13, <1>14, <1>15
  DEF Next, Advance, Unlock

-----------------------------------------------------------------------------
(* Tokens *)

LEMMA InitialTokens ==
  Init => /\ Holders = {} /\ Recoverers = {} /\ Dead = {}
          /\ sem = 1 /\ surplus = 0 /\ past = {}
BY DEF Init, Holders, Recoverers, Dead

LEMMA ConservationStep ==
  ASSUME TypeOK, TokenConservation, [Next]_vars
  PROVE  TokenConservation'
<1> USE FiniteSubsets DEF TypeOK, TokenConservation
<1>1. ASSUME NEW p \in Proc, Enters(p)
      PROVE  TokenConservation'
  BY <1>1, CardinalityStep DEF Enters
<1>2. ASSUME NEW p \in Proc, Leaves(p)
      PROVE  TokenConservation'
  BY <1>2, CardinalityStep DEF Leaves
<1>3. ASSUME NEW p \in Proc, LosesToken(p)
      PROVE  TokenConservation'
  BY <1>3, CardinalityStep DEF LosesToken
<1>4. ASSUME NEW p \in Proc, StartsRecovery(p) \/ StopsRecovery(p)
      PROVE  TokenConservation'
  BY <1>4 DEF StartsRecovery, StopsRecovery
<1>5. ASSUME NEW p \in Proc, Reposts(p)
      PROVE  TokenConservation'
  BY <1>5 DEF Reposts
<1>6. CASE NoTokenStep
  BY <1>6 DEF NoTokenStep
<1> QED
  BY <1>1, <1>2, <1>3, <1>4, <1>5, <1>6, StepKinds DEF TokenStep

\* Value, owners, recovery posts and lost tokens always add up.
THEOREM TokensAreConserved == Spec => []TokenConservation
<1>1. Init => TokenConservation
  BY InitialTokens, FS_EmptySet DEF TokenConservation
<1>2. TypeOK /\ TokenConservation /\ [Next]_vars => TokenConservation'
  BY ConservationStep
<1> QED
  BY <1>1, <1>2, TypeCorrect, PTL DEF Spec

\* The conservation of the tokens is what makes the semaphore a mutex.
LEMMA ConservationGivesMutex == TypeOK /\ TokenConservation => MutualExclusion
<1> SUFFICES ASSUME TypeOK, TokenConservation, surplus <= 0, NEW p \in Holders
             PROVE  sem = 0 /\ \A q \in Holders : p = q
  BY DEF MutualExclusion
<1>1. Cardinality(Holders \ {p}) = Cardinality(Holders) - 1
  BY CardinalityStep, FiniteSubsets
<1>2. IsFiniteSet(Holders \ {p}) /\ Cardinality(Holders \ {p}) \in Nat
  BY FiniteSubsets, FS_RemoveElement, FS_CardinalityType
<1>3. sem = 0 /\ Cardinality(Holders \ {p}) = 0
  BY <1>1, <1>2, FiniteSubsets DEF TokenConservation, TypeOK
<1>4. Holders \ {p} = {}
  BY <1>2, <1>3, FS_EmptySet
<1> QED
  BY <1>3, <1>4

\* Two live processes are between lock and unlock at the same time only if a
\* recovery has posted a token that nobody had lost.
THEOREM MutexUnlessOverPosted == Spec => []MutualExclusion
BY TypeCorrect, TokensAreConserved, ConservationGivesMutex, PTL

-----------------------------------------------------------------------------
(* How far the recovery can go *)

\* What has happened to the lock stays in its past.
LEMMA PastGrows ==
  ASSUME TypeOK, [Next]_vars
  PROVE  past \subseteq past'
<1>1. ASSUME NEW p \in Proc, TokenStep(p)
      PROVE  past \subseteq past'
  BY <1>1 DEF TokenStep, Enters, Leaves, LosesToken, StartsRecovery, StopsRecovery,
              Reposts, NotesOverpost
<1> QED
  BY <1>1, StepKinds DEF NoTokenStep

\* Where no wait has expired next to a live owner, a timeout means that the one
\* token went down with a process; afterwards only those who were waiting with
\* it can still post.
RecoveryInv ==
  Patient =>
    /\ Dead = {} => surplus = 0 /\ Recoverers = {}
    /\ (surplus > 0 \/ Recoverers # {})
         => surplus + Cardinality(Recoverers) <= Cardinality(Proc) - 2

LEMMA RecoveryStep ==
  ASSUME TypeOK, TokenConservation, RecoveryInv, [Next]_vars
  PROVE  RecoveryInv'
<1> SUFFICES ASSUME Patient'
             PROVE  /\ Dead' = {} => surplus' = 0 /\ Recoverers' = {}
                    /\ (surplus' > 0 \/ Recoverers' # {})
                         => surplus' + Cardinality(Recoverers') <= Cardinality(Proc) - 2
  BY DEF RecoveryInv
<1>0. Patient
  BY PastGrows DEF Patient
<1>1. /\ Dead = {} => surplus = 0 /\ Recoverers = {}
      /\ (surplus > 0 \/ Recoverers # {})
            => surplus + Cardinality(Recoverers) <= Cardinality(Proc) - 2
  BY <1>0 DEF RecoveryInv
<1>2. Dead \subseteq Dead'
  BY StepKinds
<1>3. /\ sem \in Nat /\ surplus \in Int
      /\ sem + Cardinality(Holders) = 1 + surplus
      /\ Cardinality(Holders) \in Nat /\ Cardinality(Recoverers) \in Nat
      /\ Cardinality(Proc) \in Nat
  BY FiniteSubsets, FS_CardinalityType, SyncAssumption DEF TypeOK, TokenConservation
<1>4. ASSUME NEW p \in Proc, Enters(p) \/ Leaves(p) \/ NoTokenStep
      PROVE  surplus' = surplus /\ Recoverers' = Recoverers
  BY <1>4 DEF Enters, Leaves, NoTokenStep
<1>5. ASSUME NEW p \in Proc, LosesToken(p)
      PROVE  surplus' = surplus - 1 /\ Recoverers' = Recoverers /\ Dead' # {}
  <2>1. surplus' = surplus - 1 /\ Recoverers' = Recoverers
    BY <1>5 DEF LosesToken
  <2>2. CASE Dead = {}
    <3>1. Cardinality(Holders) = 1 + Cardinality(Holders \ {p})
          /\ Cardinality(Holders \ {p}) \in Nat
      BY <1>5, CardinalityStep, FiniteSubsets, FS_RemoveElement, FS_CardinalityType
      DEF LosesToken
    <3>2. sem = 0
      BY <1>1, <1>3, <2>2, <3>1
    <3> QED
      BY <1>5, <3>2, SyncAssumption DEF LosesToken, Patient
  <2> QED
    BY <1>2, <2>1, <2>2
<1>6. ASSUME NEW p \in Proc, StartsRecovery(p)
      PROVE  /\ Dead' # {}
             /\ surplus' + Cardinality(Recoverers') <= Cardinality(Proc) - 2
  <2>1. surplus = -1
    <3>1. Holders = {} /\ sem = 0
      BY <1>6 DEF StartsRecovery, Patient
    <3> QED
      BY <1>3, <3>1, FS_EmptySet
  <2>2. PICK d \in Dead : TRUE
    BY <1>1, <2>1
  <2>3. d \in Proc /\ Recoverers' \subseteq Proc \ {d}
    BY <1>6, <2>2 DEF StartsRecovery, Dead, Recoverers
  <2>4. Cardinality(Recoverers') <= Cardinality(Proc) - 1
    <3>1. IsFiniteSet(Proc \ {d}) /\ Cardinality(Proc \ {d}) = Cardinality(Proc) - 1
      BY <2>3, SyncAssumption, FS_RemoveElement
    <3> QED
      BY <2>3, <3>1, FS_Subset
  <2>5. Cardinality(Recoverers') \in Nat /\ surplus' = surplus
    <3>1. Recoverers' = Recoverers \cup {p} /\ surplus' = surplus
      BY <1>6 DEF StartsRecovery
    <3> QED
      BY <3>1, FiniteSubsets, FS_AddElement, FS_CardinalityType
  <2>6. Dead' # {}
    BY <1>2, <2>2
  <2>7. \A c, n \in Nat : c <= n - 1 => -1 + c <= n - 2
    OBVIOUS
  <2>8. surplus' + Cardinality(Recoverers') <= Cardinality(Proc) - 2
    BY <1>3, <2>1, <2>4, <2>5, <2>7
  <2> QED
    BY <2>6, <2>8
<1>7. ASSUME NEW p \in Proc, StopsRecovery(p)
      PROVE  /\ Recoverers # {} /\ surplus' = surplus
             /\ Cardinality(Recoverers') = Cardinality(Recoverers) - 1
  BY <1>7, CardinalityStep, FiniteSubsets DEF StopsRecovery
<1>8. ASSUME NEW p \in Proc, Reposts(p)
      PROVE  /\ Recoverers # {} /\ surplus' = surplus + 1
             /\ Cardinality(Recoverers') = Cardinality(Recoverers) - 1
  BY <1>8, CardinalityStep, FiniteSubsets DEF Reposts
<1>9. CASE NoTokenStep
  BY <1>1, <1>2, <1>9 DEF NoTokenStep
<1>10. ASSUME NEW p \in Proc, TokenStep(p)
       PROVE  /\ Dead' = {} => surplus' = 0 /\ Recoverers' = {}
              /\ (surplus' > 0 \/ Recoverers' # {})
                   => surplus' + Cardinality(Recoverers') <= Cardinality(Proc) - 2
  <2>1. CASE Enters(p) \/ Leaves(p)
    BY <1>1, <1>2, <1>4, <2>1
  <2>2. CASE LosesToken(p)
    BY <1>1, <1>3, <1>5, <2>2
  <2>3. CASE StartsRecovery(p)
    BY <1>6, <2>3
  <2>4. CASE StopsRecovery(p)
    BY <1>1, <1>2, <1>3, <1>7, <2>4
  <2>5. CASE Reposts(p)
    BY <1>1, <1>2, <1>3, <1>8, <2>5
  <2> QED
    BY <1>10, <2>1, <2>2, <2>3, <2>4, <2>5 DEF TokenStep
<1> QED
  BY <1>9, <1>10, StepKinds

LEMMA RecoveryInvariant == Spec => []RecoveryInv
<1>1. Init => RecoveryInv
  BY InitialTokens, FS_EmptySet DEF RecoveryInv
<1>2. TypeOK /\ TokenConservation /\ RecoveryInv /\ [Next]_vars => RecoveryInv'
  BY RecoveryStep
<1> QED
  BY <1>1, <1>2, TypeCorrect, TokensAreConserved, PTL DEF Spec

\* A timeout begins where no token is left, and every process counts once:
\* among the owners of a token, or among those that may still post one.
LEMMA PostersStep ==
  ASSUME TypeOK, TokenConservation, [Next]_vars,
         surplus + Cardinality(Recoverers) < Cardinality(Proc)
  PROVE  surplus' + Cardinality(Recoverers') < Cardinality(Proc)
<1>1. /\ sem \in Nat /\ surplus \in Int
      /\ sem + Cardinality(Holders) = 1 + surplus
      /\ Cardinality(Holders) \in Nat /\ Cardinality(Recoverers) \in Nat
      /\ Cardinality(Proc) \in Nat
  BY FiniteSubsets, FS_CardinalityType, SyncAssumption DEF TypeOK, TokenConservation
<1>2. ASSUME NEW p \in Proc, Enters(p) \/ Leaves(p) \/ NoTokenStep
      PROVE  surplus' = surplus /\ Recoverers' = Recoverers
  BY <1>2 DEF Enters, Leaves, NoTokenStep
<1>3. ASSUME NEW p \in Proc, LosesToken(p)
      PROVE  surplus' = surplus - 1 /\ Recoverers' = Recoverers
  BY <1>3 DEF LosesToken
<1>4. ASSUME NEW p \in Proc, StartsRecovery(p)
      PROVE  surplus' + Cardinality(Recoverers') < Cardinality(Proc)
  <2>1. /\ surplus' = Cardinality(Holders) - 1
        /\ Holders' = Holders /\ Recoverers' = Recoverers \cup {p}
    BY <1>1, <1>4 DEF StartsRecovery
  <2>2. Holders \cap Recoverers' = {} /\ Holders \cup Recoverers' \subseteq Proc
    <3>1. Holders' \cap Recoverers' = {} /\ Holders' \cup Recoverers' \subseteq Proc
      BY DEF Holders, Recoverers
    <3> QED
      BY <2>1, <3>1
  <2>3. IsFiniteSet(Recoverers') /\ Cardinality(Recoverers') \in Nat
    BY <2>1, FiniteSubsets, FS_AddElement, FS_CardinalityType
  <2>4. Cardinality(Holders \cup Recoverers')
          = Cardinality(Holders) + Cardinality(Recoverers')
    <3> DEFINE R == Recoverers'
    <3>1. Cardinality(Holders \cup R)
            = Cardinality(Holders) + Cardinality(R) - Cardinality(Holders \cap R)
      BY <2>3, FiniteSubsets, FS_Union
    <3>2. Cardinality(Holders \cap R) = 0
      BY <2>2, FS_EmptySet
    <3> QED
      BY <1>1, <2>3, <3>1, <3>2
  <2>5. Cardinality(Holders \cup Recoverers') <= Cardinality(Proc)
    BY <2>2, SyncAssumption, FS_Subset
  <2> QED
    BY <1>1, <2>1, <2>3, <2>4, <2>5
<1>5. ASSUME NEW p \in Proc, StopsRecovery(p)
      PROVE  /\ surplus' = surplus
             /\ Cardinality(Recoverers') = Cardinality(Recoverers) - 1
  BY <1>5, CardinalityStep, FiniteSubsets DEF StopsRecovery
<1>6. ASSUME NEW p \in Proc, Reposts(p)
      PROVE  /\ surplus' = surplus + 1
             /\ Cardinality(Recoverers') = Cardinality(Recoverers) - 1
  BY <1>6, CardinalityStep, FiniteSubsets DEF Reposts
<1>7. ASSUME NEW p \in Proc, TokenStep(p)
      PROVE  surplus' + Cardinality(Recoverers') < Cardinality(Proc)
  BY <1>1, <1>2, <1>3, <1>4, <1>5, <1>6, <1>7 DEF TokenStep
<1>8. CASE NoTokenStep
  BY <1>8 DEF NoTokenStep
<1> QED
  BY <1>7, <1>8, StepKinds

\* The tokens and the posts to come never outnumber the processes.
THEOREM RecoveryIsBounded == Spec => []RecoveryBound
<1>1. Init => RecoveryBound
  <2>1. Cardinality(Proc) \in Nat /\ Cardinality(Proc) # 0
    BY SyncAssumption, FS_CardinalityType, FS_EmptySet
  <2> QED
    BY <2>1, InitialTokens, FS_EmptySet DEF RecoveryBound
<1>2. TypeOK /\ TokenConservation /\ RecoveryBound /\ [Next]_vars => RecoveryBound'
  BY PostersStep DEF RecoveryBound
<1> QED
  BY <1>1, <1>2, TypeCorrect, TokensAreConserved, PTL DEF Spec

\* As long as no wait expires next to a live owner, and nobody who took the lock
\* was refused the shared memory, N processes never have more than N - 2 tokens
\* too many.
THEOREM PatientRecoveryIsBounded == Spec => []PatientBound
<1>1. RecoveryInv => PatientBound
  BY DEF RecoveryInv, PatientBound
<1> QED
  BY <1>1, RecoveryInvariant, PTL

\* So where nobody dies, or where one process at most can wait, the recovery
\* gives back no more than was lost until a wait expires next to a live owner.
THEOREM PatientRecoveryKeepsCount ==
  ASSUME Crashers = {} \/ Cardinality(Proc) <= 2
  PROVE  Spec => []PatientRecoveryReplaces
<1> DEFINE NobodyDies == Crashers = {} => Dead = {}
<1>1. Spec => []NobodyDies
  <2>1. Init => NobodyDies
    BY InitialTokens
  <2>2. TypeOK /\ NobodyDies /\ [Next]_vars => NobodyDies'
    <3> SUFFICES ASSUME TypeOK, Crashers = {}, [Next]_vars,
                        NEW q \in Proc, pc[q] # "dead"
                 PROVE  pc'[q] # "dead"
      BY DEF Dead
    <3> QED
      BY DEF TypeOK, Next, Advance, Unlock, Lock, Acquire, TimeOut, ReadValue,
             Recover, RecoverFails, LockFails, FindFree, WriteMark, Post,
             PostFails, FindMark, EraseMark, Crash, Goto, vars
  <2> QED
    BY <2>1, <2>2, TypeCorrect, PTL DEF Spec
<1>2. TypeOK /\ NobodyDies /\ RecoveryInv => PatientRecoveryReplaces
  <2> SUFFICES ASSUME TypeOK, NobodyDies, RecoveryInv, Patient, surplus > 0
               PROVE  FALSE
    BY DEF PatientRecoveryReplaces, TypeOK
  <2>1. CASE Crashers = {}
    BY <2>1 DEF RecoveryInv
  <2>2. CASE Cardinality(Proc) <= 2
    <3>1. Cardinality(Proc) \in Nat /\ Cardinality(Recoverers) \in Nat
      BY FiniteSubsets, FS_CardinalityType, SyncAssumption
    <3>2. surplus + Cardinality(Recoverers) <= Cardinality(Proc) - 2
      BY DEF RecoveryInv
    <3> QED
      BY <2>2, <3>1, <3>2 DEF TypeOK
  <2> QED
    BY <2>1, <2>2
<1> QED
  BY <1>1, <1>2, TypeCorrect, RecoveryInvariant, PTL

\* Until a wait expires next to a live owner or to another expired one, a wait
\* being handled means that the token is lost and nobody has one, and there is
\* never one too many.
Causes == {"outlasted", "overlapped"}

CauseInv ==
  /\ surplus > 0 => "overposted" \in past
  /\ past \cap Causes = {} =>
       /\ \A p, q \in Recoverers : p = q
       /\ Recoverers # {} => surplus = -1 /\ sem = 0 /\ Holders = {}
  /\ OverpostHasACause

LEMMA CauseStep ==
  TypeOK /\ TokenConservation /\ CauseInv /\ [Next]_vars => CauseInv'
<1> SUFFICES ASSUME TypeOK, TokenConservation, CauseInv, [Next]_vars
             PROVE  CauseInv'
  OBVIOUS
<1> USE DEF CauseInv, OverpostHasACause, Causes
<1>1. /\ sem \in Nat /\ surplus \in Int
      /\ sem + Cardinality(Holders) = 1 + surplus
      /\ Cardinality(Holders) \in Nat
      /\ past \subseteq Past
  BY FiniteSubsets DEF TypeOK, TokenConservation
<1>2. ASSUME NEW p \in Proc, Enters(p)
      PROVE  CauseInv'
  BY <1>1, <1>2 DEF Enters
<1>3. ASSUME NEW p \in Proc, LosesToken(p)
      PROVE  CauseInv'
  BY <1>1, <1>3 DEF LosesToken
<1>4. ASSUME NEW p \in Proc, Leaves(p)
      PROVE  CauseInv'
  BY <1>1, <1>4 DEF Leaves
<1>5. ASSUME NEW p \in Proc, StartsRecovery(p)
      PROVE  CauseInv'
  <2>1. /\ sem = 0 /\ UNCHANGED <<sem, Holders, surplus>>
        /\ Recoverers' = Recoverers \cup {p}
        /\ past' = past \cup { e \in {"outlasted"} : Holders # {} }
                        \cup { e \in {"overlapped"} : Recoverers # {} }
    BY <1>5 DEF StartsRecovery
  <2>2. CASE past' \cap Causes = {}
    <3>1. past \cap Causes = {} /\ Holders = {} /\ Recoverers = {}
      BY <2>1, <2>2
    <3>2. surplus = -1
      BY <1>1, <2>1, <3>1, FS_EmptySet
    <3> QED
      BY <2>1, <2>2, <3>1, <3>2
  <2>3. CASE past' \cap Causes # {}
    BY <1>1, <2>1, <2>3
  <2> QED
    BY <2>2, <2>3
<1>6. ASSUME NEW p \in Proc, StopsRecovery(p)
      PROVE  CauseInv'
  BY <1>6 DEF StopsRecovery
<1>7. ASSUME NEW p \in Proc, Reposts(p)
      PROVE  CauseInv'
  <2>1. /\ surplus' = surplus + 1
        /\ p \in Recoverers /\ Recoverers' = Recoverers \ {p}
        /\ past' = past \cup { e \in {"overposted"} : surplus' > 0 }
    BY <1>7 DEF Reposts, NotesOverpost
  <2>2. CASE past \cap Causes = {}
    <3>1. surplus' = 0 /\ Recoverers' = {}
      BY <2>1, <2>2
    <3>2. past' = past
      BY <2>1, <3>1
    <3> QED
      BY <3>1, <3>2
  <2>3. CASE past \cap Causes # {}
    BY <1>1, <2>1, <2>3
  <2> QED
    BY <2>2, <2>3
<1>8. CASE NoTokenStep
  BY <1>8 DEF NoTokenStep
<1> QED
  BY <1>2, <1>3, <1>4, <1>5, <1>6, <1>7, <1>8, StepKinds DEF TokenStep

LEMMA CauseInvariant == Spec => []CauseInv
<1>1. Init => CauseInv
  BY InitialTokens DEF CauseInv, OverpostHasACause, Causes
<1> QED
  BY <1>1, CauseStep, TypeCorrect, TokensAreConserved, PTL DEF Spec

\* The recovery goes wrong in two ways and no third, whoever dies, whoever has
\* no shared memory and however many wait: a wait expires next to a live owner,
\* or two expired waits are handled at once.  The runs sync_starved_waiter and
\* sync_double_recovery show each of them.
THEOREM OverpostsHaveACause == Spec => []OverpostHasACause
<1>1. CauseInv => OverpostHasACause
  BY DEF CauseInv
<1> QED
  BY <1>1, CauseInvariant, PTL

-----------------------------------------------------------------------------
(* Refinement *)

\* Until the first token too many, at most one process owns the lock, and no
\* value is left when one does.
LEMMA SoundLock ==
  ASSUME TypeOK, TokenConservation, CauseInv, "overposted" \notin past
  PROVE  /\ surplus <= 0
         /\ \A p, q \in Holders : p = q
         /\ Holders # {} => sem = 0
         /\ Holders # {} \/ sem > 0 => surplus = 0
<1>1. surplus <= 0
  BY DEF CauseInv, TypeOK
<1>2. MutualExclusion
  BY ConservationGivesMutex
<1>3. Cardinality(Holders) = 0 <=> Holders = {}
  BY FiniteSubsets, FS_EmptySet
<1> QED
  BY <1>1, <1>2, <1>3, FiniteSubsets DEF MutualExclusion, TokenConservation, TypeOK

\* What a step means for the lock the callers see.
LEMMA MutexStep ==
  TypeOK /\ TokenConservation /\ CauseInv /\ CauseInv' /\ [Next]_vars
    => [Mutex!MutexNext]_(Mutex!mutexVars)
<1> SUFFICES ASSUME TypeOK, TokenConservation, CauseInv, CauseInv', [Next]_vars
             PROVE  [Mutex!MutexNext]_(Mutex!mutexVars)
  OBVIOUS
<1> USE DEF Mutex!MutexNext, Mutex!mutexVars
<1>1. CASE "overposted" \in past
  <2>1. "overposted" \in past'
    BY <1>1, PastGrows
  <2> QED
    BY <1>1, <2>1
<1>2. CASE "overposted" \notin past
  <2>1. /\ surplus \in Int /\ surplus <= 0
        /\ \A p, q \in Holders : p = q
        /\ Holders # {} => sem = 0
        /\ Holders # {} \/ sem > 0 => surplus = 0
    BY <1>2, SoundLock DEF TypeOK
  <2>2. ASSUME NEW p \in Proc, Enters(p)
        PROVE  Mutex!Take(p)
    <3>1. Holders = {} /\ surplus = 0
      BY <2>1, <2>2 DEF Enters
    <3> QED
      BY <1>2, <2>2, <3>1 DEF Enters, Mutex!Take
  <2>3. ASSUME NEW p \in Proc, p \in Holders
        PROVE  Holders = {p} /\ surplus = 0
    BY <2>1, <2>3
  <2>4. ASSUME NEW p \in Proc, Leaves(p)
        PROVE  Mutex!Give(p)
    BY <1>2, <2>3, <2>4 DEF Leaves, Mutex!Give
  <2>5. ASSUME NEW p \in Proc, LosesToken(p)
        PROVE  Mutex!Lose(p)
    BY <1>2, <2>3, <2>5 DEF LosesToken, Mutex!Lose
  <2>6. ASSUME NEW p \in Proc, StartsRecovery(p) \/ StopsRecovery(p)
        PROVE  UNCHANGED Mutex!mutexVars
    BY <1>2, <2>6 DEF StartsRecovery, StopsRecovery
  <2>7. ASSUME NEW p \in Proc, Reposts(p)
        PROVE  Mutex!Reissue \/ Mutex!Break \/ UNCHANGED Mutex!mutexVars
    <3>1. /\ surplus' = surplus + 1 /\ Holders' = Holders
          /\ past' = past \cup { e \in {"overposted"} : surplus' > 0 }
      BY <2>7 DEF Reposts, NotesOverpost
    <3>2. CASE surplus = 0
      <4>1. "overposted" \in past'
        BY <3>1, <3>2
      <4> QED
        BY <1>2, <3>2, <4>1 DEF Mutex!Break
    <3>3. CASE surplus # 0
      <4>1. surplus < 0 /\ surplus' <= 0
        BY <2>1, <3>1, <3>3
      <4>2. past' = past
        BY <3>1, <4>1
      <4>3. CASE surplus = -1
        BY <1>2, <3>1, <4>2, <4>3 DEF Mutex!Reissue
      <4>4. CASE surplus # -1
        <5>1. surplus < -1
          BY <2>1, <4>1, <4>4
        <5> QED
          BY SMT, <5>1, FiniteSubsets DEF TokenConservation, TypeOK
      <4> QED
        BY <4>3, <4>4
    <3> QED
      BY <3>2, <3>3
  <2>8. CASE NoTokenStep
    BY <2>8 DEF NoTokenStep
  <2> QED
    BY <2>2, <2>4, <2>5, <2>6, <2>7, <2>8, StepKinds DEF TokenStep
<1> QED
  BY <1>1, <1>2

\* The semaphore, its timeouts, its recoveries and its crashes implement the
\* lock of AvMutex, which is broken by the first token too many and not before.
THEOREM LockRefinesMutex == Spec => ImplementsMutex
<1>1. Init => Mutex!MutexInit
  BY InitialTokens DEF Mutex!MutexInit
<1> QED
  BY <1>1, MutexStep, CauseInvariant, TypeCorrect, TokensAreConserved, PTL
  DEF Spec, ImplementsMutex, Mutex!MutexSpec

-----------------------------------------------------------------------------
(* The table of owners *)

\* The index of pid x is that of a slot with it, if there is one.
LEMMA IndexOfFound ==
  ASSUME NEW x
  PROVE  /\ (\E i \in Slots : slot[i] = x)
              => IndexOf(x) \in Slots /\ slot[IndexOf(x)] = x
         /\ (\A i \in Slots : slot[i] # x) => IndexOf(x) = LockSlotMax
<1> DEFINE found == { i \in Slots : slot[i] = x }
<1>1. CASE found = {}
  BY <1>1 DEF IndexOf
<1>2. CASE found # {}
  <2>1. found \in SUBSET Nat
    BY SyncAssumption DEF Slots
  <2>2. Min(found) \in found
    <3> HIDE DEF found
    <3> QED
      BY <1>2, <2>1, MinIsLeast
  <2> QED
    BY <1>2, <2>2 DEF IndexOf
<1> QED
  BY <1>1, <1>2

\* The owner in its critical section is in the table, and nobody has a mark who
\* should not.
Honest ==
  /\ \A p \in Proc : pc[p] = "critical" => \E i \in Slots : slot[i] = p
  /\ EveryMarkIsDue

\* A chosen slot stays free until the mark is written, and a found mark stays
\* until it is erased.
MarksInv ==
  /\ Honest
  /\ \A p \in Proc : pc[p] = "marking" /\ at[p] \in Slots => slot[at[p]] = NoPid
  /\ \A p \in Proc : pc[p] = "unmarking" => slot[at[p]] = p

\* A process that goes on without touching the table, and does not leave a mark
\* behind.
LEMMA MarksStay ==
  ASSUME TypeOK, MarksInv, NEW p \in Proc, NEW to,
         pc' = [pc EXCEPT ![p] = to], slot' = slot,
         \A q \in Proc : q # p => at'[q] = at[q],
         to \notin {"marking", "critical", "unmarking"},
         \/ to \in {"posted", "dead"}
         \/ \A i \in Slots : slot[i] # p
  PROVE  MarksInv'
<1>1. /\ pc'[p] = to
      /\ \A q \in Proc : q # p => pc'[q] = pc[q]
  BY DEF TypeOK
<1>2. \A i \in Slots : slot[i] \in Proc \cup {NoPid}
  BY DEF TypeOK
<1>3. Slots' = Slots
  BY DEF Slots
<1>4. Honest'
  BY <1>1, <1>2, <1>3 DEF MarksInv, Honest, EveryMarkIsDue
<1> QED
  BY <1>1, <1>3, <1>4 DEF MarksInv

SoundMarks == past \cap {"overposted", "emptied"} = {} => MarksInv

LEMMA MarksStep ==
  TypeOK /\ TokenConservation /\ CauseInv /\ SoundMarks /\ [Next]_vars => SoundMarks'
<1> SUFFICES ASSUME TypeOK, TokenConservation, CauseInv, MarksInv, [Next]_vars,
                    past \cap {"overposted", "emptied"} = {},
                    past' \cap {"overposted", "emptied"} = {}
             PROVE  MarksInv'
  BY PastGrows DEF SoundMarks
<1>1. /\ \A p, q \in Holders : p = q
      /\ Holders # {} => sem = 0
  BY SoundLock
<1>2. ASSUME NEW p \in Proc,
             pc[p] \in {"idle", "waiting", "timedout", "recovering", "locked", "marking"}
      PROVE  \A i \in Slots : slot[i] # p
  BY <1>2, SyncAssumption DEF MarksInv, Honest, EveryMarkIsDue
<1>3. ASSUME NEW p \in Proc,
             \/ Lock(p) \/ Acquire(p) \/ TimeOut(p) \/ ReadValue(p) \/ Recover(p)
             \/ RecoverFails(p) \/ LockFails(p)
      PROVE  MarksInv'
  <2>1. PICK to \in {"idle", "waiting", "timedout", "recovering", "locked"} :
          pc' = [pc EXCEPT ![p] = to]
    BY <1>3 DEF Lock, Acquire, TimeOut, ReadValue, Recover, RecoverFails, LockFails, Goto
  <2>2. /\ slot' = slot /\ at' = at
        /\ pc[p] \in {"idle", "waiting", "timedout", "recovering", "locked"}
    BY <1>3 DEF Lock, Acquire, TimeOut, ReadValue, Recover, RecoverFails, LockFails, Goto
  <2> QED
    BY <1>2, <2>1, <2>2, MarksStay
<1>4. ASSUME NEW p \in Proc, Post(p) PROVE MarksInv'
  BY <1>4, MarksStay DEF Post, Goto
<1>5. ASSUME NEW p \in Proc, Crash(p) PROVE MarksInv'
  <2>1. \A q \in Proc : q # p => at'[q] = at[q]
    BY <1>5 DEF Crash, TypeOK
  <2> QED
    BY <1>5, <2>1, MarksStay DEF Crash
<1>6. ASSUME NEW p \in Proc, PostFails(p) PROVE MarksInv'
  <2>1. p \in Holders /\ sem = SemValueMax
    BY <1>6 DEF PostFails, Goto, Holders
  <2> QED
    BY <1>1, <2>1, SyncAssumption
<1>7. ASSUME NEW p \in Proc, FindFree(p) PROVE MarksInv'
  <2>1. /\ pc[p] = "locked" /\ pc' = [pc EXCEPT ![p] = "marking"]
        /\ at' = [at EXCEPT ![p] = IndexOf(NoPid)]
        /\ slot' = slot
    BY <1>7 DEF FindFree, Goto
  <2>2. IndexOf(NoPid) \in Slots => slot[IndexOf(NoPid)] = NoPid
    BY IndexOfFound, SyncAssumption DEF Slots
  <2>3. /\ pc'[p] = "marking" /\ at'[p] = IndexOf(NoPid)
        /\ \A q \in Proc : q # p => pc'[q] = pc[q] /\ at'[q] = at[q]
    BY <2>1 DEF TypeOK
  <2>4. Honest'
    BY <1>2, <2>1, <2>3, SyncAssumption DEF MarksInv, Honest, EveryMarkIsDue, TypeOK, Slots
  <2> QED
    BY <2>1, <2>2, <2>3, <2>4 DEF MarksInv, Slots
<1>8. ASSUME NEW p \in Proc, WriteMark(p) PROVE MarksInv'
  <2>1. /\ pc[p] = "marking" /\ pc' = [pc EXCEPT ![p] = "critical"]
        /\ at' = [at EXCEPT ![p] = 0]
    BY <1>8 DEF WriteMark, Goto
  <2>2. at[p] \in Slots /\ slot[at[p]] = NoPid
    <3>1. at[p] # LockSlotMax
      BY <1>8 DEF WriteMark
    <3>2. at[p] \in Slots
      BY <3>1, SyncAssumption DEF TypeOK, Slots
    <3> QED
      BY <2>1, <3>2 DEF MarksInv
  <2>3. slot' = [slot EXCEPT ![at[p]] = p]
    BY <1>8, <2>2, SyncAssumption DEF WriteMark, Slots
  <2>4. /\ pc'[p] = "critical"
        /\ \A q \in Proc : q # p => pc'[q] = pc[q] /\ at'[q] = at[q]
        /\ slot'[at[p]] = p
        /\ \A i \in Slots : i # at[p] => slot'[i] = slot[i]
    BY <2>1, <2>2, <2>3 DEF TypeOK
  <2>5. \A i \in Slots : slot[i] # p
    BY <1>2, <2>1
  <2>6. \A q \in Proc : q # p => pc[q] \notin {"locked", "marking", "critical"}
    BY <1>1, <2>1 DEF Holders
  <2>7. \A i \in Slots : slot[i] \in Proc \cup {NoPid}
    BY DEF TypeOK
  <2>8. Honest'
    <3>1. \A i \in Slots : slot'[i] # NoPid =>
            /\ pc'[slot'[i]] \in {"critical", "posted", "unmarking", "dead"}
            /\ \A j \in Slots : slot'[j] = slot'[i] => i = j
      <4> SUFFICES ASSUME NEW i \in Slots, slot'[i] # NoPid
                   PROVE  /\ pc'[slot'[i]] \in {"critical", "posted", "unmarking", "dead"}
                          /\ \A j \in Slots : slot'[j] = slot'[i] => i = j
        OBVIOUS
      <4>1. CASE i = at[p]
        BY <2>4, <2>5, <4>1
      <4>2. CASE i # at[p]
        BY <2>4, <2>5, <2>7, <4>2 DEF MarksInv, Honest, EveryMarkIsDue
      <4> QED
        BY <4>1, <4>2
    <3>2. \A q \in Proc : pc'[q] = "critical" => \E i \in Slots : slot'[i] = q
      BY <2>2, <2>4, <2>6
    <3> QED
      BY <3>1, <3>2 DEF Honest, EveryMarkIsDue, Slots
  <2>9. \A q \in Proc : pc'[q] # "marking"
    BY <2>4, <2>6
  <2>10. \A q \in Proc : pc'[q] = "unmarking" => slot'[at'[q]] = q
    <3> SUFFICES ASSUME NEW q \in Proc, pc'[q] = "unmarking" PROVE slot'[at'[q]] = q
      OBVIOUS
    <3>1. q # p /\ pc[q] = "unmarking" /\ at'[q] = at[q]
      BY <2>4
    <3>2. at[q] \in Slots /\ slot[at[q]] = q
      BY <3>1 DEF MarksInv, TypeOK
    <3> QED
      BY <2>2, <2>4, <3>1, <3>2, SyncAssumption
  <2> QED
    BY <2>8, <2>9, <2>10 DEF MarksInv
<1>9. ASSUME NEW p \in Proc, FindMark(p) PROVE MarksInv'
  <2>1. CASE IndexOf(p) < LockSlotMax
    <3>1. /\ pc[p] = "posted" /\ pc' = [pc EXCEPT ![p] = "unmarking"]
          /\ at' = [at EXCEPT ![p] = IndexOf(p)]
          /\ slot' = slot
      BY <1>9, <2>1 DEF FindMark, Goto
    <3>2. IndexOf(p) \in Slots /\ slot[IndexOf(p)] = p
      BY <2>1, IndexOfFound, SyncAssumption
    <3>3. /\ pc'[p] = "unmarking" /\ at'[p] = IndexOf(p)
          /\ \A q \in Proc : q # p => pc'[q] = pc[q] /\ at'[q] = at[q]
      BY <3>1 DEF TypeOK
    <3>4. Honest'
      BY <3>1, <3>3 DEF MarksInv, Honest, EveryMarkIsDue, TypeOK, Slots
    <3> QED
      BY <3>1, <3>2, <3>3, <3>4 DEF MarksInv, Slots
  <2>2. CASE ~(IndexOf(p) < LockSlotMax)
    <3>1. \A i \in Slots : slot[i] # p
      BY <2>2, IndexOfFound, SyncAssumption DEF Slots
    <3>2. pc' = [pc EXCEPT ![p] = "idle"] /\ at' = at /\ slot' = slot
      BY <1>9, <2>2 DEF FindMark, Goto
    <3> QED
      BY <3>1, <3>2, MarksStay
  <2> QED
    BY <2>1, <2>2
<1>10. ASSUME NEW p \in Proc, EraseMark(p) PROVE MarksInv'
  <2>1. /\ pc[p] = "unmarking" /\ pc' = [pc EXCEPT ![p] = "idle"]
        /\ at' = [at EXCEPT ![p] = 0]
        /\ slot' = [slot EXCEPT ![at[p]] = NoPid]
    BY <1>10 DEF EraseMark, Goto
  <2>2. at[p] \in Slots /\ slot[at[p]] = p
    BY <2>1 DEF MarksInv, TypeOK
  <2>3. /\ pc'[p] = "idle"
        /\ \A q \in Proc : q # p => pc'[q] = pc[q] /\ at'[q] = at[q]
        /\ slot'[at[p]] = NoPid
        /\ \A i \in Slots : i # at[p] => slot'[i] = slot[i]
    BY <2>1, <2>2 DEF TypeOK
  <2>4. \A i \in Slots : slot[i] = p => i = at[p]
    BY <2>2, SyncAssumption DEF MarksInv, Honest, EveryMarkIsDue
  <2>5. Honest'
    <3>1. \A i \in Slots : slot'[i] # NoPid =>
            /\ pc'[slot'[i]] \in {"critical", "posted", "unmarking", "dead"}
            /\ \A j \in Slots : slot'[j] = slot'[i] => i = j
      BY <2>3, <2>4 DEF MarksInv, Honest, EveryMarkIsDue, TypeOK
    <3>2. \A q \in Proc : pc'[q] = "critical" => \E i \in Slots : slot'[i] = q
      BY <2>2, <2>3 DEF MarksInv, Honest, EveryMarkIsDue
    <3> QED
      BY <3>1, <3>2 DEF Honest, EveryMarkIsDue, Slots
  <2>6. \A q \in Proc : pc'[q] = "marking" /\ at'[q] \in Slots => slot'[at'[q]] = NoPid
    BY <2>3 DEF MarksInv
  <2>7. \A q \in Proc : pc'[q] = "unmarking" => slot'[at'[q]] = q
    BY <2>2, <2>3 DEF MarksInv, TypeOK
  <2> QED
    BY <2>5, <2>6, <2>7 DEF MarksInv, Slots
<1>11. CASE UNCHANGED vars
  BY <1>11 DEF vars, MarksInv, Honest, EveryMarkIsDue, Slots
<1> QED
  BY <1>3, <1>4, <1>5, <1>6, <1>7, <1>8, <1>9, <1>10, <1>11 DEF Next, Advance, Unlock

\* The table of owners tells the truth until a recovery posts a token too many
\* or a full table is emptied, although its slots are chosen and written, found
\* and erased in separate steps, some of them without the lock.
THEOREM MarksTellTheTruth == Spec => []MarksAreHonest
<1>1. Init => SoundMarks
  BY DEF Init, SoundMarks, MarksInv, Honest, EveryMarkIsDue, Slots
<1>2. SoundMarks => MarksAreHonest
  BY DEF SoundMarks, MarksInv, Honest, MarksAreHonest
<1> QED
  BY <1>1, <1>2, MarksStep, CauseInvariant, TypeCorrect, TokensAreConserved, PTL
  DEF Spec

\* Whoever is about to erase its mark has found the only one it can have, although
\* others may have written over it since.
StrayInv ==
  /\ EveryMarkIsDue
  /\ \A p \in Proc : pc[p] = "unmarking" => \A i \in Slots : slot[i] = p => i = at[p]

\* A process that leaves the table alone, and no mark behind.
LEMMA StrayStays ==
  ASSUME TypeOK, StrayInv, NEW p \in Proc, NEW to,
         pc' = [pc EXCEPT ![p] = to], slot' = slot,
         \A q \in Proc : q # p => at'[q] = at[q],
         to # "unmarking",
         \/ to \in {"critical", "posted", "dead"}
         \/ \A i \in Slots : slot[i] # p
  PROVE  StrayInv'
<1>1. /\ pc'[p] = to
      /\ \A q \in Proc : q # p => pc'[q] = pc[q]
  BY DEF TypeOK
<1>2. \A i \in Slots : slot[i] \in Proc \cup {NoPid}
  BY DEF TypeOK
<1>3. EveryMarkIsDue'
  BY <1>1, <1>2 DEF StrayInv, EveryMarkIsDue, Slots
<1> QED
  BY <1>1, <1>3 DEF StrayInv, Slots

DueMarks == "overflowed" \notin past => StrayInv

LEMMA StrayStep ==
  TypeOK /\ DueMarks /\ [Next]_vars => DueMarks'
<1> SUFFICES ASSUME TypeOK, StrayInv, [Next]_vars, "overflowed" \notin past'
             PROVE  StrayInv'
  BY PastGrows DEF DueMarks
<1>1. ASSUME NEW p \in Proc,
             pc[p] \in {"idle", "waiting", "timedout", "recovering", "locked", "marking"}
      PROVE  \A i \in Slots : slot[i] # p
  BY <1>1, SyncAssumption DEF StrayInv, EveryMarkIsDue
<1>2. ASSUME NEW p \in Proc,
             \/ Lock(p) \/ Acquire(p) \/ TimeOut(p) \/ ReadValue(p) \/ Recover(p)
             \/ RecoverFails(p) \/ LockFails(p) \/ FindFree(p)
      PROVE  StrayInv'
  <2>1. PICK to \in {"idle", "waiting", "timedout", "recovering", "locked", "marking"} :
          pc' = [pc EXCEPT ![p] = to]
    BY <1>2 DEF Lock, Acquire, TimeOut, ReadValue, Recover, RecoverFails, LockFails,
       FindFree, Goto
  <2>2. /\ slot' = slot /\ \A q \in Proc : q # p => at'[q] = at[q]
        /\ pc[p] \in {"idle", "waiting", "timedout", "recovering", "locked"}
    BY <1>2 DEF Lock, Acquire, TimeOut, ReadValue, Recover, RecoverFails, LockFails,
       FindFree, Goto, TypeOK
  <2> QED
    BY <1>1, <2>1, <2>2, StrayStays
<1>3. ASSUME NEW p \in Proc, Post(p) PROVE StrayInv'
  BY <1>3, StrayStays DEF Post, Goto
<1>4. ASSUME NEW p \in Proc, Crash(p) PROVE StrayInv'
  <2>1. \A q \in Proc : q # p => at'[q] = at[q]
    BY <1>4 DEF Crash, TypeOK
  <2> QED
    BY <1>4, <2>1, StrayStays DEF Crash
<1>5. ASSUME NEW p \in Proc, PostFails(p) PROVE FALSE
  BY <1>5 DEF PostFails
<1>6. ASSUME NEW p \in Proc, WriteMark(p) PROVE StrayInv'
  <2>1. pc[p] = "marking" /\ pc' = [pc EXCEPT ![p] = "critical"]
        /\ at' = [at EXCEPT ![p] = 0]
    BY <1>6 DEF WriteMark, Goto
  <2>2. /\ pc'[p] = "critical"
        /\ \A q \in Proc : q # p => pc'[q] = pc[q] /\ at'[q] = at[q]
    BY <2>1 DEF TypeOK
  <2>3. \A i \in Slots : slot[i] # p
    BY <1>1, <2>1
  <2>4. PICK k \in Slots :
          /\ slot'[k] = p
          /\ \A i \in Slots : i # k => slot'[i] \in {slot[i], NoPid}
    <3>1. CASE at[p] < LockSlotMax
      <4>1. at[p] \in Slots
        BY <3>1, SyncAssumption DEF TypeOK, Slots
      <4>2. slot' = [slot EXCEPT ![at[p]] = p]
        BY <1>6, <3>1 DEF WriteMark
      <4> QED
        BY <4>1, <4>2 DEF TypeOK
    <3>2. CASE ~(at[p] < LockSlotMax)
      <4>1. slot' = [i \in Slots |-> IF i = 0 THEN p ELSE NoPid]
        BY <1>6, <3>2 DEF WriteMark
      <4>2. 0 \in Slots
        BY SyncAssumption DEF Slots
      <4> QED
        BY <4>1, <4>2
    <3> QED
      BY <3>1, <3>2
  <2>5. \A i \in Slots : slot[i] \in Proc \cup {NoPid}
    BY DEF TypeOK
  <2>6. EveryMarkIsDue'
    <3> SUFFICES ASSUME NEW i \in Slots, slot'[i] # NoPid
                 PROVE  /\ pc'[slot'[i]] \in {"critical", "posted", "unmarking", "dead"}
                        /\ \A j \in Slots : slot'[j] = slot'[i] => i = j
      BY DEF EveryMarkIsDue, Slots
    <3>1. CASE i = k
      BY <2>2, <2>3, <2>4, <3>1, SyncAssumption
    <3>2. CASE i # k
      <4>1. slot'[i] = slot[i] /\ slot[i] \in Proc /\ slot[i] # p
        BY <2>3, <2>4, <2>5, <3>2
      <4> QED
        BY <2>2, <2>4, <4>1 DEF StrayInv, EveryMarkIsDue
    <3> QED
      BY <3>1, <3>2
  <2>7. ASSUME NEW q \in Proc, pc'[q] = "unmarking", NEW i \in Slots, slot'[i] = q
        PROVE  i = at'[q]
    <3>1. q # p /\ pc[q] = "unmarking" /\ at'[q] = at[q]
      BY <2>2, <2>7
    <3>2. slot[i] = q
      BY <2>4, <2>7, <3>1, SyncAssumption
    <3> QED
      BY <3>1, <3>2 DEF StrayInv
  <2> QED
    BY <2>6, <2>7 DEF StrayInv, Slots
<1>7. ASSUME NEW p \in Proc, FindMark(p) PROVE StrayInv'
  <2>1. CASE IndexOf(p) < LockSlotMax
    <3>1. /\ pc[p] = "posted" /\ pc' = [pc EXCEPT ![p] = "unmarking"]
          /\ at' = [at EXCEPT ![p] = IndexOf(p)]
          /\ slot' = slot
      BY <1>7, <2>1 DEF FindMark, Goto
    <3>2. IndexOf(p) \in Slots /\ slot[IndexOf(p)] = p
      BY <2>1, IndexOfFound, SyncAssumption
    <3>3. /\ pc'[p] = "unmarking" /\ at'[p] = IndexOf(p)
          /\ \A q \in Proc : q # p => pc'[q] = pc[q] /\ at'[q] = at[q]
      BY <3>1 DEF TypeOK
    <3>4. \A i \in Slots : slot[i] = p => i = IndexOf(p)
      BY <3>2, SyncAssumption DEF StrayInv, EveryMarkIsDue
    <3>5. EveryMarkIsDue'
      BY <3>1, <3>3 DEF StrayInv, EveryMarkIsDue, TypeOK, Slots
    <3> QED
      BY <3>1, <3>3, <3>4, <3>5 DEF StrayInv, Slots
  <2>2. CASE ~(IndexOf(p) < LockSlotMax)
    <3>1. \A i \in Slots : slot[i] # p
      BY <2>2, IndexOfFound, SyncAssumption DEF Slots
    <3>2. pc' = [pc EXCEPT ![p] = "idle"] /\ at' = at /\ slot' = slot
      BY <1>7, <2>2 DEF FindMark, Goto
    <3> QED
      BY <3>1, <3>2, StrayStays
  <2> QED
    BY <2>1, <2>2
<1>8. ASSUME NEW p \in Proc, EraseMark(p) PROVE StrayInv'
  <2>1. /\ pc[p] = "unmarking" /\ pc' = [pc EXCEPT ![p] = "idle"]
        /\ at' = [at EXCEPT ![p] = 0]
        /\ slot' = [slot EXCEPT ![at[p]] = NoPid]
    BY <1>8 DEF EraseMark, Goto
  <2>2. at[p] \in Slots
    BY <2>1 DEF TypeOK
  <2>3. /\ pc'[p] = "idle"
        /\ \A q \in Proc : q # p => pc'[q] = pc[q] /\ at'[q] = at[q]
        /\ slot'[at[p]] = NoPid
        /\ \A i \in Slots : i # at[p] => slot'[i] = slot[i]
    BY <2>1, <2>2 DEF TypeOK
  <2>4. \A i \in Slots : slot'[i] # p
    BY <2>1, <2>3, SyncAssumption DEF StrayInv
  <2>5. EveryMarkIsDue'
    BY <2>3, <2>4 DEF StrayInv, EveryMarkIsDue, TypeOK, Slots
  <2>6. \A q \in Proc : pc'[q] = "unmarking" =>
          \A i \in Slots : slot'[i] = q => i = at'[q]
    BY <2>3, SyncAssumption DEF StrayInv
  <2> QED
    BY <2>5, <2>6 DEF StrayInv, Slots
<1>9. CASE UNCHANGED vars
  BY <1>9 DEF vars, StrayInv, EveryMarkIsDue, Slots
<1> QED
  BY <1>2, <1>3, <1>4, <1>5, <1>6, <1>7, <1>8, <1>9 DEF Next, Advance, Unlock

\* A mark never outlives its use, for any size of the table: not where a full
\* table is emptied under its owners, not where two processes chose one slot
\* because a recovery had posted a token too many, and not where the erasing
\* meets a mark of somebody else.  What such a table can lose is the mark of a
\* live owner.
THEOREM MarksDoNotStray == Spec => []NoStrayMarks
<1>1. Init => DueMarks
  BY DEF Init, DueMarks, StrayInv, EveryMarkIsDue, Slots
<1>2. DueMarks => NoStrayMarks
  BY DEF DueMarks, StrayInv, NoStrayMarks
<1> QED
  BY <1>1, <1>2, StrayStep, TypeCorrect, PTL DEF Spec

-----------------------------------------------------------------------------
(* The limit of the semaphore *)

\* A post that its process is about to make cannot fail.
PostsSucceed == Holders \cup Recoverers # {} => sem < SemValueMax

\* However often a recovery posts a token too many, the value of the semaphore
\* stays below its maximum where somebody is to post: SEM_VALUE_MAX has only to
\* be as large as the number of processes.  So neither an unlock nor a recovery
\* ever meets EOVERFLOW in sem_post.
THEOREM NoPostOverflows ==
  ASSUME Cardinality(Proc) <= SemValueMax
  PROVE  Spec => []PostsSucceed
<1>1. TypeOK /\ TokenConservation /\ RecoveryBound => PostsSucceed
  <2> SUFFICES ASSUME TypeOK, TokenConservation, RecoveryBound,
                      Holders \cup Recoverers # {}
               PROVE  sem < SemValueMax
    BY DEF PostsSucceed
  <2>1. /\ sem \in Nat /\ surplus \in Int
        /\ sem + Cardinality(Holders) = 1 + surplus
        /\ surplus + Cardinality(Recoverers) < Cardinality(Proc)
        /\ Cardinality(Holders) \in Nat /\ Cardinality(Recoverers) \in Nat
        /\ Cardinality(Proc) \in Nat /\ SemValueMax \in Nat
    BY FiniteSubsets, FS_CardinalityType, SyncAssumption
    DEF TypeOK, TokenConservation, RecoveryBound
  <2>2. Cardinality(Holders) # 0 \/ Cardinality(Recoverers) # 0
    BY FiniteSubsets, FS_EmptySet
  <2> QED
    BY <2>1, <2>2
<1> QED
  BY <1>1, TypeCorrect, TokensAreConserved, RecoveryIsBounded, PTL

=============================================================================
