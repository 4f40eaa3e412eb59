--------------------------- MODULE AvHandleProofs ---------------------------
(***************************************************************************)
(* Theorems about AvHandle, for every number of processes and handles.     *)
(***************************************************************************)
EXTENDS AvHandle, AvLeastProofs, FiniteSetTheorems, TLAPS

\* What is chosen out of a set of handles is one of them.
LEMMA MinHandle ==
  ASSUME NEW S \in SUBSET Handle, S # {}
  PROVE  Min(S) \in S
<1>1. S \in SUBSET Nat
  BY HandleAssumption DEF Handle
<1> QED
  BY <1>1, MinIsLeast

-----------------------------------------------------------------------------
(* The mute calls *)

LEMMA OneIsMost == ASSUME NEW k \in Int PROVE Max({k}) = k
BY DEF Max

\* Mute calls open and end no stream.
LEMMA MuteCallsType ==
  ASSUME TypeOK, NEW calls \in SUBSET Handle, NEW silence \in [Handle -> BOOLEAN],
         MuteCalls(calls, silence)
  PROVE  /\ sink' \in [Handle -> {"none", "on", "muted"}]
         /\ amiss' \subseteq Handle
         /\ twin' = twin
         /\ \A k \in Handle : sink'[k] = "none" <=> sink[k] = "none"
<1>1. PICK failed :
        LET reached(k) == { h \in calls \ failed : Target(h) = k }
        IN  /\ sink' = [k \in Handle |->
                          IF sink[k] = "none" \/ reached(k) = {} THEN sink[k]
                          ELSE IF silence[Max(reached(k))] THEN "muted" ELSE "on"]
            /\ amiss' \subseteq Handle
            /\ twin' = twin
  BY DEF MuteCalls
<1> QED
  BY <1>1 DEF TypeOK

\* What they do to a stream that comes out of them in order: what they ask for,
\* if they are about it, and nothing otherwise.
LEMMA MuteCallsReach ==
  ASSUME TypeOK, NEW calls \in SUBSET Handle, NEW silence \in [Handle -> BOOLEAN],
         MuteCalls(calls, silence),
         NEW k \in Handle, sink[k] # "none", k \notin amiss'
  PROVE  /\ k \in calls => sink'[k] = IF silence[k] THEN "muted" ELSE "on"
         /\ k \notin calls => sink'[k] = sink[k] /\ k \notin amiss
<1>1. PICK failed :
        LET reached(j) == { h \in calls \ failed : Target(h) = j }
        IN  /\ sink' = [j \in Handle |->
                          IF sink[j] = "none" \/ reached(j) = {} THEN sink[j]
                          ELSE IF silence[Max(reached(j))] THEN "muted" ELSE "on"]
            /\ amiss' = { j \in Handle : sink[j] # "none" /\
                            \/ j \in failed
                            \/ reached(j) \ {j} # {}
                            \/ j \in amiss \ calls }
  BY DEF MuteCalls
<1> DEFINE reached == { h \in calls \ failed : Target(h) = k }
<1>2. /\ sink'[k] = IF reached = {} THEN sink[k]
                    ELSE IF silence[Max(reached)] THEN "muted" ELSE "on"
      /\ k \notin failed /\ reached \ {k} = {} /\ k \notin amiss \ calls
  BY <1>1
<1>3. Target(k) = k
  BY DEF Target
<1>4. CASE k \in calls
  <2>1. reached = {k}
    BY <1>2, <1>3, <1>4
  <2>2. Max(reached) = k
    BY <2>1, OneIsMost, HandleAssumption DEF Handle
  <2> QED
    BY <1>2, <1>4, <2>1, <2>2
<1>5. CASE k \notin calls
  <2>1. reached = {}
    BY <1>2, <1>5
  <2> QED
    BY <1>2, <1>5, <2>1
<1> QED
  BY <1>4, <1>5

-----------------------------------------------------------------------------
(* Type correctness *)

LEMMA TypeInit == Init => TypeOK
<1>1. 0 \in Handle
  BY HandleAssumption DEF Handle
<1>2. "idle" \in PC
  BY DEF PC
<1> SUFFICES ASSUME Init PROVE TypeOK
  OBVIOUS
<1>3. /\ priority \in [Handle -> 0 .. 2] /\ want \in [Handle -> 0 .. 2]
      /\ pid \in [Handle -> Proc \cup {NoPid}]
      /\ stream \in [Handle -> BOOLEAN] /\ mute \in [Handle -> BOOLEAN]
      /\ ramp \in [Handle -> {"none", "in", "out"}]
      /\ sink \in [Handle -> {"none", "on", "muted"}]
      /\ level \in [Handle -> {"full", "zero"}]
      /\ twin \in [Handle -> Handle \cup {NoHandle, Ahead}] /\ amiss \subseteq Handle
  BY DEF Init
<1>4. /\ pc \in [Proc -> PC] /\ cur \in [Proc -> Handle]
      /\ dead \in [Proc -> SUBSET Handle] /\ again \in [Proc -> BOOLEAN]
      /\ mine \in [Proc -> SUBSET Handle]
  BY <1>1, <1>2 DEF Init
<1>5. \A p \in Proc : pc[p] = "idle"
  BY DEF Init
<1> QED
  BY <1>3, <1>4, <1>5 DEF Init, TypeOK

\* The solo policy leaves well-typed records, whatever the priorities are.
LEMMA SwayType ==
  ASSUME TypeOK, NEW np \in [Handle -> 0 .. 2], NEW unsetTwo \in BOOLEAN, Sway(np, unsetTwo)
  PROVE  /\ priority' \in [Handle -> 0 .. 2]
         /\ mute' \in [Handle -> BOOLEAN]
         /\ ramp' \in [Handle -> {"none", "in", "out"}]
         /\ sink' \in [Handle -> {"none", "on", "muted"}]
         /\ faded' \in BOOLEAN
         /\ twin' = twin /\ amiss' \subseteq Handle
<1> DEFINE high == \E h \in Handle : np[h] > 0
           transition == unsetTwo \/ \E h \in Handle : np[h] = 2
<1>1. high \in BOOLEAN /\ transition \in BOOLEAN
  OBVIOUS
<1>2. CASE transition
  <2>1. ramp' \in [Handle -> {"none", "in", "out"}]
    BY <1>2 DEF Sway, TypeOK
  <2> QED
    BY <1>2, <2>1 DEF Sway, TypeOK
<1>3. CASE ~transition
  <2>1. mute' \in [Handle -> BOOLEAN]
    BY <1>1, <1>3, ZenonT(40) DEF Sway, TypeOK
  <2>2. /\ sink' \in [Handle -> {"none", "on", "muted"}]
        /\ twin' = twin /\ amiss' \subseteq Handle
    <3>1. PICK calls \in SUBSET Handle : MuteCalls(calls, [h \in Handle |-> high])
      BY <1>3 DEF Sway
    <3>2. [h \in Handle |-> high] \in [Handle -> BOOLEAN]
      BY <1>1
    <3> HIDE DEF high
    <3> QED
      BY <3>1, <3>2, MuteCallsType
  <2> QED
    BY <1>3, <2>1, <2>2 DEF Sway, TypeOK
<1> QED
  BY <1>2, <1>3

\* The rebalancing calls for the records that change.
LEMMA RebalanceCalls ==
  ASSUME NEW p \in Proc, Rebalance(p)
  PROVE  LET quiet == [h \in Handle |->
                         (\E k \in Handle : priority[k] > 0) /\ priority[h] = 0]
             calls == { h \in Handle : mute[h] # quiet[h] }
         IN  /\ quiet \in [Handle -> BOOLEAN] /\ calls \in SUBSET Handle
             /\ mute' = quiet /\ MuteCalls(calls, quiet)
<1>1. \A h \in Handle :
        ((\E k \in Handle : priority[k] > 0) /\ priority[h] = 0) \in BOOLEAN
  OBVIOUS
<1> QED
  BY <1>1 DEF Rebalance

\* What SetPriority does apart from the policy: where it goes next.
LEMMA SetPriorityGoes ==
  ASSUME NEW p \in Proc, SetPriority(p)
  PROVE  /\ pc[p] = "prio"
         /\ \E to \in {"dev", "fail"} : pc' = [pc EXCEPT ![p] = to]
         /\ UNCHANGED <<allocated, pid, want, stream, level, cur, mine, dead, again,
                        stolen>>
BY Zenon DEF SetPriority, Goto, record, local

LEMMA TypeStep == TypeOK /\ [Next]_vars => TypeOK'
<1> SUFFICES ASSUME TypeOK, [Next]_vars PROVE TypeOK'
  OBVIOUS
<1> USE HandleAssumption DEF TypeOK, local, record, policy
<1>1. CASE UNCHANGED vars
  BY <1>1 DEF vars
<1>2. ASSUME NEW p \in Proc, StartOpen(p) PROVE TypeOK'
  BY <1>2 DEF StartOpen, Goto, PC
<1>3. ASSUME NEW p \in Proc, StartClose(p) PROVE TypeOK'
  <2> HIDE DEF TypeOK
  <2>1. /\ UNCHANGED <<allocated, record, priority, policy, level, dead, again, stolen>>
        /\ \E h \in mine[p] :
             \/ /\ pc' = [pc EXCEPT ![p] = "unset"]
                /\ cur' = [cur EXCEPT ![p] = h] /\ mine' = mine
             \/ /\ pc' = pc /\ cur' = cur
                /\ mine' = [mine EXCEPT ![p] = @ \ {h}]
    BY <1>3, Zenon DEF StartClose, Goto
  <2>2. PICK h \in mine[p] :
             \/ /\ pc' = [pc EXCEPT ![p] = "unset"]
                /\ cur' = [cur EXCEPT ![p] = h] /\ mine' = mine
             \/ /\ pc' = pc /\ cur' = cur
                /\ mine' = [mine EXCEPT ![p] = @ \ {h}]
    BY <2>1
  <2>3. /\ pc' \in [Proc -> PC] /\ cur' \in [Proc -> Handle]
        /\ mine' \in [Proc -> SUBSET Handle]
        /\ \A q \in Proc : pc'[q] \in {"reset", "free"} => pc[q] \in {"reset", "free"}
    BY <2>2 DEF TypeOK, PC, Closing
  <2> QED
    BY <2>1, <2>3 DEF TypeOK
<1>4. ASSUME NEW p \in Proc, Write(p) PROVE TypeOK'
  BY <1>4 DEF Write
<1>5. ASSUME NEW p \in Proc, Crash(p) PROVE TypeOK'
  BY <1>5 DEF Crash, Die, StreamsEnd, PC
<1>6. ASSUME NEW p \in Proc, Scan(p) PROVE TypeOK'
  BY <1>6 DEF Scan, Goto, PC, Truncated, SignExtended, Handle
<1>7. ASSUME NEW p \in Proc, ResetPriority(p) PROVE TypeOK'
  <2>1. \A h \in Handle : [priority EXCEPT ![h] = 0] \in [Handle -> 0 .. 2]
    OBVIOUS
  <2>2. dead[p] \in SUBSET Handle /\ dead[p] # {}
    BY <1>7 DEF ResetPriority, Goto
  <2>3. Min(dead[p]) \in Handle
    BY <2>2, MinHandle, Zenon
  <2>4. priority' \in [Handle -> 0 .. 2]
    BY <1>7, <2>1, <2>3, Zenon DEF ResetPriority
  <2>5. dead' = dead /\ pc' = [pc EXCEPT ![p] = "free"] /\ pc[p] = "reset"
    BY <1>7 DEF ResetPriority, Goto
  <2> QED
    BY <1>7, <2>4, <2>5 DEF ResetPriority, PC
<1>8. ASSUME NEW p \in Proc, FreeDead(p) PROVE TypeOK'
  BY <1>8 DEF FreeDead, Goto, PC
<1>9. ASSUME NEW p \in Proc, Rebalance(p) PROVE TypeOK'
  <2> HIDE DEF TypeOK
  <2>1. /\ mute' \in [Handle -> BOOLEAN]
        /\ sink' \in [Handle -> {"none", "on", "muted"}]
        /\ amiss' \subseteq Handle /\ twin' = twin
    BY <1>9, RebalanceCalls, MuteCallsType
  <2>2. /\ pc' = [pc EXCEPT ![p] = "alloc"] /\ faded' = FALSE
        /\ UNCHANGED <<allocated, record, priority, ramp, level, local, stolen>>
    BY <1>9 DEF Rebalance, Goto
  <2> QED
    BY <2>1, <2>2 DEF PC, TypeOK
<1>10. ASSUME NEW p \in Proc, Alloc(p) PROVE TypeOK'
  <2> DEFINE h == Min(Handle \ allocated)
  <2>1. h \in Handle
    <3>1. Handle \ allocated \in SUBSET Handle /\ Handle \ allocated # {}
      BY <1>10 DEF Alloc
    <3> QED
      BY <3>1, MinHandle, Zenon
  <2> HIDE DEF TypeOK
  <2>2. /\ allocated' = allocated \cup {h}
        /\ cur' = [cur EXCEPT ![p] = h]
        /\ again' = [again EXCEPT ![p] = FALSE]
        /\ pc' = [pc EXCEPT ![p] = "zero"]
        /\ UNCHANGED <<pid, priority, want, stream, mute, ramp, sink, level,
                       dead, mine, stolen, faded, twin, amiss>>
    BY <1>10 DEF Alloc, Goto
  <2> HIDE DEF h
  <2> QED
    BY <2>1, <2>2 DEF TypeOK, PC, Opening
<1>11. ASSUME NEW p \in Proc, AllocFull(p) PROVE TypeOK'
  BY <1>11 DEF AllocFull, Goto, PC
<1>12. ASSUME NEW p \in Proc, ZeroRecord(p) PROVE TypeOK'
  BY <1>12 DEF ZeroRecord, Goto, PC, Opening
<1>13. ASSUME NEW p \in Proc, SignRecord(p) PROVE TypeOK'
  BY <1>13 DEF SignRecord, Goto, PC, Opening
<1>14. ASSUME NEW p \in Proc, GetPtr(p) PROVE TypeOK'
  BY <1>14, SMTT(30) DEF GetPtr, Goto, PC, Opening
<1>15. ASSUME NEW p \in Proc, SetPriority(p) PROVE TypeOK'
  <2>1. [priority EXCEPT ![cur[p]] = want[cur[p]]] \in [Handle -> 0 .. 2]
    OBVIOUS
  <2>2. /\ priority' \in [Handle -> 0 .. 2]
        /\ mute' \in [Handle -> BOOLEAN]
        /\ ramp' \in [Handle -> {"none", "in", "out"}]
        /\ sink' \in [Handle -> {"none", "on", "muted"}]
        /\ faded' \in BOOLEAN
        /\ twin' = twin /\ amiss' \subseteq Handle
    <3>1. CASE cur[p] \in allocated
      <4>1. Sway([priority EXCEPT ![cur[p]] = want[cur[p]]], FALSE)
        BY <1>15, <3>1 DEF SetPriority
      <4> QED
        BY <2>1, <4>1, SwayType
    <3>2. CASE cur[p] \notin allocated
      BY <1>15, <3>2 DEF SetPriority
    <3> QED
      BY <3>1, <3>2
  <2>3. PICK to \in {"dev", "fail"} : pc' = [pc EXCEPT ![p] = to]
    BY <1>15, SetPriorityGoes
  <2>4. UNCHANGED <<allocated, pid, want, stream, level, cur, mine, dead, again, stolen>>
    BY <1>15, SetPriorityGoes
  <2> HIDE DEF TypeOK
  <2>5. /\ pc' \in [Proc -> PC]
        /\ \A q \in Proc : pc'[q] \in {"reset", "free"} => pc[q] \in {"reset", "free"}
    BY <2>3 DEF PC, Opening, TypeOK
  <2> QED
    BY <2>2, <2>4, <2>5 DEF TypeOK
<1>16. ASSUME NEW p \in Proc, OpenDevice(p) PROVE TypeOK'
  <2> HIDE DEF TypeOK
  <2>1. cur[p] \in Handle
    BY DEF TypeOK
  <2>2. /\ sink' \in [Handle -> {"none", "on", "muted"}]
        /\ twin' \in [Handle -> Handle \cup {NoHandle, Ahead}]
        /\ amiss' \subseteq Handle
    <3>1. CASE OpenSink(cur[p])
      BY <2>1, <3>1 DEF OpenSink, TypeOK
    <3>2. CASE OpenSource(cur[p])
      BY <2>1, <3>2 DEF OpenSource, TypeOK
    <3> QED
      BY <1>16, <3>1, <3>2 DEF OpenDevice
  <2>3. /\ stream' = [stream EXCEPT ![cur[p]] = TRUE]
        /\ level' = [level EXCEPT ![cur[p]] = "full"]
        /\ pc' = [pc EXCEPT ![p] = "rel"]
        /\ UNCHANGED <<allocated, pid, want, priority, mute, ramp, faded, local, stolen>>
    BY <1>16 DEF OpenDevice, Goto
  <2> QED
    BY <2>1, <2>2, <2>3 DEF PC, Opening, TypeOK
<1>17. ASSUME NEW p \in Proc, DeviceRefused(p) PROVE TypeOK'
  BY <1>17 DEF DeviceRefused, Goto, PC, Opening
<1>18. ASSUME NEW p \in Proc, ReleasePtr(p) PROVE TypeOK'
  BY <1>18 DEF ReleasePtr, Goto, PC, Opening
<1>19. ASSUME NEW p \in Proc, FailOpen(p) PROVE TypeOK'
  BY <1>19 DEF FailOpen, Goto, PC
<1>20. ASSUME NEW p \in Proc, UnsetPriority(p) PROVE TypeOK'
  <2>1. [priority EXCEPT ![cur[p]] = 0] \in [Handle -> 0 .. 2]
    OBVIOUS
  <2>2. /\ priority' \in [Handle -> 0 .. 2]
        /\ mute' \in [Handle -> BOOLEAN]
        /\ ramp' \in [Handle -> {"none", "in", "out"}]
        /\ sink' \in [Handle -> {"none", "on", "muted"}]
        /\ faded' \in BOOLEAN
        /\ twin' = twin /\ amiss' \subseteq Handle
    BY <1>20, <2>1, SwayType DEF UnsetPriority
  <2> QED
    BY <1>20, <2>2 DEF UnsetPriority, Goto, PC, Closing
<1>21. ASSUME NEW p \in Proc, CloseDevice(p) PROVE TypeOK'
  BY <1>21, SMTT(30) DEF CloseDevice, Die, StreamsEnd, Goto, PC, Closing
<1>22. ASSUME NEW p \in Proc, CheckRelease(p) PROVE TypeOK'
  BY <1>22 DEF CheckRelease, Goto, PC, Closing
<1>23. ASSUME NEW p \in Proc, FreeOwn(p) PROVE TypeOK'
  BY <1>23 DEF FreeOwn, Goto, PC
<1> HIDE DEF TypeOK
<1> QED
  BY <1>1, <1>2, <1>3, <1>4, <1>5, <1>6, <1>7, <1>8, <1>9, <1>10, <1>11,
     <1>12, <1>13, <1>14, <1>15, <1>16, <1>17, <1>18, <1>19, <1>20, <1>21,
     <1>22, <1>23 DEF Next, Advance

\* Every variable keeps its type, and a cleanup that is under way has a handle
\* left to clean.
THEOREM TypeCorrect == Spec => []TypeOK
  BY TypeInit, TypeStep, PTL DEF Spec

-----------------------------------------------------------------------------
(* Ownership *)

\* Ownership with what carries it through the steps of open and close: the
\* handle that is being opened is not among those the application has, the one
\* that is being closed is, and a dead process has none.
Owned ==
  /\ \A p \in Proc : Held(p) \subseteq allocated
  /\ \A p, q \in Proc : p # q => Held(p) \cap Held(q) = {}
  /\ \A p \in Proc : \A h \in Held(p) :
       pid[h] = p \/ (h = cur[p] /\ pc[p] \in {"zero", "sign"})
  /\ \A p \in Proc : pc[p] \in Opening => cur[p] \notin mine[p]
  /\ \A p \in Proc : pc[p] \in Closing => cur[p] \in mine[p]

OwnershipInv ==
  /\ \A p \in Proc : pc[p] = "dead" => mine[p] = {}
  /\ ~stolen => Owned

\* What a step sees of the place a process is at.
SamePlace(q) ==
  /\ pc'[q] = "dead" <=> pc[q] = "dead"
  /\ pc'[q] \in Opening <=> pc[q] \in Opening
  /\ pc'[q] \in Closing <=> pc[q] \in Closing
  /\ pc'[q] \in {"zero", "sign"} <=> pc[q] \in {"zero", "sign"}

\* A step that moves nobody in or out of open or close, and leaves the table
\* and the pids alone, keeps ownership.
LEMMA QuietStep ==
  ASSUME TypeOK, OwnershipInv, UNCHANGED <<allocated, pid, cur, mine, stolen>>,
         \A q \in Proc : SamePlace(q)
  PROVE  OwnershipInv'
<1>1. \A q \in Proc : Held(q)' = Held(q)
  BY DEF Held, SamePlace
<1>2. stolen' = stolen /\ mine' = mine /\ cur' = cur
  OBVIOUS
<1>3. ASSUME ~stolen PROVE Owned'
  <2>1. Owned
    BY <1>3 DEF OwnershipInv
  <2> QED
    BY <1>1, <2>1 DEF Owned, SamePlace
<1> QED
  BY <1>2, <1>3 DEF OwnershipInv, SamePlace

LEMMA OwnershipInit == Init => OwnershipInv
<1> SUFFICES ASSUME Init PROVE OwnershipInv
  OBVIOUS
<1>1. \A p \in Proc : pc[p] = "idle" /\ mine[p] = {}
  BY DEF Init
<1>2. \A p \in Proc : Held(p) = {}
  BY <1>1 DEF Held, Opening
<1> QED
  BY <1>1, <1>2 DEF OwnershipInv, Owned, Opening, Closing

LEMMA OwnershipStep == TypeOK /\ OwnershipInv /\ [Next]_vars => OwnershipInv'
<1> SUFFICES ASSUME TypeOK, OwnershipInv, [Next]_vars PROVE OwnershipInv'
  OBVIOUS
<1> USE DEF local, record, policy
<1>1. CASE UNCHANGED vars
  BY <1>1, QuietStep DEF vars, SamePlace
<1>2. ASSUME NEW p \in Proc, StartOpen(p) PROVE OwnershipInv'
  BY <1>2, QuietStep DEF StartOpen, Goto, SamePlace, TypeOK, Opening, Closing
<1>3. ASSUME NEW p \in Proc, Write(p) PROVE OwnershipInv'
  BY <1>3, QuietStep DEF Write, SamePlace
<1>4. ASSUME NEW p \in Proc, Scan(p) PROVE OwnershipInv'
  BY <1>4, QuietStep DEF Scan, Goto, SamePlace, TypeOK, Opening, Closing
<1>5. ASSUME NEW p \in Proc, ResetPriority(p) PROVE OwnershipInv'
  BY <1>5, QuietStep DEF ResetPriority, Goto, SamePlace, TypeOK, Opening, Closing
<1>6. ASSUME NEW p \in Proc, Rebalance(p) PROVE OwnershipInv'
  BY <1>6, QuietStep DEF Rebalance, Goto, SamePlace, TypeOK, Opening, Closing
<1>7. ASSUME NEW p \in Proc, AllocFull(p) PROVE OwnershipInv'
  BY <1>7, QuietStep DEF AllocFull, Goto, SamePlace, TypeOK, Opening, Closing
<1>8. ASSUME NEW p \in Proc, GetPtr(p) PROVE OwnershipInv'
  <2>1. /\ pc[p] = "ptr" /\ pc'[p] \in {"prio", "devin", "fail"}
        /\ \A q \in Proc \ {p} : pc'[q] = pc[q]
        /\ UNCHANGED <<allocated, pid, cur, mine, stolen>>
    BY <1>8 DEF GetPtr, Goto, TypeOK
  <2> QED
    BY <2>1, QuietStep DEF SamePlace, Opening, Closing
<1>9. ASSUME NEW p \in Proc, SetPriority(p) PROVE OwnershipInv'
  <2>1. /\ pc[p] = "prio" /\ pc'[p] \in {"dev", "fail"}
        /\ \A q \in Proc \ {p} : pc'[q] = pc[q]
        /\ UNCHANGED <<allocated, pid, cur, mine, stolen>>
    BY <1>9, SetPriorityGoes DEF TypeOK
  <2> QED
    BY <2>1, QuietStep DEF SamePlace, Opening, Closing
<1>10. ASSUME NEW p \in Proc, OpenDevice(p) PROVE OwnershipInv'
  BY <1>10, QuietStep DEF OpenDevice, Goto, SamePlace, TypeOK, Opening, Closing
<1>11. ASSUME NEW p \in Proc, DeviceRefused(p) PROVE OwnershipInv'
  BY <1>11, QuietStep DEF DeviceRefused, Goto, SamePlace, TypeOK, Opening, Closing
<1>12. ASSUME NEW p \in Proc, UnsetPriority(p) PROVE OwnershipInv'
  BY <1>12, QuietStep DEF UnsetPriority, Goto, SamePlace, TypeOK, Opening, Closing
<1>13. ASSUME NEW p \in Proc, Die(p) PROVE OwnershipInv'
  <2>1. \A q \in Proc \ {p} : Held(q)' = Held(q)
    BY <1>13 DEF Die, Held, TypeOK
  <2>2. Held(p)' = {} /\ pc'[p] = "dead" /\ mine'[p] = {}
    BY <1>13 DEF Die, Held, TypeOK, Opening
  <2>3. \A q \in Proc \ {p} : pc'[q] = pc[q] /\ mine'[q] = mine[q]
    BY <1>13 DEF Die, TypeOK
  <2> QED
    BY <1>13, <2>1, <2>2, <2>3 DEF Die, OwnershipInv, Owned, Opening, Closing
<1>14. ASSUME NEW p \in Proc, Crash(p) PROVE OwnershipInv'
  BY <1>13, <1>14 DEF Crash
<1>15. ASSUME NEW p \in Proc, CloseDevice(p) PROVE OwnershipInv'
  <2>1. CASE Die(p)
    BY <1>13, <2>1
  <2> QED
    BY <1>15, <2>1, QuietStep
    DEF CloseDevice, Goto, SamePlace, TypeOK, Opening, Closing
<1>16. ASSUME NEW p \in Proc, Alloc(p) PROVE OwnershipInv'
  <2> DEFINE h == Min(Handle \ allocated)
  <2>1. h \in Handle /\ h \notin allocated
    <3>1. Handle \ allocated \in SUBSET Handle /\ Handle \ allocated # {}
      BY <1>16 DEF Alloc
    <3> QED
      BY <3>1, MinHandle, Zenon
  <2>2. /\ allocated' = allocated \cup {h}
        /\ cur' = [cur EXCEPT ![p] = h]
        /\ pc' = [pc EXCEPT ![p] = "zero"]
        /\ pc[p] = "alloc"
        /\ UNCHANGED <<pid, mine, stolen>>
    BY <1>16 DEF Alloc, Goto
  <2> HIDE DEF h
  <2>3. \A q \in Proc \ {p} : Held(q)' = Held(q)
    BY <2>2 DEF Held, TypeOK
  <2>4. Held(p) = mine[p] /\ Held(p)' = mine[p] \cup {h}
    BY <2>2 DEF Held, TypeOK, Opening
  <2>5. \A q \in Proc \ {p} : pc'[q] = pc[q] /\ cur'[q] = cur[q]
    BY <2>2 DEF TypeOK
  <2>6. pc'[p] = "zero" /\ cur'[p] = h
    BY <2>2 DEF TypeOK
  <2>7. ASSUME Owned PROVE Owned'
    <3>1. \A q \in Proc : h \notin Held(q) /\ Held(q) \subseteq allocated
      BY <2>1, <2>7 DEF Owned
    <3>2. \A q \in Proc : Held(q)' \subseteq allocated'
      BY <2>2, <2>3, <2>4, <3>1
    <3>3. \A q, r \in Proc : q # r => Held(q)' \cap Held(r)' = {}
      BY <2>3, <2>4, <2>7, <3>1 DEF Owned
    <3>4. \A q \in Proc : \A x \in Held(q)' :
            pid'[x] = q \/ (x = cur'[q] /\ pc'[q] \in {"zero", "sign"})
      <4>1. ASSUME NEW q \in Proc \ {p}, NEW x \in Held(q)'
            PROVE  pid'[x] = q \/ (x = cur'[q] /\ pc'[q] \in {"zero", "sign"})
        BY <2>2, <2>3, <2>5, <2>7, <4>1 DEF Owned
      <4>2. ASSUME NEW x \in Held(p)'
            PROVE  pid'[x] = p \/ (x = cur'[p] /\ pc'[p] \in {"zero", "sign"})
        BY <2>2, <2>4, <2>6, <2>7, <4>2 DEF Owned
      <4> QED
        BY <4>1, <4>2
    <3>5. \A q \in Proc : pc'[q] \in Opening => cur'[q] \notin mine'[q]
      BY <2>2, <2>4, <2>5, <2>6, <2>7, <3>1 DEF Owned
    <3>6. \A q \in Proc : pc'[q] \in Closing => cur'[q] \in mine'[q]
      BY <2>2, <2>5, <2>6, <2>7 DEF Owned, Closing
    <3> QED
      BY <3>2, <3>3, <3>4, <3>5, <3>6 DEF Owned
  <2> QED
    BY <2>2, <2>5, <2>6, <2>7 DEF OwnershipInv
<1>17. ASSUME NEW p \in Proc, ZeroRecord(p) PROVE OwnershipInv'
  <2>1. \A q \in Proc : Held(q)' = Held(q)
    BY <1>17 DEF ZeroRecord, Goto, Held, TypeOK, Opening
  <2>2. cur[p] \in Held(p)
    BY <1>17 DEF ZeroRecord, Goto, Held, Opening
  <2> QED
    BY <1>17, <2>1, <2>2
    DEF ZeroRecord, Goto, OwnershipInv, Owned, TypeOK, Opening, Closing
<1>18. ASSUME NEW p \in Proc, SignRecord(p) PROVE OwnershipInv'
  <2>1. \A q \in Proc : Held(q)' = Held(q)
    BY <1>18 DEF SignRecord, Goto, Held, TypeOK, Opening
  <2>2. cur[p] \in Held(p)
    BY <1>18 DEF SignRecord, Goto, Held, Opening
  <2> QED
    BY <1>18, <2>1, <2>2
    DEF SignRecord, Goto, OwnershipInv, Owned, TypeOK, Opening, Closing
<1>19. ASSUME NEW p \in Proc, ReleasePtr(p) PROVE OwnershipInv'
  <2>1. \A q \in Proc : Held(q)' = Held(q)
    BY <1>19 DEF ReleasePtr, Goto, Held, TypeOK, Opening
  <2>2. /\ pc[p] = "rel" /\ pc'[p] \in {"idle", "fail"}
        /\ pc'[p] = "fail" => mine'[p] = mine[p]
        /\ \A q \in Proc \ {p} : pc'[q] = pc[q] /\ mine'[q] = mine[q]
        /\ UNCHANGED <<allocated, pid, cur, stolen>>
    BY <1>19 DEF ReleasePtr, Goto, TypeOK
  <2>3. ASSUME Owned PROVE Owned'
    BY <2>1, <2>2, <2>3 DEF Owned, Opening, Closing
  <2> QED
    BY <2>2, <2>3 DEF OwnershipInv
<1>20. ASSUME NEW p \in Proc, FailOpen(p) PROVE OwnershipInv'
  <2>1. \A q \in Proc \ {p} : Held(q)' = Held(q)
    BY <1>20 DEF FailOpen, Goto, Held, TypeOK
  <2>2. Held(p)' = mine[p] /\ Held(p) = mine[p] \cup {cur[p]}
    BY <1>20 DEF FailOpen, Goto, Held, TypeOK, Opening
  <2>3. /\ pc[p] = "fail" /\ pc'[p] = "idle" /\ allocated' = allocated \ {cur[p]}
        /\ \A q \in Proc \ {p} : pc'[q] = pc[q]
        /\ UNCHANGED <<pid, cur, mine, stolen>>
    BY <1>20 DEF FailOpen, Goto, TypeOK
  <2>4. ASSUME Owned PROVE Owned'
    BY <2>1, <2>2, <2>3, <2>4 DEF Owned, Opening, Closing
  <2> QED
    BY <2>3, <2>4 DEF OwnershipInv
<1>21. ASSUME NEW p \in Proc, StartClose(p) PROVE OwnershipInv'
  <2>1. PICK h \in mine[p] :
          IF h \in allocated
            THEN /\ pc' = [pc EXCEPT ![p] = "unset"]
                 /\ cur' = [cur EXCEPT ![p] = h]
                 /\ mine' = mine
            ELSE /\ pc' = pc /\ cur' = cur
                 /\ mine' = [mine EXCEPT ![p] = @ \ {h}]
    BY <1>21 DEF StartClose, Goto
  <2>2. pc[p] = "idle" /\ UNCHANGED <<allocated, pid, stolen>>
    BY <1>21 DEF StartClose, Goto
  <2>3. Held(p) = mine[p] /\ Held(p)' = mine'[p] /\ mine'[p] \subseteq mine[p]
    BY <2>1, <2>2 DEF Held, TypeOK, Opening
  <2>4. \A q \in Proc \ {p} : /\ Held(q)' = Held(q) /\ mine'[q] = mine[q]
                              /\ pc'[q] = pc[q] /\ cur'[q] = cur[q]
    BY <2>1, <2>2 DEF Held, TypeOK
  <2>5. /\ pc'[p] \in {"idle", "unset"}
        /\ pc'[p] = "unset" => cur'[p] \in mine'[p]
    BY <2>1, <2>2 DEF TypeOK
  <2>6. ASSUME Owned PROVE Owned'
    BY <2>2, <2>3, <2>4, <2>5, <2>6 DEF Owned, Opening, Closing
  <2> QED
    BY <2>2, <2>3, <2>4, <2>5, <2>6 DEF OwnershipInv
<1>22. ASSUME NEW p \in Proc, CheckRelease(p) PROVE OwnershipInv'
  <2>1. Held(p) = mine[p] /\ Held(p)' = mine'[p]
    BY <1>22 DEF CheckRelease, Goto, Held, TypeOK, Opening
  <2>2. \A q \in Proc \ {p} : Held(q)' = Held(q) /\ mine'[q] = mine[q]
    BY <1>22 DEF CheckRelease, Goto, Held, TypeOK
  <2>3. /\ pc[p] = "crel" /\ pc'[p] \in {"cfree", "idle"}
        /\ mine'[p] \subseteq mine[p] /\ (pc'[p] = "cfree" => mine'[p] = mine[p])
        /\ \A q \in Proc \ {p} : pc'[q] = pc[q]
        /\ UNCHANGED <<allocated, pid, cur, stolen>>
    BY <1>22 DEF CheckRelease, Goto, TypeOK
  <2>4. ASSUME Owned PROVE Owned'
    BY <2>1, <2>2, <2>3, <2>4 DEF Owned, Opening, Closing
  <2> QED
    BY <2>2, <2>3, <2>4 DEF OwnershipInv
<1>23. ASSUME NEW p \in Proc, FreeOwn(p) PROVE OwnershipInv'
  <2>1. Held(p) = mine[p] /\ Held(p)' = mine[p] \ {cur[p]}
    BY <1>23 DEF FreeOwn, Goto, Held, TypeOK, Opening
  <2>2. \A q \in Proc \ {p} : Held(q)' = Held(q) /\ mine'[q] = mine[q]
    BY <1>23 DEF FreeOwn, Goto, Held, TypeOK
  <2>3. /\ pc[p] = "cfree" /\ pc'[p] = "idle" /\ allocated' = allocated \ {cur[p]}
        /\ mine'[p] = mine[p] \ {cur[p]}
        /\ \A q \in Proc \ {p} : pc'[q] = pc[q]
        /\ UNCHANGED <<pid, cur, stolen>>
    BY <1>23 DEF FreeOwn, Goto, TypeOK
  <2>4. ASSUME Owned PROVE Owned'
    <3>1. cur[p] \in mine[p]
      BY <2>3, <2>4 DEF Owned, Closing
    <3>2. \A q \in Proc \ {p} : cur[p] \notin Held(q)
      BY <2>1, <2>4, <3>1 DEF Owned
    <3> QED
      BY <2>1, <2>2, <2>3, <2>4, <3>2 DEF Owned, Opening, Closing
  <2> QED
    BY <2>2, <2>3, <2>4 DEF OwnershipInv
<1>24. ASSUME NEW p \in Proc, FreeDead(p) PROVE OwnershipInv'
  <2> DEFINE h == Min(dead[p])
  <2>1. /\ allocated' = allocated \ {h}
        /\ pc[p] = "free" /\ pc' = [pc EXCEPT ![p] =
                                       IF dead[p] = {h} THEN "rebalance" ELSE "reset"]
        /\ UNCHANGED <<pid, cur, mine>>
        /\ ~stolen' => /\ ~stolen
                       /\ h \in allocated =>
                            \A q \in Proc : Alive(q) => h \notin Held(q)
    BY <1>24 DEF FreeDead, Goto
  <2> HIDE DEF h
  <2>2. \A q \in Proc : SamePlace(q)
    BY <2>1 DEF SamePlace, TypeOK, Opening, Closing
  <2>3. \A q \in Proc : Held(q)' = Held(q)
    BY <2>1, <2>2 DEF Held, SamePlace
  <2>4. \A q \in Proc : ~Alive(q) => Held(q) = {}
    BY DEF Alive, Held, OwnershipInv, Opening
  <2>5. ASSUME ~stolen' PROVE Owned'
    <3>1. Owned /\ \A q \in Proc : h \notin Held(q)
      BY <2>1, <2>4, <2>5 DEF OwnershipInv, Owned
    <3> QED
      BY <2>1, <2>2, <2>3, <3>1 DEF Owned, SamePlace
  <2> QED
    BY <2>1, <2>2, <2>5 DEF OwnershipInv, SamePlace
<1> QED
  BY <1>1, <1>2, <1>3, <1>4, <1>5, <1>6, <1>7, <1>8, <1>9, <1>10, <1>11,
     <1>12, <1>14, <1>15, <1>16, <1>17, <1>18, <1>19, <1>20, <1>21, <1>22,
     <1>23, <1>24 DEF Next, Advance

\* Until a cleanup frees a live process's handle, handles are never shared, are
\* never free while somebody has them, and bear their owner's pid.
THEOREM HandlesAreOwned == Spec => []Ownership
<1>1. TypeOK /\ OwnershipInv => Ownership
  BY DEF OwnershipInv, Owned, Ownership
<1> QED
  BY <1>1, TypeInit, TypeStep, OwnershipInit, OwnershipStep, PTL DEF Spec

-----------------------------------------------------------------------------
(* A cleanup apart from the allocations *)

\* No cleanup, from its look at the table to its last free, goes on next to a
\* handle that is allocated and not signed yet.  Two opens may overlap in all
\* else, and two cleanups in all.  The code has no lock for this: where only one
\* process at a time is inside open it holds (OneOpenerIsApart), and the run
\* handle_two_openers shows what happens where it does not.
CleanupApart ==
  \A p, q \in Proc :
    pc[p] \in {"scan", "reset", "free"} => pc[q] \notin {"zero", "sign"}

Cleaning(p) == pc[p] \in {"reset", "free"}

\* The handle whose bit is the sign of the int that lists the dead ones is not
\* in use: where it is listed, the widened int lists every handle above it.
\* Nothing is asked where the int has a bit for each handle.
SignBitUnused == HandleMax > IntBits => IntBits - 1 \notin allocated

\* What the listed handles are safe by: nobody has a handle that is on the list.
SerialInv ==
  /\ ~stolen
  /\ \A p, q \in Proc : Cleaning(p) => dead[p] \cap Held(q) = {}

\* Inside avsys_audio_open.
InOpen(p) == pc[p] \notin {"idle", "dead"} \cup Closing

\* The only steps that enter open, give a handle away, make a list of dead
\* handles and count a theft are the ones named for it.
Effects ==
  /\ (\E p \in Proc : StartOpen(p)) \/ \A q \in Proc : InOpen(q)' => InOpen(q)
  /\ \/ \E p \in Proc : Alloc(p)
     \/ allocated' \subseteq allocated /\ \A q \in Proc : Held(q)' \subseteq Held(q)
  /\ \A q \in Proc : Cleaning(q)' =>
       Scan(q) \/ (Cleaning(q) /\ dead'[q] \subseteq dead[q])
  /\ (\E p \in Proc : FreeDead(p)) \/ stolen' = stolen

LEMMA StepEffects == TypeOK /\ [Next]_vars => Effects
<1> SUFFICES ASSUME TypeOK, [Next]_vars PROVE Effects
  OBVIOUS
<1> USE DEF local, record, policy, TypeOK, Goto, InOpen, Held, Cleaning, Opening,
            Closing, Effects
<1>1. CASE UNCHANGED vars
  BY <1>1 DEF vars
<1>2. ASSUME NEW p \in Proc, StartOpen(p) PROVE Effects
  BY <1>2 DEF StartOpen
<1>3. ASSUME NEW p \in Proc, StartClose(p) PROVE Effects
  BY <1>3 DEF StartClose
<1>4. ASSUME NEW p \in Proc, Write(p) PROVE Effects
  BY <1>4 DEF Write
<1>5. ASSUME NEW p \in Proc, Crash(p) PROVE Effects
  BY <1>5 DEF Crash, Die
<1>6. ASSUME NEW p \in Proc, Scan(p) PROVE Effects
  BY <1>6 DEF Scan
<1>7. ASSUME NEW p \in Proc, ResetPriority(p) PROVE Effects
  BY <1>7 DEF ResetPriority
<1>8. ASSUME NEW p \in Proc, FreeDead(p) PROVE Effects
  BY <1>8 DEF FreeDead
<1>9. ASSUME NEW p \in Proc, Rebalance(p) PROVE Effects
  BY <1>9 DEF Rebalance
<1>10. ASSUME NEW p \in Proc, Alloc(p) PROVE Effects
  BY <1>10 DEF Alloc
<1>11. ASSUME NEW p \in Proc, AllocFull(p) PROVE Effects
  BY <1>11 DEF AllocFull
<1>12. ASSUME NEW p \in Proc, ZeroRecord(p) PROVE Effects
  BY <1>12 DEF ZeroRecord
<1>13. ASSUME NEW p \in Proc, SignRecord(p) PROVE Effects
  BY <1>13 DEF SignRecord
<1>14. ASSUME NEW p \in Proc, GetPtr(p) PROVE Effects
  BY <1>14 DEF GetPtr
<1>15. ASSUME NEW p \in Proc, SetPriority(p) PROVE Effects
  BY <1>15, SetPriorityGoes
<1>16. ASSUME NEW p \in Proc, OpenDevice(p) PROVE Effects
  BY <1>16 DEF OpenDevice
<1>17. ASSUME NEW p \in Proc, DeviceRefused(p) PROVE Effects
  BY <1>17 DEF DeviceRefused
<1>18. ASSUME NEW p \in Proc, ReleasePtr(p) PROVE Effects
  BY <1>18 DEF ReleasePtr
<1>19. ASSUME NEW p \in Proc, FailOpen(p) PROVE Effects
  BY <1>19 DEF FailOpen
<1>20. ASSUME NEW p \in Proc, UnsetPriority(p) PROVE Effects
  BY <1>20 DEF UnsetPriority
<1>21. ASSUME NEW p \in Proc, CloseDevice(p) PROVE Effects
  BY <1>21 DEF CloseDevice, Die
<1>22. ASSUME NEW p \in Proc, CheckRelease(p) PROVE Effects
  BY <1>22 DEF CheckRelease
<1>23. ASSUME NEW p \in Proc, FreeOwn(p) PROVE Effects
  BY <1>23 DEF FreeOwn
<1> HIDE DEF Effects
<1> QED
  BY <1>1, <1>2, <1>3, <1>4, <1>5, <1>6, <1>7, <1>8, <1>9, <1>10,
     <1>11, <1>12, <1>13, <1>14, <1>15, <1>16, <1>17, <1>18, <1>19, <1>20,
     <1>21, <1>22, <1>23 DEF Next, Advance

LEMMA SerialInit == Init => SerialInv
  BY DEF Init, SerialInv, Cleaning

LEMMA SerialStep ==
  TypeOK /\ OwnershipInv /\ SerialInv /\ SignBitUnused /\ CleanupApart
    /\ CleanupApart' /\ [Next]_vars => SerialInv'
<1> SUFFICES ASSUME TypeOK, OwnershipInv, SerialInv, SignBitUnused, CleanupApart,
                    CleanupApart', [Next]_vars
             PROVE  SerialInv'
  OBVIOUS
<1>0. Effects
  BY StepEffects
<1>1. ~stolen'
  <2>1. ASSUME NEW p \in Proc, FreeDead(p) PROVE ~stolen'
    <3>1. Cleaning(p) /\ dead[p] \in SUBSET Handle /\ dead[p] # {}
      BY <2>1 DEF FreeDead, Goto, Cleaning, TypeOK
    <3>2. Min(dead[p]) \in dead[p]
      BY <3>1, MinHandle, Zenon
    <3>3. \A q \in Proc : Min(dead[p]) \notin Held(q)
      BY <3>1, <3>2 DEF SerialInv
    <3> QED
      BY <2>1, <3>3, Zenon DEF FreeDead, SerialInv
  <2> QED
    BY <1>0, <2>1 DEF Effects, SerialInv
<1>2. ASSUME NEW p \in Proc, NEW q \in Proc, Cleaning(p)'
      PROVE  dead'[p] \cap Held(q)' = {}
  <2>1. CASE Scan(p)
    <3> DEFINE found == { h \in allocated : ~Running(pid[h]) }
    <3>1. dead'[p] \subseteq found
      <4>1. Truncated(found) \subseteq found
        BY DEF Truncated
      <4>2. SignExtended(Truncated(found)) = Truncated(found)
        <5>1. CASE HandleMax <= IntBits
          <6>1. { h \in Handle : h >= IntBits } = {}
            BY <5>1, HandleAssumption DEF Handle
          <6> QED
            BY <6>1, Zenon DEF SignExtended
        <5>2. CASE HandleMax > IntBits
          <6>1. IntBits - 1 \notin Truncated(found)
            BY <5>2 DEF SignBitUnused, Truncated
          <6> QED
            BY <6>1, Zenon DEF SignExtended
        <5> QED
          BY <5>1, <5>2, HandleAssumption
      <4>3. dead' = [dead EXCEPT ![p] = SignExtended(Truncated(found))]
        BY <2>1 DEF Scan
      <4> HIDE DEF found
      <4> QED
        BY <4>1, <4>2, <4>3 DEF TypeOK
    <3>2. Held(q)' = Held(q)
      BY <2>1 DEF Scan, Goto, Held, TypeOK, Opening, local
    <3>3. pc[p] = "scan"
      BY <2>1 DEF Scan, Goto
    <3>4. pc[q] \notin {"zero", "sign"}
      BY <3>3 DEF CleanupApart
    <3>5. \A h \in Held(q) : pid[h] = q
      BY <3>4 DEF OwnershipInv, SerialInv, Owned
    <3>6. Held(q) # {} => pc[q] # "dead"
      BY DEF Held, OwnershipInv, Opening
    <3> QED
      BY <3>1, <3>2, <3>5, <3>6 DEF Running
  <2>2. CASE ~Scan(p)
    <3>1. Cleaning(p) /\ dead'[p] \subseteq dead[p]
      BY <1>0, <1>2, <2>2 DEF Effects
    <3>2. dead[p] \cap Held(q) = {}
      BY <3>1 DEF SerialInv
    <3>3. ASSUME NEW r \in Proc, Alloc(r) PROVE FALSE
      <4>1. pc'[r] = "zero"
        BY <3>3 DEF Alloc, Goto, TypeOK
      <4>2. pc'[p] \in {"reset", "free"}
        BY <1>2 DEF Cleaning
      <4> QED
        BY <4>1, <4>2 DEF CleanupApart
    <3>4. Held(q)' \subseteq Held(q)
      BY <1>0, <3>3 DEF Effects
    <3> QED
      BY <3>1, <3>2, <3>4
  <2> QED
    BY <2>1, <2>2
<1> QED
  BY <1>1, <1>2 DEF SerialInv

\* Where no cleanup goes on next to an unsigned handle and the sign bit of the
\* list of dead handles is not in use, the cleanup frees no live process's
\* handle, whichever processes die and wherever they do, however many open at a
\* time.
THEOREM SerialCleanupIsSafe ==
  Spec /\ []SignBitUnused /\ []CleanupApart => []OnlyTheDeadAreCleaned
<1>1. SerialInv => OnlyTheDeadAreCleaned
  BY DEF SerialInv, OnlyTheDeadAreCleaned
<1>2. TypeOK /\ OwnershipInv /\ SerialInv /\ SignBitUnused /\ CleanupApart
        /\ CleanupApart' /\ [Next]_vars => SerialInv'
  BY SerialStep
<1> QED
  BY <1>1, <1>2, TypeInit, TypeStep, OwnershipInit, OwnershipStep, SerialInit, PTL
  DEF Spec

\* Fewer handles are allocated, to whomever and dead ones included, than the int
\* that lists the dead ones has bits.
FewStreams == Cardinality(allocated) < IntBits

\* The lowest free handle is the one that is given away, so the sign bit stays
\* unused for as long as few streams are open at a time: 31 of the 64 handles.
THEOREM FewStreamsSpareTheSignBit == Spec /\ []FewStreams => []SignBitUnused
<1>1. Init => SignBitUnused
  BY DEF Init, SignBitUnused
<1>2. ASSUME TypeOK, SignBitUnused, FewStreams', [Next]_vars PROVE SignBitUnused'
  <2>1. ASSUME NEW p \in Proc, Alloc(p) PROVE SignBitUnused'
    <3> DEFINE h == Min(Handle \ allocated)
    <3>1. Handle \ allocated \in SUBSET Nat /\ Handle \ allocated # {}
      BY <2>1, HandleAssumption DEF Alloc, Handle
    <3>2. h \in Handle \ allocated /\ \A k \in Handle \ allocated : h <= k
      BY <3>1, MinIsLeast
    <3>3. allocated' = allocated \cup {h}
      BY <2>1 DEF Alloc
    <3> HIDE DEF h
    <3>4. ASSUME HandleMax > IntBits, h = IntBits - 1 PROVE FALSE
      <4>1. 0 .. h \in SUBSET allocated'
        BY <3>2, <3>3, <3>4, HandleAssumption DEF Handle
      <4>2. IsFiniteSet(0 .. HandleMax - 1)
        BY FS_Interval, HandleAssumption
      <4>3. IsFiniteSet(allocated')
        <5>1. allocated' \in SUBSET (0 .. HandleMax - 1)
          BY <1>2, <3>2, <3>3 DEF TypeOK, Handle
        <5> QED
          BY <4>2, <5>1, FS_Subset
      <4>4. Cardinality(0 .. h) = IntBits
        BY <3>4, FS_Interval, HandleAssumption
      <4>5. Cardinality(0 .. h) <= Cardinality(allocated')
        BY <4>1, <4>3, FS_Subset
      <4>6. Cardinality(allocated') \in Nat
        BY <4>3, FS_CardinalityType
      <4> QED
        BY <1>2, <4>4, <4>5, <4>6, HandleAssumption DEF FewStreams
    <3> QED
      BY <1>2, <3>3, <3>4 DEF SignBitUnused
  <2>2. CASE ~\E p \in Proc : Alloc(p)
    <3>1. allocated' \subseteq allocated
      BY <1>2, <2>2, StepEffects DEF Effects
    <3> QED
      BY <1>2, <3>1 DEF SignBitUnused
  <2> QED
    BY <2>1, <2>2
<1>3. TypeOK /\ SignBitUnused /\ FewStreams' /\ [Next]_vars => SignBitUnused'
  BY <1>2
<1> QED
  BY <1>1, <1>3, TypeInit, TypeStep, PTL DEF Spec

OneInOpen == \A p, q \in Proc : InOpen(p) /\ InOpen(q) => p = q

\* Where open is never entered by two processes at a time, which the clients can
\* see to and the code does not, every cleanup is apart from the allocations.
THEOREM OneOpenerIsApart ==
  ASSUME OneOpener
  PROVE  Spec => []CleanupApart
<1>1. Init => OneInOpen
  BY DEF Init, OneInOpen, InOpen
<1>2. OneInOpen => CleanupApart
  BY DEF OneInOpen, CleanupApart, InOpen, Closing
<1>3. ASSUME TypeOK, OneInOpen, [Next]_vars PROVE OneInOpen'
  <2>1. ASSUME NEW r \in Proc, StartOpen(r), NEW q \in Proc, InOpen(q)' PROVE q = r
    BY <1>3, <2>1 DEF StartOpen, Goto, InOpen, TypeOK, Closing
  <2>2. Effects
    BY <1>3, StepEffects
  <2> QED
    BY <1>3, <2>1, <2>2 DEF Effects, OneInOpen
<1>4. TypeOK /\ OneInOpen /\ [Next]_vars => OneInOpen'
  BY <1>3
<1> QED
  BY <1>1, <1>2, <1>4, TypeInit, TypeStep, PTL DEF Spec

-----------------------------------------------------------------------------
(* Leaked handles are followed to their end *)

\* What a step of one process leaves of the place and the list of another.
LEMMA OthersStay ==
  ASSUME TypeOK, NEW r \in Proc,
         StartOpen(r) \/ StartClose(r) \/ Advance(r) \/ Write(r) \/ Crash(r),
         NEW p \in Proc, p # r
  PROVE  pc'[p] = pc[p] /\ dead'[p] = dead[p]
<1> USE DEF TypeOK, Goto, local
<1>1. CASE \/ StartOpen(r) \/ Write(r) \/ Scan(r) \/ ResetPriority(r)
           \/ FreeDead(r) \/ Rebalance(r) \/ Alloc(r) \/ AllocFull(r)
  BY <1>1 DEF StartOpen, Write, Scan, ResetPriority, FreeDead, Rebalance,
     Alloc, AllocFull
<1>2. CASE \/ ZeroRecord(r) \/ SignRecord(r) \/ OpenDevice(r) \/ DeviceRefused(r)
           \/ ReleasePtr(r) \/ FailOpen(r) \/ CheckRelease(r) \/ FreeOwn(r)
  BY <1>2 DEF ZeroRecord, SignRecord, OpenDevice, DeviceRefused, ReleasePtr,
     FailOpen, CheckRelease, FreeOwn
<1>3. CASE GetPtr(r)
  BY <1>3 DEF GetPtr
<1>4. CASE SetPriority(r)
  BY <1>4, Zenon DEF SetPriority
<1>5. CASE UnsetPriority(r)
  BY <1>5 DEF UnsetPriority
<1>6. CASE StartClose(r)
  BY <1>6 DEF StartClose
<1>7. CASE CloseDevice(r)
  BY <1>7 DEF CloseDevice, Die
<1>8. CASE Crash(r)
  BY <1>8 DEF Crash, Die
<1> QED
  BY <1>1, <1>2, <1>3, <1>4, <1>5, <1>6, <1>7, <1>8 DEF Advance

\* Every leaked handle that the list has a bit for is listed, and every listed
\* one is freed before the cleaner goes on: with any number of cleaners and
\* openers next to it, and whatever the sign bit adds to the list.  That a
\* cleaner goes on at all is its fairness.
THEOREM LeaksAreFollowed == Spec => NoLeakIsPassedOver
<1> DEFINE Listed(p, h) == pc[p] \in {"reset", "free"} /\ h \in dead[p]
<1>1. ASSUME TypeOK, [Next]_vars, NEW p \in Proc, NEW h \in Handle,
             pc[p] = "scan", pc'[p] \notin {"scan", "dead"}, Leaked(h), h < IntBits
      PROVE  pc'[p] = "reset" /\ h \in dead'[p]
  <2>1. Scan(p)
    <3>1. ~UNCHANGED vars
      BY <1>1 DEF vars
    <3>2. PICK r \in Proc :
            StartOpen(r) \/ StartClose(r) \/ Advance(r) \/ Write(r) \/ Crash(r)
      BY <1>1, <3>1 DEF Next
    <3>3. r = p
      BY <1>1, <3>2, OthersStay
    <3>4. ~StartOpen(p) /\ ~StartClose(p) /\ ~Write(p) /\ ~Crash(p)
      BY <1>1 DEF StartOpen, StartClose, Write, Crash, Die, Goto, TypeOK
    <3>5. Advance(p)
      BY <3>2, <3>3, <3>4
    <3> QED
      BY <1>1, <3>5 DEF Advance, Goto, ResetPriority, FreeDead, Rebalance, Alloc,
         AllocFull, ZeroRecord, SignRecord, GetPtr, SetPriority, OpenDevice,
         DeviceRefused, ReleasePtr, FailOpen, UnsetPriority, CloseDevice,
         CheckRelease, FreeOwn
  <2> DEFINE found == Truncated({ k \in allocated : ~Running(pid[k]) })
  <2>2. h \in found
    BY <1>1 DEF Leaked, Truncated
  <2>3. found \subseteq SignExtended(found)
    BY DEF SignExtended
  <2>4. /\ pc' = [pc EXCEPT ![p] = IF found = {} THEN "alloc" ELSE "reset"]
        /\ dead' = [dead EXCEPT ![p] = SignExtended(found)]
    BY <2>1 DEF Scan, Goto
  <2> HIDE DEF found
  <2> QED
    BY <1>1, <2>2, <2>3, <2>4 DEF TypeOK
<1>2. ASSUME TypeOK, [Next]_vars, NEW p \in Proc, NEW h \in Handle, Listed(p, h),
             pc'[p] # "dead"
      PROVE  Listed(p, h)' \/ h \notin allocated'
  <2>1. CASE UNCHANGED vars
    BY <1>2, <2>1 DEF vars, local
  <2>2. ASSUME NEW r \in Proc, r # p,
               StartOpen(r) \/ StartClose(r) \/ Advance(r) \/ Write(r) \/ Crash(r)
        PROVE  Listed(p, h)'
    <3>1. pc'[p] = pc[p] /\ dead'[p] = dead[p]
      BY <1>2, <2>2, OthersStay
    <3> QED
      BY <1>2, <3>1
  <2>3. CASE ResetPriority(p)
    BY <1>2, <2>3 DEF ResetPriority, Goto, TypeOK, local
  <2>4. CASE FreeDead(p)
    <3> DEFINE k == Min(dead[p])
    <3>1. /\ pc' = [pc EXCEPT ![p] = IF dead[p] = {k} THEN "rebalance" ELSE "reset"]
          /\ dead' = [dead EXCEPT ![p] = @ \ {k}]
          /\ allocated' = allocated \ {k}
      BY <2>4 DEF FreeDead, Goto
    <3> HIDE DEF k
    <3> QED
      BY <1>2, <3>1 DEF TypeOK
  <2>5. CASE StartOpen(p) \/ StartClose(p) \/ Write(p) \/ Crash(p)
    BY <1>2, <2>5 DEF StartOpen, StartClose, Write, Crash, Die, Goto, TypeOK
  <2>6. CASE Advance(p) /\ ~ResetPriority(p) /\ ~FreeDead(p)
    BY <1>2, <2>6 DEF Advance, Goto, Scan, Rebalance, Alloc, AllocFull, ZeroRecord,
       SignRecord, GetPtr, SetPriority, OpenDevice, DeviceRefused, ReleasePtr,
       FailOpen, UnsetPriority, CloseDevice, CheckRelease, FreeOwn
  <2> QED
    BY <1>2, <2>1, <2>2, <2>3, <2>4, <2>5, <2>6 DEF Next
<1> DEFINE Followed ==
      \A p \in Proc : \A h \in Handle :
        /\ pc[p] = "scan" /\ pc'[p] \notin {"scan", "dead"} /\ Leaked(h) /\ h < IntBits
             => pc'[p] = "reset" /\ h \in dead'[p]
        /\ pc[p] \in {"reset", "free"} /\ pc'[p] # "dead" /\ h \in dead[p]
             => \/ pc'[p] \in {"reset", "free"} /\ h \in dead'[p]
                \/ h \notin allocated'
<1>3. TypeOK /\ [Next]_vars => Followed
  BY <1>1, <1>2
<1>4. TypeOK /\ [Next]_vars => [Followed]_vars
  BY <1>3
<1>5. [][Followed]_vars => NoLeakIsPassedOver
  BY PTL DEF NoLeakIsPassedOver
<1> HIDE DEF Followed
<1> QED
  BY <1>4, <1>5, TypeCorrect, PTL DEF Spec

-----------------------------------------------------------------------------
(* Priorities go with their handles *)

\* A priority is taken back before its handle is freed, by whoever frees it.
PriorityInv ==
  /\ \A h \in Handle : priority[h] > 0 => h \in allocated
  /\ \A p \in Proc : pc[p] = "free" => priority[Min(dead[p])] = 0
  /\ \A p \in Proc : pc[p] \in {"cdev", "crel", "cfree"} => priority[cur[p]] = 0
  /\ \A p \in Proc : pc[p] # "fail"

\* What a step of p may do without touching a priority.
LEMMA PriorityQuiet ==
  ASSUME PriorityInv, NEW p \in Proc,
         priority' = priority, allocated \subseteq allocated',
         \A q \in Proc : q # p => pc'[q] = pc[q] /\ cur'[q] = cur[q] /\ dead'[q] = dead[q],
         pc'[p] \notin {"free", "fail"},
         pc'[p] \in {"cdev", "crel", "cfree"}
           => pc[p] \in {"cdev", "crel", "cfree"} /\ cur'[p] = cur[p]
  PROVE  PriorityInv'
BY DEF PriorityInv, Handle

\* What p holds while it opens or closes: its handle is allocated, bears its pid
\* once it is signed, and is nobody else's.
LEMMA OwnHandle ==
  ASSUME TypeOK, OwnershipInv, SerialInv, NEW p \in Proc,
         pc[p] \in Opening \cup Closing
  PROVE  /\ cur[p] \in Held(p) /\ cur[p] \in allocated
         /\ \A q \in Proc : q # p => cur[p] \notin Held(q)
         /\ pc[p] \notin {"zero", "sign"} => pid[cur[p]] = p
BY DEF SerialInv, OwnershipInv, Owned, Held

LEMMA PriorityStep ==
  ASSUME ~OpenFails
  PROVE  TypeOK /\ OwnershipInv /\ SerialInv /\ PriorityInv /\ [Next]_vars
           => PriorityInv'
<1> SUFFICES ASSUME TypeOK, OwnershipInv, SerialInv, PriorityInv, [Next]_vars
             PROVE  PriorityInv'
  OBVIOUS
<1> USE DEF record, policy, local
<1>1. CASE UNCHANGED vars
  BY <1>1 DEF vars, PriorityInv, Handle
<1>2. ASSUME NEW p \in Proc,
             \/ StartOpen(p) \/ Rebalance(p) \/ AllocFull(p) \/ ZeroRecord(p)
             \/ SignRecord(p) \/ OpenDevice(p) \/ Write(p) \/ StartClose(p)
             \/ Alloc(p)
      PROVE  PriorityInv'
  <2>1. priority' = priority /\ allocated \subseteq allocated'
    BY <1>2 DEF StartOpen, Rebalance, AllocFull, ZeroRecord, SignRecord, OpenDevice,
       Write, StartClose, Alloc
  <2>2. /\ \A q \in Proc : q # p => pc'[q] = pc[q] /\ cur'[q] = cur[q] /\ dead'[q] = dead[q]
        /\ pc'[p] \notin {"free", "fail", "cdev", "crel", "cfree"}
    <3> USE DEF TypeOK, Goto
    <3>1. CASE StartOpen(p) \/ Rebalance(p) \/ AllocFull(p) \/ ZeroRecord(p)
      BY <3>1 DEF StartOpen, Rebalance, AllocFull, ZeroRecord
    <3>2. CASE SignRecord(p) \/ OpenDevice(p) \/ Alloc(p)
      BY <3>2 DEF SignRecord, OpenDevice, Alloc
    <3>3. CASE Write(p) \/ StartClose(p)
      BY <3>3 DEF Write, StartClose
    <3> QED
      BY <1>2, <3>1, <3>2, <3>3
  <2> QED
    BY <2>1, <2>2, PriorityQuiet
<1>3. ASSUME NEW p \in Proc, Scan(p) PROVE PriorityInv'
  BY <1>3, PriorityQuiet DEF Scan, Goto, TypeOK
<1>4. ASSUME NEW p \in Proc, Die(p) PROVE PriorityInv'
  BY <1>4, PriorityQuiet DEF Die, TypeOK
<1>5. ASSUME NEW p \in Proc, ResetPriority(p) PROVE PriorityInv'
  <2> DEFINE h == Min(dead[p])
  <2>1. pc[p] = "reset" /\ dead[p] \in SUBSET Handle /\ dead[p] # {}
    BY <1>5 DEF ResetPriority, Goto, TypeOK
  <2>2. h \in dead[p] /\ h \in Handle
    BY <2>1, MinHandle, Zenon
  <2>3. /\ priority' = [priority EXCEPT ![h] = 0]
        /\ UNCHANGED <<allocated, cur, dead>>
        /\ pc' = [pc EXCEPT ![p] = "free"]
    BY <1>5 DEF ResetPriority, Goto
  <2>4. \A q \in Proc : pc[q] = "free" =>
          Min(dead[q]) \in Handle /\ priority[Min(dead[q])] = 0
    <3> SUFFICES ASSUME NEW q \in Proc, pc[q] = "free" PROVE Min(dead[q]) \in Handle
      BY DEF PriorityInv
    <3>1. dead[q] \in SUBSET Handle /\ dead[q] # {}
      BY DEF TypeOK
    <3> QED
      BY <3>1, MinHandle, Zenon
  <2> HIDE DEF h
  <2>5. \A k \in Handle : priority'[k] = IF k = h THEN 0 ELSE priority[k]
    BY <2>2, <2>3 DEF TypeOK
  <2>6. pc'[p] = "free" /\ \A q \in Proc : q # p => pc'[q] = pc[q]
    BY <2>3 DEF TypeOK
  <2>7. \A k \in Handle : priority'[k] > 0 => k \in allocated'
    BY <2>3, <2>5 DEF PriorityInv
  <2>8. \A q \in Proc : pc'[q] = "free" => priority'[Min(dead'[q])] = 0
    BY <2>2, <2>3, <2>4, <2>5, <2>6 DEF h
  <2>9. \A q \in Proc : pc'[q] \in {"cdev", "crel", "cfree"} => priority'[cur'[q]] = 0
    BY <2>3, <2>5, <2>6 DEF PriorityInv, TypeOK
  <2> QED
    BY <2>6, <2>7, <2>8, <2>9 DEF PriorityInv, Handle
<1>6. ASSUME NEW p \in Proc, FreeDead(p) PROVE PriorityInv'
  <2> DEFINE h == Min(dead[p])
  <2>1. pc[p] = "free" /\ priority[h] = 0
    BY <1>6 DEF FreeDead, Goto, PriorityInv
  <2>2. /\ allocated' = allocated \ {h}
        /\ UNCHANGED <<priority, cur>>
        /\ pc'[p] \in {"reset", "rebalance"}
        /\ \A q \in Proc : q # p => pc'[q] = pc[q] /\ dead'[q] = dead[q]
    BY <1>6 DEF FreeDead, Goto, TypeOK
  <2> HIDE DEF h
  <2>3. \A k \in Handle : priority'[k] > 0 => k \in allocated'
    BY <2>1, <2>2 DEF PriorityInv
  <2> QED
    BY <2>2, <2>3 DEF PriorityInv, Handle
<1>7. ASSUME NEW p \in Proc, GetPtr(p) PROVE PriorityInv'
  <2>1. cur[p] \in allocated
    BY <1>7, OwnHandle DEF GetPtr, Goto, Opening
  <2> QED
    BY <1>7, <2>1, PriorityQuiet DEF GetPtr, Goto, TypeOK
<1>8. ASSUME NEW p \in Proc, SetPriority(p) PROVE PriorityInv'
  <2>1. pc[p] = "prio"
    BY <1>8 DEF SetPriority, Goto
  <2>2. /\ cur[p] \in Held(p) /\ cur[p] \in allocated /\ cur[p] \in Handle
        /\ \A q \in Proc : q # p => cur[p] \notin Held(q)
    BY <2>1, OwnHandle DEF Opening, TypeOK
  <2>3. /\ priority' = [priority EXCEPT ![cur[p]] = want[cur[p]]]
        /\ UNCHANGED <<allocated, cur, dead>>
        /\ pc' = [pc EXCEPT ![p] = "dev"]
    BY <1>8, <2>2 DEF SetPriority, Sway, Goto
  <2>4. \A k \in Handle : k # cur[p] => priority'[k] = priority[k]
    BY <2>3 DEF TypeOK
  <2>5. /\ pc'[p] = "dev"
        /\ \A q \in Proc : q # p => pc'[q] = pc[q]
    BY <2>3 DEF TypeOK
  <2>6. ASSUME NEW q \in Proc, pc'[q] = "free" PROVE priority'[Min(dead'[q])] = 0
    <3>1. pc[q] = "free" /\ dead'[q] = dead[q]
      BY <2>3, <2>5, <2>6
    <3>2. Min(dead[q]) \in dead[q] /\ Min(dead[q]) \in Handle
      <4>1. dead[q] \in SUBSET Handle /\ dead[q] # {}
        BY <3>1 DEF TypeOK
      <4> QED
        BY <4>1, MinHandle, Zenon
    <3>3. Min(dead[q]) # cur[p]
      BY <2>2, <3>1, <3>2 DEF SerialInv, Cleaning
    <3> QED
      BY <2>4, <3>1, <3>2, <3>3 DEF PriorityInv
  <2>7. ASSUME NEW q \in Proc, pc'[q] \in {"cdev", "crel", "cfree"}
        PROVE  priority'[cur'[q]] = 0
    <3>1. q # p /\ pc[q] \in {"cdev", "crel", "cfree"}
      BY <2>5, <2>7
    <3>2. cur[q] \in Held(q)
      BY <3>1, OwnHandle DEF Closing
    <3>3. cur[q] # cur[p] /\ cur[q] \in Handle
      BY <2>2, <3>1, <3>2 DEF TypeOK
    <3> QED
      BY <2>3, <2>4, <3>1, <3>3 DEF PriorityInv
  <2>8. \A k \in Handle : priority'[k] > 0 => k \in allocated'
    BY <2>2, <2>3, <2>4 DEF PriorityInv
  <2> QED
    BY <2>5, <2>6, <2>7, <2>8 DEF PriorityInv, Handle
<1>9. ASSUME NEW p \in Proc, DeviceRefused(p) PROVE PriorityInv'
  BY <1>9 DEF DeviceRefused
<1>10. ASSUME NEW p \in Proc, ReleasePtr(p) PROVE PriorityInv'
  <2>1. cur[p] \in allocated
    BY <1>10, OwnHandle DEF ReleasePtr, Goto, Opening
  <2> QED
    BY <1>10, <2>1, PriorityQuiet DEF ReleasePtr, Goto, TypeOK
<1>11. ASSUME NEW p \in Proc, FailOpen(p) PROVE PriorityInv'
  BY <1>11 DEF FailOpen, Goto, PriorityInv
<1>12. ASSUME NEW p \in Proc, UnsetPriority(p) PROVE PriorityInv'
  <2>1. /\ pc[p] = "unset" /\ pc' = [pc EXCEPT ![p] = "cdev"]
        /\ UNCHANGED <<allocated, cur, dead>>
    BY <1>12 DEF UnsetPriority, Goto
  <2>2. cur[p] \in allocated /\ cur[p] \in Handle
    BY <2>1, OwnHandle DEF Closing, TypeOK
  <2>3. priority' = [priority EXCEPT ![cur[p]] = 0]
    BY <1>12, <2>2 DEF UnsetPriority, Sway
  <2>4. \A k \in Handle : priority'[k] = IF k = cur[p] THEN 0 ELSE priority[k]
    BY <2>3 DEF TypeOK
  <2>5. /\ pc'[p] = "cdev"
        /\ \A q \in Proc : q # p => pc'[q] = pc[q]
    BY <2>1 DEF TypeOK
  <2>6. \A k \in Handle : priority'[k] > 0 => k \in allocated'
    BY <2>1, <2>4 DEF PriorityInv
  <2>7. ASSUME NEW q \in Proc, pc'[q] = "free" PROVE priority'[Min(dead'[q])] = 0
    <3>1. pc[q] = "free" /\ dead'[q] = dead[q]
      BY <2>1, <2>5, <2>7
    <3>2. Min(dead[q]) \in Handle
      <4>1. dead[q] \in SUBSET Handle /\ dead[q] # {}
        BY <3>1 DEF TypeOK
      <4> QED
        BY <4>1, MinHandle, Zenon
    <3> QED
      BY <2>4, <3>1, <3>2 DEF PriorityInv
  <2>8. \A q \in Proc : pc'[q] \in {"cdev", "crel", "cfree"} => priority'[cur'[q]] = 0
    BY <2>1, <2>2, <2>4, <2>5 DEF PriorityInv, TypeOK
  <2> QED
    BY <2>5, <2>6, <2>7, <2>8 DEF PriorityInv, Handle
<1>13. ASSUME NEW p \in Proc, CloseDevice(p) PROVE PriorityInv'
  <2>1. CASE Die(p)
    BY <1>4, <2>1
  <2>2. CASE ~Die(p)
    BY <1>13, <2>2, PriorityQuiet DEF CloseDevice, Goto, TypeOK
  <2> QED
    BY <2>1, <2>2
<1>14. ASSUME NEW p \in Proc, CheckRelease(p) PROVE PriorityInv'
  BY <1>14, PriorityQuiet DEF CheckRelease, Goto, TypeOK
<1>15. ASSUME NEW p \in Proc, FreeOwn(p) PROVE PriorityInv'
  <2>1. /\ pc[p] = "cfree" /\ allocated' = allocated \ {cur[p]}
        /\ UNCHANGED <<priority, cur, dead>>
        /\ pc' = [pc EXCEPT ![p] = "idle"]
    BY <1>15 DEF FreeOwn, Goto
  <2>2. priority[cur[p]] = 0
    BY <2>1 DEF PriorityInv
  <2>3. pc'[p] = "idle" /\ \A q \in Proc : q # p => pc'[q] = pc[q]
    BY <2>1 DEF TypeOK
  <2>4. \A k \in Handle : priority'[k] > 0 => k \in allocated'
    BY <2>1, <2>2 DEF PriorityInv
  <2> QED
    BY <2>1, <2>3, <2>4 DEF PriorityInv, Handle
<1> QED
  BY <1>1, <1>2, <1>3, <1>4, <1>5, <1>6, <1>7, <1>8, <1>9, <1>10, <1>11, <1>12,
     <1>13, <1>14, <1>15 DEF Next, Advance, Crash

\* Where the cleanups are apart, the sign bit is unused and PulseAudio refuses no
\* stream, no solo priority outlives its handle: not a close, and not the death
\* of its owner in any place of open or close with the cleanup that follows.
THEOREM PrioritiesAreTakenBack ==
  ASSUME ~OpenFails
  PROVE  Spec /\ []SignBitUnused /\ []CleanupApart => []NoPriorityWithoutHandle
<1>1. Init => PriorityInv
  BY DEF Init, PriorityInv
<1>2. PriorityInv => NoPriorityWithoutHandle
  BY DEF PriorityInv, NoPriorityWithoutHandle
<1>3. TypeOK /\ OwnershipInv /\ SerialInv /\ SignBitUnused /\ CleanupApart
        /\ CleanupApart' /\ [Next]_vars => SerialInv'
  BY SerialStep
<1>4. TypeOK /\ OwnershipInv /\ SerialInv /\ PriorityInv /\ [Next]_vars => PriorityInv'
  BY PriorityStep
<1> QED
  BY <1>1, <1>2, <1>3, <1>4, TypeInit, TypeStep, OwnershipInit, OwnershipStep,
     SerialInit, PTL DEF Spec

-----------------------------------------------------------------------------
(* A solo stream is heard *)

\* A stream that is heard at its volume, in no fade, if it has a priority and no
\* mute call went amiss on it.
Good(h) ==
  \/ sink[h] = "none"
  \/ want[h] = 0
  \/ /\ priority[h] = want[h] /\ level[h] = "full" /\ ramp[h] = "none"
     /\ sink[h] = "on" \/ h \in amiss

\* The places of close behind the return of the priority.
Unsolo == {"cdev", "crel", "cfree"}

\* What p is careful about: the streams it has open are good, and the one it is
\* opening cannot be muted or faded before it exists, nor after its priority is
\* set.
SoloFor(p) ==
  /\ \A h \in mine[p] : (h = cur[p] /\ pc[p] \in Unsolo) \/ Good(h)
  /\ pc[p] = "rel" => Good(cur[p])
  /\ pc[p] \in {"sign", "ptr", "prio", "dev", "devin"} => ~stream[cur[p]]
  /\ pc[p] \in {"prio", "dev"} => ramp[cur[p]] = "none"
  /\ pc[p] = "dev" => priority[cur[p]] = want[cur[p]]

SoloInv == \A p \in Proc : SoloFor(p)

\* What a step does to a handle that it is not about.
Kept(h) ==
  /\ want'[h] = want[h] /\ priority'[h] = priority[h]
  /\ ~stream[h] => ~stream'[h] /\ (ramp[h] = "none" => ramp'[h] = "none")
  /\ Good(h) => Good(h)'

Same(h) ==
  /\ want'[h] = want[h] /\ priority'[h] = priority[h] /\ stream'[h] = stream[h]
  /\ ramp'[h] = ramp[h] /\ sink'[h] = sink[h] /\ level'[h] = level[h]
  /\ h \in amiss => h \in amiss'

LEMMA SameIsKept == ASSUME NEW h, Same(h) PROVE Kept(h)
BY DEF Same, Kept, Good

\* The solo policy touches no handle of high priority, and no handle without a
\* stream.
LEMMA SwayKeeps ==
  ASSUME TypeOK, NEW np \in [Handle -> 0 .. 2], NEW unsetTwo, Sway(np, unsetTwo),
         UNCHANGED <<want, stream, level>>, NEW h \in Handle, np[h] = priority[h]
  PROVE  Kept(h)
<1>1. priority'[h] = priority[h]
  BY DEF Sway
<1> DEFINE high == \E k \in Handle : np[k] > 0
           quiet == [k \in Handle |-> high]
           calls == { k \in Handle : k \in allocated /\ stream[k] /\ np[k] = 0
                                     /\ (high \/ mute[k]) }
<1>2. ASSUME priority[h] # 0 \/ ~stream[h] PROVE ramp'[h] = ramp[h]
  <2>1. CASE unsetTwo \/ \E k \in Handle : np[k] = 2
    BY <1>2, <2>1 DEF Sway
  <2>2. CASE ~(unsetTwo \/ \E k \in Handle : np[k] = 2)
    BY <2>2 DEF Sway
  <2> QED
    BY <2>1, <2>2
<1>3. \/ sink' = sink /\ amiss' = amiss
      \/ MuteCalls(calls, quiet)
  <2>1. CASE unsetTwo \/ \E k \in Handle : np[k] = 2
    BY <2>1 DEF Sway
  <2>2. CASE ~(unsetTwo \/ \E k \in Handle : np[k] = 2)
    BY <2>2 DEF Sway
  <2> QED
    BY <2>1, <2>2
<1>4. quiet \in [Handle -> BOOLEAN] /\ calls \in SUBSET Handle
  OBVIOUS
<1>5. priority[h] # 0 => h \notin calls
  OBVIOUS
<1> HIDE DEF high, quiet, calls
<1>6. sink'[h] = "none" <=> sink[h] = "none"
  BY <1>3, <1>4, MuteCallsType
<1>7. ASSUME priority[h] # 0, sink[h] = "on" \/ h \in amiss, sink[h] # "none"
      PROVE  sink'[h] = "on" \/ h \in amiss'
  BY <1>3, <1>4, <1>5, <1>7, MuteCallsReach
<1> QED
  BY <1>1, <1>2, <1>6, <1>7 DEF Kept, Good

\* The steps of p leave what the others are careful about.
LEMMA SoloOthers ==
  ASSUME SoloInv, NEW p \in Proc,
         \A q \in Proc : q # p => pc'[q] = pc[q] /\ cur'[q] = cur[q] /\ mine'[q] = mine[q],
         \A q \in Proc : q # p => \A h \in Held(q) : Kept(h),
         SoloFor(p)'
  PROVE  SoloInv'
<1> SUFFICES ASSUME NEW q \in Proc, q # p PROVE SoloFor(q)'
  BY DEF SoloInv
<1>1. pc'[q] = pc[q] /\ cur'[q] = cur[q] /\ mine'[q] = mine[q]
  OBVIOUS
<1>2. \A h \in mine[q] : Kept(h)
  BY DEF Held
<1>3. pc[q] \in Opening => Kept(cur[q])
  BY DEF Held
<1>4. SoloFor(q)
  BY DEF SoloInv
<1>5. \A h \in mine'[q] : (h = cur'[q] /\ pc'[q] \in Unsolo) \/ Good(h)'
  BY <1>1, <1>2, <1>4 DEF SoloFor, Kept
<1>6. /\ pc'[q] = "rel" => Good(cur[q])'
      /\ pc'[q] \in {"sign", "ptr", "prio", "dev", "devin"} => ~stream'[cur[q]]
      /\ pc'[q] \in {"prio", "dev"} => ramp'[cur[q]] = "none"
      /\ pc'[q] = "dev" => priority'[cur[q]] = want'[cur[q]]
  BY <1>1, <1>3, <1>4 DEF SoloFor, Kept, Opening
<1> QED
  BY <1>1, <1>5, <1>6 DEF SoloFor, Good, Unsolo

\* A step of p outside the places of open that have more to be careful about.
LEMMA SoloOwn ==
  ASSUME NEW p \in Proc, SoloFor(p),
         pc'[p] \notin {"rel", "sign", "ptr", "prio", "dev", "devin"},
         \A h \in mine'[p] :
           \/ h = cur'[p] /\ pc'[p] \in Unsolo
           \/ h \in mine[p] /\ ~(h = cur[p] /\ pc[p] \in Unsolo) /\ Kept(h)
  PROVE  SoloFor(p)'
BY DEF SoloFor, Kept, Good, Unsolo

LEMMA SoloStep ==
  TypeOK /\ OwnershipInv /\ SerialInv /\ SoloInv /\ [Next]_vars => SoloInv'
<1> SUFFICES ASSUME TypeOK, OwnershipInv, SerialInv, SoloInv, [Next]_vars
             PROVE  SoloInv'
  OBVIOUS
<1> USE DEF record, policy, local
<1>1. CASE UNCHANGED vars
  BY <1>1 DEF vars, SoloInv, SoloFor, Good
<1>2. \A q \in Proc : Held(q) \subseteq Handle /\ mine[q] \subseteq Held(q)
  BY DEF Held, TypeOK
<1>3. \A p \in Proc : SoloFor(p)
  BY DEF SoloInv
<1>4. ASSUME NEW p \in Proc, pc[p] \in Opening PROVE cur[p] \notin mine[p]
  BY <1>4 DEF OwnershipInv, SerialInv, Owned
<1>5. ASSUME NEW p \in Proc, NEW q \in Proc, q # p PROVE mine[p] \cap Held(q) = {}
  BY <1>2, <1>5 DEF OwnershipInv, SerialInv, Owned
<1>6. ASSUME NEW p \in Proc, Die(p) PROVE SoloInv'
  <2>1. /\ \A q \in Proc : q # p => pc'[q] = pc[q] /\ cur'[q] = cur[q] /\ mine'[q] = mine[q]
        /\ pc'[p] = "dead" /\ mine'[p] = {}
    BY <1>6 DEF Die, TypeOK
  <2>2. ASSUME NEW q \in Proc, q # p, NEW h \in Held(q) PROVE Kept(h)
    <3>1. h \notin Held(p) /\ h \in Handle
      BY <1>2, <2>2 DEF OwnershipInv, SerialInv, Owned
    <3> QED
      BY <1>6, <3>1, SameIsKept DEF Die, StreamsEnd, Same
  <2>3. SoloFor(p)'
    BY <2>1 DEF SoloFor
  <2> QED
    BY <2>1, <2>2, <2>3, SoloOthers
<1>7. ASSUME NEW p \in Proc,
             \/ StartOpen(p) \/ Scan(p) \/ FreeDead(p) \/ Alloc(p) \/ AllocFull(p)
             \/ DeviceRefused(p) \/ FailOpen(p)
      PROVE  SoloInv'
  <2>1. \A h \in Handle : Kept(h)
    <3>1. UNCHANGED <<want, priority, stream, ramp, sink, level, amiss>>
      BY <1>7 DEF StartOpen, Scan, FreeDead, Alloc, AllocFull, DeviceRefused, FailOpen
    <3> QED
      BY <3>1, SameIsKept DEF Same
  <2>2. /\ \A q \in Proc : q # p => pc'[q] = pc[q] /\ cur'[q] = cur[q] /\ mine'[q] = mine[q]
        /\ mine'[p] = mine[p]
        /\ pc'[p] \notin {"rel", "sign", "ptr", "prio", "dev", "devin"}
        /\ pc[p] \notin Unsolo
    <3> USE DEF TypeOK, Goto, Unsolo
    <3>1. CASE StartOpen(p) \/ Scan(p) \/ FreeDead(p)
      BY <3>1 DEF StartOpen, Scan, FreeDead
    <3>2. CASE Alloc(p) \/ AllocFull(p)
      BY <3>2 DEF Alloc, AllocFull
    <3>3. CASE DeviceRefused(p) \/ FailOpen(p)
      BY <3>3 DEF DeviceRefused, FailOpen
    <3> QED
      BY <1>7, <3>1, <3>2, <3>3
  <2>3. SoloFor(p)'
    BY <1>2, <1>3, <2>1, <2>2, SoloOwn
  <2> QED
    BY <1>2, <2>1, <2>2, <2>3, SoloOthers
<1>8. ASSUME NEW p \in Proc, ResetPriority(p) PROVE SoloInv'
  <2> DEFINE d == Min(dead[p])
  <2>1. Cleaning(p) /\ dead[p] \in SUBSET Handle /\ dead[p] # {}
    BY <1>8 DEF ResetPriority, Goto, Cleaning, TypeOK
  <2>2. d \in dead[p] /\ d \in Handle
    BY <2>1, MinHandle, Zenon
  <2>3. \A q \in Proc : d \notin Held(q)
    BY <2>1, <2>2 DEF SerialInv
  <2>4. /\ priority' = [priority EXCEPT ![d] = 0]
        /\ UNCHANGED <<want, stream, ramp, sink, level, amiss, cur, mine>>
        /\ pc[p] = "reset" /\ pc' = [pc EXCEPT ![p] = "free"]
    BY <1>8 DEF ResetPriority, Goto
  <2> HIDE DEF d
  <2>5. \A q \in Proc : \A h \in Held(q) : Kept(h)
    <3>1. \A h \in Handle : h # d => priority'[h] = priority[h]
      BY <2>4 DEF TypeOK
    <3> QED
      BY <1>2, <2>3, <2>4, <3>1, SameIsKept DEF Same
  <2>6. pc'[p] = "free" /\ \A q \in Proc : q # p => pc'[q] = pc[q]
    BY <2>4 DEF TypeOK
  <2>7. SoloFor(p)'
    BY <1>2, <1>3, <2>4, <2>5, <2>6, SoloOwn DEF Unsolo
  <2> QED
    BY <2>4, <2>5, <2>6, <2>7, SoloOthers
<1>9. ASSUME NEW p \in Proc, Rebalance(p) PROVE SoloInv'
  <2>1. \A h \in Handle : Kept(h)
    <3> SUFFICES ASSUME NEW h \in Handle PROVE Kept(h)
      OBVIOUS
    <3>1. UNCHANGED <<want, priority, stream, ramp, level>>
      BY <1>9 DEF Rebalance
    <3> DEFINE quiet == [k \in Handle |->
                           (\E j \in Handle : priority[j] > 0) /\ priority[k] = 0]
               calls == { k \in Handle : mute[k] # quiet[k] }
    <3>0. /\ quiet \in [Handle -> BOOLEAN] /\ calls \in SUBSET Handle
          /\ MuteCalls(calls, quiet) /\ (priority[h] # 0 => quiet[h] = FALSE)
      BY <1>9, RebalanceCalls
    <3> HIDE DEF quiet, calls
    <3>2. /\ sink[h] = "none" => sink'[h] = "none"
          /\ sink[h] # "none" /\ priority[h] # 0 /\ (sink[h] = "on" \/ h \in amiss)
               => sink'[h] = "on" \/ h \in amiss'
      BY <3>0, MuteCallsType, MuteCallsReach
    <3> QED
      BY <3>1, <3>2 DEF Kept, Good
  <2>2. /\ pc[p] = "rebalance" /\ pc' = [pc EXCEPT ![p] = "alloc"]
        /\ UNCHANGED <<cur, mine>>
    BY <1>9 DEF Rebalance, Goto
  <2>3. pc'[p] = "alloc" /\ \A q \in Proc : q # p => pc'[q] = pc[q]
    BY <2>2 DEF TypeOK
  <2>4. SoloFor(p)'
    BY <1>2, <1>3, <2>1, <2>2, <2>3, SoloOwn DEF Unsolo
  <2> QED
    BY <1>2, <2>1, <2>2, <2>3, <2>4, SoloOthers
<1>10. ASSUME NEW p \in Proc,
              ZeroRecord(p) \/ SignRecord(p) \/ GetPtr(p) \/ SetPriority(p) \/ OpenDevice(p)
       PROVE  SoloInv'
  <2>1. pc[p] \in Opening /\ cur' = cur /\ mine' = mine
    BY <1>10 DEF ZeroRecord, SignRecord, GetPtr, SetPriority, OpenDevice, Goto, Opening
  <2>2. /\ cur[p] \notin mine[p] /\ cur[p] \in Handle /\ cur[p] \in allocated
        /\ \A q \in Proc : q # p => cur[p] \notin Held(q)
    BY <1>4, <2>1, OwnHandle DEF TypeOK
  <2>3. \A h \in Handle : h # cur[p] => Kept(h)
    <3> SUFFICES ASSUME NEW h \in Handle, h # cur[p] PROVE Kept(h)
      OBVIOUS
    <3>1. CASE ZeroRecord(p) \/ SignRecord(p)
      BY <3>1, SameIsKept DEF ZeroRecord, SignRecord, Same, TypeOK
    <3>2. CASE GetPtr(p) \/ OpenDevice(p)
      BY <3>2, SameIsKept DEF GetPtr, OpenDevice, OpenSink, OpenSource, Same, TypeOK
    <3>3. CASE SetPriority(p)
      <4> DEFINE np == [priority EXCEPT ![cur[p]] = want[cur[p]]]
      <4>1. np \in [Handle -> 0 .. 2] /\ np[h] = priority[h]
        BY <2>2 DEF TypeOK
      <4>2. Sway(np, FALSE) /\ UNCHANGED <<want, stream, level>>
        BY <2>2, <3>3 DEF SetPriority
      <4> HIDE DEF np
      <4> QED
        BY <4>1, <4>2, SwayKeeps
    <3> QED
      BY <1>10, <3>1, <3>2, <3>3
  <2>4. \A q \in Proc : q # p => pc'[q] = pc[q]
    <3>1. PICK to : pc' = [pc EXCEPT ![p] = to]
      BY <1>10 DEF ZeroRecord, SignRecord, GetPtr, SetPriority, OpenDevice, Goto
    <3> QED
      BY <3>1 DEF TypeOK
  <2>5. \A h \in mine'[p] : Good(h)'
    <3>1. \A h \in mine[p] : Good(h)
      BY <1>3, <2>2 DEF SoloFor
    <3> QED
      BY <1>2, <2>1, <2>2, <2>3, <3>1 DEF Kept
  <2>6. /\ pc'[p] = "rel" => Good(cur[p])'
        /\ pc'[p] \in {"sign", "ptr", "prio", "dev", "devin"} => ~stream'[cur[p]]
        /\ pc'[p] \in {"prio", "dev"} => ramp'[cur[p]] = "none"
        /\ pc'[p] = "dev" => priority'[cur[p]] = want'[cur[p]]
    <3>1. CASE ZeroRecord(p)
      BY <2>2, <3>1 DEF ZeroRecord, Goto, TypeOK
    <3>2. CASE SignRecord(p)
      BY <1>3, <3>2 DEF SignRecord, Goto, TypeOK, SoloFor
    <3>3. CASE GetPtr(p)
      BY <1>3, <2>2, <3>3 DEF GetPtr, Goto, TypeOK, SoloFor
    <3>4. CASE SetPriority(p)
      <4> DEFINE np == [priority EXCEPT ![cur[p]] = want[cur[p]]]
      <4>1. /\ pc[p] = "prio" /\ pc'[p] = "dev"
            /\ Sway(np, FALSE) /\ UNCHANGED <<want, stream>>
        BY <2>2, <3>4 DEF SetPriority, Goto, TypeOK
      <4>2. ~stream[cur[p]] /\ ramp[cur[p]] = "none"
        BY <1>3, <4>1 DEF SoloFor
      <4>3. priority'[cur[p]] = want[cur[p]]
        BY <2>2, <4>1 DEF Sway, TypeOK
      <4> HIDE DEF np
      <4>4. ramp'[cur[p]] = "none"
        <5>1. CASE \E k \in Handle : np[k] = 2
          BY <2>2, <4>1, <4>2, <5>1 DEF Sway
        <5>2. CASE ~\E k \in Handle : np[k] = 2
          BY <4>1, <4>2, <5>2 DEF Sway
        <5> QED
          BY <5>1, <5>2
      <4> QED
        BY <4>1, <4>2, <4>3, <4>4
    <3>5. CASE OpenDevice(p)
      BY <1>3, <2>2, <3>5
      DEF OpenDevice, OpenSink, OpenSource, Goto, TypeOK, SoloFor, Good
    <3> QED
      BY <1>10, <3>1, <3>2, <3>3, <3>4, <3>5
  <2>7. SoloFor(p)'
    BY <2>1, <2>5, <2>6 DEF SoloFor, Good
  <2> QED
    BY <1>2, <2>1, <2>2, <2>3, <2>4, <2>7, SoloOthers
<1>11. ASSUME NEW p \in Proc, ReleasePtr(p) PROVE SoloInv'
  <2>1. /\ pc[p] = "rel" /\ cur' = cur
        /\ UNCHANGED <<want, priority, stream, ramp, sink, level, amiss>>
        /\ pc'[p] \in {"idle", "fail"}
        /\ mine'[p] \subseteq mine[p] \cup {cur[p]}
        /\ \A q \in Proc : q # p => pc'[q] = pc[q] /\ mine'[q] = mine[q]
    BY <1>11 DEF ReleasePtr, Goto, TypeOK
  <2>2. \A h \in Handle : Kept(h)
    BY <2>1, SameIsKept DEF Same
  <2>3. \A h \in mine'[p] : Good(h)'
    BY <1>3, <2>1 DEF SoloFor, Good, Unsolo
  <2>4. SoloFor(p)'
    BY <2>1, <2>3 DEF SoloFor
  <2> QED
    BY <1>2, <2>1, <2>2, <2>4, SoloOthers
<1>12. ASSUME NEW p \in Proc, StartClose(p) \/ CheckRelease(p) \/ FreeOwn(p)
       PROVE  SoloInv'
  <2>1. /\ UNCHANGED <<want, priority, stream, ramp, sink, level, amiss>>
        /\ pc'[p] \in {"idle", "unset", "cfree"}
        /\ \A q \in Proc : q # p => pc'[q] = pc[q] /\ cur'[q] = cur[q] /\ mine'[q] = mine[q]
        /\ \A h \in mine'[p] :
             \/ h = cur'[p] /\ pc'[p] \in Unsolo
             \/ h \in mine[p] /\ ~(h = cur[p] /\ pc[p] \in Unsolo)
    <3> USE DEF TypeOK, Goto, Unsolo
    <3>1. CASE StartClose(p)
      BY <3>1 DEF StartClose
    <3>2. CASE CheckRelease(p)
      BY <3>2 DEF CheckRelease
    <3>3. CASE FreeOwn(p)
      BY <3>3 DEF FreeOwn
    <3> QED
      BY <1>12, <3>1, <3>2, <3>3
  <2>2. \A h \in Handle : Kept(h)
    BY <2>1, SameIsKept DEF Same
  <2>3. SoloFor(p)'
    BY <1>2, <1>3, <2>1, <2>2, SoloOwn
  <2> QED
    BY <1>2, <2>1, <2>2, <2>3, SoloOthers
<1>13. ASSUME NEW p \in Proc, UnsetPriority(p) PROVE SoloInv'
  <2>1. /\ pc[p] = "unset" /\ pc'[p] = "cdev" /\ UNCHANGED <<cur, mine>>
        /\ \A q \in Proc : q # p => pc'[q] = pc[q]
    BY <1>13 DEF UnsetPriority, Goto, TypeOK
  <2>2. /\ cur[p] \in Handle /\ cur[p] \in allocated
        /\ \A q \in Proc : q # p => cur[p] \notin Held(q)
    BY <2>1, OwnHandle DEF Closing, TypeOK
  <2>3. ASSUME NEW h \in Handle, h # cur[p] PROVE Kept(h)
    <3> DEFINE np == [priority EXCEPT ![cur[p]] = 0]
               two == want[cur[p]] = 2
    <3>1. np \in [Handle -> 0 .. 2] /\ np[h] = priority[h]
      BY <2>2, <2>3 DEF TypeOK
    <3>2. Sway(np, two) /\ UNCHANGED <<want, stream, level>>
      BY <1>13, <2>2 DEF UnsetPriority
    <3> HIDE DEF np, two
    <3> QED
      BY <3>1, <3>2, SwayKeeps
  <2>4. SoloFor(p)'
    BY <1>2, <1>3, <2>1, <2>3, SoloOwn DEF Unsolo
  <2> QED
    BY <1>2, <2>1, <2>2, <2>3, <2>4, SoloOthers
<1>14. ASSUME NEW p \in Proc, CloseDevice(p) PROVE SoloInv'
  <2>1. CASE Die(p)
    BY <1>6, <2>1
  <2>2. CASE ~Die(p)
    <3>1. /\ pc[p] = "cdev" /\ pc'[p] = "crel" /\ UNCHANGED <<cur, mine>>
          /\ \A q \in Proc : q # p => pc'[q] = pc[q]
          /\ StreamsEnd({cur[p]})
          /\ UNCHANGED <<want, priority, stream, ramp, level>>
      BY <1>14, <2>2 DEF CloseDevice, Goto, TypeOK
    <3>2. \A q \in Proc : q # p => cur[p] \notin Held(q)
      BY <3>1, OwnHandle DEF Closing
    <3>3. \A h \in Handle : h # cur[p] => Kept(h)
      BY <3>1, SameIsKept DEF Same, StreamsEnd
    <3>4. SoloFor(p)'
      BY <1>2, <1>3, <3>1, <3>3, SoloOwn DEF Unsolo
    <3> QED
      BY <1>2, <3>1, <3>2, <3>3, <3>4, SoloOthers
  <2> QED
    BY <2>1, <2>2
<1>15. ASSUME NEW p \in Proc, Write(p) PROVE SoloInv'
  <2>1. PICK w \in mine[p] :
          /\ pc[p] = "idle" /\ sink[w] # "none" /\ ramp[w] # "none"
          /\ level' = [level EXCEPT ![w] = IF ramp[w] = "in" THEN "full" ELSE "zero"]
          /\ ramp' = [ramp EXCEPT ![w] = IF @ = "in" THEN "none" ELSE @]
          /\ UNCHANGED <<want, priority, stream, sink, amiss, pc, cur, mine>>
    BY <1>15 DEF Write
  <2>2. \A h \in Handle : h # w => Kept(h)
    BY <2>1, SameIsKept DEF Same, TypeOK
  <2>3. Kept(w)
    <3>1. want[w] = 0
      BY <1>3, <2>1 DEF SoloFor, Good, Unsolo
    <3>2. ~stream[w] => (ramp[w] = "none" => ramp'[w] = "none")
      BY <2>1
    <3> QED
      BY <2>1, <3>1, <3>2 DEF Kept, Good
  <2>4. SoloFor(p)'
    BY <1>2, <1>3, <2>1, <2>2, <2>3, SoloOwn DEF Unsolo
  <2> QED
    BY <1>2, <2>1, <2>2, <2>3, <2>4, SoloOthers
<1> QED
  BY <1>1, <1>6, <1>7, <1>8, <1>9, <1>10, <1>11, <1>12, <1>13, <1>14, <1>15
  DEF Next, Advance, Crash

\* Where the cleanups are apart and the sign bit is unused, a solo stream has its
\* priority and is heard from its open to its close, whatever others open, close,
\* write and clean up meanwhile, whichever of them die, and with streams that
\* PulseAudio refuses.  Only a mute call on it that fails, or one meant for a
\* capture stream, can silence it.
THEOREM SoloStreamsAreHeard ==
  Spec /\ []SignBitUnused /\ []CleanupApart => []SoloIsHeard
<1>1. Init => SoloInv
  BY DEF Init, SoloInv, SoloFor
<1>2. TypeOK /\ SerialInv /\ SoloInv => SoloIsHeard
  <2> SUFFICES ASSUME TypeOK, SerialInv, SoloInv, NEW p \in Proc, NEW h \in mine[p],
                      pc[p] = "idle", Playing(h), want[h] > 0
               PROVE  priority[h] = want[h] /\ (h \in amiss \/ Heard(h))
    BY DEF SoloIsHeard
  <2>1. Good(h)
    BY DEF SoloInv, SoloFor, Unsolo
  <2>2. sink[h] # "none" /\ want[h] # 0
    BY DEF Playing, TypeOK
  <2> QED
    BY <2>1, <2>2 DEF Good, Heard
<1>3. TypeOK /\ OwnershipInv /\ SerialInv /\ SignBitUnused /\ CleanupApart
        /\ CleanupApart' /\ [Next]_vars => SerialInv'
  BY SerialStep
<1>4. TypeOK /\ OwnershipInv /\ SerialInv /\ SoloInv /\ [Next]_vars => SoloInv'
  BY SoloStep
<1> QED
  BY <1>1, <1>2, <1>3, <1>4, TypeInit, TypeStep, OwnershipInit, OwnershipStep,
     SerialInit, PTL DEF Spec

-----------------------------------------------------------------------------
(* What was muted comes back *)

Rebalancing(p) == pc[p] \in {"reset", "free", "rebalance"}

OneDeath == \A p, q \in Proc : pc[p] = "dead" /\ pc[q] = "dead" => p = q

\* The process whose stream a playback stream is, from the end of its opening to
\* the end of its closing.
Sounds(p, h) == h \in mine[p] \/ (pc[p] = "rel" /\ cur[p] = h)

\* A muted stream that no call went amiss on.
Silenced(h) == sink[h] = "muted" /\ h \notin amiss

\* A playback stream belongs to a process, its record has its index, and what
\* PulseAudio mutes the record says is muted: so an unmuting will reach it.
SinkInv ==
  /\ \A h \in Handle : sink[h] # "none" => stream[h] /\ \E p \in Proc : Sounds(p, h)
  /\ \A h \in Handle : Silenced(h) => mute[h]
  /\ \A p \in Proc : pc[p] \in {"crel", "cfree"} => sink[cur[p]] = "none"

\* Until somebody dies every allocated handle is a live process's, so whoever is
\* cleaning up has seen a death.
DeathInv ==
  /\ (\A p \in Proc : Alive(p)) => \A h \in allocated : \E p \in Proc : h \in Held(p)
  /\ \A p \in Proc : Rebalancing(p) => \E q \in Proc : ~Alive(q)

\* A stream that is muted is owed to a priority, or to a cleaner that has taken
\* the priority back and will rebalance.
DebtInv ==
  ~faded /\ OneDeath =>
    \A h \in Handle : Silenced(h) =>
      (\E k \in Handle : priority[k] > 0) \/ \E p \in Proc : Rebalancing(p)

ComeBackInv == ~stolen => SinkInv /\ DeathInv /\ DebtInv

\* Who dies, who starts and ends a cleanup, and what happens to the handles
\* meanwhile.
Turns ==
  /\ \A q \in Proc : ~Alive(q) => ~Alive(q)'
  /\ \A q \in Proc : Rebalancing(q)' => Rebalancing(q) \/ Scan(q)
  /\ \A q \in Proc : Rebalancing(q) => Rebalancing(q)' \/ Rebalance(q) \/ Die(q)
  /\ \/ \E q \in Proc : ~Alive(q)'
     \/ /\ \A q \in Proc : \A h \in Held(q) \cap allocated' : h \in Held(q)'
        /\ \A h \in allocated' : h \in allocated \/ \E q \in Proc : h \in Held(q)'

\* Who mutes, and who takes priorities back.
Policing ==
  \/ /\ priority' = priority /\ faded' = faded
     /\ \A h \in Handle : Silenced(h)' => Silenced(h)
  \/ \E p \in Proc : ResetPriority(p) \/ Rebalance(p)
  \/ /\ \E np \in [Handle -> 0 .. 2] : \E unsetTwo \in BOOLEAN : Sway(np, unsetTwo)
     /\ UNCHANGED <<allocated, stream>>

LEMMA StepTurns == TypeOK /\ [Next]_vars => Turns
<1> SUFFICES ASSUME TypeOK, [Next]_vars PROVE Turns
  OBVIOUS
<1> USE DEF local, record, policy, TypeOK, Goto, Held, Rebalancing, Alive, Opening,
            Turns
<1>1. CASE UNCHANGED vars
  BY <1>1 DEF vars
<1>2. ASSUME NEW p \in Proc, StartOpen(p) PROVE Turns
  BY <1>2 DEF StartOpen
<1>3. ASSUME NEW p \in Proc, StartClose(p) PROVE Turns
  BY <1>3 DEF StartClose, Closing
<1>4. ASSUME NEW p \in Proc, Write(p) PROVE Turns
  BY <1>4 DEF Write
<1>5. ASSUME NEW p \in Proc, Die(p) PROVE Turns
  <2>1. /\ pc'[p] = "dead" /\ \A q \in Proc \ {p} : pc'[q] = pc[q]
    BY <1>5 DEF Die
  <2>2. Rebalancing(p) => Die(p)
    BY <1>5
  <2> QED
    BY <2>1, <2>2
<1>6. ASSUME NEW p \in Proc, Scan(p) PROVE Turns
  BY <1>6 DEF Scan
<1>7. ASSUME NEW p \in Proc, ResetPriority(p) PROVE Turns
  BY <1>7 DEF ResetPriority
<1>8. ASSUME NEW p \in Proc, FreeDead(p) PROVE Turns
  BY <1>8 DEF FreeDead
<1>9. ASSUME NEW p \in Proc, Rebalance(p) PROVE Turns
  <2>1. /\ pc[p] = "rebalance" /\ pc'[p] = "alloc" /\ UNCHANGED <<allocated, cur, mine>>
        /\ \A q \in Proc \ {p} : pc'[q] = pc[q]
    BY <1>9 DEF Rebalance
  <2> QED
    BY <1>9, <2>1
<1>10. ASSUME NEW p \in Proc, Alloc(p) PROVE Turns
  <2>1. PICK x : /\ allocated' = allocated \cup {x} /\ cur' = [cur EXCEPT ![p] = x]
                 /\ pc[p] = "alloc" /\ pc' = [pc EXCEPT ![p] = "zero"] /\ mine' = mine
    BY <1>10 DEF Alloc
  <2> QED
    BY <2>1
<1>11. ASSUME NEW p \in Proc, AllocFull(p) PROVE Turns
  BY <1>11 DEF AllocFull
<1>12. ASSUME NEW p \in Proc, ZeroRecord(p) PROVE Turns
  BY <1>12 DEF ZeroRecord
<1>13. ASSUME NEW p \in Proc, SignRecord(p) PROVE Turns
  BY <1>13 DEF SignRecord
<1>14. ASSUME NEW p \in Proc, GetPtr(p) PROVE Turns
  BY <1>14 DEF GetPtr
<1>15. ASSUME NEW p \in Proc, SetPriority(p) PROVE Turns
  BY <1>15, SetPriorityGoes
<1>16. ASSUME NEW p \in Proc, OpenDevice(p) PROVE Turns
  BY <1>16 DEF OpenDevice
<1>17. ASSUME NEW p \in Proc, DeviceRefused(p) PROVE Turns
  BY <1>17 DEF DeviceRefused
<1>18. ASSUME NEW p \in Proc, ReleasePtr(p) PROVE Turns
  BY <1>18 DEF ReleasePtr
<1>19. ASSUME NEW p \in Proc, FailOpen(p) PROVE Turns
  BY <1>19 DEF FailOpen
<1>20. ASSUME NEW p \in Proc, UnsetPriority(p) PROVE Turns
  BY <1>20 DEF UnsetPriority
<1>21. ASSUME NEW p \in Proc, CloseDevice(p) PROVE Turns
  <2>1. CASE Die(p)
    BY <1>5, <2>1
  <2> QED
    BY <1>21, <2>1 DEF CloseDevice
<1>22. ASSUME NEW p \in Proc, CheckRelease(p) PROVE Turns
  BY <1>22 DEF CheckRelease
<1>23. ASSUME NEW p \in Proc, FreeOwn(p) PROVE Turns
  BY <1>23 DEF FreeOwn
<1> HIDE DEF Turns
<1> QED
  BY <1>1, <1>2, <1>3, <1>4, <1>5, <1>6, <1>7, <1>8, <1>9, <1>10,
     <1>11, <1>12, <1>13, <1>14, <1>15, <1>16, <1>17, <1>18, <1>19, <1>20,
     <1>21, <1>22, <1>23 DEF Next, Advance, Crash

LEMMA StepPolices == TypeOK /\ [Next]_vars => Policing
<1> SUFFICES ASSUME TypeOK, [Next]_vars PROVE Policing
  OBVIOUS
<1> USE DEF local, record, policy, TypeOK
<1> DEFINE Quiet == /\ priority' = priority /\ faded' = faded
                    /\ \A h \in Handle : Silenced(h)' => Silenced(h)
<1>1. CASE UNCHANGED vars
  BY <1>1 DEF vars, Policing, Silenced
<1>2. ASSUME NEW p \in Proc,
             \/ StartOpen(p) \/ StartClose(p) \/ Write(p) \/ Scan(p) \/ FreeDead(p)
             \/ Alloc(p) \/ AllocFull(p) \/ ZeroRecord(p) \/ SignRecord(p)
             \/ GetPtr(p) \/ DeviceRefused(p) \/ ReleasePtr(p) \/ FailOpen(p)
             \/ CheckRelease(p) \/ FreeOwn(p)
      PROVE  Quiet
  <2>1. UNCHANGED <<priority, faded, sink, amiss>>
    BY <1>2 DEF StartOpen, StartClose, Write, Scan, FreeDead, Alloc, AllocFull,
       ZeroRecord, SignRecord, GetPtr, DeviceRefused, ReleasePtr, FailOpen,
       CheckRelease, FreeOwn
  <2> QED
    BY <2>1 DEF Silenced
<1>3. ASSUME NEW p \in Proc, Die(p) \/ OpenDevice(p) \/ CloseDevice(p) PROVE Quiet
  <2>1. CASE Die(p) \/ CloseDevice(p)
    <3>1. PICK S : StreamsEnd(S) /\ UNCHANGED <<priority, faded>>
      BY <2>1 DEF Die, CloseDevice
    <3> QED
      BY <3>1 DEF StreamsEnd, Silenced
  <2>2. CASE OpenDevice(p)
    <3>1. OpenSink(cur[p]) \/ OpenSource(cur[p])
      BY <2>2 DEF OpenDevice
    <3>2. UNCHANGED <<priority, faded>>
      BY <2>2 DEF OpenDevice
    <3> QED
      BY <3>1, <3>2 DEF OpenSink, OpenSource, Silenced
  <2> QED
    BY <1>3, <2>1, <2>2
<1>4. ASSUME NEW p \in Proc, SetPriority(p) PROVE Policing
  <2>1. CASE cur[p] \in allocated
    <3>1. [priority EXCEPT ![cur[p]] = want[cur[p]]] \in [Handle -> 0 .. 2]
      OBVIOUS
    <3>2. /\ Sway([priority EXCEPT ![cur[p]] = want[cur[p]]], FALSE)
          /\ UNCHANGED <<allocated, stream>>
      BY <1>4, <2>1 DEF SetPriority
    <3> QED
      BY <3>1, <3>2 DEF Policing
  <2>2. CASE cur[p] \notin allocated
    BY <1>4, <2>2 DEF SetPriority, Policing, Silenced
  <2> QED
    BY <2>1, <2>2
<1>5. ASSUME NEW p \in Proc, UnsetPriority(p) PROVE Policing
  <2>1. CASE cur[p] \in allocated
    <3>1. [priority EXCEPT ![cur[p]] = 0] \in [Handle -> 0 .. 2]
      OBVIOUS
    <3>2. /\ Sway([priority EXCEPT ![cur[p]] = 0], want[cur[p]] = 2)
          /\ UNCHANGED <<allocated, stream>>
      BY <1>5, <2>1 DEF UnsetPriority
    <3>3. (want[cur[p]] = 2) \in BOOLEAN
      OBVIOUS
    <3> QED
      BY <3>1, <3>2, <3>3 DEF Policing
  <2>2. CASE cur[p] \notin allocated
    BY <1>5, <2>2 DEF UnsetPriority, Policing, Silenced
  <2> QED
    BY <2>1, <2>2
<1>6. Quiet => Policing
  BY DEF Policing
<1>7. ASSUME NEW p \in Proc, ResetPriority(p) \/ Rebalance(p) PROVE Policing
  BY <1>7 DEF Policing
<1> HIDE DEF Quiet
<1> QED
  BY <1>1, <1>2, <1>3, <1>4, <1>5, <1>6, <1>7 DEF Next, Advance, Crash

\* The policy carried out as a mute: a stream that stays muted is owed to a
\* priority.
LEMMA SwayPays ==
  ASSUME TypeOK, NEW np \in [Handle -> 0 .. 2], NEW unsetTwo \in BOOLEAN,
         Sway(np, unsetTwo), ~faded',
         NEW h \in Handle, sink[h] # "none" => h \in allocated /\ stream[h],
         Silenced(h) => mute[h], Silenced(h)'
  PROVE  \E k \in Handle : priority'[k] > 0
<1> DEFINE high == \E k \in Handle : np[k] > 0
           quiet == [k \in Handle |-> high]
           calls == { k \in Handle : k \in allocated /\ stream[k] /\ np[k] = 0
                                     /\ (high \/ mute[k]) }
<1>1. priority' = np /\ ~(unsetTwo \/ \E k \in Handle : np[k] = 2)
  BY DEF Sway
<1>2. MuteCalls(calls, quiet)
  BY <1>1 DEF Sway
<1>3. /\ quiet \in [Handle -> BOOLEAN] /\ calls \in SUBSET Handle
      /\ quiet[h] <=> high
  OBVIOUS
<1>4. ASSUME ~high PROVE sink[h] # "none" /\ mute[h] => h \in calls
  <2>1. np[h] = 0
    BY <1>4
  <2> QED
    BY <2>1
<1> HIDE DEF quiet, calls
<1>5. sink[h] # "none" /\ h \notin amiss' /\ sink'[h] = "muted"
  BY <1>2, <1>3, MuteCallsType DEF Silenced
<1>6. CASE h \in calls
  BY <1>1, <1>2, <1>3, <1>5, <1>6, MuteCallsReach
<1>7. CASE h \notin calls
  <2>1. Silenced(h)
    BY <1>2, <1>3, <1>5, <1>7, MuteCallsReach DEF Silenced
  <2> QED
    BY <1>1, <1>4, <1>5, <1>7, <2>1
<1> QED
  BY <1>6, <1>7

\* It silences no stream that the record does not call muted, and opens none.
LEMMA SwaySinks ==
  ASSUME TypeOK, NEW np \in [Handle -> 0 .. 2], NEW unsetTwo \in BOOLEAN,
         Sway(np, unsetTwo), NEW h \in Handle
  PROVE  /\ sink'[h] = "none" <=> sink[h] = "none"
         /\ (Silenced(h) => mute[h]) => (Silenced(h)' => mute'[h])
<1> DEFINE high == \E k \in Handle : np[k] > 0
           swayed(k) == k \in allocated /\ stream[k] /\ np[k] = 0
           quiet == [k \in Handle |-> high]
           calls == { k \in Handle : swayed(k) /\ (high \/ mute[k]) }
<1>1. CASE unsetTwo \/ \E k \in Handle : np[k] = 2
  BY <1>1 DEF Sway, Silenced
<1>2. CASE ~(unsetTwo \/ \E k \in Handle : np[k] = 2)
  <2>1. MuteCalls(calls, quiet) /\ mute'[h] = IF swayed(h) THEN high ELSE mute[h]
    BY <1>2 DEF Sway
  <2>2. /\ quiet \in [Handle -> BOOLEAN] /\ calls \in SUBSET Handle
        /\ quiet[h] <=> high
        /\ h \in calls <=> swayed(h) /\ (high \/ mute[h])
    OBVIOUS
  <2> HIDE DEF quiet, calls, swayed, high
  <2>3. sink'[h] = "none" <=> sink[h] = "none"
    BY <2>1, <2>2, MuteCallsType
  <2>4. ASSUME Silenced(h) => mute[h], Silenced(h)' PROVE mute'[h]
    <3>1. sink[h] # "none" /\ h \notin amiss' /\ sink'[h] = "muted"
      BY <2>3, <2>4 DEF Silenced
    <3>2. CASE h \in calls
      BY <2>1, <2>2, <3>1, <3>2, MuteCallsReach
    <3>3. CASE h \notin calls
      <4>1. Silenced(h)
        BY <2>1, <2>2, <3>1, <3>3, MuteCallsReach DEF Silenced
      <4> QED
        BY <2>1, <2>2, <2>4, <3>3, <4>1
    <3> QED
      BY <3>2, <3>3
  <2> QED
    BY <2>3, <2>4
<1> QED
  BY <1>1, <1>2

\* Nor does the rebalancing, which mutes for a priority only.
LEMMA RebalanceSinks ==
  ASSUME TypeOK, NEW p \in Proc, Rebalance(p), NEW h \in Handle
  PROVE  /\ sink'[h] = "none" <=> sink[h] = "none"
         /\ (Silenced(h) => mute[h]) /\ Silenced(h)'
              => mute'[h] /\ \E k \in Handle : priority'[k] > 0
<1> DEFINE quiet == [k \in Handle |->
                       (\E j \in Handle : priority[j] > 0) /\ priority[k] = 0]
           calls == { k \in Handle : mute[k] # quiet[k] }
<1>1. /\ quiet \in [Handle -> BOOLEAN] /\ calls \in SUBSET Handle
      /\ mute' = quiet /\ MuteCalls(calls, quiet)
  BY RebalanceCalls
<1>2. /\ h \in calls <=> mute[h] # quiet[h]
      /\ quiet[h] => \E k \in Handle : priority[k] > 0
  OBVIOUS
<1>3. priority' = priority
  BY DEF Rebalance
<1> HIDE DEF quiet, calls
<1>4. sink'[h] = "none" <=> sink[h] = "none"
  BY <1>1, MuteCallsType
<1>5. ASSUME Silenced(h) => mute[h], Silenced(h)' PROVE quiet[h]
  <2>1. sink[h] # "none" /\ h \notin amiss' /\ sink'[h] = "muted"
    BY <1>4, <1>5 DEF Silenced
  <2>2. CASE h \in calls
    BY <1>1, <2>1, <2>2, MuteCallsReach
  <2>3. CASE h \notin calls
    <3>1. Silenced(h)
      BY <1>1, <2>1, <2>3, MuteCallsReach DEF Silenced
    <3> QED
      BY <1>2, <1>5, <2>3, <3>1
  <2> QED
    BY <2>2, <2>3
<1> QED
  BY <1>1, <1>2, <1>3, <1>4, <1>5

\* A step that moves no stream in PulseAudio or in its record, and no process in
\* or out of the places where a stream is its own.
LEMMA SinkQuiet ==
  ASSUME SinkInv, UNCHANGED <<stream, mute, sink, amiss>>,
         \A q \in Proc : \A h \in Handle : Sounds(q, h) => Sounds(q, h)',
         \A q \in Proc : pc'[q] \in {"crel", "cfree"} =>
                           pc[q] \in {"crel", "cfree"} /\ cur'[q] = cur[q]
  PROVE  SinkInv'
BY DEF SinkInv, Silenced

\* A handle that is inside open or close, in a table nobody was robbed in.
LEMMA OwnCur ==
  ASSUME TypeOK, Owned, NEW p \in Proc, pc[p] \in Opening \cup Closing
  PROVE  /\ cur[p] \in Handle /\ cur[p] \in Held(p) /\ cur[p] \in allocated
         /\ \A q \in Proc : q # p => cur[p] \notin Held(q)
BY DEF Owned, Held, TypeOK

LEMMA SinkStep ==
  ASSUME TypeOK, Owned, SinkInv, [Next]_vars
  PROVE  SinkInv'
<1> USE DEF local, record, policy
<1>1. CASE UNCHANGED vars
  BY <1>1 DEF vars, SinkInv, Sounds, Silenced
<1>2. ASSUME NEW p \in Proc,
             \/ StartOpen(p) \/ Scan(p) \/ ResetPriority(p) \/ FreeDead(p)
             \/ Alloc(p) \/ AllocFull(p) \/ SignRecord(p) \/ GetPtr(p)
             \/ DeviceRefused(p) \/ FailOpen(p)
      PROVE  SinkInv'
  <2>1. UNCHANGED <<stream, mute, sink, amiss, mine>>
    BY <1>2 DEF StartOpen, Scan, ResetPriority, FreeDead, Alloc, AllocFull,
       SignRecord, GetPtr, DeviceRefused, FailOpen
  <2>2. /\ \A q \in Proc : q # p => pc'[q] = pc[q] /\ cur'[q] = cur[q]
        /\ pc[p] # "rel" /\ pc'[p] \notin {"crel", "cfree"}
    <3> USE DEF TypeOK, Goto
    <3>1. CASE StartOpen(p) \/ Scan(p) \/ ResetPriority(p) \/ FreeDead(p)
      BY <3>1 DEF StartOpen, Scan, ResetPriority, FreeDead
    <3>2. CASE Alloc(p) \/ AllocFull(p) \/ SignRecord(p)
      BY <3>2 DEF Alloc, AllocFull, SignRecord
    <3>3. CASE GetPtr(p) \/ DeviceRefused(p) \/ FailOpen(p)
      BY <3>3 DEF GetPtr, DeviceRefused, FailOpen
    <3> QED
      BY <1>2, <3>1, <3>2, <3>3
  <2> QED
    BY <2>1, <2>2, SinkQuiet DEF Sounds
<1>3. ASSUME NEW p \in Proc, StartClose(p) \/ CheckRelease(p) PROVE SinkInv'
  <2>1. mine[p] \subseteq allocated
    BY DEF Owned, Held
  <2>2. cur[p] \in allocated \/ ~CheckRelease(p)
    BY OwnCur DEF CheckRelease, Goto, Closing
  <2>3. /\ UNCHANGED <<stream, mute, sink, amiss, mine>>
        /\ \A q \in Proc : q # p => pc'[q] = pc[q] /\ cur'[q] = cur[q]
        /\ pc[p] # "rel"
        /\ pc'[p] \in {"crel", "cfree"} => pc[p] = "crel" /\ cur'[p] = cur[p]
    BY <1>3, <2>1, <2>2 DEF StartClose, CheckRelease, Goto, TypeOK
  <2> QED
    BY <2>3, SinkQuiet DEF Sounds
<1>4. ASSUME NEW p \in Proc, ReleasePtr(p) PROVE SinkInv'
  <2>1. pc[p] = "rel" /\ cur[p] \in allocated /\ UNCHANGED <<stream, mute, sink, amiss, cur>>
    BY <1>4, OwnCur DEF ReleasePtr, Goto, Opening
  <2>2. /\ pc' = [pc EXCEPT ![p] = "idle"]
        /\ mine' = [mine EXCEPT ![p] = @ \cup {cur[p]}]
    BY <1>4, <2>1 DEF ReleasePtr, Goto
  <2> QED
    BY <2>1, <2>2, SinkQuiet DEF Sounds, TypeOK
<1>5. ASSUME NEW p \in Proc, Die(p) PROVE SinkInv'
  <2>1. /\ \A h \in Handle : sink'[h] = IF h \in Held(p) THEN "none" ELSE sink[h]
        /\ amiss' = amiss \ Held(p)
        /\ UNCHANGED <<stream, mute, cur>>
        /\ pc'[p] = "dead"
        /\ \A q \in Proc : q # p => pc'[q] = pc[q] /\ mine'[q] = mine[q]
    BY <1>5 DEF Die, StreamsEnd, TypeOK
  <2>2. \A h \in Handle : Sounds(p, h) => h \in Held(p)
    BY DEF Sounds, Held, Opening
  <2>3. ASSUME NEW h \in Handle, sink'[h] # "none"
        PROVE  stream'[h] /\ \E q \in Proc : Sounds(q, h)'
    <3>1. sink[h] # "none" /\ h \notin Held(p)
      BY <2>1, <2>3
    <3>2. PICK q \in Proc : Sounds(q, h)
      BY <3>1 DEF SinkInv
    <3>3. q # p
      BY <2>2, <3>1, <3>2
    <3> QED
      BY <2>1, <3>1, <3>2, <3>3 DEF Sounds, SinkInv
  <2>4. \A h \in Handle : Silenced(h)' => mute'[h]
    BY <2>1 DEF SinkInv, Silenced
  <2>5. \A q \in Proc : pc'[q] \in {"crel", "cfree"} => sink'[cur'[q]] = "none"
    BY <2>1 DEF SinkInv, TypeOK
  <2> QED
    BY <2>3, <2>4, <2>5 DEF SinkInv
<1>6. ASSUME NEW p \in Proc, Rebalance(p) PROVE SinkInv'
  <2>1. /\ UNCHANGED <<stream, cur, mine>>
        /\ pc[p] = "rebalance" /\ pc' = [pc EXCEPT ![p] = "alloc"]
    BY <1>6 DEF Rebalance, Goto
  <2>3. \A h \in Handle : /\ sink'[h] = "none" <=> sink[h] = "none"
                          /\ Silenced(h)' => mute'[h]
    BY <1>6, RebalanceSinks DEF SinkInv
  <2>4. \A q \in Proc : pc'[q] = pc[q] \/ (q = p /\ pc'[q] = "alloc")
    BY <2>1 DEF TypeOK
  <2> QED
    BY <2>1, <2>3, <2>4 DEF SinkInv, Sounds, TypeOK
<1>7. ASSUME NEW np \in [Handle -> 0 .. 2], NEW unsetTwo \in BOOLEAN,
             Sway(np, unsetTwo), UNCHANGED <<stream, cur, mine>>,
             \A q \in Proc : pc'[q] = pc[q] \/ (pc[q] # "rel" /\ pc'[q] \notin {"crel", "cfree"})
      PROVE  SinkInv'
  <2>1. /\ stream' = stream /\ cur' = cur /\ mine' = mine
        /\ \A q \in Proc : pc'[q] = pc[q] \/ (pc[q] # "rel" /\ pc'[q] \notin {"crel", "cfree"})
    BY <1>7
  <2>2. \A h \in Handle : /\ sink'[h] = "none" <=> sink[h] = "none"
                          /\ Silenced(h)' => mute'[h]
    BY <1>7, SwaySinks DEF SinkInv
  <2>3. \A q \in Proc : \A h \in Handle : Sounds(q, h) => Sounds(q, h)'
    BY <2>1 DEF Sounds
  <2>4. ASSUME NEW q \in Proc, pc'[q] \in {"crel", "cfree"} PROVE sink'[cur'[q]] = "none"
    <3>1. pc[q] \in {"crel", "cfree"} /\ cur'[q] = cur[q]
      BY <2>1, <2>4
    <3>2. cur[q] \in Handle /\ sink[cur[q]] = "none"
      BY <3>1 DEF SinkInv, TypeOK
    <3> QED
      BY <2>2, <3>1, <3>2
  <2>5. \A h \in Handle : sink'[h] # "none" => stream'[h] /\ \E q \in Proc : Sounds(q, h)'
    BY <2>1, <2>2, <2>3 DEF SinkInv
  <2> QED
    BY <2>2, <2>4, <2>5 DEF SinkInv
<1>8. ASSUME NEW p \in Proc, SetPriority(p) PROVE SinkInv'
  <2> DEFINE np == [priority EXCEPT ![cur[p]] = want[cur[p]]]
  <2>1. pc[p] = "prio" /\ cur[p] \in allocated
    BY <1>8, OwnCur DEF SetPriority, Goto, Opening
  <2>2. np \in [Handle -> 0 .. 2]
    BY DEF TypeOK
  <2>3. Sway(np, FALSE) /\ UNCHANGED <<stream, cur, mine>> /\ pc' = [pc EXCEPT ![p] = "dev"]
    BY <1>8, <2>1 DEF SetPriority, Goto
  <2> HIDE DEF np
  <2>4. \A q \in Proc : pc'[q] = pc[q] \/ (pc[q] # "rel" /\ pc'[q] \notin {"crel", "cfree"})
    BY <2>1, <2>3 DEF TypeOK
  <2> QED
    BY <1>7, <2>2, <2>3, <2>4
<1>9. ASSUME NEW p \in Proc, UnsetPriority(p) PROVE SinkInv'
  <2> DEFINE np == [priority EXCEPT ![cur[p]] = 0]
             two == want[cur[p]] = 2
  <2>1. pc[p] = "unset" /\ cur[p] \in allocated
    BY <1>9, OwnCur DEF UnsetPriority, Goto, Closing
  <2>2. np \in [Handle -> 0 .. 2] /\ two \in BOOLEAN
    BY DEF TypeOK
  <2>3. Sway(np, two) /\ UNCHANGED <<stream, cur, mine>> /\ pc' = [pc EXCEPT ![p] = "cdev"]
    BY <1>9, <2>1 DEF UnsetPriority, Goto
  <2> HIDE DEF np, two
  <2>4. \A q \in Proc : pc'[q] = pc[q] \/ (pc[q] # "rel" /\ pc'[q] \notin {"crel", "cfree"})
    BY <2>1, <2>3 DEF TypeOK
  <2> QED
    BY <1>7, <2>2, <2>3, <2>4
<1>10. ASSUME NEW p \in Proc, ZeroRecord(p) \/ OpenDevice(p) \/ CloseDevice(p)
       PROVE  SinkInv'
  <2>1. CASE Die(p)
    BY <1>5, <2>1
  <2>2. CASE ~Die(p)
    <3>1. /\ pc[p] \in {"zero", "dev", "devin", "cdev"} /\ UNCHANGED <<cur, mine>>
          /\ pc'[p] = IF pc[p] = "zero" THEN "sign"
                      ELSE IF pc[p] = "cdev" THEN "crel" ELSE "rel"
          /\ \A q \in Proc : q # p => pc'[q] = pc[q]
      BY <1>10, <2>2 DEF ZeroRecord, OpenDevice, CloseDevice, Goto, TypeOK
    <3>2. /\ cur[p] \in Handle /\ \A q \in Proc : q # p => cur[p] \notin Held(q)
          /\ pc[p] # "cdev" => cur[p] \notin mine[p]
      <4>1. pc[p] \in Opening \cup Closing
        BY <3>1 DEF Opening, Closing
      <4>2. pc[p] # "cdev" => pc[p] \in Opening
        BY <3>1 DEF Opening
      <4> QED
        BY <4>1, <4>2, OwnCur DEF Owned
    <3>3. /\ \A h \in Handle : h # cur[p] =>
               /\ sink'[h] = sink[h] /\ mute'[h] = mute[h] /\ stream'[h] = stream[h]
               /\ h \in amiss => h \in amiss'
          /\ pc[p] = "zero" => sink'[cur[p]] = sink[cur[p]]
          /\ pc[p] \in {"dev", "devin"} => sink'[cur[p]] # "muted" /\ stream'[cur[p]]
          /\ pc[p] = "cdev" => sink'[cur[p]] = "none"
      <4>1. CASE ZeroRecord(p)
        BY <3>2, <4>1 DEF ZeroRecord, Goto, TypeOK
      <4>2. CASE OpenDevice(p)
        BY <3>2, <4>2 DEF OpenDevice, OpenSink, OpenSource, Goto, TypeOK
      <4>3. CASE CloseDevice(p)
        BY <2>2, <3>2, <4>3 DEF CloseDevice, StreamsEnd, Goto, TypeOK
      <4> QED
        BY <1>10, <4>1, <4>2, <4>3
    <3>4. pc[p] = "zero" => sink[cur[p]] = "none"
      BY <3>2 DEF SinkInv, Sounds, Held, Opening
    <3>5. ASSUME NEW h \in Handle, sink'[h] # "none"
          PROVE  stream'[h] /\ \E q \in Proc : Sounds(q, h)'
      <4>1. CASE h = cur[p]
        BY <3>1, <3>3, <3>4, <3>5, <4>1 DEF Sounds
      <4>2. CASE h # cur[p]
        <5>1. PICK q \in Proc : Sounds(q, h)
          BY <3>3, <3>5, <4>2 DEF SinkInv
        <5> QED
          BY <3>1, <3>3, <3>5, <4>2, <5>1 DEF Sounds, SinkInv
      <4> QED
        BY <4>1, <4>2
    <3>6. \A h \in Handle : Silenced(h)' => mute'[h]
      BY <3>1, <3>3, <3>4 DEF SinkInv, Silenced
    <3>7. ASSUME NEW q \in Proc, pc'[q] \in {"crel", "cfree"}
          PROVE  sink'[cur'[q]] = "none"
      <4>1. CASE q = p
        BY <3>1, <3>3, <3>7, <4>1
      <4>2. CASE q # p
        <5>1. pc[q] \in {"crel", "cfree"} /\ cur[q] \in Held(q) /\ cur[q] \in Handle
          BY <3>1, <3>7, <4>2, OwnCur DEF Closing
        <5> QED
          BY <3>1, <3>2, <3>3, <4>2, <5>1 DEF SinkInv
      <4> QED
        BY <4>1, <4>2
    <3> QED
      BY <3>5, <3>6, <3>7 DEF SinkInv
  <2> QED
    BY <2>1, <2>2
<1>11. ASSUME NEW p \in Proc, FreeOwn(p) PROVE SinkInv'
  <2>1. /\ pc[p] = "cfree" /\ pc' = [pc EXCEPT ![p] = "idle"]
        /\ mine' = [mine EXCEPT ![p] = @ \ {cur[p]}]
        /\ UNCHANGED <<stream, mute, sink, amiss, cur>>
    BY <1>11 DEF FreeOwn, Goto
  <2>2. sink[cur[p]] = "none"
    BY <2>1 DEF SinkInv
  <2>3. ASSUME NEW q \in Proc, NEW h \in Handle, Sounds(q, h), sink[h] # "none"
        PROVE  Sounds(q, h)'
    BY <2>1, <2>2, <2>3 DEF Sounds, TypeOK
  <2> QED
    BY <2>1, <2>2, <2>3 DEF SinkInv, Silenced, TypeOK
<1>12. ASSUME NEW p \in Proc, Write(p) PROVE SinkInv'
  <2>1. /\ UNCHANGED <<stream, sink, amiss, pc, cur, mine>>
        /\ \A h \in Handle : mute[h] => mute'[h]
    BY <1>12 DEF Write, TypeOK
  <2> QED
    BY <2>1 DEF SinkInv, Sounds, Silenced
<1> QED
  BY <1>1, <1>2, <1>3, <1>4, <1>5, <1>6, <1>8, <1>9, <1>10, <1>11, <1>12
  DEF Next, Advance, Crash

LEMMA DeathStep ==
  ASSUME TypeOK, Owned, CleanupApart, DeathInv, Turns
  PROVE  DeathInv'
<1>1. ASSUME \A p \in Proc : Alive(p)', NEW h \in allocated'
      PROVE  \E p \in Proc : h \in Held(p)'
  BY <1>1 DEF Turns, DeathInv
<1>2. ASSUME NEW p \in Proc, Scan(p), Rebalancing(p)', \A q \in Proc : Alive(q)
      PROVE  FALSE
  <2> DEFINE found == { h \in allocated : ~Running(pid[h]) }
  <2>1. pc[p] = "scan" /\ pc'[p] = IF Truncated(found) = {} THEN "alloc" ELSE "reset"
    BY <1>2 DEF Scan, Goto, TypeOK
  <2>2. \A q \in Proc : pc[q] \notin {"zero", "sign"}
    BY <2>1 DEF CleanupApart
  <2>3. \A h \in allocated : \E q \in Proc : h \in Held(q) /\ pid[h] = q
    BY <1>2, <2>2 DEF DeathInv, Owned
  <2>4. found = {}
    BY <1>2, <2>3 DEF Running, Alive
  <2>5. Truncated(found) = {}
    BY <2>4 DEF Truncated
  <2> QED
    BY <1>2, <2>1, <2>5 DEF Rebalancing
<1>3. ASSUME NEW p \in Proc, Rebalancing(p)' PROVE \E q \in Proc : ~Alive(q)'
  BY <1>2, <1>3 DEF Turns, DeathInv
<1> QED
  BY <1>1, <1>3 DEF DeathInv

LEMMA DebtStep ==
  ASSUME TypeOK, Owned, SinkInv, DeathInv, DebtInv, Turns, Policing
  PROVE  DebtInv'
<1> SUFFICES ASSUME ~faded', OneDeath', NEW h \in Handle, Silenced(h)'
             PROVE  \/ \E k \in Handle : priority'[k] > 0
                    \/ \E p \in Proc : Rebalancing(p)'
  BY DEF DebtInv
<1>3. ASSUME NEW p \in Proc, Rebalance(p) PROVE \E k \in Handle : priority'[k] > 0
  BY <1>3, RebalanceSinks DEF SinkInv
<1>1. CASE /\ priority' = priority /\ faded' = faded
           /\ \A k \in Handle : Silenced(k)' => Silenced(k)
  <2>1. OneDeath
    BY DEF OneDeath, Turns, Alive
  <2>2. CASE \E k \in Handle : priority[k] > 0
    BY <1>1, <2>2
  <2>3. ASSUME NEW p \in Proc, Rebalancing(p) PROVE Rebalancing(p)' \/ Rebalance(p)
    <3>1. PICK q \in Proc : ~Alive(q)
      BY <2>3 DEF DeathInv
    <3>2. q # p
      BY <2>3, <3>1 DEF Alive, Rebalancing
    <3>3. ~Alive(q)'
      BY <3>1 DEF Turns
    <3>4. ASSUME Die(p) PROVE FALSE
      <4>1. ~Alive(p)'
        BY <3>4 DEF Die, Alive, TypeOK
      <4> QED
        BY <3>2, <3>3, <4>1 DEF OneDeath, Alive
    <3> QED
      BY <2>3, <3>4 DEF Turns
  <2> QED
    BY <1>1, <1>3, <2>1, <2>2, <2>3 DEF DebtInv
<1>2. ASSUME NEW p \in Proc, ResetPriority(p) PROVE Rebalancing(p)'
  BY <1>2 DEF ResetPriority, Goto, Rebalancing, TypeOK
<1>4. ASSUME NEW np \in [Handle -> 0 .. 2], NEW unsetTwo \in BOOLEAN, Sway(np, unsetTwo)
      PROVE  \E k \in Handle : priority'[k] > 0
  <2>1. sink[h] # "none" => h \in allocated /\ stream[h]
    BY DEF SinkInv, Sounds, Owned, Held, Opening
  <2>2. Silenced(h) => mute[h]
    BY DEF SinkInv
  <2> QED
    BY <1>4, <2>1, <2>2, SwayPays
<1> QED
  BY <1>1, <1>2, <1>3, <1>4 DEF Policing

LEMMA ComeBackStep ==
  TypeOK /\ OwnershipInv /\ ComeBackInv /\ CleanupApart /\ [Next]_vars => ComeBackInv'
<1> SUFFICES ASSUME TypeOK, OwnershipInv, ComeBackInv, CleanupApart, [Next]_vars
             PROVE  ComeBackInv'
  OBVIOUS
<1>1. Effects /\ Turns /\ Policing
  BY StepEffects, StepTurns, StepPolices
<1>2. ~stolen' => ~stolen
  <2>1. ASSUME NEW p \in Proc, FreeDead(p), stolen PROVE stolen'
    BY <2>1 DEF FreeDead
  <2> QED
    BY <1>1, <2>1 DEF Effects
<1>3. ASSUME ~stolen PROVE SinkInv' /\ DeathInv' /\ DebtInv'
  <2>1. Owned /\ SinkInv /\ DeathInv /\ DebtInv
    BY <1>3 DEF OwnershipInv, ComeBackInv
  <2> QED
    BY <1>1, <2>1, SinkStep, DeathStep, DebtStep
<1> QED
  BY <1>2, <1>3 DEF ComeBackInv

\* Where the cleanups are apart, a stream that was muted is heard again once
\* the last priority is gone, whether its handle was closed or cleaned up after
\* a death, also with streams that PulseAudio refuses, and with a list of dead
\* handles that has no bit for some.  Left out are the streams whose last mute
\* call failed, or which got one that was meant for a capture stream.
THEOREM MutedStreamsComeBack == Spec /\ []CleanupApart => []MutedComeBack
<1>1. Init => ComeBackInv
  BY DEF Init, ComeBackInv, SinkInv, DeathInv, DebtInv, Rebalancing, Silenced
<1>2. TypeOK /\ ComeBackInv => MutedComeBack
  <2> SUFFICES ASSUME TypeOK, ComeBackInv, Settled, ~stolen, ~faded,
                      \A h \in Handle : priority[h] = 0, OneDeath,
                      NEW h \in Handle, Playing(h), h \notin amiss
               PROVE  sink[h] = "on"
    BY DEF MutedComeBack, OneDeath
  <2>1. ~\E k \in Handle : priority[k] > 0
    OBVIOUS
  <2>2. ~\E p \in Proc : Rebalancing(p)
    BY DEF Settled, Rebalancing
  <2>3. sink[h] # "muted"
    BY <2>1, <2>2 DEF ComeBackInv, DebtInv, Silenced
  <2>4. sink[h] # "none"
    BY DEF Playing
  <2> QED
    BY <2>3, <2>4 DEF TypeOK
<1>3. TypeOK /\ OwnershipInv /\ ComeBackInv /\ CleanupApart /\ [Next]_vars => ComeBackInv'
  BY ComeBackStep
<1> QED
  BY <1>1, <1>2, <1>3, TypeInit, TypeStep, OwnershipInit, OwnershipStep, PTL DEF Spec

-----------------------------------------------------------------------------
(* The table the clients see *)

\* The steps that the clients see something of, and all the others.
TableSteps ==
  \/ \E p \in Proc : Alloc(p) \/ FailOpen(p) \/ FreeOwn(p) \/ FreeDead(p)
  \/ \E p \in Proc : pc[p] # "dead" /\ Die(p)
  \/ /\ allocated' = allocated
     /\ \A q \in Proc : Held(q)' = Held(q)
     /\ \A q \in Proc : pc'[q] = "dead" <=> pc[q] = "dead"

LEMMA TableStepKinds ==
  ASSUME TypeOK, OwnershipInv, ~stolen, [Next]_vars
  PROVE  TableSteps
<1>1. Owned
  BY DEF OwnershipInv
<1> USE DEF local, record, policy, TypeOK, Goto, Held, Opening, Closing, TableSteps
<1>2. CASE UNCHANGED vars
  BY <1>2 DEF vars
<1>3. ASSUME NEW p \in Proc, StartOpen(p) PROVE TableSteps
  BY <1>3 DEF StartOpen
<1>4. ASSUME NEW p \in Proc, StartClose(p) PROVE TableSteps
  <2>1. mine[p] \subseteq allocated
    BY <1>1 DEF Owned
  <2> QED
    BY <1>4, <2>1 DEF StartClose
<1>5. ASSUME NEW p \in Proc, Write(p) PROVE TableSteps
  BY <1>5 DEF Write
<1>6. ASSUME NEW p \in Proc, Die(p) PROVE TableSteps
  <2>1. CASE pc[p] = "dead"
    <3>1. mine[p] = {}
      BY <2>1 DEF OwnershipInv
    <3>2. pc' = pc /\ mine' = mine /\ cur' = cur /\ allocated' = allocated
      BY <1>6, <2>1, <3>1 DEF Die
    <3> QED
      BY <3>2
  <2> QED
    BY <1>6, <2>1
<1>7. ASSUME NEW p \in Proc, Crash(p) PROVE TableSteps
  BY <1>6, <1>7 DEF Crash
<1>8. ASSUME NEW p \in Proc, Scan(p) PROVE TableSteps
  BY <1>8 DEF Scan
<1>9. ASSUME NEW p \in Proc, ResetPriority(p) PROVE TableSteps
  BY <1>9 DEF ResetPriority
<1>10. ASSUME NEW p \in Proc, Rebalance(p) PROVE TableSteps
  BY <1>10 DEF Rebalance
<1>11. ASSUME NEW p \in Proc, AllocFull(p) PROVE TableSteps
  BY <1>11 DEF AllocFull
<1>12. ASSUME NEW p \in Proc, ZeroRecord(p) PROVE TableSteps
  BY <1>12 DEF ZeroRecord
<1>13. ASSUME NEW p \in Proc, SignRecord(p) PROVE TableSteps
  BY <1>13 DEF SignRecord
<1>14. ASSUME NEW p \in Proc, GetPtr(p) PROVE TableSteps
  BY <1>14 DEF GetPtr
<1>15. ASSUME NEW p \in Proc, SetPriority(p) PROVE TableSteps
  BY <1>15, SetPriorityGoes
<1>16. ASSUME NEW p \in Proc, OpenDevice(p) PROVE TableSteps
  BY <1>16 DEF OpenDevice
<1>17. ASSUME NEW p \in Proc, DeviceRefused(p) PROVE TableSteps
  BY <1>17 DEF DeviceRefused
<1>18. ASSUME NEW p \in Proc, ReleasePtr(p) PROVE TableSteps
  BY <1>18 DEF ReleasePtr
<1>19. ASSUME NEW p \in Proc, UnsetPriority(p) PROVE TableSteps
  BY <1>19 DEF UnsetPriority
<1>20. ASSUME NEW p \in Proc, CloseDevice(p) PROVE TableSteps
  <2>1. CASE Die(p)
    BY <1>6, <2>1
  <2> QED
    BY <1>20, <2>1 DEF CloseDevice
<1>21. ASSUME NEW p \in Proc, CheckRelease(p) PROVE TableSteps
  <2>1. cur[p] \in allocated
    BY <1>1, <1>21 DEF Owned, CheckRelease
  <2> QED
    BY <1>21, <2>1 DEF CheckRelease
<1> HIDE DEF local, record, policy, TypeOK, Goto, Held, Opening, Closing
<1> QED
  BY <1>2, <1>3, <1>4, <1>5, <1>7, <1>8, <1>9, <1>10, <1>11, <1>12, <1>13,
     <1>14, <1>15, <1>16, <1>17, <1>18, <1>19, <1>20, <1>21 DEF Next, Advance

LEMMA TableStep ==
  ASSUME TypeOK, OwnershipInv, OnlyTheDeadAreCleaned, OnlyTheDeadAreCleaned',
         [Next]_vars
  PROVE  [Table!TableNext]_(Table!tableVars)
<1> DEFINE has == [p \in Proc |-> Held(p)]
           leaked == allocated \ UNION { Held(p) : p \in Proc }
           gone == { p \in Proc : pc[p] = "dead" }
<1>1. ~stolen /\ ~stolen' /\ Owned
  BY DEF OnlyTheDeadAreCleaned, OwnershipInv
<1>2. \A q \in Proc : has[q] = Held(q) /\ has'[q] = Held(q)'
  OBVIOUS
<1>3. \A p \in Proc : \A S :
        /\ Held(p)' = S
        /\ \A q \in Proc \ {p} : Held(q)' = Held(q)
        => has' = [has EXCEPT ![p] = S]
  OBVIOUS
<1>4. \A h : h \in leaked <=> h \in allocated /\ \A q \in Proc : h \notin Held(q)
  OBVIOUS
<1>5. \A h : h \in leaked' <=> h \in allocated' /\ \A q \in Proc : h \notin Held(q)'
  OBVIOUS
<1>6. ASSUME NEW p \in Proc, Alloc(p) PROVE Table!Take(p)
  <2> DEFINE h == Min(Handle \ allocated)
  <2>1. h \in Handle /\ h \notin allocated
    <3>1. Handle \ allocated \in SUBSET Handle /\ Handle \ allocated # {}
      BY <1>6 DEF Alloc
    <3> QED
      BY <3>1, MinHandle, Zenon
  <2>2. /\ allocated' = allocated \cup {h}
        /\ cur' = [cur EXCEPT ![p] = h]
        /\ pc' = [pc EXCEPT ![p] = "zero"]
        /\ pc[p] = "alloc"
        /\ mine' = mine
    BY <1>6 DEF Alloc, Goto
  <2> HIDE DEF h
  <2>3. Held(p)' = Held(p) \cup {h}
    BY <2>2 DEF Held, TypeOK, Opening
  <2>4. \A q \in Proc \ {p} : Held(q)' = Held(q)
    BY <2>2 DEF Held, TypeOK
  <2>5. has' = [has EXCEPT ![p] = Held(p) \cup {h}]
    BY <1>3, <2>3, <2>4
  <2>6. gone' = gone /\ p \notin gone
    BY <2>2 DEF TypeOK
  <2>7. \A x : x \in leaked' <=> x \in leaked
    BY <1>1, <1>4, <1>5, <2>1, <2>2, <2>3, <2>4 DEF Owned
  <2>8. h \notin leaked /\ \A q \in Proc : h \notin has[q]
    BY <1>1, <1>4, <2>1 DEF Owned
  <2>9. leaked' = leaked
    BY <2>7
  <2>10. h \in Table!Free
    BY <2>1, <2>8 DEF Table!Free
  <2>11. has[p] = Held(p)
    OBVIOUS
  <2> HIDE DEF has, leaked, gone
  <2>12. has' = [has EXCEPT ![p] = @ \cup {h}]
    BY <2>5, <2>11
  <2> QED
    BY <2>6, <2>9, <2>10, <2>12 DEF Table!Take, has, leaked, gone
<1>7. ASSUME NEW p \in Proc, NEW h \in Held(p), pc[p] # "dead",
             Held(p)' = Held(p) \ {h},
             \A q \in Proc \ {p} : Held(q)' = Held(q),
             allocated' = allocated \ {h},
             \A q \in Proc : pc'[q] = "dead" <=> pc[q] = "dead"
      PROVE  Table!Give(p)
  <2>1. has' = [has EXCEPT ![p] = Held(p) \ {h}] /\ has[p] = Held(p)
    BY <1>3, <1>7
  <2>2. gone' = gone /\ p \notin gone
    BY <1>7
  <2>3. \A x : x \in leaked' <=> x \in leaked
    BY <1>1, <1>4, <1>5, <1>7 DEF Owned
  <2>4. leaked' = leaked
    BY <2>3
  <2> HIDE DEF has, leaked, gone
  <2>5. h \in has[p] /\ has' = [has EXCEPT ![p] = @ \ {h}]
    BY <1>7, <2>1
  <2> QED
    BY <2>2, <2>4, <2>5 DEF Table!Give, has, leaked, gone
<1>8. ASSUME NEW p \in Proc, FailOpen(p) PROVE Table!Give(p)
  <2>1. /\ pc[p] = "fail" /\ pc' = [pc EXCEPT ![p] = "idle"]
        /\ allocated' = allocated \ {cur[p]} /\ mine' = mine /\ cur' = cur
    BY <1>8 DEF FailOpen, Goto, local
  <2>2. cur[p] \notin mine[p]
    BY <1>1, <2>1 DEF Owned, Opening
  <2>3. cur[p] \in Held(p) /\ Held(p)' = Held(p) \ {cur[p]}
    BY <2>1, <2>2 DEF Held, Opening, TypeOK
  <2>4. \A q \in Proc \ {p} : Held(q)' = Held(q)
    BY <2>1 DEF Held, TypeOK
  <2>5. \A q \in Proc : pc'[q] = "dead" <=> pc[q] = "dead"
    BY <2>1 DEF TypeOK
  <2> QED
    BY <1>7, <2>1, <2>3, <2>4, <2>5
<1>9. ASSUME NEW p \in Proc, FreeOwn(p) PROVE Table!Give(p)
  <2>1. /\ pc[p] = "cfree" /\ pc' = [pc EXCEPT ![p] = "idle"] /\ cur' = cur
        /\ allocated' = allocated \ {cur[p]}
        /\ mine' = [mine EXCEPT ![p] = @ \ {cur[p]}]
    BY <1>9 DEF FreeOwn, Goto
  <2>2. cur[p] \in Held(p) /\ Held(p)' = Held(p) \ {cur[p]}
    BY <1>1, <2>1 DEF Owned, Held, Opening, Closing, TypeOK
  <2>3. \A q \in Proc \ {p} : Held(q)' = Held(q)
    BY <2>1 DEF Held, TypeOK
  <2>4. \A q \in Proc : pc'[q] = "dead" <=> pc[q] = "dead"
    BY <2>1 DEF TypeOK
  <2> QED
    BY <1>7, <2>1, <2>2, <2>3, <2>4
<1>10. ASSUME NEW p \in Proc, pc[p] # "dead", Die(p) PROVE Table!Leave(p)
  <2>1. /\ pc' = [pc EXCEPT ![p] = "dead"] /\ cur' = cur
        /\ mine' = [mine EXCEPT ![p] = {}] /\ allocated' = allocated
    BY <1>10 DEF Die
  <2>2. Held(p)' = {}
    BY <2>1 DEF Held, TypeOK, Opening
  <2>3. \A q \in Proc \ {p} : Held(q)' = Held(q)
    BY <2>1 DEF Held, TypeOK
  <2>4. has' = [has EXCEPT ![p] = {}] /\ has[p] = Held(p)
    BY <1>3, <2>2, <2>3
  <2>5. gone' = gone \cup {p} /\ p \notin gone
    BY <1>10, <2>1 DEF TypeOK
  <2>6. \A x : x \in leaked' <=> x \in leaked \/ x \in Held(p)
    BY <1>1, <1>4, <1>5, <2>1, <2>2, <2>3 DEF Owned
  <2>7. leaked' = leaked \cup has[p]
    BY <2>4, <2>6
  <2> HIDE DEF has, leaked, gone
  <2> QED
    BY <2>4, <2>5, <2>7 DEF Table!Leave, has, leaked, gone
<1>11. CASE /\ \A q \in Proc : Held(q)' = Held(q)
            /\ allocated' = allocated
            /\ \A q \in Proc : pc'[q] = "dead" <=> pc[q] = "dead"
  <2>1. has' = has /\ gone' = gone
    BY <1>11
  <2>2. \A x : x \in leaked' <=> x \in leaked
    BY <1>4, <1>5, <1>11
  <2>3. leaked' = leaked
    BY <2>2
  <2> QED
    BY <2>1, <2>3 DEF Table!tableVars
<1>12. ASSUME NEW p \in Proc, FreeDead(p)
       PROVE  [Table!TableNext]_(Table!tableVars)
  <2> DEFINE h == Min(dead[p])
  <2>1. /\ allocated' = allocated \ {h}
        /\ pc[p] = "free" /\ pc' = [pc EXCEPT ![p] =
                                       IF dead[p] = {h} THEN "rebalance" ELSE "reset"]
        /\ UNCHANGED <<cur, mine>>
        /\ h \in allocated => \A q \in Proc : Alive(q) => h \notin Held(q)
    BY <1>1, <1>12 DEF FreeDead, Goto
  <2> HIDE DEF h
  <2>2. \A q \in Proc : Held(q)' = Held(q)
    BY <2>1 DEF Held, TypeOK, Opening
  <2>3. \A q \in Proc : pc'[q] = "dead" <=> pc[q] = "dead"
    BY <2>1 DEF TypeOK
  <2>4. CASE h \notin allocated
    BY <1>11, <2>1, <2>2, <2>3, <2>4
  <2>5. CASE h \in allocated
    <3>1. \A q \in Proc : ~Alive(q) => Held(q) = {}
      BY DEF Alive, Held, OwnershipInv, Opening
    <3>2. h \in leaked
      BY <1>4, <2>1, <2>5, <3>1
    <3>3. \A x : x \in leaked' <=> x \in leaked /\ x # h
      BY <1>4, <1>5, <2>1, <2>2
    <3>4. leaked' = leaked \ {h}
      BY <3>3
    <3>5. has' = has /\ gone' = gone
      BY <2>2, <2>3
    <3> HIDE DEF has, leaked, gone
    <3>6. Table!CleanUp
      BY <3>2, <3>4, <3>5 DEF Table!CleanUp, has, leaked, gone
    <3> QED
      BY <3>6 DEF Table!TableNext
  <2> QED
    BY <2>4, <2>5
<1> HIDE DEF has, leaked, gone
<1> QED
  BY <1>1, <1>6, <1>8, <1>9, <1>10, <1>11, <1>12, TableStepKinds
  DEF TableSteps, Table!TableNext

\* As long as no cleanup frees a live process's handle, the bits, records and
\* half-done calls are the table the clients are promised: a free handle is given
\* to one process, comes back when that closes it, or is cleaned up once after its
\* death, wherever in open or close it dies and however many do so at once.
THEOREM TableIsKept == Spec /\ []OnlyTheDeadAreCleaned => ImplementsTable
<1>1. Init => Table!TableInit
  <2> SUFFICES ASSUME Init PROVE Table!TableInit
    OBVIOUS
  <2>1. \A p \in Proc : pc[p] = "idle" /\ mine[p] = {}
    BY DEF Init
  <2>2. \A p \in Proc : Held(p) = {}
    BY <2>1 DEF Held, Opening
  <2> QED
    BY <2>1, <2>2 DEF Init, Table!TableInit
<1>2. TypeOK /\ OwnershipInv /\ OnlyTheDeadAreCleaned /\ OnlyTheDeadAreCleaned'
        /\ [Next]_vars => [Table!TableNext]_(Table!tableVars)
  BY TableStep
<1> QED
  BY <1>1, <1>2, TypeInit, TypeStep, OwnershipInit, OwnershipStep, PTL
  DEF Spec, ImplementsTable, Table!TableSpec

-----------------------------------------------------------------------------
(* The clients the code serves *)

\* All of it for the clients the code serves: one process opens at a time, and
\* fewer than 32 of the 64 handles are in use.  Then no cleanup touches a live
\* process's handle, so that the clients have the table they are promised, a solo
\* stream is heard throughout, and what it muted comes back, but for the streams
\* that a failed or misdirected mute call left behind.
COROLLARY SerialClientsAreServed ==
  ASSUME OneOpener
  PROVE  Spec /\ []FewStreams
           => /\ ImplementsTable
              /\ [](OnlyTheDeadAreCleaned /\ SoloIsHeard /\ MutedComeBack)
BY OneOpenerIsApart, FewStreamsSpareTheSignBit, SerialCleanupIsSafe, TableIsKept,
   SoloStreamsAreHeard, MutedStreamsComeBack, PTL

=============================================================================
